SPECIFICATION Spec
CONSTANTS
    HeaderSize = 2
    WarnPayload = 1
    Nets <- PassingNets
INVARIANTS
    ConnHeldOnce
    StreamIntact
    GapsReported
PROPERTIES
    DrainBeforeDisconnect
    BroadcastDelivered
    ReconnectsOrGivesUp
CHECK_DEADLOCK FALSE
