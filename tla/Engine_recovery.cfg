\* Replay after every step, organisation queues, termination
CONSTANTS
    TotalSlots = 3
    MaxProducts = 2
    MaxOrg = 2
    Prices = {1}
    Clients <- RecoveryClients
SPECIFICATION LiveSpec
CHECK_DEADLOCK FALSE
INVARIANTS RecoveryFaithful OrgQueueExact
PROPERTIES CancelOrgComplete CallReturns
