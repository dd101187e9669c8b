SPECIFICATION LiveSpec
CONSTANTS
    Consumers = 2
    Capacity = 2
    MaxSeq = 4
    MaxEpoch = 2
    Profiles <- Streams
INVARIANTS QueueKeepsUnread IntactOrRefused NoSilentGap NothingSkipped
PROPERTIES LappedIsTrue PublishReturns
CHECK_DEADLOCK FALSE
