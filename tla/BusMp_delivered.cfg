\* The consumer sleeps without a timeout
CONSTANTS
    Producers = {p1, p2}
    Capacity = 2
    MaxPos = 2
    SkipTimeoutElapses = TRUE
    TimedWait = FALSE
    TooLong = {}
    Calls = {"poll"}
SPECIFICATION FairSpec
PROPERTIES EveryRecordDelivered
