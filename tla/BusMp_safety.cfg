\* Slow producers, skips, a sleeping consumer and its restarts
CONSTANTS
    Producers = {p1, p2}
    Capacity = 2
    MaxPos = 3
    SkipTimeoutElapses = TRUE
    TimedWait = TRUE
    TooLong = {1}
    Calls = {"copy", "batch"}
SPECIFICATION Spec
SYMMETRY ProducerSymmetry
INVARIANTS CommitVerdict RingWindow NoLostWakeup IntactUnlessSkipped
PROPERTIES FullIsHonest ImplementsQueue
