\* One slot reused for every record, and several slots read in batches
CONSTANTS
    Consumers = 2
    Capacities = {1, 4}
    NotifyBatch = 1
    MaxBatch = 2
    MinBatch = 1
    MaxRecords = 3
SPECIFICATION LiveSpec
INVARIANTS MinTailConservative NoLostWakeup
PROPERTIES ImplementsLog EveryRecordRead
