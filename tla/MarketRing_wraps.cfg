\* Two slots: the enqueue that wraps around
CONSTANTS
    Consumers = 1
    Capacities = {2}
    NotifyBatch = 1
    MaxBatch = 1
    MinBatch = 1
    MaxRecords = 3
SPECIFICATION LiveSpec
PROPERTIES EnqueueReturns
