\* A flush in the order of om_market.h
CONSTANTS
    SlabCapacity = 1
    MinGrowth = 1
    MaxInt = 8
    Desks <- FlushDesks
SPECIFICATION Spec
CHECK_DEADLOCK FALSE
INVARIANT DirtyListed
