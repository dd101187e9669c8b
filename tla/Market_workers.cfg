\* Public and private workers, their ladders, deltas and work list
CONSTANTS
    SlabCapacity = 1
    MinGrowth = 1
    MaxInt = 8
    Desks <- PassingDesks
SPECIFICATION Spec
CHECK_DEADLOCK FALSE
INVARIANTS LadderIsOrders SlotsOwned OrdersAreLive ViewExact SubscriberExact
