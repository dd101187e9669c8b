\* Matching, exclusion, callbacks and suspended orders
CONSTANTS
    TotalSlots = 4
    MaxProducts = 1
    MaxOrg = 2
    Prices = {1, 2}
    Clients <- CoreClients
SPECIFICATION Spec
CHECK_DEADLOCK FALSE
INVARIANTS LadderIsPriority VolumeConserved MatchExhaustive SlotsAccounted
PROPERTIES PriceTimePriority
