SPECIFICATION FairSpec
CONSTANTS
    Capacity = 3
    Weights = {1, 2, 4}
    MaxSent = 8
INVARIANTS NoEdgeOverrun NoSleepPastRoom
PROPERTIES ImplementsAccount WaitsEnd
CHECK_DEADLOCK FALSE
