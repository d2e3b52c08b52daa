SPECIFICATION Spec
CONSTANTS
    Capacity = 4
    PerSector = 2
    PerPacket = 2
    RingSize = 4
    PumpBudget = 2
    MainBudget = 1
    Rs485On = TRUE
    InitPosts = {5}
    Starts = {1}
    MaxRequests = 1
    MaxPosts = 0
    MaxFaults = 0
INVARIANTS
    OnlyDumpNumbered
CHECK_DEADLOCK FALSE
