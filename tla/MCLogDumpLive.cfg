SPECIFICATION FairSpec
CONSTANTS
    Capacity = 4
    PerSector = 2
    PerPacket = 2
    RingSize = 4
    PumpBudget = 2
    MainBudget = 1
    Rs485On = TRUE
    InitPosts = {3}
    Starts = {1, 5}
    MaxRequests = 2
    MaxPosts = 0
    MaxFaults = 1
PROPERTIES
    DumpEnds
CHECK_DEADLOCK FALSE
