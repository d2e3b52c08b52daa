SPECIFICATION FairSpec
CONSTANTS
    Capacity = 4
    PerSector = 2
    PerPacket = 2
    RingSize = 4
    PumpBudget = 2
    MainBudget = 1
    Rs485On = FALSE
    InitPosts = {4}
    Starts = {1, 5}
    MaxRequests = 2
    MaxPosts = 0
    MaxFaults = 0
PROPERTIES
    DumpEnds
CHECK_DEADLOCK FALSE
