SPECIFICATION Spec
CONSTANTS
    Capacity = 4
    PerSector = 2
    PerPacket = 2
    RingSize = 4
    PumpBudget = 2
    MainBudget = 1
    Rs485On = TRUE
    InitPosts = {1, 5}
    Starts = {1, 5}
    MaxRequests = 2
    MaxPosts = 1
    MaxFaults = 1
INVARIANTS
    TypeOK
    NumberedWithoutGap
    RecordsInOrder
    PromisedIsDelivered
    NeverRunsBack

CHECK_DEADLOCK FALSE
