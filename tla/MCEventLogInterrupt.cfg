SPECIFICATION Spec
CONSTANTS
    Sectors = 3
    PerSector = 2
    MaxPosted = 14
    MaxRestarts = 0
    RestartLimit = 6
    MaxFailures = 0
    Tears = FALSE
    InterruptedAt = {"idle", "erase", "program", "commit"}
INVARIANTS NothingLostBeforeFull
CHECK_DEADLOCK FALSE
