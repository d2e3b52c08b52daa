SPECIFICATION Spec
CONSTANTS
    Sectors = 3
    PerSector = 2
    MaxPosted = 14
    MaxRestarts = 2
    RestartLimit = 6
    MaxFailures = 0
    Tears = TRUE
    InterruptedAt = {}
INVARIANTS NothingLostBeforeFull
CHECK_DEADLOCK FALSE
