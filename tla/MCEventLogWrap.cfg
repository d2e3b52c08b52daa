SPECIFICATION Spec
CONSTANTS
    Sectors = 3
    PerSector = 2
    MaxPosted = 14
    MaxRestarts = 2
    RestartLimit = 14
    MaxFailures = 0
    Tears = FALSE
    InterruptedAt = {}
INVARIANTS RecentRecordsKept
CHECK_DEADLOCK FALSE
