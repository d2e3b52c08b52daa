SPECIFICATION Spec
CONSTANTS
    Sectors = 3
    PerSector = 2
    MaxPosted = 14
    MaxRestarts = 2
    RestartLimit = 6
    MaxFailures = 2
    Tears = FALSE
    InterruptedAt = {"idle"}
INVARIANTS TypeOK NothingLostBeforeFull RecentRecordsKept
PROPERTIES KeepsRecentLog
CHECK_DEADLOCK FALSE
