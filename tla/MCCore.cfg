SPECIFICATION MCSpec
CONSTANTS
    Jobs = {j1, j2, j3}
    AdminJobs = {j1}
    Requests = {1, 2, 3}
    MaxConcurrency = 2
    Capacity = 3
    MaxTurns = 2
    Files = {db, wal, auth}
    Away = {auth}
    Replaced = {db, auth}
    MaxRestores = 2
    MaxErrors = 1
    MaxCrashes = 1
    MaxLosses = 1
INVARIANTS OnePlacePerJob ShutdownLeavesNothing AllOrNothing NothingLeftBehind
PROPERTIES PositionNeverRises JournalIsResolved
CHECK_DEADLOCK FALSE
