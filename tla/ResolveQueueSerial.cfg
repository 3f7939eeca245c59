SPECIFICATION FairSpec
CONSTANTS
    Jobs = {j1, j2, j3}
    AdminJobs = {j1}
    Requests = {0, 1}
    MaxConcurrency = 2
    Capacity = 3
    MaxTurns = 2
PROPERTIES WorkersWithinLimit ActiveJobsEnd ShutdownReturns
CHECK_DEADLOCK FALSE
