SPECIFICATION Spec
CONSTANTS
    Jobs = {j1, j2, j3}
    AdminJobs = {}
    Requests = {2}
    MaxConcurrency = 2
    Capacity = 3
    MaxTurns = 2
PROPERTIES WorkersWithinLimit
CHECK_DEADLOCK FALSE
