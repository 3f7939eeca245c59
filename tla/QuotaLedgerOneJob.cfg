SPECIFICATION FairSpec
CONSTANTS
    Jobs = {j1}
    ProxyJobs = {j1}
    Subs = {1, 2}
    Sizes = {0, 2}
    Quotas = {1}
    MaxBytes = 2
    Horizon = 1
    MaxAttempts = 2
    MaxGeneration = 1
    MaxFaults = 1
    MaxCrashes = 1
INVARIANTS
    LedgerSound
    StartNeverBlocked
PROPERTIES
    TerminalIsFinal
    JobsEnd
    ReservationsResolved
CHECK_DEADLOCK FALSE
