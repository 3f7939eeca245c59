SPECIFICATION Spec
CONSTANTS
    Jobs = {j1, j2}
    ProxyJobs = {j1}
    Subs = {1}
    Sizes = {1, 2}
    Quotas = {2}
    MaxBytes = 4
    Horizon = 1
    MaxAttempts = 2
    MaxGeneration = 1
    MaxFaults = 1
    MaxCrashes = 1
PROPERTIES
    QuotaConserved
    ChargedExactlyOnce
    RevisionNamesTheView
CHECK_DEADLOCK FALSE
