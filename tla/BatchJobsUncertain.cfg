SPECIFICATION Spec
CONSTANTS
    Links = {c1, c2}
    MaxFaults = 0
    MaxUncertain = 1
    MaxLapses = 0
    MaxCrashes = 0
INVARIANTS VerdictCountsEveryLink
CHECK_DEADLOCK FALSE
