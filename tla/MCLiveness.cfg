SPECIFICATION MCSpec
CONSTANTS
    Jobs = {j1}
    Pikpaks = {p1, p2}
    NoPikpak = NoPikpak
    BatchLimit = 1
    MaxMishaps = 2
    Requests = {r1}
    CacheLimit = 1
    MaxTokens = 2
    MaxCalls = 2
    Links = {c1, c2, c3}
    MaxFaults = 1
    MaxUncertain = 1
    MaxLapses = 1
    MaxCrashes = 1
INVARIANTS NoBatchIsOrphaned
PROPERTIES ImplementsContract BatchesEnd RecordedIsDeleted DiscoveryEnds
CHECK_DEADLOCK FALSE
