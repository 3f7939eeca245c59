SPECIFICATION FilesSpec
CONSTANTS
    Jobs = {j1}
    Pikpaks = {p1}
    NoPikpak = NoPikpak
    BatchLimit = 1
    MaxMishaps = 0
INVARIANT RenewedLinksHaveFiles
CHECK_DEADLOCK FALSE
