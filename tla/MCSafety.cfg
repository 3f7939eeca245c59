SPECIFICATION MCSpec
CONSTANTS
    Ids = {a1, a2}
    Users = {u1}
    Admins = {m1}
    Charges = {c1, c2}
    NoCharge = NoCharge
    Configured = u1
    Limit = 2
    MaxMonth = 2
    MaxLogins = 1
    MaxFaults = 1
    MaxKills = 1
    Ips = {i1, i2}
    Identities = {d1, d2}
    Attempts = {t1, t2, t3}
    IpLimit = 3
    IpWindow = 1
    IdLimit = 2
    IdWindow = 2
    MaxWindows = 3
    Requesters = {q1, q2, q3}
    MaxPasswords = 3
    MaxKept = 1
    Browsers = {b1, b2}
    Callbacks = {k1, k2}
    Profiles = {p1}
    MaxFlows = 2
    MaxStates = 1
    Codes = {v1, v2}
    Redeemers = {w1, w2}
    Terms = {small, large, nothing}
    NoGrant = nothing
    Editors = {e1, e2}
    Entries = {n1, n2, n3, n4}
    Root = Root
    MaxDepth = 3
    Requests = {r1, r2}
    CacheLimit = 2
    MaxTokens = 2
    MaxCalls = 2
    Downloads = {x1, x2}
    ProxyTokens = {l1, l2}
    NumChunks = 4
    Concurrency = 2
    WindowChunks = 3
    MaxActive = 2
    MaxPerToken = 1
    MaxMultipart = 2
    MaxBuffered = 3
    Jobs = {j1}
    Pikpaks = {p1, p2}
    NoPikpak = NoPikpak
    BatchLimit = 1
    MaxMishaps = 2
INVARIANTS PoolIsDurable TrafficIsBooked DeletedStaysDeleted PremiumIsCurrent GuessesAreBounded OnlyMissedOutliveChange FlowEndsOnce GrantsMatchVouchers CatalogIsATree AnswerIsAuthorized ClientGetsTheFile NothingForgotten FilesOutliveFirstLinks
PROPERTIES ReadyIsKept OldPasswordsStayDead
CHECK_DEADLOCK FALSE
