SPECIFICATION Spec
CONSTANTS
    Torrents = {t1}
    Tasks = {k1}
    Scans = {s1}
    Users = {u1}
    UserOps = {"unskip", "retryClear"}
    LoopRefresh = loopRefresh
    Recoveries = {}
    ChainTask = chain
    NoTorrent = none
    MaxPerScan = 1
    Delivery = "download"
    Fallback = FALSE
    MaxRetryAttempts = 0
    PausedState = "pausedDL"
    Faults = TRUE
    MaxRequests = 1
    MaxRestarts = 0
SYMMETRY Symmetry
INVARIANTS
    NoLeakedClaim
