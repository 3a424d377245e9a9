SPECIFICATION Spec
CONSTANTS
    Torrents = {t1}
    Tasks = {k1, k2}
    Scans = {s1}
    Users = {}
    UserOps = {"unskip", "skipTag", "retryClear"}
    LoopRefresh = loopRefresh
    Recoveries = {}
    ChainTask = chain
    NoTorrent = none
    MaxPerScan = 1
    Delivery = "webseed"
    Fallback = TRUE
    MaxRetryAttempts = 0
    PausedState = "pausedDL"
    Faults = FALSE
    MaxRequests = 1
    MaxRestarts = 0
SYMMETRY Symmetry
INVARIANTS
    HandleExclusive
