SPECIFICATION FairSpec
CONSTANTS
    Torrents = {t1}
    Tasks = {k1, k2}
    Scans = {}
    Users = {u1}
    UserOps = {"skipTag"}
    LoopRefresh = loopRefresh
    Recoveries = {}
    ChainTask = chain
    NoTorrent = none
    MaxPerScan = 1
    Delivery = "webseed"
    Fallback = TRUE
    MaxRetryAttempts = 1
    PausedState = "pausedDL"
    Faults = FALSE
    MaxRequests = 1
    MaxRestarts = 0
PROPERTIES
    HandoffEnds
