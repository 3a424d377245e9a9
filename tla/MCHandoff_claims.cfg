SPECIFICATION FairSpec
CONSTANTS
    Torrents = {t1}
    Tasks = {k1, k2}
    Scans = {}
    Users = {}
    UserOps = {"unskip", "skipTag", "retryClear"}
    LoopRefresh = loopRefresh
    Recoveries = {}
    ChainTask = chain
    NoTorrent = none
    MaxPerScan = 1
    Delivery = "webseed"
    Fallback = TRUE
    MaxRetryAttempts = 1
    PausedState = "pausedDL"
    Faults = TRUE
    MaxRequests = 1
    MaxRestarts = 1
INVARIANTS
    TypeOK
    HandleExclusive
    ClaimHeld
    RefreshExclusive
    SingleDispatcher
    NoLeakedClaim
    NoSilentPause
PROPERTIES
    PromiseKept
    ClaimReleased
