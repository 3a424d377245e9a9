\* One torrent with an attempt and a replacement, calls and writes that fail, a
\* stop() that meets start requests and saves, a crash.
SPECIFICATION Spec
CONSTANTS
    Torrents = {t1}
    Replaceable = {t1}
    MaxRetryAttempts = 1
    MaxRetries = 1
    MaxReplacements = 1
    Loop = loop
    Stops = {s1}
    Faults = TRUE
    MaxCrashes = 1
INVARIANTS
    TypeOK
    RetriesCapped
    ReplacedOnce
    CleanMeansSaved
    StopSaves
PROPERTIES
    RetrySaved
    StopEnds
    FailedRetried
