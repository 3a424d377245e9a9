\* One torrent with two attempts, nothing fails but its hand-off.
SPECIFICATION Spec
CONSTANTS
    Torrents = {t1}
    Replaceable = {t1}
    MaxRetryAttempts = 2
    MaxRetries = 1
    MaxReplacements = 1
    Loop = loop
    Stops = {s1}
    Faults = FALSE
    MaxCrashes = 0
PROPERTIES
    ReplacedAfterLastTry
