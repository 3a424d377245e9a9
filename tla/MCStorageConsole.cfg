SPECIFICATION Spec
CONSTANTS
    a = a
    b = b
    c = c
    Digests = {d1}
    Paths = {a, b, c}
    Results <- Plain
    None = None
    MaxScans = 1
    MaxCommits = 2
INVARIANTS
    TypeOK
    KeeperStays
    OneRequest
PROPERTY CommitEnds
CHECK_DEADLOCK FALSE
