SPECIFICATION Spec
CONSTANTS
    a = a
    b = b
    c = c
    Digests = {d1, d2}
    Paths = {a, b, c}
    Results <- Mixed
    None = None
    MaxScans = 0
    MaxCommits = 1
INVARIANT ConfirmedOnly
CHECK_DEADLOCK FALSE
