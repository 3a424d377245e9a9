SPECIFICATION Spec
CONSTANTS
    Paths = {a, b}
    Inodes = {i1, i2}
    Protected = {}
    Entries = {e1, e2}
    Workers = {w1, w2}
    Calls = {"scan", "apply", "restore", "purge"}
    Changes = {"remove"}
    IndexFails = TRUE
    None = None
    MaxCalls = 4
    MaxChanges = 1
    MaxRestarts = 1
SYMMETRY Symmetry
INVARIANTS
    Undoable
    Honest
PROPERTIES
    NothingDestroyed
CHECK_DEADLOCK FALSE
