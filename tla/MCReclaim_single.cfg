SPECIFICATION Spec
CONSTANTS
    Paths = {a, b, c}
    Inodes = {i1, i2}
    Protected = {c}
    Entries = {e1, e2}
    Workers = {w1}
    Calls = {"scan", "apply", "restore", "purge"}
    Changes = {"rewrite", "replace", "remove"}
    IndexFails = FALSE
    None = None
    MaxCalls = 4
    MaxChanges = 1
    MaxRestarts = 0
SYMMETRY Symmetry
INVARIANTS
    TypeOK
PROPERTIES
    KeepsPromise
    ProtectedUntouched
CHECK_DEADLOCK FALSE
