SPECIFICATION Spec
CONSTANTS
    Callers = {handler, request}
    NoCaller = none
    Attempts = 4
    Faults = {"lost", "applied"}
    Changes = {"deliver", "remove", "add"}
    MaxHandoffs = 3
    MaxChanges = 3
    MaxRestarts = 1
INVARIANTS
    TypeOK
PROPERTIES
    NeverUndone
    ReadyOnSuccess
    LossAccounted
    EveryCallEnds
CHECK_DEADLOCK FALSE
