SPECIFICATION Spec
CONSTANTS
    Threads = {loop, storage}
    Streams = {b1, b2}
    MaxHistory = 2
    QueueSize = 1
    PersistEvery = 2
    MaxEvents = 4
    MaxConnects = 3
    MaxRestarts = 1
    MaxFailures = 1
SYMMETRY Symmetry
INVARIANTS
    TypeOK
    NoGap
    NoRepeat
CHECK_DEADLOCK FALSE
PROPERTIES
    IdsRunOn
