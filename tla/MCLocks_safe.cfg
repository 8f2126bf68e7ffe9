CONSTANTS
    Thread = {idle, a, b, c, d}
    Idle = idle
    Lock = {1, 2}
    NULL = NULL
    SpuriousFailure = TRUE
    idle = idle
    a = a
    b = b
    c = c
    d = d
SPECIFICATION Spec
INVARIANTS MutualExclusion ListsOK
PROPERTY LocksImplemented
SYMMETRY Drivers
