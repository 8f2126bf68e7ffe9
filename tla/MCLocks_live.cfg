CONSTANTS
    Thread = {idle, a, b, c}
    Idle = idle
    Lock = {1}
    NULL = NULL
    SpuriousFailure = FALSE
    idle = idle
    a = a
    b = b
    c = c
    d = d
SPECIFICATION FairSpec
INVARIANT NeverStops
PROPERTY BlockedGetsLock
