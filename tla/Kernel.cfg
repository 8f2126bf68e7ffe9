CONSTANTS
    Thread = {idle, irq, a, b}
    Idle = idle
    InterruptThread = irq
    Driver = {a}
    Map = {sys, m1}
    SystemMap = sys
    Timeout = {0, 1, 2}
    GateMax = 1
    WordMax = 15
    NULL = NULL
    HEAD = HEAD
    Garbage = Garbage
SPECIFICATION FairSpec
INVARIANTS NoThreadLost RightMapLoaded QueueOK
PROPERTIES GatesImplemented SleepEnds
