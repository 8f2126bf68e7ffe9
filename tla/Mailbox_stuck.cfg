CONSTANTS
    Client = {a, b}
    Pump = pump
    Slots = 3
    Depth = 2
    GateMax = 2
    NULL = NULL
SPECIFICATION FairSpec
PROPERTY Answered
