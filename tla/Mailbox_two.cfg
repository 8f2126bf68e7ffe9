CONSTANTS
    Client = {a, b}
    Pump = pump
    Slots = 3
    Depth = 1
    GateMax = 1
    NULL = NULL
SPECIFICATION FairSpec
INVARIANTS BufferIsMine NoAnswerLost OnlyOverrun
PROPERTY Delivered
