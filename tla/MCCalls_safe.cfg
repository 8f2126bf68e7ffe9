CONSTANTS
    idle = idle
    a = a
    b = b
    new = new
    Thread = {idle, a, b, new}
    Idle = idle
    Drivers = 2
    BootMap <- MCBootMap
    DriverHandler = {"h"}
    StackSize = 5
    Last = 12
SPECIFICATION Spec
INVARIANTS TypeOK HandlesUsable LoadedIsCurrent
PROPERTY CallsImplemented
VIEW MCView
