CONSTANTS
    Thread = {idle, int, vm, guest, sdcard, ticker}
    Idle = idle
    InterruptThread = int
    Vm = vm
    Guest = guest
    Sdcard = sdcard
    Ticker = ticker
    NULL = null
    Uses = {"wfi", "status", "cmd7", "ack"}
    Value = {0}
SPECIFICATION FairSpec
PROPERTIES CommandEnds TickRaised
