CONSTANTS
    Thread = {idle, int, vm, guest, sdcard, ticker}
    Idle = idle
    InterruptThread = int
    Vm = vm
    Guest = guest
    Sdcard = sdcard
    Ticker = ticker
    NULL = null
    Uses = {"wfi", "hvc", "bad", "ack", "early ack", "read", "write", "status", "cmd7",
            "cmd", "clear", "mask", "enable", "disable", "pending", "cp15 read",
            "cp15 write", "mailbox read", "mailbox write", "timer", "timer control", "bsc"}
    Value = {0, 1}
SPECIFICATION Spec
INVARIANTS RingRight WorldRight HandlerSeesTrap
PROPERTIES TrapsKept GuestStateKept NoTickLost
