CONSTANTS
    PageMax = 15
    MaxOrder = 3
    Base = {5, 6, 7, 8, 9, 10, 11, 12, 13, 14, 15}
    Top = {11, 16}
    Size = {0, 1, 3}
    MaxCores = 4
    Machine <- Machines
    Watchdog = 3
    RoPages = 1
    RwPages = 1
    CorePages = 1
    InterfacePages = 1
    HeapPages = 1
    TablePages = 8
SPECIFICATION BootSpec
INVARIANTS FreshHeap  RollCallOver CoresCounted KernelApart
PROPERTIES Booted
