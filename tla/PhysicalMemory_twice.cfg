CONSTANTS
    PageMax = 15
    MaxOrder = 3
    Base = {6}
    Top = {16}
    Size = {1, 2, 3, 5}
SPECIFICATION MemorySpec
INVARIANT NotTwice
