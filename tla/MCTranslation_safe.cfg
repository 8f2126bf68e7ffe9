CONSTANTS
    one = one
    two = two
    three = three
    ShowMap = ShowMap
    GuestMap = GuestMap
    System = System
    Thread = {one, two, three}
    Driver = {ShowMap, GuestMap}
    Home <- MCHome
    Entries = 4
    Regions = 2
    Vmbs = 6
    Code <- MCCode
    Data <- MCData
    Extra <- MCExtra
    Touched = {0, 3, 9, 21}
    Junk <- MCJunk
SPECIFICATION Spec
INVARIANTS ListsRight NoStale
PROPERTY FaultsRepaired
VIEW MCView
SYMMETRY MCSymmetry
