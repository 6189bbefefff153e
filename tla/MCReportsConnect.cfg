SPECIFICATION Spec
CONSTANTS
    Classes <- OnlyItem
    Ints <- MCInts
    Strings <- MCStrings
    ListSizes <- MCListSizes
    Others <- NoOthers
    Strays <- MCStrays
    Memory = 100
    DefaultSize = 4
    MaxSet = 0
INVARIANT
    ReportsArrive
