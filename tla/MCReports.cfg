SPECIFICATION Spec
CONSTANTS
    Classes <- AllClasses
    Ints <- MCInts
    Strings <- MCStrings
    ListSizes <- MCListSizes
    Others <- MCOthers
    Strays <- MCStrays
    Memory = 100
    DefaultSize = 4
    MaxSet = 2
INVARIANTS
    ItemSurvives
    CutIsNoticed
