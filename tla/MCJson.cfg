SPECIFICATION MessagesSpec
CONSTANTS
    IntMax = 255
    Lower <- NameCases
    Wrappers = {x, y}
    Names = {"a", "b"}
    Ints = {255}
    Doubles = {300}
    Strings <- SomeStrings
    Documents <- SomeDocuments
    FileMax = 40
    MaxCalls = 4
    Requests <- SomeRequests
    Garbage = {0, 77}
    Time = 1000
    Counts = {0, 255}
SYMMETRY Symmetry
INVARIANTS
    OwnershipSound
    TextRoundTrips
    EchoesRequest
PROPERTY
    MergeMeans
    SettersReadBack
CHECK_DEADLOCK FALSE
