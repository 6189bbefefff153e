CONSTANTS
    Bufs = {0, 1, 2, 3}
    Spans = {"x", "y"}
    Texts <- MCTexts
    SliceLimit = 8
    TrimBlocks = 2
    MaxText = 6
    MaxCalls = 6
SPECIFICATION Spec
INVARIANTS SlicesAreSound SpansHoldTheirBytes
CHECK_DEADLOCK FALSE
