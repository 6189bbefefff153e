CONSTANTS
    Half = 8
    Upper = 4
    Lengths <- MCLengths
    MaxPackets = 3
    MaxCalls = 3
SPECIFICATION FairServerSpec
INVARIANTS NoUseAfterFree NoLeak PacketsAsSent
PROPERTIES SentIsDelivered
CHECK_DEADLOCK FALSE
