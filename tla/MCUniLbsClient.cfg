CONSTANTS
    Ips = {"a", "b", "lo"}
    Loopback = "lo"
    Conns = {1, 2, 3, 4}
    Null = 0
    Services = {0, 7}
    LbsAddr = "b"
    Channels = {"c"}
    Intervals = {1}
    Lists <- MCLists
    Answers <- MCAnswers
    MaxCalls = 4
SPECIFICATION FairSpec
INVARIANTS ConnectionsOwned ListStaysInForce
PROPERTIES TracksResolver ImplementsPool
CHECK_DEADLOCK FALSE
