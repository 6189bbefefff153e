SPECIFICATION FairSpec
CONSTANTS
    KeepAliveInterval = 2
    ReconnectTimeout = 3
    ShortConnectionInterval = 5
    MaxTimeout = 7
    MinTimeout = 2
    ActiveCap = 5
    Timeouts = {1, 4}
    PingIntervals = {1}
    Backoffs <- MCBackoffs
    MaxCalls = 2
    b1 = b1
    b2 = b2
    Bevs <- MCBevs
    NoBev = NoBev
INVARIANTS
    AssertionsHold
    NoLeakNoDangling
    NoEarlyRetry
PROPERTIES
    RetriesForever
    VanishedPeerIsDropped
