SPECIFICATION LbsFairSpec
CONSTANTS
    KeepAliveInterval = 1
    ReconnectTimeout = 2
    ShortConnectionInterval = 3
    MaxTimeout = 4
    MinTimeout = 1
    ActiveCap = 3
    Timeouts = {}
    PingIntervals = {}
    Backoffs = {}
    MaxCalls = 1
    b1 = b1
    Bevs <- MCBevs
    NoBev = NoBev
    c1 = c1
    Channels <- MCChannels
    MaxUp = 2
    MaxDown = 2
INVARIANTS
    StaleJoinNeedsExpiry
    ChannelsInSync
PROPERTIES
    UnjoinedIsDropped
    JoinedForGood
