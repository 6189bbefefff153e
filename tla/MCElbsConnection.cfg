CONSTANTS
    ElbsSocks = {s1, s2}
    EdgeSocks = {e1, e2, e3}
    NoSock = NoSock
    Addrs = {a1, a2}
    NoAddr = NoAddr
    JoinDelay = 2
    Quiet = 1
SPECIFICATION FairSpec
INVARIANTS OneEdgeConnection
PROPERTIES EdgeIsKept FollowsElbs
