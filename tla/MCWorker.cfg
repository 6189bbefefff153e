CONSTANTS
    Socks = {s1, s2}
    NoSock = NoSock
    WorkerDelay = 6
    BandwidthDelay = 1
    MaxLate = 7
    SizeLimit = 3
    ChunkSize = 2
    MaxLines = 8
    Explored = {{"Worker"}, {"LogFile"}}
SPECIFICATION MainFairSpec
INVARIANTS OnlySocketOpen ConnectComesFirst NothingTorn CountersBeforePing LinesKept
PROPERTIES Registered
\* The process ends when it cannot be set up.
CHECK_DEADLOCK FALSE
