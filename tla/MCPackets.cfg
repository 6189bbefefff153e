SPECIFICATION WireSpec
CONSTANTS
    Half = 32768
    Upper = 256
    MaxPacketSize = 8387584
    DefaultSize = 1024
    PushSizes <- MCPushSizes
    Values <- MCValues
    MaxPushes = 3
    Classes <- MCClasses
    ServerTypes = {0, 1000}
    Samples <- MCSamples
    Endpoints <- MCEndpoints
    PathRoom = 4
    StructKeys <- MCStructKeys
    MaxConversions = 4
    MaxKeys = 3
INVARIANTS
    PacketIsFramed
    WritesStayInBuffer
    PacketRoundTrips
    EndpointKept
    SetsStaySorted
