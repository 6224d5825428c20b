SPECIFICATION MCSpec
CONSTANTS
    Setups <- LargeFragments
    MaxMessage = 2
    MaxEmpty = 1
    MaxInbound = 1
    Window = 2
    HandshakeTimeout = 1
    CloseTimeout = 1
    PongTimeout = 1
    PingInterval = 1
    Talks <- NoTalks
    RecvBudget = 12
    MaxHeader = 14
    MaxPayload = 6
    MaxControl = 3
    ShortLen = 4
    Base = 4
INVARIANTS
    OversizedDropped
