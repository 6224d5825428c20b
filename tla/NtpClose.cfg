SPECIFICATION ServicesSpec
CONSTANTS
    Adapters = {TRUE, FALSE}
    Limits = {0, 2}
    ConnectTimeout = 2
    FirstTimeout = 4
    BackoffStart = 1
    BackoffMax = 3
    AttemptCap = 2
    JoinTime = 2
    ColdJoinTime = 4
    Outages = 2
    NtpSetups <- ClosingOnly
    ERA = 8
    NTP_TO_UNIX = 5
    NtpTimeout = 2
    DRAIN_LIMIT = 2
    MaxDatagrams = 3
    KnobSetups <- OneKnob
    RAW_RANGE = 16
    SMOOTHING_SHIFT = 2
    PackedValues <- NilOnly
    Damage = {0, 1, 129, 145, 161, 192, 193, 195, 217, 220, 222, 255}
    Clients = {"a", "b"}
    Servers <- NoServers
    MAX_DEPTH = 4
PROPERTY ReopensOnQuery
