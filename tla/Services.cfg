SPECIFICATION ServicesSpec
CONSTANTS
    Adapters = {TRUE, FALSE}
    Limits = {0, 2}
    ConnectTimeout = 2
    FirstTimeout = 4
    BackoffStart = 1
    BackoffMax = 3
    AttemptCap = 2
    JoinTime = 2
    ColdJoinTime = 4
    Outages = 2
    NtpSetups <- AllNtpSetups
    ERA = 8
    NTP_TO_UNIX = 5
    NtpTimeout = 2
    DRAIN_LIMIT = 2
    MaxDatagrams = 3
    KnobSetups <- AllKnobSetups
    RAW_RANGE = 16
    SMOOTHING_SHIFT = 2
    PackedValues <- AllPackedValues
    Damage = {0, 1, 129, 145, 161, 192, 193, 195, 217, 220, 222, 255}
    Clients = {"a", "b"}
    Servers <- AllServers
    MAX_DEPTH = 4
INVARIANTS
    BackoffRespected
    GraceCoversColdStart
    PackedReadsBack
    SlotsAccounted
    KnobsReadTrue
PROPERTIES
    NeverRestart
    AnsweredOnce
    BoundsGiveBack
    EveryoneIsSeenTo
