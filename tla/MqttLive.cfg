SPECIFICATION MCFairSpec
CONSTANTS
    Setups <- LiveSetups
    Topics = {t1}
    MaxId = 1
    MaxPublish = 0
    SubCalls = 0
    PreCap = 1
    AckTimeout = 1
    SendTimeout = 1
    PingInterval = 1
    RetryMax = 1
    BackoffBase = 1
    BackoffCap = 1
    HealSteps = 1
    Feeds <- NoFeeds
    Filters <- MCFilters
    BufferSize = 12
    TickBudget = 12
    VarBase = 4
    Faults = 2
PROPERTIES
    LossIsHealed
