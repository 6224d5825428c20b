SPECIFICATION MCSpec
CONSTANTS
    Setups <- OfflineSetups
    Topics = {t1}
    MaxId = 3
    MaxPublish = 0
    SubCalls = 1
    PreCap = 1
    AckTimeout = 1
    SendTimeout = 1
    PingInterval = 1
    RetryMax = 1
    BackoffBase = 1
    BackoffCap = 1
    HealSteps = 1
    Feeds <- NoFeeds
    Filters <- MCFilters
    BufferSize = 12
    TickBudget = 12
    VarBase = 4
    Faults = 1
INVARIANT OfflineSubscriptionsServed
