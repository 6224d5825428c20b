SPECIFICATION MCSpec
CONSTANTS
    Setups <- AllSetups
    Topics = {t1}
    MaxId = 3
    MaxPublish = 1
    SubCalls = 1
    PreCap = 1
    AckTimeout = 1
    SendTimeout = 1
    PingInterval = 1
    RetryMax = 1
    BackoffBase = 1
    BackoffCap = 1
    HealSteps = 1
    Feeds <- AllFeeds
    Filters <- MCFilters
    BufferSize = 12
    TickBudget = 12
    VarBase = 4
    Faults = 1
INVARIANTS
    TransportAgrees
    NeverCrashes
    AcksConserved
    SubscriptionsServed
    PacketsAsSent
PROPERTIES
    DeliverySpec
    NoBusyWait

