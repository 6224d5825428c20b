SPECIFICATION LoopSpec
CONSTANTS
    Tasks = {"a", "b", "c"}
    Programs <- AllPrograms
    MaxBusy = 2
    MaxAborts = 1
    TICKS_PERIOD = 16
    RatePeriods = {1, 2, 3, 5}
    Spans = {0, 2, 5}
    Lead = 1
    Stall = 6
    ButtonSetups <- AllKeySetups
    Services = {1, 2}
    Sockets = {1, 2, 3}
    Descriptors = {1, 2, 3}
    Masks <- NoneReadBoth
    PollKeys = {"descriptor", "object"}
    Bodies <- AllBodies
    Backends = {"littlefs", "nvs", "nvm"}
    Capacities = {0, 1}
    Keys = {"a", "b"}
    Values = {"list", "longer", "deep"}
    Deep = {"deep"}
    Mutable = {"list", "longer"}
    MaxUnsettled = 3
INVARIANTS
    OnSchedule
    QuotaKept
    KeysTellTrue
    PolledExactly
    TasksResume
    LastIsStored
PROPERTIES
    FiresApart
    CadenceSpec
    TimersHonest
    DurableSpec
    ChangesAreOwed
