CONSTANTS
    Threads = {c1, r1, r2}
    Runners = {r1, r2}
    Tasks = {a, b}
    None = None
    Slots = 1
    DispatchLimit = 1
    UsageCapacity = 2
    Cancellable = FALSE
    RecordBound = 2
    Ops = {"read", "cancel"}
    Faults = {"provider"}
    QueueBound = 2
SPECIFICATION PollingDispatch
PROPERTIES EveryTaskEnds ControllerRefined DrainRefined
