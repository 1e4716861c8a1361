CONSTANTS
    Threads = {c1, c2, r1}
    Runners = {r1}
    Tasks = {a, b}
    None = None
    Slots = 1
    DispatchLimit = 1
    UsageCapacity = 2
    Cancellable = FALSE
    RecordBound = 2
    Ops = {}
    Faults = {}
    QueueBound = 2
SPECIFICATION FairDispatch
CHECK_DEADLOCK FALSE
PROPERTIES EveryTaskEnds
