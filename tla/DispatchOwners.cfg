CONSTANTS
    Threads = {c1, c2, r1}
    Runners = {r1}
    Tasks = {a, b}
    None = None
    Slots = 2
    DispatchLimit = 1
    UsageCapacity = 1
    Cancellable = TRUE
    RecordBound = 2
    Ops = {"cancel", "close", "delete"}
    Faults = {}
    QueueBound = 3
SPECIFICATION DispatchSpec
SYMMETRY Symmetry
INVARIANTS OwnersExact OneDispatcher
PROPERTIES OnlySubmittedRuns
CHECK_DEADLOCK FALSE
