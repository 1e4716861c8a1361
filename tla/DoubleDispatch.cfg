CONSTANTS
    Threads = {c1, c2, r1}
    Runners = {r1}
    Tasks = {a, b, c, d}
    None = None
    Slots = 2
    DispatchLimit = 3
    UsageCapacity = 4
    Cancellable = FALSE
    RecordBound = 2
    Ops = {}
    Faults = {}
    QueueBound = 4
SPECIFICATION DispatchSpec
SYMMETRY Symmetry
CHECK_DEADLOCK FALSE
INVARIANTS OneDispatcher
