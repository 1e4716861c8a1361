CONSTANTS
    Threads = {c1, r1}
    Runners = {r1}
    Tasks = {a, b}
    None = None
    Slots = 1
    DispatchLimit = 1
    UsageCapacity = 1
    Cancellable = FALSE
    RecordBound = 2
    Ops = {"read"}
    Faults = {}
    QueueBound = 3
SPECIFICATION DispatchSpec
SYMMETRY Symmetry
CHECK_DEADLOCK FALSE
PROPERTIES EndedStaysEnded
