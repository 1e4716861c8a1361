CONSTANTS
    Threads = {c1, r1}
    Runners = {r1}
    Tasks = {a}
    None = None
    Slots = 1
    DispatchLimit = 1
    UsageCapacity = 1
    Cancellable = FALSE
    RecordBound = 2
    Ops = {}
    Faults = {"poolfull"}
    QueueBound = 2
SPECIFICATION DispatchSpec
SYMMETRY Symmetry
CHECK_DEADLOCK FALSE
INVARIANTS SlotHasOwner
