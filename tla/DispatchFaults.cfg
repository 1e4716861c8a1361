CONSTANTS
    Threads = {c1, c2, r1}
    Runners = {r1}
    Tasks = {a, b}
    None = None
    Slots = 1
    DispatchLimit = 1
    UsageCapacity = 2
    Cancellable = FALSE
    RecordBound = 2
    Ops = {"sync", "timeout", "read", "close"}
    Faults = {"submit", "prepare", "start", "provider", "poolfull"}
    QueueBound = 2
SPECIFICATION DispatchSpec
SYMMETRY Symmetry
INVARIANTS SettlementSound RecordSound
PROPERTIES EndedStaysEnded
CHECK_DEADLOCK FALSE
