SPECIFICATION MCSpec
CONSTANTS
    Threads = {p1}
    Tasks = {a, b}
    None = None
    Slots = 1
    DispatchLimit = 1
    UsageCapacity = 2
    Cancellable = TRUE
    RecordBound = 0
    CTasks = {a, b}
    NoSelector = NoSelector
    Sizes = {1, 2, 4}
    TTL = 2
    TerminalTTL = 1
    MaxRecords = 2
    MaxBytes = 3
    PurgeInterval = 2
    PublishBound = 2
    MaxTime = 3
    Workers = {w1, w2}
    Circuits = {a, b, c}
    NoCircuit = NoCircuit
    QueueLimit = 1
    TimeLimit = TRUE
    Faults = {"launch"}
    EvTasks = {"k1", "k2"}
    TaskReservation <- ReservationOf
    Registrations <- RegistrationSet
    NoReservation = NoReservation
SYMMETRY Symmetry
INVARIANTS DispatchBounded ReportedOnce BusyHasReason ResultsReachOnce
PROPERTIES RetentionSound
CHECK_DEADLOCK FALSE
