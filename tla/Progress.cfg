SPECIFICATION MCSpec
CONSTANTS
    Threads = {t1, t2, t3}
    NoThread = NoThread
    Workers = {w1}
    Circuits = {c1, c2}
    NoCircuit = NoCircuit
    QueueLimit = 2
    TimeLimit = TRUE
    Faults = {"launch", "lost"}
    Callers = {cli, op}
    Manager = manager
    Operator = op
    MaxInstances = 1
    Components <- CompSeq
    SiteEndpoints = 1
    MaxLives = 1
    MaxRefusals = 0
    ShimCircuits = {k1, k2}
    k1 = k1
    k2 = k2
    Caps <- CapsDef
    Names <- NamesDef
    Wired = {"qrmi", "qdmi"}
    ExecutionOwner = "qrmi"
    Preference = "qdmi"
    RecordLimit = 1
    MaxFaults = 1
    NoLib = NoLib
INVARIANTS NoRequestLost JobsFollowed
PROPERTIES EveryRequestServed PoolProgress RetriedStopEnds RegistrationRestored CancelEnds
CHECK_DEADLOCK FALSE
