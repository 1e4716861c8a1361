SPECIFICATION MCSpec
CONSTANTS
    Runs = {run1, run2}
    Jobs = {j1, j2}
    Roles <- RoleSeq
    NoRun = NoRun
    SessionReservations = {"r1", "r2"}
    Openers = {"o1", "o2", "o3"}
    WorksFor <- ReservationOfOpener
    KeyedSets <- Keyed
    Billed = {"r1"}
    MaxBuilt = 2
    Callers = {cli, op}
    Manager = manager
    Operator = op
    MaxInstances = 2
    Components <- CompSeq
    SiteEndpoints = 2
    MaxLives = 1
    MaxRefusals = 1
INVARIANTS NotedIsKnown 
PROPERTIES RunsKept 
CHECK_DEADLOCK FALSE
