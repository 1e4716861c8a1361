SPECIFICATION MCSpec
CONSTANTS
    Reservations = {1, 2}
    QTasks = {a, b}
    Callers = {c1}
    Finalizer = fin
    Processes = {q1, q2}
    Nobody = Nobody
    MaxId = 3
    Admins = {a1, a2}
    Baselines = {"b1"}
    MaxCredits = 2
    MaxVersion = 2
INVARIANTS AccountedWhileActive CredentialsSound IdsSound ConfigurationAgrees
PROPERTIES CleanupEnds ForcedShutdownEnds
CHECK_DEADLOCK FALSE
