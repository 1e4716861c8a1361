SPECIFICATION MCSpec
CONSTANTS
    Clients = {c1, c2}
    Apis = {"execution"}
    MaxRuntimes = 2
    MaxHandles = 2
    MaxEpochs = 2
    MaxDirs = 2
    r1 = r1
    r2 = r2
    PrimitiveRuns = {r1, r2}
    Pubs <- PubsOf
    MaxCircuits = 2
    MaxReconnects = 1
    BatchJobs = 3
    MaxLost = 2
    Properties <- ServiceProperties
    Selections <- Wishes
    ScopeOrders <- Orders
    ReservedSets <- Reserved
    SimulatorProviders = {"qb", "nwqsim"}
    MaxSites = 2
    MaxWaits = 1
    MaxChanges = 1
    Unset = Unset
    Controllers <- ControllerSeq
    Coprocessors <- CoprocessorSeq
    Decoders <- DecoderSeq
    Intents <- IntentSet
    Match <- MatchInventory
    TransportOrder <- TransportSeq
    Requesters = {q1, q2}
    MaxGrants = 2
    MaxStarts = 3
    Unstated = Unstated
    Configs <- ConfigSet
    StartDb <- Databases
    Handles <- HandleOwners
    Requests <- AskSet
    ServiceRequest <- ServiceAsk
    MaxBound = 2
    MaxEdits = 1
    NotGiven = NotGiven
    BraketQubits = 3
    BraketBits = 3
    Ops <- OperationSet
    AcceptedGates = {"x", "cx"}
    Expressible = {"coin"}
    MaxOps = 3
    Circuits <- CircuitSet
    Mappings <- MappingSet
    Devices <- DeviceSet
    NoPlace = NoPlace
    PauliQubits = 3
    Points = {1, 2}
    WantedAt <- ObservablesAt
INVARIANTS    ConnectionJustified PlacementsHold BitsPreserved QubitsKept EstimatesOwnTerm
 
CHECK_DEADLOCK FALSE
