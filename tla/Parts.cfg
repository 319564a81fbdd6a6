CONSTANTS
    Replicas = {r1, r2}
    Segments <- MCSegments
    Paths <- MCPaths
    Values = {v1, v2}
    Empty = Empty
    Halves <- MCHalves
    Bodies = {m1, none}
    NoText = none
    OtherJSON = other
    MaxItems = 2
    Calls = {init, d1, d2}
    AgCosmosInit = init
    Objects = {"A", "B"}
    Promises = {"P"}
    Boots <- MCBoots
    Results <- MCResults
    MaxCalls = 3
    Nodes = {"a", "b", "c"}
    Root = "a"
    Uploaders = {u, v, w}
    Once = {u, v}
    Contracts <- MCContracts
    Available = {"host"}
    MaxFaults = 1
    Names = {n}
    Assays = {x, y}
    Sets = {s1, s2}
    MaxReads = 3
    Placements <- MCPlacements
    Datacenters <- MCDatacenters
    Single = {"docker"}
    MaxPlacements = 2
    MaxNodes = 1
    MaxRuns = 2
    Peers = {chain}
    Targets = {chain}
    Procs = {q1, q2}
    MaxOut = 2
    MaxIn = 1
    MaxEpoch = 2
    MaxCmd = 1
SPECIFICATION MCSpec
INVARIANTS
    IndexExact
    ReplicasAnswerAlike
    PassedAsWritten
    CallsKeptApart
    RunsAsCalled
    SettlesAll
    RoundTrip
    UploadsAsNamed
    NamesStay
    NumbersAllNodes
    SentSurvives
    HandedInOrder
    IdleMeansSent
PROPERTIES
    OutboxDrains
    EveryCallReturns
CHECK_DEADLOCK FALSE
