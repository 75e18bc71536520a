CONSTANTS
    p1 = p1
    p2 = p2
    Peers <- MCPeers
    h1 = h1
    Names <- MCNames
    Proto = "tcp"
    MetricTTL = 2
    MaxLines = 7
SPECIFICATION WalkSpec
INVARIANTS
    TypeOK
    EveryConnectionAccounted
    HistogramsOfRetainedPeers
    QuietPeersLeave
    FamiliesAreSnapshots
PROPERTIES
    EvictedOnlyWhenQuiet
    OutcomesAsLedger
    TableEmpties
