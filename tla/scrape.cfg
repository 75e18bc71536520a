CONSTANTS
    s1 = s1
    s2 = s2
    p1 = p1
    Scrapers <- MCScrapers
    PeerIds <- MCPeerIds
    Connections <- MCConnections
    Outputs <- MCOutputs
    Proto = "tcp"
    MaxFailures = 2
    MaxClock = 2
SYMMETRY MCSymmetry
SPECIFICATION Spec
INVARIANTS
    TypeOK
    FailuresShow
    SamplesMatchSockets
    MisleadingDateHasFailure
