CONSTANTS
    p1 = p1
    p2 = p2
    s1 = s1
    Peers <- MCPeers
    Names = {}
    Proto = "udp"
    MetricTTL = 4
    MaxLines = 6
    Scrapers <- MCScrapers
    Nobody = Nobody
    PipeSize = 3
    ScrapeGap = 1
    MaxStreams = 2
SPECIFICATION FairSpec
INVARIANTS
    TypeOK
    ActivePeersRetained
    ReportsReachTheirConnection
PROPERTY BlockedChildResumes
