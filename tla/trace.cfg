CONSTANTS
    p1 = p1
    p2 = p2
    s1 = s1
    s2 = s2
    Pairs <- MCPairs
    Scrapers <- MCScrapers
    MaxTraces = 3
SPECIFICATION FairSpec
INVARIANTS
    TypeOK
    NoTraceBehindClose
    OneTracePerPair
    EveryTraceCounted
PROPERTIES
    TracesFinish
    CloseReturns
