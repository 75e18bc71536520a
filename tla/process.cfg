CONSTANTS
    s1 = s1
    Scrapers <- MCScrapers
    Main = Main
    Watchdog = Watchdog
    Nobody = Nobody
    MaxExits = 2
    MaxSpawnFailures = 1
SPECIFICATION FairSpec
INVARIANTS
    TypeOK
    NoForgottenChild
    EveryExitCountedOnce
PROPERTIES
    Supervised
    ChildComesBack
    StopReturns
