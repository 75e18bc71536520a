CONSTANTS
    s1 = s1
    Scrapers <- MCScrapers
    Main = Main
    Watchdog = Watchdog
    Nobody = Nobody
    MaxExits = 1
    MaxSpawnFailures = 1

SPECIFICATION FairSpec
PROPERTY WatchdogRestartsChild
