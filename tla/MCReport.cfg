SPECIFICATION FairSpec
CONSTANTS
    ssd1 = ssd1
    ssd2 = ssd2
    h1 = h1
    h2 = h2
    Main = Main
    Null = Null
    N = 4
    HDD = {h1, h2}
    Dest <- RoutesDest
    From <- RoutesFrom
    Size <- RoutesSize
    Growth = 1
    Events = TRUE
    SpawnMayFail = TRUE
    Capacity = 1
    Second = 2
    MaxTime = 3
INVARIANTS
    TerminalResult
PROPERTIES
    Cumulative
    Ends
CHECK_DEADLOCK FALSE
