SPECIFICATION FairSpec
CONSTANTS
    ssd = ssd
    h1 = h1
    h2 = h2
    h3 = h3
    Main = Main
    HDD = {h1, h2, h3}
    N = 6
    Dest <- MixedPlan
    Events = TRUE
    SpawnMayFail = TRUE
INVARIANTS
    TypeOK
    InOrder
    Quiescent
    FullSuccess
    FailureNotMasked
PROPERTIES
    StopsNewWork
    BatchSpec
    Termination
    FailureCancels
CHECK_DEADLOCK FALSE
