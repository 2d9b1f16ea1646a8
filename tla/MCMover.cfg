SPECIFICATION FairSpec
CONSTANTS
    ssd1 = ssd1
    ssd2 = ssd2
    h1 = h1
    h2 = h2
    e = e
    f = f
    g = g
    Main = Main
    Absent = Absent
    N = 4
    HDD = {h1, h2}
    Dest <- MixedDest
    From <- MixedFrom
    Path <- MixedPath
    Events = TRUE
    SpawnMayFail = TRUE
    Verify = "sha256"
    Env = {"error", "crash", "write", "quiet", "create"}
    MaxChunks = 1
    MaxWrites = 1
INVARIANTS
    Credit
    OneWriter
    EndsClean
    Preserved
PROPERTIES
    Termination
CHECK_DEADLOCK FALSE
