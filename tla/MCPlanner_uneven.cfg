SPECIFICATION FairSpec
CONSTANTS
    a = a
    b = b
    x = x
    y = y
    z = z
    SSD = {1, 2}
    HDD = {3, 4, 5}
    Policy = "eplfs"
    Total <- Uneven
    DiskDirs <- UnevenDirs
    DirTime <- UnevenTimes
    MinFree <- Reserves
    PoolMin = 1
    Extra = 20
    Watermark = 70
    Tolerance = 20
    N = 7
    Home <- UnevenHome
    Dir <- UnevenDir
    Name <- UnevenName
    Size <- UnevenSize
    Frees <- UnevenFrees
    Takes <- UnevenTakes
    Taken <- UnevenTaken
    Starts <- UnevenUsage
INVARIANTS
    TypeOK
    ReserveKept
    DriftBounded
    Independent
    ExistingPathKept
    Exhaustive
PROPERTIES Termination
CHECK_DEADLOCK FALSE
