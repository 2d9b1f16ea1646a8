SPECIFICATION Spec
CONSTANTS
    a = a
    b = b
    x = x
    y = y
    z = z
    SSD = {1, 2}
    HDD = {3, 4}
    Policy = "eplfs"
    Total <- Equal
    DiskDirs <- PairDirs
    DirTime <- RootTimes
    MinFree <- NoReserves
    PoolMin = 1
    Extra = 0
    Watermark = 70
    Tolerance = 20
    N = 4
    Home <- PairHome
    Dir <- PairDir
    Name <- PairName
    Size <- PairSize
    Frees <- PairSize
    Takes <- PairSize
    Taken = {}
    Starts <- PairUsage
INVARIANTS
    ExcessMoved
CHECK_DEADLOCK FALSE
