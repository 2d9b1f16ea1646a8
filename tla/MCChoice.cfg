SPECIFICATION ChoiceSpec
CONSTANTS
    a = a
    b = b
    Total <- Devices
    DiskDirs <- OnDisk
    DirTime <- Modified
    Branches = {1, 2, 3}
    FreeBytes = {0, 1, 2, 4}
    Names <- Dirs
    Sizes = {0, 1}
    Minimum = 0
INVARIANTS
    FindsRoom
    SharedMeansExisting
CHECK_DEADLOCK FALSE
