SPECIFICATION FairSpec
CONSTANTS
    a = a
    target = target
    Absent = Absent
    Moves = {1}
    Src <- OneSource
    Dst <- OneTarget
    Verify = "size"
    Env = {"cancel", "write", "remove", "create", "exclude", "link", "stale", "error", "crash"}
    MaxChunks = 2
    MaxWrites = 2
INVARIANTS
    Preserved
    ProtectionReread
    PartialRemoved
PROPERTIES
    NoClobber
    AtomicSpec
    CallEnds
CHECK_DEADLOCK FALSE
