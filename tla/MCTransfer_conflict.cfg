SPECIFICATION Spec
CONSTANTS
    a = a
    target = target
    Absent = Absent
    Moves = {1}
    Src <- OneSource
    Dst <- OneTarget
    Verify = "size"
    Env = {"create"}
    MaxChunks = 1
    MaxWrites = 1
PROPERTIES ConflictsFail
CHECK_DEADLOCK FALSE
