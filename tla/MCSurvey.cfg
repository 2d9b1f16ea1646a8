SPECIFICATION Spec
CONSTANTS
    a = a
    b = b
    h = h
    other = other
    disk1 = disk1
    disk2 = disk2
    disk3 = disk3
    rootfs = rootfs
    data = data
    pbs = pbs
    f = f
    part = part
    link = link
    away = away
    None = None
    Mergerfs = Mergerfs
    Branches = {a, b, h}
    Root = rootfs
    Mounts = {other}
    MinFrees = {None, 1}
    Options = {None, 1}
    Partials = {part}
    Device <- MCDevice
    Total <- MCTotal
    Rota <- MCRota
    Lists <- MCLists
    Fstab <- MCFstab
    Kind <- MCKind
    Goal <- MCGoal
    Setups <- MCSetups
    Calls <- MCCalls
    MaxChanges = 2
INVARIANTS
    Grounded
    EachFileOnce
CHECK_DEADLOCK FALSE
