SPECIFICATION Spec
CONSTANTS
    m1 = m1
    m2 = m2
    h1 = h1
    s1 = s1
    s2 = s2
    d = d
    t1 = t1
    t2 = t2
    Nobody = Nobody
    Movers = {m1, m2}
    Harnesses = {h1}
    Ssd = {s1, s2}
    Hdd = {d}
    First = s1
    Names = {t1}
    Fixtures <- TwoFixtures
    Files <- PoolFiles
    Args <- MixedArgs
    MaxPlan = 2
    MaxStarts = 1
    MaxFaults = 1
PROPERTIES
    StopReported
CHECK_DEADLOCK FALSE
