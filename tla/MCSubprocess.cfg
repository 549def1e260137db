CONSTANTS
    c1 = c1
    c2 = c2
    Callers = {c1, c2}
    m1 = m1
    m2 = m2
    Paths = {m1, m2}
    Ports = {1, 2}
    p1 = p1
    p2 = p2
    p3 = p3
    Procs = {p1, p2, p3}
    Nobody = Nobody
    NoProc = NoProc
    NoPath = NoPath
    Kinds = {"ensure", "stop", "stopAll"}
    Exclusive = {"ensure", "stop", "stopAll"}
    CanCrash = TRUE
    SlowHealth = TRUE
    SlowStart = TRUE
    MaxCalls = 3
SPECIFICATION FairSpec
INVARIANTS TypeOK NoLeak
PROPERTIES StopAllStops ReturnsUnlessWedged
CHECK_DEADLOCK FALSE
