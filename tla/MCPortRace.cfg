CONSTANTS
    c1 = c1
    c2 = c2
    Callers = {c1, c2}
    m1 = m1
    m2 = m2
    Paths = {m1, m2}
    Ports = {1, 2}
    p1 = p1
    p2 = p2
    Procs = {p1, p2}
    Nobody = Nobody
    NoProc = NoProc
    NoPath = NoPath
    Kinds = {"ensure"}
    Exclusive = {"ensure"}
    CanCrash = FALSE
    SlowHealth = FALSE
    SlowStart = FALSE
    MaxCalls = 2
SPECIFICATION Spec
PROPERTIES RightServer
