CONSTANTS
    c1 = c1
    Callers = {c1}
    m1 = m1
    Paths = {m1}
    Ports = {1}
    p1 = p1
    p2 = p2
    Procs = {p1, p2}
    Nobody = Nobody
    NoProc = NoProc
    NoPath = NoPath
    Kinds = {"ensure"}
    Exclusive = {}
    CanCrash = TRUE
    SlowHealth = FALSE
    SlowStart = FALSE
    MaxCalls = 2
SPECIFICATION FairSpec
PROPERTIES CallsReturn
CHECK_DEADLOCK FALSE
