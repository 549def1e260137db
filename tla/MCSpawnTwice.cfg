CONSTANTS
    o1 = o1
    o2 = o2
    Requests = {o1, o2}
    i1 = i1
    i2 = i2
    i3 = i3
    Instances = {i1, i2, i3}
    NoInst = NoInst
    NoModel = NoModel
    MaxQueueDepth = 1
    Models = {"a"}
    UnknownIds = {}
    DefaultModel = "a"
    Est <- MCEst
    BudgetMB = 0
    MarginMB = 0
    SpawnMode = TRUE
    SpawnMayFail = TRUE
    Kinds = {"infer"}
    CanCancel = FALSE
    DeadlineMayPass = FALSE
    DrainMayTimeOut = FALSE
    MaxCalls = 2
    Main = Main
    Ports = {1, 2}
    p1 = p1
    p2 = p2
    p3 = p3
    Procs = {p1, p2, p3}
    Nobody = Nobody
    NoProc = NoProc
    CanCrash = FALSE
    SlowHealth = FALSE
    SlowStart = FALSE
    Quiet = TRUE
SPECIFICATION SpawnFairSpec
PROPERTIES CallsReturn
CHECK_DEADLOCK FALSE
