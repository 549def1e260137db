CONSTANTS
    o1 = o1
    Requests = {o1}
    i1 = i1
    i2 = i2
    Instances = {i1, i2}
    NoInst = NoInst
    NoModel = NoModel
    MaxQueueDepth = 1
    Models = {"a"}
    UnknownIds = {}
    DefaultModel = "a"
    Est <- MCEst
    BudgetMB = 0
    MarginMB = 0
    SpawnMode = TRUE
    SpawnMayFail = TRUE
    Kinds = {"infer"}
    CanCancel = TRUE
    DeadlineMayPass = FALSE
    DrainMayTimeOut = FALSE
    MaxCalls = 1
    Main = Main
    Ports = {1}
    p1 = p1
    p2 = p2
    Procs = {p1, p2}
    Nobody = Nobody
    NoProc = NoProc
    CanCrash = FALSE
    SlowHealth = FALSE
    SlowStart = FALSE
    Quiet = FALSE
SPECIFICATION SpawnSpec
INVARIANTS NoProcessLeft
CHECK_DEADLOCK FALSE
