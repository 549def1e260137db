CONSTANTS
    o1 = o1
    Requests = {o1}
    i1 = i1
    i2 = i2
    i3 = i3
    Instances = {i1, i2, i3}
    NoInst = NoInst
    NoModel = NoModel
    MaxQueueDepth = 1
    Models = {"a", "b", "big"}
    UnknownIds = {}
    DefaultModel = "a"
    Est <- MCEst
    BudgetMB = 3
    MarginMB = 1
    SpawnMode = TRUE
    SpawnMayFail = TRUE
    Kinds = {"infer", "switch", "unload"}
    CanCancel = TRUE
    DeadlineMayPass = FALSE
    DrainMayTimeOut = FALSE
    MaxCalls = 3
    Main = Main
    Ports = {1, 2}
    p1 = p1
    p2 = p2
    p3 = p3
    Procs = {p1, p2, p3}
    Nobody = Nobody
    NoProc = NoProc
    CanCrash = FALSE
    SlowHealth = FALSE
    SlowStart = FALSE
    Quiet = TRUE
SPECIFICATION SpawnFairSpec
INVARIANTS SpawnTypeOK ReadyHasServer ProcessesAccounted NoProcessLeft GenerationHasServer
PROPERTIES CallsReturn ShutdownEnds
