CONSTANTS
    o1 = o1
    Requests = {o1}
    i1 = i1
    i2 = i2
    i3 = i3
    Instances = {i1, i2, i3}
    NoInst = NoInst
    NoModel = NoModel
    MaxQueueDepth = 1
    Models = {"a", "b", "big"}
    UnknownIds = {"ghost"}
    DefaultModel = "a"
    Est <- MCEst
    BudgetMB = 3
    MarginMB = 1
    SpawnMode = TRUE
    SpawnMayFail = FALSE
    Kinds = {"infer", "switch", "unload", "ensureModel"}
    CanCancel = FALSE
    DeadlineMayPass = FALSE
    DrainMayTimeOut = FALSE
    MaxCalls = 5
SPECIFICATION Spec
INVARIANTS TypeOK Conservation BudgetRespected
