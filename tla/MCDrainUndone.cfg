CONSTANTS
    o1 = o1
    o2 = o2
    Requests = {o1, o2}
    i1 = i1
    i2 = i2
    Instances = {i1, i2}
    NoInst = NoInst
    NoModel = NoModel
    MaxQueueDepth = 1
    Models = {"a"}
    UnknownIds = {}
    DefaultModel = NoModel
    Est <- MCEst
    BudgetMB = 0
    MarginMB = 0
    SpawnMode = FALSE
    SpawnMayFail = FALSE
    Kinds = {"infer", "unload"}
    CanCancel = FALSE
    DeadlineMayPass = FALSE
    DrainMayTimeOut = FALSE
    MaxCalls = 3
SPECIFICATION Spec
INVARIANTS DrainingSticks
