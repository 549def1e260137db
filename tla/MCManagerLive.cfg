CONSTANTS
    o1 = o1
    o2 = o2
    Requests = {o1, o2}
    i1 = i1
    i2 = i2
    i3 = i3
    Instances = {i1, i2, i3}
    NoInst = NoInst
    NoModel = NoModel
    MaxQueueDepth = 1
    Models = {"a", "big"}
    UnknownIds = {}
    DefaultModel = NoModel
    Est <- MCEst
    BudgetMB = 1
    MarginMB = 0
    SpawnMode = FALSE
    SpawnMayFail = FALSE
    Kinds = {"infer", "switch", "unload", "ensureModel"}
    CanCancel = TRUE
    DeadlineMayPass = TRUE
    DrainMayTimeOut = TRUE
    MaxCalls = 3
SPECIFICATION FairSpec
PROPERTIES CallsReturn
