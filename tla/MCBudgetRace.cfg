CONSTANTS
    o1 = o1
    o2 = o2
    Requests = {o1, o2}
    i1 = i1
    i2 = i2
    i3 = i3
    Instances = {i1, i2, i3}
    NoInst = NoInst
    NoModel = NoModel
    MaxQueueDepth = 1
    Models = {"a", "b"}
    UnknownIds = {}
    DefaultModel = NoModel
    Est <- MCEst
    BudgetMB = 1
    MarginMB = 0
    SpawnMode = FALSE
    SpawnMayFail = FALSE
    Kinds = {"infer"}
    CanCancel = FALSE
    DeadlineMayPass = FALSE
    DrainMayTimeOut = FALSE
    MaxCalls = 2
SPECIFICATION Spec
INVARIANTS BudgetRespected
