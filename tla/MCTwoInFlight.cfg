CONSTANTS
    o1 = o1
    o2 = o2
    o3 = o3
    Requests = {o1, o2, o3}
    i1 = i1
    i2 = i2
    i3 = i3
    i4 = i4
    Instances = {i1, i2, i3, i4}
    NoInst = NoInst
    NoModel = NoModel
    MaxQueueDepth = 1
    Models = {"a", "b"}
    UnknownIds = {}
    DefaultModel = NoModel
    Est <- MCEst
    BudgetMB = 1
    MarginMB = 0
    SpawnMode = FALSE
    SpawnMayFail = FALSE
    Kinds = {"infer"}
    CanCancel = FALSE
    DeadlineMayPass = FALSE
    DrainMayTimeOut = FALSE
    MaxCalls = 4
SPECIFICATION Spec
INVARIANTS SingleInFlightPerModel
