CONSTANTS
    r1 = r1
    r2 = r2
    r3 = r3
    Requests = {r1, r2, r3}
    i1 = i1
    i2 = i2
    Instances = {i1, i2}
    NoInst = NoInst
    MaxQueueDepth = 2
SPECIFICATION AdmFairSpec
INVARIANTS AdmTypeOK SingleInFlight SlotsMatchHolders ReleaseNeverBlocks
PROPERTIES WaitIsBounded ImplementsGate
