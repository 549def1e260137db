CONSTANTS
    r1 = r1
    r2 = r2
    Requests = {r1, r2}
    i1 = i1
    Instances = {i1}
    NoInst = NoInst
    MaxQueueDepth = 2
SPECIFICATION FifoSpec
PROPERTIES FifoAdmission
