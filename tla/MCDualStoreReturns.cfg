\* Every call returns: two operations beside the index builder, one failure.
CONSTANTS
    u = u  far = far  m1 = m1  m2 = m2  m3 = m3
    Ids = {m1, m2, m3}
    Vectors = {u}
    Callers = {p1, p2}
    NoVector = NoVector  NoId = NoId
    NamespaceOf <- TwoBuckets
    Sim <- MCSim
    Threshold = 9
    Limit = 1
    IndexThreshold = 3
    Stored = {m1, m3}
    MaxOps = 2
    MaxFaults = 1
SPECIFICATION FairSpec
PROPERTY CallsReturn
CHECK_DEADLOCK FALSE
