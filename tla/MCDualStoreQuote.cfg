\* One delete or purge and no failure.
CONSTANTS
    u = u  far = far  m1 = m1  m2 = m2  m3 = m3
    Ids = {m1, m2, m3}
    Vectors = {u, far}
    Callers = {p1}
    NoVector = NoVector  NoId = NoId
    NamespaceOf <- TwoBuckets
    Sim <- MCSim
    Threshold = 9
    Limit = 1
    IndexThreshold = 3
    Stored = {m1, m3}
    MaxOps = 1
    MaxFaults = 0
SPECIFICATION Spec
PROPERTY VectorsFollowRows
CHECK_DEADLOCK FALSE
