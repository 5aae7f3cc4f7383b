\* A search or a dedup probe beside writers.
CONSTANTS
    u = u  far = far  m1 = m1  m2 = m2  m3 = m3
    Ids = {m1, m2, m3}
    Vectors = {u}
    Callers = {p1, p2}
    Operations = {"dedup", "update", "search"}
    NoRow = NoRow  NoVector = NoVector  NoId = NoId
    NamespaceOf <- TwoBuckets
    Sim <- MCSim
    Threshold = 9
    Limit = 1
    MaxOps = 2
SPECIFICATION FairSpec
PROPERTIES SearchReturns DeepeningIsBounded
CHECK_DEADLOCK FALSE
