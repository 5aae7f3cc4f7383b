\* Two PUTs on one row whose index entries land in the other order.
CONSTANTS
    u = u  far = far  m1 = m1  m2 = m2  m3 = m3
    Ids = {m1, m2}
    Vectors = {u, far}
    Callers = {p1, p2}
    Operations = {"update", "dedup"}
    NoRow = NoRow  NoVector = NoVector  NoId = NoId
    NamespaceOf <- OneBucket
    Sim <- MCSim
    Threshold = 9
    Limit = 1
    MaxOps = 3
SPECIFICATION Spec
INVARIANT NoopHoldsDuplicate
CHECK_DEADLOCK FALSE
