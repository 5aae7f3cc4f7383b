\* Any two operations on three rows: m1 in a bucket behind the two foreign ones.
CONSTANTS
    u = u  far = far  m1 = m1  m2 = m2  m3 = m3
    Ids = {m1, m2, m3}
    Vectors = {u, far}
    Callers = {p1, p2}
    Operations = {"insert", "dedup", "update", "delete", "purge", "search"}
    NoRow = NoRow  NoVector = NoVector  NoId = NoId
    NamespaceOf <- TwoBuckets
    Sim <- MCSim
    Threshold = 9
    Limit = 1
    MaxOps = 2
SPECIFICATION Spec
SYMMETRY BucketSymmetry
INVARIANTS IndexAgrees SearchIsExact
CHECK_DEADLOCK FALSE
