\* The scheduler's tick, a POST /v1/consolidate and a client, over two buckets and
\* contents on both sides of the floor.
CONSTANTS
    a = a  b = b  far = far  m1 = m1  m2 = m2  m3 = m3
    Ids = {m1, m2, m3}
    Contents = {a, far}
    Ticks = {t1, t2}
    NoRow = NoRow  NoContent = NoContent  NoId = NoId
    NamespaceOf <- TwoBuckets
    Sim <- MCSim
    Floor = 6
    Candidates = 1
    BatchSize = 1
    Concurrency = 4
    MaxWrites = 2
    MaxTicks = 2
    MaxAbstracts = 0
    MaxProposals = 0
SPECIFICATION Spec
SYMMETRY TwoTicksSymmetry
PROPERTIES KeepsLifecycle InvalidationHasEvidence
CHECK_DEADLOCK FALSE
