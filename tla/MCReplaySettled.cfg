\* A drained queue is a settled one, says the comment on drain_consolidation.
CONSTANTS
    u1 = u1  u2 = u2  u3 = u3
    q1 = q1  q2 = q2  q3 = q3  q4 = q4
    Commands = {"ingest", "recall", "qa", "pm"}
    Units = {u1, u2, u3}
    Position <- MCPosition
    Messages <- MCMessages
    System <- MCSystem
    Loaded = {u1, u2}
    Bucket <- MCBucket
    Questions = {q1, q2, q3, q4}
    UnitOf <- MCUnitOf
    EndOf <- MCEndOf
    NoGolden = {q2}
    NoEvidence = {q3}
    BatchSize = 1
    UnitJobs = 2
    Jobs = 2
    Attempts = 2
    Drain = TRUE
    Budget = 1
    ServerBatch = 1
SPECIFICATION Spec
INVARIANT SettledOrLate
CHECK_DEADLOCK FALSE
