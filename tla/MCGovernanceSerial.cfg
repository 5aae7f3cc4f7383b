\* Verdict execution against the serial loop of the comments: no client.
CONSTANTS
    a = a  b = b  far = far  m1 = m1  m2 = m2  m3 = m3
    Ids = {m1, m2}
    Contents = {a, b}
    Ticks = {t1}
    NoRow = NoRow  NoContent = NoContent  NoId = NoId
    NamespaceOf <- OneBucket
    Sim <- MCSim
    Floor = 6
    Candidates = 2
    BatchSize = 2
    Concurrency = 4
    MaxWrites = 0
    MaxTicks = 1
    MaxAbstracts = 2
    MaxProposals = 0
SPECIFICATION Spec
PROPERTY AbsorbsIntoLiveRow
CHECK_DEADLOCK FALSE
