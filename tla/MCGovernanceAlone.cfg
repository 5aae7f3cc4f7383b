\* One tick and nobody else, every call failing and every cut-off: two buckets, and
\* chunks of one, so that the second search follows the first verdict gathered.
CONSTANTS
    a = a  b = b  far = far  m1 = m1  m2 = m2  m3 = m3
    Ids = {m1, m2, m3}
    Contents = {a, b}
    Ticks = {t1}
    NoRow = NoRow  NoContent = NoContent  NoId = NoId
    NamespaceOf <- TwoBuckets
    Sim <- MCSim
    Floor = 6
    Candidates = 1
    BatchSize = 2
    Concurrency = 1
    MaxWrites = 0
    MaxTicks = 1
    MaxAbstracts = 2
    MaxProposals = 1
SPECIFICATION FairSpec
INVARIANTS AbsorptionStaysInBucket ConsolidatedHasAbstract
PROPERTIES AbsorbedAfterCopied CallsRunOut TickReturns
CHECK_DEADLOCK FALSE
