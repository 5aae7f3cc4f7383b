\* The scheduler and a POST /v1/forget, and one access between their listings.
CONSTANTS
    Ids = {m1}
    Ticks = {t1, t2}
    NoRow = NoRow
    BatchSize = 1
    ArchiveDays = 1
    PurgeDays = 2
    Retained <- Curve
    Bonus <- Boost
    ToL1 = 300  ToL0 = 200  ToArchive = 100  ToUpgrade = 600
    MinAccess = 1
    MaxAge = 3
    MaxCount = 1
    MaxWrites = 2
    MaxFaults = 1
SPECIFICATION Spec
PROPERTY ArchivedNeverRises
CHECK_DEADLOCK FALSE
