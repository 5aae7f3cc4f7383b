\* The scheduler's tick alone, beside clients and consolidation.
CONSTANTS
    Ids = {m1, m2}
    Ticks = {t1}
    NoRow = NoRow
    BatchSize = 1
    ArchiveDays = 1
    PurgeDays = 2
    Retained <- Curve
    Bonus <- Boost
    ToL1 = 300  ToL0 = 200  ToArchive = 100  ToUpgrade = 600
    MinAccess = 1
    MaxAge = 3
    MaxCount = 1
    MaxWrites = 2
    MaxFaults = 1
SPECIFICATION FairSpec
PROPERTIES KeepsLifecycle ArchiveIsGranted RisesOnlyOnDemand EventuallyForgotten
CHECK_DEADLOCK FALSE
