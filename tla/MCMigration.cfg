\* The server and a second process open every old, bricked or new database.
CONSTANTS
    m1 = m1  m2 = m2
    Processes = {server, mcp}
    Ids = {m1, m2}
    Stored = {m1}
    MaxStops = 3  MaxWrites = 3
SPECIFICATION FairSpec
INVARIANTS VersionIsEarned IndexedOnce
PROPERTY BootsAtLast
CHECK_DEADLOCK FALSE
