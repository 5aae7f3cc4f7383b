\* Three callers on two connections: readers can hold them all.
CONSTANTS
    m1 = m1  m2 = m2  m3 = m3
    c1 = c1  c2 = c2
    ui = ui  p1 = p1  p2 = p2
    Conns = {c1, c2}
    Callers = {ui, p1, p2}
    Browser = ui
    Does <- MCDoes
    Ids = {m1, m2, m3}
    Stored = {m1, m2}
    PageSize = 1
    NoRow = NoRow  Nobody = Nobody
    MaxTime = 1
    MaxCalls = 4
SPECIFICATION FairSpec
INVARIANTS TagsAreWhole NoOrphans WalkIsExact
PROPERTY CallsReturn
CHECK_DEADLOCK FALSE
