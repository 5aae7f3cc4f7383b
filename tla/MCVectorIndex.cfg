\* Four memories: removals from the first, a middle and the last position.
CONSTANTS
    Ids = {m1, m2, m3, m4}
    Vectors <- MCVectors
    NoVector = NoVector
    Norm <- MCNorm
    Dot <- MCDot
    Scale = 10
    MaxSize = 2
SPECIFICATION IndexSpec
SYMMETRY Symmetry
INVARIANT SearchIsTopK
PROPERTY ImplementsMap
CHECK_DEADLOCK FALSE
