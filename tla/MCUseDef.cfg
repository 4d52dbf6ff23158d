SPECIFICATION FairSpec
CONSTANTS
    User = {u1, u2}
    Leaf = {a}
    null = null
    MaxOperands = 3
    EqualNeighbours = FALSE
INVARIANTS
    TypeOK
    UsesMirrorOperands
PROPERTIES
    ReplacementEnds
CHECK_DEADLOCK FALSE
