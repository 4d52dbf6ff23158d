SPECIFICATION FairSpec
CONSTANTS
    MaxBlocks = 6
    Var = {"x", "y"}
    Functions <- MCFunctions
    MaxVisits = 7
    Assigned = FALSE
INVARIANTS
    PruningIsHarmless
CHECK_DEADLOCK FALSE
