SPECIFICATION FairSpec
CONSTANTS
    MaxBlocks = 6
    Var = {"x", "y"}
    Functions <- MCFunctions
    MaxVisits = 7
    Assigned = TRUE
INVARIANTS
    TypeOK
    LoadsKeepTheirValue
    PhisAtIteratedFrontier
    StacksMatchFrames
    NothingLeftBehind
PROPERTIES
    PassEnds
CHECK_DEADLOCK FALSE
