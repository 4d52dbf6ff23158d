SPECIFICATION FairSpec
CONSTANTS
    MaxBlocks = 12
    MaxControl = 3
    MaxIndex = 1
    NULL = NULL
    DeadJumps = FALSE
INVARIANTS
    TypeOK
    EdgesMirrored
    NothingAfterTerminator
    WellFormedWhenBuilt
    ScopesBalanced
    PostorderSound
    NoUndefinedRead
    NeverAboveTheIdom
    IdomCorrect
    FrontierCorrect
    TreeSpansReachable
PROPERTIES
    DomsOnlyRise
    Terminates
CHECK_DEADLOCK FALSE
