SPECIFICATION FairSpec
CONSTANTS
    MaxBlocks = 10
    MaxControl = 3
    MaxIndex = 0
    NULL = NULL
    DeadJumps = TRUE
PROPERTIES
    Terminates
CHECK_DEADLOCK FALSE
