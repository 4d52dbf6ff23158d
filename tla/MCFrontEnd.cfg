SPECIFICATION FairSpec
CONSTANTS
    Programs <- MCPrograms
INVARIANTS
    AssertionsHold
    OutputAsMeant
PROPERTIES
    Finishes
CHECK_DEADLOCK FALSE
