SPECIFICATION FairSpec
CONSTANTS
    Func <- MCFunc
    Order <- MCOrder
    Modules <- MCModules
INVARIANTS
    TypeOK
    ExactAtDone
    NeverTooImpure
PROPERTIES
    ImpureForGood
    Termination
CHECK_DEADLOCK FALSE
