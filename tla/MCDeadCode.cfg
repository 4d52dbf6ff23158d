SPECIFICATION FairSpec
CONSTANTS
    Func <- MCFunc
    Order <- MCOrder
    Inst <- MCInst
    Programs <- MCPrograms
INVARIANTS
    TypeOK
    EffectsKept
    LiveCodeIntact
    OnlyNeededLeft
PROPERTIES
    Termination
CHECK_DEADLOCK FALSE
