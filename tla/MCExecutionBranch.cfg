SPECIFICATION FairSpec
CONSTANTS
    Low = 7
    High = 5
    Stack = 256
    Hazards = {"branch"}
    Functions <- MCFunctions
    Signature <- MCSignature
    Address <- MCAddress
    Layouts <- MCLayouts
    Value <- MCValue
INVARIANTS
    BranchesOnCondition
CHECK_DEADLOCK FALSE
