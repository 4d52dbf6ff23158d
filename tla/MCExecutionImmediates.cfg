SPECIFICATION FairSpec
CONSTANTS
    Low = 7
    High = 5
    Stack = 256
    Hazards = {"immediates"}
    Functions <- MCFunctions
    Signature <- MCSignature
    Address <- MCAddress
    Layouts <- MCLayouts
    Value <- MCValue
INVARIANTS
    ImmediatesFit
CHECK_DEADLOCK FALSE
