SPECIFICATION FairSpec
CONSTANTS
    Low = 7
    High = 5
    Stack = 256
    Hazards = {"copies"}
    Functions <- MCFunctions
    Signature <- MCSignature
    Address <- MCAddress
    Layouts <- MCLayouts
    Value <- MCValue
INVARIANTS
    ValuesInSlots
CHECK_DEADLOCK FALSE
