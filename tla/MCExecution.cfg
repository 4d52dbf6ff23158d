SPECIFICATION FairSpec
CONSTANTS
    Low = 7
    High = 5
    Stack = 256
    Hazards = {}
    Functions <- MCFunctions
    Signature <- MCSignature
    Address <- MCAddress
    Layouts <- MCLayouts
    Value <- MCValue
INVARIANTS
    FrameSound
    InStep
    ReturnsIntact
    ImmediatesFit
PROPERTIES
    Returns
CHECK_DEADLOCK FALSE
