CONSTANTS
    TX_DESC_CNT = 5
    NumSkbs = 3
    Shapes <- MixedShapes
    MaxPieces = 8
    ContextSetup = FALSE
    TagViaReg = FALSE
    AllocFails = TRUE
    MapFails = TRUE
SPECIFICATION Spec
INVARIANTS
    RingKept
    HeldOnce
    FramesRight
PROPERTIES
    OwnedUntouched
    ImplementsFifo
