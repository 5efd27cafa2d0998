CONSTANTS
    TX_DESC_CNT = 5
    NumSkbs = 2
    Shapes <- TaggedGsoShapes
    MaxPieces = 8
    ContextSetup = FALSE
    TagViaReg = FALSE
    AllocFails = FALSE
    MapFails = FALSE
SPECIFICATION Spec
INVARIANT SlotKept
