CONSTANTS
    TX_DESC_CNT = 4
    NumSkbs = 3
    Shapes <- TaggedShapes
    MaxPieces = 8
    ContextSetup = FALSE
    TagViaReg = FALSE
    AllocFails = FALSE
    MapFails = FALSE
SPECIFICATION Spec
INVARIANT WireTags
