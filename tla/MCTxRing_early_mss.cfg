CONSTANTS
    TX_DESC_CNT = 5
    NumSkbs = 3
    Shapes <- GsoShapes
    MaxPieces = 8
    ContextSetup = FALSE
    TagViaReg = FALSE
    AllocFails = FALSE
    MapFails = FALSE
SPECIFICATION Spec
INVARIANT WireOwnMss
