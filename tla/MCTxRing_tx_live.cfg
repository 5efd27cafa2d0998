CONSTANTS
    TX_DESC_CNT = 5
    NumSkbs = 3
    Shapes <- FewShapes
    MaxPieces = 8
    ContextSetup = FALSE
    TagViaReg = TRUE
    AllocFails = FALSE
    MapFails = FALSE
SPECIFICATION FairSpec
PROPERTIES
    EveryPacketSettles
    StoppedIsWoken
