CONSTANTS
    RX_DESC_CNT = 3
    MIN_RX_DESC_CNT = 2
    Quota = 2
    Kinds <- GoodKinds
    StampIrq = TRUE
    NumFrames = 3
    MaxLost = 3
SPECIFICATION Spec
INVARIANTS
    TakenHasSkb
