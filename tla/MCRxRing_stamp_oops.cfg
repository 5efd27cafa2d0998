CONSTANTS
    RX_DESC_CNT = 4
    MIN_RX_DESC_CNT = 2
    Quota = 2
    Kinds <- AllKinds
    StampIrq = TRUE
    NumFrames = 3
    MaxLost = 1
CHECK_DEADLOCK FALSE
SPECIFICATION Spec
INVARIANTS
    StampPassedOn
