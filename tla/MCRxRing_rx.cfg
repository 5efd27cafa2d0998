CONSTANTS
    RX_DESC_CNT = 4
    MIN_RX_DESC_CNT = 2
    Quota = 2
    Kinds <- AllKinds
    StampIrq = TRUE
    NumFrames = 3
    MaxLost = 1
\* The poll may die of an oops (RxStampOops), and every frame may have come.
CHECK_DEADLOCK FALSE
SPECIFICATION FairSpec
INVARIANTS
    RingKept
    SkbsSafe
    StampRight
    TakenHasSkb
PROPERTIES
    ImplementsFifo
    FramesHandedOn
