CONSTANTS
    RX_DESC_CNT = 4
    Quota = 2
    Kinds <- AllKinds
    NumFrames = 5
    MaxBad = 1
    MaxSignals = 1
SPECIFICATION FairSpec
CHECK_DEADLOCK FALSE
INVARIANTS
    RingKept
    ListIntact
    WakeUpPending
PROPERTIES
    FramesRead
    ImplementsFifo
