CONSTANTS
    RX_DESC_CNT = 4
    MIN_RX_DESC_CNT = 2
    Quota = 2
    BufLen = 4
    HdrSize = 1
    Copybreak = 3
    Tailroom = 2
    U16 = 64
    NumFrames = 2
    MaxLost = 0
    MaxRestarts = 0
    MaxLates = 1
    Modes <- JumboMode
    Kinds <- StampedKinds
SPECIFICATION Spec
CHECK_DEADLOCK FALSE
INVARIANTS
    ChainHead
