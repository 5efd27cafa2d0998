CONSTANTS
    RX_DESC_CNT = 4
    MIN_RX_DESC_CNT = 2
    Quota = 2
    BufLen = 4
    HdrSize = 1
    Copybreak = 3
    Tailroom = 2
    U16 = 64
    Modes <- BothModes
    Kinds <- PlainKinds
    NumFrames = 2
    MaxLost = 1
    MaxRestarts = 1
    MaxLates = 1
SPECIFICATION Spec
CHECK_DEADLOCK FALSE
INVARIANTS
    ChainKept
    PagesApart
    WholeFrames
    InOrder
