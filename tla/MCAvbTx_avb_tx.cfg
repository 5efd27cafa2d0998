CONSTANTS
    TX_DESC_CNT = 4
    EINVAL = 2
    Pkts <- FourPkts
    NumSends = 6
SPECIFICATION FairSpec
CHECK_DEADLOCK FALSE
INVARIANTS
    RingKept
    BufferIdle
PROPERTIES
    Stops
    ImplementsFifo
