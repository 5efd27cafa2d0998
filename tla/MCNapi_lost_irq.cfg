CONSTANTS
    QUEUE_CNT = 1
    Budget = 4
    RingSize = 3
    Cpus <- OneCpu
    OtherIrq = TRUE
    MaxArrivals = 3
SPECIFICATION Spec
CHECK_DEADLOCK FALSE
INVARIANTS
    NoPacketStranded
