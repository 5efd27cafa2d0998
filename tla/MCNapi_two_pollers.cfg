CONSTANTS
    QUEUE_CNT = 2
    Budget = 2
    RingSize = 2
    Cpus <- TwoCpus
    OtherIrq = FALSE
    MaxArrivals = 3
SPECIFICATION Spec
CHECK_DEADLOCK FALSE
INVARIANTS
    OneCleaner
