CONSTANTS
    QUEUE_CNT = 2
    Budget = 2
    RingSize = 2
    Cpus <- OneCpu
    OtherIrq = TRUE
    MaxArrivals = 4
SPECIFICATION Spec
CHECK_DEADLOCK FALSE
INVARIANTS
    NapiKept
    RxNotDead
