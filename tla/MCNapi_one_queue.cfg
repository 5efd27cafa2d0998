CONSTANTS
    QUEUE_CNT = 1
    Budget = 2
    RingSize = 4
    Cpus <- TwoCpus
    OtherIrq = FALSE
    MaxArrivals = 4
SPECIFICATION FairSpec
CHECK_DEADLOCK FALSE
INVARIANTS
    NoPacketStranded
PROPERTIES
    EveryPacketTaken
