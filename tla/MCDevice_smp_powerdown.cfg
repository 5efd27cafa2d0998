CONSTANTS
    Rules <- NoUpRule
    NumOps = 4
    NumFrames = 2
    NumPackets = 2
    RingSize = 1
SPECIFICATION FairSpec
CHECK_DEADLOCK FALSE
PROPERTIES
    OpsReturn
