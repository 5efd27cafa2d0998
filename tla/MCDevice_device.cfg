CONSTANTS
    Rules <- AllRules
    NumOps = 5
    NumFrames = 2
    NumPackets = 2
    RingSize = 1
SPECIFICATION FairSpec
CHECK_DEADLOCK FALSE
INVARIANTS
    CountsKept
    RingsThere
    UpWorks
    DownSilent
PROPERTIES
    OpsReturn
    FramesRead
