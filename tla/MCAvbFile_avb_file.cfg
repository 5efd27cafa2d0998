CONSTANTS
    Procs = {p1, p2}
    QUEUE_CNT = 2
    None = None
    Rules <- AllRules
    MaxCrashes = 2
    MaxFails = 2
SPECIFICATION FairSpec
INVARIANTS
    MemoryKept
    NothingLost
    GivenBack
PROPERTIES
    AttachSucceeds
