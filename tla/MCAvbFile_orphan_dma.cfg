CONSTANTS
    Procs = {p1, p2}
    QUEUE_CNT = 2
    None = None
    Rules <- AllRules
    MaxCrashes = 1
    MaxFails = 0
SPECIFICATION Spec
INVARIANTS
    DmaSafe
