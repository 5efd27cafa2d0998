CONSTANTS
    Procs = {p1, p2}
    QUEUE_CNT = 2
    None = None
    Rules <- NoRule
    MaxCrashes = 0
    MaxFails = 0
SPECIFICATION Spec
INVARIANTS
    HeldIsAllocated
