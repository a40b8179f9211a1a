SPECIFICATION Spec
CONSTANTS
    Requests = {r1, r2}
    Facts = {f1}
    QueueSize = 1
    Faults = FALSE
    Rewrites = FALSE
    None = None
INVARIANTS
    StopDrains
CHECK_DEADLOCK FALSE
