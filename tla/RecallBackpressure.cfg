SPECIFICATION FairSpec
CONSTANTS
    Requests = {r1, r2, r3}
    Keys = {k1}
    Facts = {f1}
    Worker = worker
    Mutators = {worker}
    MaxMutations = 3
    Rewrites = FALSE
    QueueSize = 1
    Faults = FALSE
    MaxWrites = 3
    None = None
PROPERTIES
    InvalidateReturns
CHECK_DEADLOCK FALSE
