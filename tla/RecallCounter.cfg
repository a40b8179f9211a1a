SPECIFICATION CounterSpec
CONSTANTS
    Requests = {r1, r2}
    Keys = {k1}
    Mutators = {worker}
    MaxWrites = 0
    MaxMutations = 0
    First = r1
    Worker = worker
    Facts = {f1, f2}
    QueueSize = 1
    Faults = TRUE
    Rewrites = TRUE
    None = None
INVARIANTS
    CountsAreTrue
PROPERTIES
    WorkerExits
CHECK_DEADLOCK FALSE
