SPECIFICATION WarmSpec
CONSTANTS
    Requests = {r1, r2, r3}
    Keys = {k1}
    Facts = {f1}
    First = r1
    Worker = worker
    Mutators = {worker}
    MaxMutations = 3
    Rewrites = FALSE
    QueueSize = 1
    Faults = TRUE
    MaxWrites = 3
    None = None
INVARIANTS
    CacheShowsPersistedCounts
PROPERTIES
    ShutdownReleases
CHECK_DEADLOCK FALSE
