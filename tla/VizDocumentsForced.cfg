SPECIFICATION Spec
CONSTANTS
    Requests = {r1, r2, r3}
    NumPages = 1
    TTL = 1
    Timeout = 1
    MaxScans = 2
    MaxWrites = 1
    MaxTime = 3
    None = None
INVARIANTS
    RefreshBypassesCache
CHECK_DEADLOCK FALSE
