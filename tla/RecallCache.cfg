SPECIFICATION Spec
CONSTANTS
    Requests = {r1, r2, r3}
    Keys = {k1}
    Mutators = {m1, m2}
    None = None
    MaxWrites = 2
    MaxMutations = 2
SYMMETRY Symmetry
INVARIANTS
    NeverStaleCache
    NoOrphanWaiter
PROPERTIES
    ImplementsFreshness
CHECK_DEADLOCK FALSE
