SPECIFICATION Spec
CONSTANTS
    Projects = {p1}
    Contents = {c1, c2}
    OperationIds = {id1}
    Reasons = {r1}
    MaxSnapshots = 2
    MaxRevision = 1
    None = None
INVARIANTS DeniedNeverHappened
CHECK_DEADLOCK FALSE
