SPECIFICATION Spec
CONSTANTS
    Points = {p1}
    MaxSnapshots = 1
    None = None
INVARIANTS
    EvidenceKept
CHECK_DEADLOCK FALSE
