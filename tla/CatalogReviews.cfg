SPECIFICATION MCSpec
CONSTANTS
    Projects = {p1}
    Contents = {c1, c2}
    OperationIds = {id1}
    Reasons = {r1}
    MaxSnapshots = 3
    MaxRevision = 2
    None = None
    Clients = {a1, a2}
    Entries = {e1}
    Verdicts = {v1, v2}
    MaxAssessments = 2
    MaxFaults = 2
    MaxEdits = 1
    Torn = Torn
SYMMETRY Symmetry
INVARIANTS ReceiptsAreTrue RestoreIsProtected AssessmentsAreKept
PROPERTIES PointerObeysRules
CHECK_DEADLOCK FALSE
