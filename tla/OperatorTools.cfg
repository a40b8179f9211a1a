SPECIFICATION MCSpec
SYMMETRY Symmetry
CONSTANTS
    Ids = {t1, t2, i3, i4}
    Facts = {a1, a2, b, bad}
    TargetOf <- TargetDef
    MaxWrites = 1
    MaxRuns = 2
    None = None
    t1 = t1
    t2 = t2
    i3 = i3
    i4 = i4
    a1 = a1
    a2 = a2
    b = b
    bad = bad
    NumPoints = 2
    MaxAnalyses = 1
    MaxFactWrites = 1
    MaxCommands = 3
    Unset = Unset
    Active = Active
    Torn = Torn
    Procs = {server, indexer}
    FromColl = source
    ToColl = target
    Models = {m1, m2}
    FirstModel = m1
    Vecs = {q1}
    MaxVectorWrites = 1
    MaxStarts = 3
    NumChanges = 2
    Journals = {j1, j2}
    MaxGroupings = 3
    MaxFactEdits = 1
    Kind <- KindDef
    Sets = {1, 2, 3}
    Old = {3}
    Keep = 2
    MaxOps = 4
    MaxEdits = 1
    MaxFaults = 1
INVARIANTS
    NoFactIsLost
    CompleteRunsSettle
    CommandsAreTrue
    VectorsMatchIdentity
    GroupingIsTrue
    BundleIsWhole
PROPERTIES
    AcceptedCopyIsExact
CHECK_DEADLOCK FALSE
