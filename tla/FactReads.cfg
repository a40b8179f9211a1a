SPECIFICATION MCSpec
CONSTANTS
    NumFacts = 3
    Score <- MCScore
    Payloads <- MCPayloads
    Limit = 1
    Window = 2
    RankLimit = 3
    LastDay = 2
    MaxChanges = 1
    None = None
    Ids = {1, 2, 3, 4}
    Asked = 2
    MaxFetched = 3
    MaxQueued = 3
    MaxLinks = 3
    MaxViewChanges = 1
    Views <- MCViews
    Similarity <- MCSimilarity
    Points = {1, 2, 3, 4, 5}
    Vectors = {"a", "b", "far"}
    Threshold = 1
    PageSize = 2
    MaxScanned = 4
    MaxNodes = 3
    MaxPairs = 2
    MaxPointChanges = 1
    Other = Other
INVARIANTS
    RecallIsFaithful
    ReadsAgree
    ViewsAreTrue
CHECK_DEADLOCK FALSE
