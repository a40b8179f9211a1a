SPECIFICATION MCSpec
CONSTANTS
    Indexers = {i1}
    Searches = {s1}
    v = v
    w = w
    empty = empty
    Contents = {v, w, empty}
    FileStates = {v, w, empty, None}
    Chunks <- SomeChunks
    MaxGenerations = 2
    None = None
    f1 = f1
    f2 = f2
    d1 = d1
    Files = {f1, f2}
    Folders = {d1, hidden}
    Folder <- FolderDef
    Hidden = {hidden}
    Texts = {c1, c2}
    MaxRuns = 2
    MaxEdits = 2
    MaxFaults = 1
    Old = Old
    Requests = {r1, r2}
    NumPages = 1
    TTL = 1
    Timeout = 1
    MaxScans = 2
    MaxWrites = 1
    MaxTime = 3
INVARIANTS
    PublicationIsSound
    FoldersFollow
    InventoryIsSound
PROPERTIES
    DocumentsAnswered
CHECK_DEADLOCK FALSE
