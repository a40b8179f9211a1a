SPECIFICATION MCSpec
CONSTANTS
    NumProjects = 2
    Words = {w1, w2}
    MaxPerRun = 1
    MaxTexts = 6
    MaxChanges = 2
    MaxFaults = 1
    None = None
    NumFacts = 3
    PageSize = 2
    MaxPublished = 1
INVARIANTS
    CatalogIsKept
    SeenWasProposed
PROPERTIES
    PaidOnce
    PublishedOnCurrentFacts
    SweepsFinish
CHECK_DEADLOCK FALSE
