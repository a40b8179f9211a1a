SPECIFICATION MCSpec
CONSTANTS
    Handlers = {h1}
    ns1 = ns1
    ns2 = ns2
    text1 = text1
    text2 = text2
    Namespaces = {ns1, ns2}
    Texts = {text1}
    Similar = {}
    NumStripes = 64
    Stripe <- TwoStripes
    LifeArgs <- SomeLifeArgs
    MaxBatch = 1
    Selected = {p1, p2}
    MaxSnapshots = 2
    Writers = {"purge"}
    None = None
INVARIANTS
    Recoverable
    SuccessMeansGone
    JournalStaysReadable
PROPERTIES
    JournalKeepsRecord
CHECK_DEADLOCK FALSE
