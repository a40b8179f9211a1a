SPECIFICATION MCSpec
CONSTANTS
    Handlers = {h1, h2}
    ns1 = ns1
    ns2 = ns2
    text1 = text1
    text2 = text2
    Namespaces = {ns1, ns2}
    Texts = {text1, text2}
    Similar <- AllSimilar
    NumStripes = 64
    Stripe <- TwoStripes
    LifeArgs <- SomeLifeArgs
    MaxBatch = 2
    Selected = {p1}
    MaxSnapshots = 0
    Writers = {"server"}
    None = None
SYMMETRY Symmetry
INVARIANTS
    MutationsAreSound
    NoCircularWait
PROPERTIES
    QuarantineUntouched
CHECK_DEADLOCK FALSE
