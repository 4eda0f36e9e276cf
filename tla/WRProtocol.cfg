SPECIFICATION Spec
CONSTANTS
    NoOperation = NoOperation
    NoWorker = NoWorker
    Operations = {k1, k2}
    Workers = {p1, p2}
    Kinds <- EveryKind
    MaxPosition = 1
    MaxFence = 2
    LateSubmissions = TRUE
SYMMETRY Interchangeable
INVARIANTS ProgressIsChain UnresolvedKeepsResource PublishedWasApplied
PROPERTIES ManualReviewStopsResource
CHECK_DEADLOCK FALSE
