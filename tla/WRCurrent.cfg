SPECIFICATION Spec
CONSTANTS
    NoOperation = NoOperation
    NoWorker = NoWorker
    Operations = {k1, k2}
    Workers = {p1, p2}
    Kinds <- NormalAndBackfill
    MaxPosition = 1
    MaxFence = 3
    LateSubmissions = FALSE
SYMMETRY Interchangeable
INVARIANTS SubmittedStaysCurrent
PROPERTIES LogImplemented
CHECK_DEADLOCK FALSE
