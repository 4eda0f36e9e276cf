SPECIFICATION Spec
CONSTANTS
    NoOperation = NoOperation
    NoWorker = NoWorker
    Operations = {k1, k2, k3, k4}
    Workers = {p1}
    Kinds <- NormalAndReplay
    MaxPosition = 2
    MaxFence = 3
    LateSubmissions = FALSE
SYMMETRY Interchangeable
INVARIANTS LosingIntentCanBeReplaced
CHECK_DEADLOCK FALSE
