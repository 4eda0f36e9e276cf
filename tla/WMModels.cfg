SPECIFICATION Spec
CONSTANTS
    Keys = {k1, k2}
    Values = {a, b}
    MaxTime = 2
    MaxDeliveries = 3
    MaxRevisions = 2
    Members = {m1}
    Tracked = {x, y}
    Untracked = {u, v}
    Types = {"SCD1", "SCD1_UNTIMED", "SCD2"}
    MaxInstant = 3
    MaxEvents = 3
    FactTimes = {2}
SYMMETRY Interchangeable
INVARIANTS FactsMirrorRows HistoryIsEvidence SkippedReferencesAreCurrent
PROPERTIES ReplayIsIdentity LateDeliveryNeverRewinds
CHECK_DEADLOCK FALSE
