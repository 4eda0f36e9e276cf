SPECIFICATION Spec
CONSTANTS
    d1 = d1  k1 = k1  k2 = k2  m1 = m1  c1 = c1  c2 = c2
    Datasets = {d1}
    Dimensions = {d1}
    Corrections <- First
    Keys = {k1, k2}
    Histories <- Overlapping
    MaxPublications = 2
    Materializers = {m1}
    Refreshers = {c1, c2}
    Rollouts = {"SHADOW", "PRIMARY"}
    MaxAttempts = 2
    MaxFaults = 1
INVARIANTS ServedIsPinned NoFalseMismatch ResultIsOfItsPlan
CHECK_DEADLOCK FALSE
SYMMETRY MCSymmetry
