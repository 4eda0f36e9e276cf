CONSTANTS
    Uploads = {1, 2}
    Workers = {w1, w2}
    Refreshers = {r1, r2}
    Strategies = {"APPEND", "SNAPSHOT"}
    RuleTables <- RulesOfDeliveries
    ExactRules = {2, 3}
    ExactEnabled = TRUE
    MaxPolicies = 2
    MaxStates = 3
    MaxFaults = 1
    Scales = {1}
    MaxBuilds = 2
SYMMETRY Interchangeable
SPECIFICATION GoldSpec
INVARIANTS
    NoLostDelivery
    PublishedIsChain
    AppliedOnce
    FreshIsCurrent
PROPERTIES
    ArchivedStaysOut
    PublishedGoldIsFinal
CHECK_DEADLOCK FALSE
