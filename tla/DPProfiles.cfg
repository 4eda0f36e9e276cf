CONSTANTS
    Uploads = {1, 2}
    Files = {"f1", "f2"}
    Datasets = {"d1", "d2"}
    Questions = {"q1", "q2"}
    Workers = {w1, w2}
    SchemaOf <- OneSchema
    QuestionsOf <- MoreQuestions
    Deliveries <- AllTables
    MaxAttempts <- AttemptBound
    MaxRuleVersion = 2
    Governed = {"d2"}
    AllRejected = {"f2"}
    MaxFaults <- FaultBound
    Stages = {"BOTH"}
SYMMETRY Symmetry
SPECIFICATION Spec
INVARIANTS
    AssociatedIsProfiled
CHECK_DEADLOCK FALSE
