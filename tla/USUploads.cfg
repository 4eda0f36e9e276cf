CONSTANTS
    Sessions = {"s1", "s2"}
    Workers = {"w1", "w2"}
    Contents = {"c1"}
    Names = {"a", "b"}
    MaxFaults = 1
SPECIFICATION FairSpec
INVARIANTS
    UploadedHasObject
    ReportedNewOnce
PROPERTIES
    CompletionStands
    RetriedUploadCompletes
CHECK_DEADLOCK FALSE
