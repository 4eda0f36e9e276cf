SPECIFICATION DimensionSpec
CONSTANTS
    Members = {m1}
    Tracked = {x, y}
    Untracked = {u}
    Types = {"SCD2"}
    MaxInstant = 4
    MaxEvents = 4
    FactTimes = {}
INVARIANTS AsOfValuesAgree
CHECK_DEADLOCK FALSE
