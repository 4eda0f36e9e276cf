SPECIFICATION Spec
CONSTANTS
    r1 = r1  r2 = r2  r3 = r3  w1 = w1  w2 = w2
    NoRequest = NoRequest
    Requests = {r1, r2, r3}
    Workspaces = {w1, w2}
    WorkspaceOf <- TwoWorkspaces
    Workers = {p1}
    Estimates = {1, 2}
    AutoExecuteBytes = 2
    HardBytes = 2
    WorkspaceDailyBytes = 2
    ProjectMonthlyBytes = 3
    WorkspaceConcurrency = 2
    GlobalConcurrency = 2
    ProviderMaximum = 2
    ByteCounts = {1, 2}
    Reports <- OnlyBilled
    LeaseTime = 1
    MaxTime = 2
    DayStart <- EveryTick
    MonthStart <- EveryTwoTicks
INVARIANTS DailyBudgetHolds ProviderSpendWithinDaily MonthlyBudgetHolds ConcurrencyHolds
PROPERTIES LedgerImplemented
CHECK_DEADLOCK FALSE
SYMMETRY RequestSymmetry
