SPECIFICATION FairSpec
CONSTANTS
    r1 = r1  r2 = r2  r3 = r3  w1 = w1  w2 = w2
    NoRequest = NoRequest
    Requests = {r1}
    Workspaces = {w1}
    WorkspaceOf <- OneRequest
    Workers = {p1, p2}
    Estimates = {1, 2, 3}
    AutoExecuteBytes = 2
    HardBytes = 2
    WorkspaceDailyBytes = 2
    ProjectMonthlyBytes = 3
    WorkspaceConcurrency = 2
    GlobalConcurrency = 2
    ProviderMaximum = 2
    ByteCounts = {1, 2}
    Reports <- BothOrBilled
    LeaseTime = 1
    MaxTime = 2
    DayStart <- EveryTwoTicks
    MonthStart <- EveryFourTicks
INVARIANTS AtMostOneSubmission SettlementIsTrue
PROPERTIES SettledOnce EndedJobIsSettled
CHECK_DEADLOCK FALSE
