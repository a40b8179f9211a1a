SPECIFICATION MCSpec
CONSTANTS
    DailyCalls = 3
    DailyTokens = 7
    Reservation = 3
    LastDay = 2
    Runs = {r1, r2, r3}
    MaxEvents = 2
    None = None
    StoreCalls = {c1, c2}
    QueueSize = 1
    MaxCatalogs = 2
    MaxStarts = 2
    MaxChanges = 1
    MaxFaults = 1
INVARIANTS
    BudgetHolds
    RunHistoryIsTrue
    AdviceIsFollowed
CHECK_DEADLOCK FALSE
