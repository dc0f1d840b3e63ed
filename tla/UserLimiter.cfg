SPECIFICATION LimiterSpec
CONSTANTS
    CounterWindow = 2
    MaxSafeInteger = 2
    MinuteLen = 2
    DayLen = 4
    MonthLen = 4
    Calls = {c1, c2, c3}
    Counters <- MCCounters
    Keys = {install, user}
    Spender = install
    Limits <- MCLimits
    Refresh = 2
    MaxLedgers = 1
    MaxClock = 5
    MaxLag = 1
    MaxRead = 1
    MaxSpend = 1
    Askers = {c1, c2, c3}
    Nobody = Nobody
    AccessTtl = 2
    Retry = 1
    StaleMax = 2
    MaxCall = 1
    MaxPlanChanges = 1
    LastMoment = 4
SYMMETRY MCSymmetry
INVARIANTS AssertionAcceptedOnce BudgetRefusalIsDue PlanIsRecent EndedPlanIsOver FreshAfterInvalidation
PROPERTIES NeverOvershot BudgetSettles AskedOncePerRetry
CHECK_DEADLOCK FALSE
