SPECIFICATION AccountsSpec
CONSTANTS
    Renewals = {c1, c2}
    Visits = {q1}
    NoKey = NoKey
    FreeAccess = 2
    Recovery = 3
    SealFor = 2
    LifecycleTtl = 1
    MaxRequest = 1
    MaxLost = 1
    LastHour = 3
INVARIANTS UnnamedKeysRetired
CHECK_DEADLOCK FALSE
