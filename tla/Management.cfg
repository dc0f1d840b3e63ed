SPECIFICATION ManagementSpec
CONSTANTS
    Commands = {c1, c2}
    Nothing = Nothing
    MaxToken = 3
    MaxFile = 3
    MaxBreakers = 1
    Kinds = {"plain", "key", "bootstrap"}
    MaxRuns = 3
    MaxKills = 1
    MaxFaults = 1
    Renewals = {c1, c2}
    Visits = {q1}
    NoKey = NoKey
    FreeAccess = 2
    Recovery = 3
    SealFor = 2
    LifecycleTtl = 1
    MaxRequest = 1
    MaxLost = 1
    LastHour = 4
INVARIANTS OneTokenAtATime WorkIsRecoverable WorkIsDoneOnce KeyIsKept
    OnlyNamedKeyWorks NothingOutlivesAccount
PROPERTIES RunsEnd NeverAdmittedLate
CHECK_DEADLOCK FALSE
