SPECIFICATION CleanupSpec
CONSTANTS
    LastApp = 2
    Retentions <- MCRetentions
    PageSize = 1
    Share = 7
    MaxChanges = 2
    MaxFailures = 1
    MaxDay = 2
    Policies <- MCPolicies
    AlarmFailures = 1
    Requested = 5
    MaxInstant = 8
    Records = {1, 2, 3}
    Days <- MCDays
    Chars <- MCChars
    FlushChars = 2
    MaxBatchChars = 2
    AlarmRetries = 2
    MaxFaults = 2
    MaxCrashes = 1
    Deployments <- MCDeployments
    FixedCosts = {3, 6, 7}
    AccountPass = 21
    SealBudget = 7
    SealStatements = 3
    ChunkStatements = 3
    MonthStatements = 3
    FoldReserve = 9
    MaxArrivals = 3
    MaxNightFailures = 1
INVARIANTS WrittenOnce MediaKeptWithNames SharesHeld
PROPERTIES HandedOverIsWritten KeptDaysStay ExpiredIsDeleted WindowHeld DormantStoresNothing BacklogDrains
CHECK_DEADLOCK FALSE
