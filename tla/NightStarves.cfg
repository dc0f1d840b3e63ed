SPECIFICATION NightSpec
CONSTANTS
    Deployments <- MCBothOnDefault
    FixedCosts = {3, 6, 7}
    AccountPass = 21
    SealBudget = 7
    SealStatements = 3
    ChunkStatements = 3
    MonthStatements = 3
    FoldReserve = 9
    MaxArrivals = 3
    MaxNightFailures = 0
INVARIANTS CompactionNotStarved
CHECK_DEADLOCK FALSE
