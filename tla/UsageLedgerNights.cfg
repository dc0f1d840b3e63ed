SPECIFICATION Spec
CONSTANTS
    Events = {e1, e2}
    alice = alice
    device = device
    NoName = NoName
    Callers <- Nobody
    Costs <- OneCost
    Prices <- NoPrices
    Runs = {n1, n2}
    MonthDays = 2
    Retention = 2
    DayRetention = 2
    SealBatch = 1
    ChunkRows = 1
    MaxLate = 1
    MaxDay = 4
SYMMETRY RunSymmetry
INVARIANTS CountedOnce
PROPERTIES TotalsOnlyMoveByEvents
CHECK_DEADLOCK FALSE
