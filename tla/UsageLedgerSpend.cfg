SPECIFICATION Spec
CONSTANTS
    Events = {e1, e2}
    alice = alice
    device = device
    NoName = NoName
    Callers <- UserCallers
    Costs <- MCCosts
    Prices <- OnePrice
    Runs = {n1}
    MonthDays = 1
    Retention = 2
    DayRetention = 2
    SealBatch = 2
    ChunkRows = 2
    MaxLate = 1
    MaxDay = 3
SYMMETRY EventSymmetry
INVARIANTS SpendIsCost
CHECK_DEADLOCK FALSE
