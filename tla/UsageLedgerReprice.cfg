SPECIFICATION Spec
CONSTANTS
    Events = {e1, e2}
    alice = alice
    device = device
    NoName = NoName
    Callers <- Nobody
    Costs <- OneCost
    Prices <- OnePrice
    Runs = {n1}
    MonthDays = 1
    Retention = 1
    DayRetention = 2
    SealBatch = 2
    ChunkRows = 2
    MaxLate = 0
    MaxDay = 2
SYMMETRY EventSymmetry
PROPERTIES RepricesItsMonth
CHECK_DEADLOCK FALSE
