SPECIFICATION BillingSpec
CONSTANTS
    Askers = {q1, q2, q3}
    Nobody = Nobody
    AccessTtl = 2
    Retry = 1
    StaleMax = 2
    MaxCall = 1
    MaxPlanChanges = 1
    LastMoment = 4
INVARIANTS InvalidationForgets
CHECK_DEADLOCK FALSE
