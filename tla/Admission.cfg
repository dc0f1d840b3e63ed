SPECIFICATION GateSpec
CONSTANTS
    MinuteLen = 1
    DayLen = 2
    MonthLen = 1
    Requests = {r1, r2}
    Installs = {device}
    Users = {alice}
    NoUser = NoUser
    Configs <- MCConfigs
    Schedules = {free}
    PlanLimits <- MCPlanLimits
    MaxClock = 1
    Isolates = {i1, i2}
    Lookups = {r1, r2}
    RowCaches = {"app", "account", "blocked", "apiKey"}
    HitTtl = 2
    MissTtl = 1
    ReadTime = 1
    MaxChanges = 1
    MaxTime = 4
    Writers = {r1, r2}
    AppIds = {1, 2}
    Provider = provider
    OwnOrigin = own
    BaseUrls = {url}
    Ceilings <- MCCeilings
    MaxStamps = 2
    MaxPlans = 2
SYMMETRY MCSymmetry
INVARIANTS AllowanceExact SpendingOrder OwnChangeSeen TtlIsTheStaleness
    AcceptedEditsStay KeyOpens NeverAboveCeiling
PROPERTIES ChargesOnlyServed
CHECK_DEADLOCK FALSE
