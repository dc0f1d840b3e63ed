SPECIFICATION FairSpec
CONSTANTS
    HeadBytes = 1
    TailBytes = 1
    MaxAttempts = 2
    Budget = 2
    BodySizes <- MCSizes
    RetryWindow = 3
    FirstDelay = 1
    MaxDelay = 2
    ShortAttempts = 2
    RuntimeLimit = 5
    CallTime = 1
    StreamTime = 1
INVARIANTS OneEventPerContact HeadersWithinBudget RecordedAsDelivered
PROPERTIES EventsSettle
CHECK_DEADLOCK FALSE
