SPECIFICATION AttemptsSpec
CONSTANTS
    v1 = v1
    v2 = v2
    NoValue = NoValue
    Contents <- MCContents
    LongValues <- MCLongValues
    RetryBudget = 1
    MaxTasks = 2
    MaxRecords = 2
INVARIANTS
    LiveIsEvidence
PROPERTIES
    SettledOnce
CHECK_DEADLOCK FALSE
