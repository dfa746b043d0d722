CONSTANTS
    w1 = w1
    h1 = h1
    k1 = k1
    k2 = k2
    NoRow = NoRow
    Keys <- TwoKeys
    KeyOf <- OwnKeys
    Workers <- OneWorker
    Handlers <- OneHandler
    Exports <- OneExport
    RetryBudget = 2
    MaxRetries = 1
    MaxCrashes = 1
    Crashing <- OneWorker
    SlowRuns = TRUE
SPECIFICATION FairSpec
INVARIANTS
    TypeOK
PROPERTIES
    ExportsSettle
CHECK_DEADLOCK FALSE
