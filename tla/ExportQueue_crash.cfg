CONSTANTS
    w1 = w1
    h1 = h1
    k1 = k1
    k2 = k2
    NoRow = NoRow
    Keys <- TwoKeys
    KeyOf <- SharedKey
    Workers <- OneWorker
    Handlers <- OneHandler
    Exports <- TwoExports
    RetryBudget = 2
    MaxRetries = 0
    MaxCrashes = 3
    Crashing <- OneWorker
    SlowRuns = FALSE
SPECIFICATION Spec
INVARIANTS
    NothingStranded
    DownloadServesUnlessShared
CHECK_DEADLOCK FALSE
