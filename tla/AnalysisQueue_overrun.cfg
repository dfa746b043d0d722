CONSTANTS
    w1 = w1
    h1 = h1
    NoRow = NoRow
    Workers <- OneWorker
    Handlers <- OneHandler
    Analyses <- OneAnalysis
    MaxAttempts = 2
    Steps = 1
    MaxRetries = 1
    MaxCrashes = 1
    SlowRuns = TRUE
    SplitUpdates = TRUE
SPECIFICATION FairSpec
PROPERTY JobsSettle
PROPERTY AnalysesSettle
CHECK_DEADLOCK FALSE
