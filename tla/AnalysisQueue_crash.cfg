CONSTANTS
    w1 = w1
    h1 = h1
    NoRow = NoRow
    Workers <- OneWorker
    Handlers <- OneHandler
    Analyses <- OneAnalysis
    MaxAttempts = 3
    Steps = 2
    MaxRetries = 0
    MaxCrashes = 2
    SlowRuns = TRUE
    SplitUpdates = TRUE
SPECIFICATION Spec
INVARIANT TypeOK
INVARIANT JobsSound
INVARIANT CompletedJobHasReport
INVARIANT RowsAgreeWhenQuiet
INVARIANT NothingStranded
PROPERTY DeliversReports
CHECK_DEADLOCK FALSE
