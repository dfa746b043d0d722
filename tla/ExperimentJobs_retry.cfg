CONSTANTS
    p1 = p1
    i1 = i1
    w1 = w1
    w2 = w2
    u1 = u1
    h1 = h1
    h2 = h2
    NoRow = NoRow
    Plans <- OnePlan
    Items <- OneItem
    PlanOf <- InOnePlan
    Jobs <- TwoJobs
    Workers <- OneWorker
    Requests <- OneRequest
    Users <- OneUser
    MaxAttempts = 2
    QueueLimit = 1
    ConcurrencyLimit = 1
    ComputeLimit = 1
    MaxFaults = 1
SPECIFICATION FairSpec
PROPERTY RequeuedRuns
CHECK_DEADLOCK FALSE
