CONSTANTS
    h1 = h1
    h2 = h2
    free = free
    pro = pro
    team = team
    NoEvent = NoEvent
    Events <- TwoEvents
    Ignorable <- None
    Handlers <- OneHandler
    Plans <- AllPlans
    FirstPlan = free
    OverridePlan = team
    PlanOf <- CheckoutThenCancel
    MaxFailures = 1
SPECIFICATION Spec
INVARIANTS
    ReplaySafe
CHECK_DEADLOCK FALSE
