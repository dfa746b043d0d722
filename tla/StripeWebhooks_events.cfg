CONSTANTS
    h1 = h1
    h2 = h2
    free = free
    pro = pro
    team = team
    NoEvent = NoEvent
    Events <- TwoEvents
    Ignorable <- NoneOrSecond
    Handlers <- TwoHandlers
    Plans <- AllPlans
    FirstPlan = free
    OverridePlan = team
    PlanOf <- CheckoutThenCancel
    MaxFailures = 1
SPECIFICATION FairSpec
INVARIANTS
    TypeOK
    NoEventLost
    MismatchIsVisible
    LatestEventWins
PROPERTIES
    EventsTakeEffect
CHECK_DEADLOCK FALSE
