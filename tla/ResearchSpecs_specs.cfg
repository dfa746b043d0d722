CONSTANTS
    h1 = h1
    h2 = h2
    p1 = p1
    c1 = c1
    c2 = c2
    x1 = x1
    x2 = x2
    r1 = r1
    r2 = r2
    None = None
    Handlers <- TwoHandlers
    Proposals <- OneProposal
    Cards <- TwoCards
    Exports <- TwoExports
    Reports <- TwoReports
    VerdictOf <- BothVerdicts
    PineLimit = 2
    MaxVersion = 3
    MaxRequests = 6
    MaxCrashes = 1
SPECIFICATION Spec
SYMMETRY Symmetry
INVARIANTS
    TypeOK
    OneStrategyPerCard
    DecisionsSound
    TasksSound
    PineExportsSound
CHECK_DEADLOCK FALSE
