CONSTANTS
    h1 = h1
    h2 = h2
    t1 = t1
    t2 = t2
    t3 = t3
    d1 = d1
    x1 = x1
    NoText = NoText
    None = None
    Handlers <- TwoHandlers
    Tokens <- ThreeTokens
    Desk <- OneDesk
    Texts <- OneText
    ShareLimit = 1
    MaxResults = 2
    MaxRequests = 5
    MaxCrashes = 1
SPECIFICATION Spec
SYMMETRY Symmetry
INVARIANTS
    TypeOK
    SnapshotsSound
    QuotaOverrunBounded
    ApprovedTextVouched
    DeskAgrees
CHECK_DEADLOCK FALSE
