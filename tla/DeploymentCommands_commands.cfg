SPECIFICATION FairSpec
CONSTANTS
    k1 = k1
    k2 = k2
    Keys <- TwoKeys
    Commands <- OneOfEachKind
    ReduceOnly <- SecondKey
    NoCommand = NoCommand
    MaxCommands = 3
    MaxChanges = 1
    MaxCrashes = 1
INVARIANTS
    TypeOK
    FreezeHolds
PROPERTIES
    ExecutesInOrder
    CriticalBlocksOrders
    CommandsEnd
    FreezeTakesEffect
CHECK_DEADLOCK FALSE
