SPECIFICATION Spec
CONSTANTS
    k1 = k1
    k2 = k2
    Keys <- TwoKeys
    Commands <- OneOfEachKind
    ReduceOnly <- SecondKey
    NoCommand = NoCommand
    MaxCommands = 2
    MaxChanges = 1
    MaxCrashes = 1
INVARIANTS
    EmergencyFreezeExecuted
CHECK_DEADLOCK FALSE
