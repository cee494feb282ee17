SPECIFICATION Spec
CONSTANTS
    x = x
    y = y
    Registers <- MCRegisters
    Rules = {x}
    NoRule = NoRule
    CfaRegisters = {1}
    Offsets = {4}
    MaxStates = 2
    Buckets = 2
    MaxRegisters = 2
    CountSize = 3
    LastLocation = 1
CHECK_DEADLOCK FALSE
INVARIANTS TypeOK EntriesAreShared IterationIsComplete
PROPERTIES RowsAreKept
