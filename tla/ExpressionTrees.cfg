SPECIFICATION TreeSpec
CONSTANTS
    r0 = r0
    r1 = r1
    r2 = r2
    Unsupported = Unsupported
    Missing = Missing
    Err = Err
    Reading = "unsigned"
    Width = 4
    ByteWidth = 2
    StackSize = 4
    RegValue <- MCRegValue
    Memory <- MCMemory
    Trees <- MCTrees
    Height <- MCHeight
    Programs = {}
    InitialStack <- MCInitialStack
CHECK_DEADLOCK FALSE
INVARIANTS TypeOK ExpressionValue
PROPERTIES EvaluationEnds
