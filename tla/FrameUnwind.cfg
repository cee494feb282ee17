SPECIFICATION Spec
CONSTANTS
    Programs <- MCPrograms
    Layouts <- MCLayouts
    MaxDepth = 3
    StackTop = 80
    StackSize = 20
    HeaderAddr = 1000
    PageSize = 40
CHECK_DEADLOCK FALSE
INVARIANTS TypeOK FramesAreReal NoFrameIsMissing LookupFindsTheFunction RegistersRoundTrip
