\* The writer ends with the report.
CHECK_DEADLOCK FALSE
SPECIFICATION Spec
CONSTANTS
    Images <- MCImages
    Processes <- MCProcesses
    Strategies <- MCStrategies
    MaxFrames = 2
    CacheSize = 2
    MaxFailures = 1
INVARIANTS
    CacheOK
    FramesFitTheirSize
    NearestSymbolIsNamed
