SPECIFICATION Spec
CONSTANTS
    Threads = {main, worker}
    Main = main
    Delegates = {d1}
    BadDelegate = bad
    None = None
    MaxRequests = 2
INVARIANTS NoLockCycle
CHECK_DEADLOCK FALSE
