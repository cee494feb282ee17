SPECIFICATION Spec
CONSTANTS
    Threads = {main, worker}
    Main = main
    Delegates = {d1}
    BadDelegate = bad
    None = None
    MaxRequests = 2
INVARIANTS DelegateCallsExcludeEachOther
PROPERTIES setDelegateWaitsForCallback
CHECK_DEADLOCK FALSE
