SPECIFICATION FairSpec
CONSTANTS
    Threads = {main}
    Main = main
    Delegates = {d1, d2}
    BadDelegate = bad
    None = None
    MaxRequests = 2
INVARIANTS TypeOK OneTransactionPerManager ResponsesMatchRequests AnswersGoToTheAskingDelegate
PROPERTIES ClientKeepsItsPromise EveryCallIsAnswered
