SPECIFICATION FairSpec
CONSTANTS
    Metrics = {m1}
    Workers = {w1, w2}
    Startup = w1
    None = None
    MaxTimers = 4
    MaxUploads = 2
    MaxEvents = 2
INVARIANTS TypeOK PostedAtMostOnce UploadsGoOn
PROPERTIES MetricsGetUploaded
CHECK_DEADLOCK FALSE
