SPECIFICATION FairSpec
CONSTANTS
    b1 = b1
    b2 = b2
    c1 = c1
    c2 = c2
    Batches <- OneBatch
    Callers <- OneCaller
    Ops <- AnyOp
    Concurrency = 1
    MaxBatch = 2
    MaxJobs = 2
    AutoRun = FALSE
    Cancellable = FALSE
PROPERTIES NoLostWakeup HaltsComplete NoMissedBroadcast
CHECK_DEADLOCK FALSE
