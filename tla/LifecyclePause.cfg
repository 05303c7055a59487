SPECIFICATION Spec
CONSTANTS
    b1 = b1
    b2 = b2
    c1 = c1
    c2 = c2
    Batches <- TwoBatches
    Callers <- TwoCallers
    Ops <- PauseOps
    Concurrency = 1
    MaxBatch = 2
    MaxJobs = 2
    AutoRun = TRUE
    Cancellable = TRUE
SYMMETRY Symmetric
INVARIANTS NothingRunsWhenHalted PausingHasFinisher PauseErrorsDocumented
PROPERTIES WaitDrains
CHECK_DEADLOCK FALSE
