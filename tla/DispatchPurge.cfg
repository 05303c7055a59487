SPECIFICATION Spec
CONSTANTS
    x1 = x1
    x2 = x2
    None = None
    Nodes <- TwoNodes
    MaxJobs = 4
    MaxBatch = 4
    MaxCloses = 1
    MaxPurges = 1
    MaxOwed = 0
SYMMETRY Symmetric
INVARIANTS ParkedInOrder JobsInOnePlace PurgeExact
PROPERTIES StartsInOrder
CHECK_DEADLOCK FALSE
