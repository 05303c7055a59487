SPECIFICATION FairSpec
CONSTANTS
    x1 = x1
    x2 = x2
    None = None
    Nodes <- OneNode
    MaxJobs = 2
    MaxBatch = 2
    MaxCloses = 2
    MaxPurges = 0
    MaxOwed = 2
INVARIANTS HeldRemembered
PROPERTIES NoneForgotten
CHECK_DEADLOCK FALSE
