SPECIFICATION Spec
CONSTANTS
    x1 = x1
    x2 = x2
    None = None
    Nodes <- OneNode
    MaxJobs = 3
    MaxBatch = 2
    MaxCloses = 1
    MaxPurges = 0
    MaxOwed = 2
SYMMETRY Symmetric
PROPERTIES StartsInOrder
CHECK_DEADLOCK FALSE
