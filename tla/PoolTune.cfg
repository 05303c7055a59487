SPECIFICATION Spec
CONSTANTS
    e1 = e1
    e2 = e2
    e3 = e3
    g1 = g1
    g2 = g2
    g3 = g3
    c1 = c1
    Nil = Nil
    Elems <- ThreeElems
    Goroutines <- ThreeGoroutines
    Callers <- OneCaller
    Expiries = {FALSE}
    Ratio = 0
    Limits = {1, 3}
    Costs = {1, 9}
    SpawnNanos = 2
    HandoffGap = 2
    MaxBatch = 2
    MaxJobs = 3
    MaxCalls = 1
SYMMETRY Symmetric
INVARIANT OneComesBack
CHECK_DEADLOCK FALSE
