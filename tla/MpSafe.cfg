SPECIFICATION Spec
SYMMETRY MCSymmetry
CHECK_DEADLOCK FALSE
CONSTANTS
    t1 = t1
    t2 = t2
    t3 = t3
    Threads <- MCThreads
    Priorities = {1}
    Prio <- MCPrio
    Blocks = {b1, b2}
    Times = {"none", "timed", "forever"}
    MaxCount = 5
    MayDetach = TRUE
INVARIANTS
    Consistent
    NoBlockWasted
