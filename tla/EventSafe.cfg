SPECIFICATION Spec
SYMMETRY MCSymmetry
CHECK_DEADLOCK FALSE
CONSTANTS
    t1 = t1
    t2 = t2
    t3 = t3
    e0 = e0
    e1 = e1
    Threads <- MCThreads
    Priorities = {1, 2}
    Prio <- MCPrio
    Bits = {e0, e1}
    Flag = "PRIO"
    Times = {"none", "timed"}
INVARIANTS
    Consistent
    NoSatisfiedSleeper
    ReceivedWhatWasWanted
PROPERTIES
    ClearedBitsConsumedOnce
