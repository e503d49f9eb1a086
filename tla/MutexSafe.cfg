SPECIFICATION Spec
CHECK_DEADLOCK FALSE
CONSTANTS
    t1 = t1
    t2 = t2
    t3 = t3
    NoThread = NoThread
    Threads <- MCThreads
    Priorities = {1, 2, 3}
    Prio <- MCPrio
    Flag = "PRIO"
    Mutexes = {"m1"}
    HoldRange = 4
    MaxNest = 9
    Times = {"none", "timed", "forever"}
    Careful = TRUE
INVARIANTS
    Consistent
    MutualExclusion
    PriorityInherited
    PriorityRestored
