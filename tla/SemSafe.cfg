SPECIFICATION FairSpec
CHECK_DEADLOCK FALSE
CONSTANTS
    t1 = t1
    t2 = t2
    t3 = t3
    Threads <- MCThreads
    Priorities = {1, 2}
    Prio <- MCPrio
    Flag = "PRIO"
    ValueRange = 4
    InitValues = {0, 1, 3}
    Times = {"none", "timed", "forever"}
    MayDetach = TRUE
    Quiesce = TRUE
INVARIANTS
    Consistent
    NoTokenWithWaiters
    TokenConservation
    AllWokenByDetach
PROPERTIES
    TakeReturns
