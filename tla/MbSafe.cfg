SPECIFICATION Spec
VIEW MCView
SYMMETRY MCSymmetry
CHECK_DEADLOCK FALSE
CONSTANTS
    s1 = s1
    s2 = s2
    r1 = r1
    r2 = r2
    a = a
    b = b
    NoValue = NoValue
    Threads <- MCThreads
    Senders <- MCSenders
    Receivers <- MCReceivers
    Priorities = {1, 2}
    Prio <- MCPrio
    Flag = "PRIO"
    Size = 2
    Values = {a, b}
    Times = {"none", "timed", "forever"}
    Patient = TRUE
INVARIANTS
    Consistent
    NoWakeupWasted
PROPERTIES
    IsFifo
