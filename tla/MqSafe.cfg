SPECIFICATION Spec
VIEW MCView
SYMMETRY MCSymmetry
CHECK_DEADLOCK FALSE
CONSTANTS
    r1 = r1
    r2 = r2
    Threads <- MCReceivers
    Receivers <- MCReceivers
    Priorities = {1, 2}
    Prio <- MCPrio
    s1 = s1
    s2 = s2
    a = a
    b = b
    Senders = {s1, s2}
    Nodes = {n1, n2}
    Null = Null
    NoValue = NoValue
    Flag = "PRIO"
    Values = {a, b}
    Times = {"none", "timed", "forever"}
    Patient = TRUE
INVARIANTS
    Consistent
    NoMessageWasted
PROPERTIES
    IsFifo
