SPECIFICATION Spec
SYMMETRY MCSymmetry
VIEW MCView
CONSTANTS
    a = a
    b = b
    c = c
    Timers <- ThreeTimers
    TickRange = 10
    InitTicks = {0, 2}
    MaxDelay = 1
    Callbacks = {"nothing", "stop", "startOther"}
    ControlRunning = FALSE
INVARIANTS
    Consistent
PROPERTIES
    OnTime
    CheckProgresses
