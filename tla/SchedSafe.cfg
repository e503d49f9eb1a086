SPECIFICATION Spec
CONSTANTS
    idle = idle
    main = main
    app = app
    worker = worker
    Threads <- MCThreads
    Idle = idle
    Managers = {main}
    Managed = {worker}
    Priorities = {0, 1, 2}
    Priority <- MCPriority
    Slice <- MCSlice
    NewPriorities = {0, 1}
    MaxNest = 2
    Careful = TRUE
    NoThread = NoThread
INVARIANTS
    Consistent
    HighestRuns
    DeadStayDead
PROPERTIES
    TurnComes
