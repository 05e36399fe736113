SPECIFICATION Spec
CONSTANTS
    t1 = t1
    t2 = t2
    Idle = Idle
    NULL = NULL
    Task = {t1, t2, Idle}
    TopPriority = 1
    TickRange = 2
    MaxPended = 2
    Delays = {1}
    NewPriorities = {0, 1}
    CatchUps = {1}
    MaxNesting = 1
    Mortal = {t1}
    Stoppable = {t2}
INVARIANTS OneHome SearchFinds HighestRuns CountsAgree IInv
PROPERTY NoSwitchWhileSuspended
