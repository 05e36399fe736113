SPECIFICATION QueueSpec
CONSTANTS
    t1 = t1
    t2 = t2
    Idle = Idle
    NULL = NULL
    Task = {t1, t2, Idle}
    TopPriority = 1
    TickRange = 4
    OverflowRange = 2
    uxLength = 1
    Waits <- MCWaits
    Resets = {t1, t2}
    MaxPended = 1
    Delays = {}
    NewPriorities = {}
    CatchUps = {}
    MaxNesting = 0
    Mortal = {}
    Stoppable = {t1}
INVARIANTS NoWakeUpLost GivesUpInTime WaitersSleep LockedByRunner
VIEW MCView
CONSTRAINT MCPriorities
