SPECIFICATION NotifySpec
CONSTANTS
    t1 = t1
    t2 = t2
    Idle = Idle
    NULL = NULL
    Task = {t1, t2, Idle}
    TopPriority = 1
    TickRange = 3
    Waits = {1, 2}
    Listeners = {t1}
    MaxNotified = 1
    MaxPended = 1
    Delays = {}
    NewPriorities = {}
    CatchUps = {}
    MaxNesting = 1
    Mortal = {}
    Stoppable = {t1}
INVARIANTS OneHome StoppedTasksAreKnown NotifiedIsWoken EventItemFree
