SPECIFICATION FairSpec
CONSTANTS
    t1 = t1
    t2 = t2
    Idle = Idle
    NULL = NULL
    Task = {t1, t2, Idle}
    TopPriority = 1
    TickRange = 3
    MaxPended = 1
    Delays = {0, 1, 2}
    NewPriorities = {}
    CatchUps = {}
    MaxNesting = 0
    Mortal = {}
    Stoppable = {t1}
PROPERTIES SleepersWake EqualShare
