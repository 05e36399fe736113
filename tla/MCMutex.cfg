SPECIFICATION MutexSpec
CONSTANTS
    t1 = t1
    t2 = t2
    t3 = t3
    Idle = Idle
    NULL = NULL
    Task = {t1, t2, t3, Idle}
    TopPriority = 2
    TickRange = 3
    OverflowRange = 2
    uxLength = 1
    MaxDepth = 2
    Waits <- MCWaits
    Resets = {}
    MaxPended = 0
    Delays = {1}
    NewPriorities = {}
    CatchUps = {}
    MaxNesting = 0
    Mortal = {}
    Stoppable = {}
INVARIANTS OneHolder HolderCarriesWaiters NoStrayPriority NoWakeUpLost
VIEW MCView
CONSTRAINTS MCThree MCNests
