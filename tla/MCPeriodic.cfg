SPECIFICATION PeriodicSpec
CONSTANTS
    t1 = t1
    t2 = t2
    Idle = Idle
    NULL = NULL
    Task = {t1, t2, Idle}
    TopPriority = 1
    TickRange = 4
    MaxPended = 2
    Delays = {0, 3}
    NewPriorities = {}
    CatchUps = {}
    MaxNesting = 1
    Mortal = {}
    Stoppable = {t1}
    Periods <- MCPeriods
INVARIANTS TypeOK NothingLeftPending NeverLate OnTime
PROPERTY KeepsTime
CONSTRAINT MCPriorities
