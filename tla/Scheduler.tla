----------------------------- MODULE Scheduler -----------------------------
(***************************************************************************)
(* The scheduler of tasks.c as its callers see it: creating, deleting,     *)
(* delaying, suspending and resuming tasks, changing priorities, and the   *)
(* idle task.  Task notifications are in Notify.                           *)
(*                                                                         *)
(* The application calls any function with a live task at any time, but    *)
(* blocks or stops itself only while the scheduler is not suspended, as    *)
(* the assertions of these functions ask.  No mutex is held, so a task's   *)
(* priority is its base priority.                                          *)
(***************************************************************************)
EXTENDS Kernel

CONSTANTS
    Delays,          \* bound: the delays the application asks for
    NewPriorities,   \* bound: the priorities it gives to vTaskPrioritySet
    CatchUps,        \* bound: the ticks it gives to xTaskCatchUpTicks
    MaxNesting,      \* bound: how deep it nests vTaskSuspendAll
    Mortal,          \* bound: the tasks that are created and deleted at run time
    Stoppable        \* bound: the tasks that are suspended

ASSUME BoundAssumption ==
    /\ Delays \subseteq 0 .. portMAX_DELAY
    /\ NewPriorities \subseteq Priority
    /\ CatchUps \subseteq Tick
    /\ Mortal \subseteq Task \ {Idle} /\ Stoppable \subseteq Task \ {Idle}

NotListed == \* the lists other than the ready lists
    <<sleepVars, xSuspendedTaskList, xPendingReadyList, xNextTaskUnblockTime>>

Calling == At("app") /\ pxCurrentTCB # Idle
MayBlock == uxSchedulerSuspended = 0
Live == {t \in Task : memory[t] = "live"}

-----------------------------------------------------------------------------
(* Before vTaskStartScheduler: main creates tasks, with no tick running.   *)

Init ==
    /\ pxCurrentTCB = NULL
    /\ pxReadyTasksLists = [p \in Priority |-> EmptyList]
    /\ pxDelayedTaskList = {} /\ pxOverflowDelayedTaskList = {}
    /\ xItemValue = [t \in Task |-> 0]
    /\ xSuspendedTaskList = {} /\ xPendingReadyList = {}
    /\ xTasksWaitingTermination = {} /\ uxDeletedTasksWaitingCleanUp = 0
    /\ uxCurrentNumberOfTasks = 0
    /\ uxPriority = [t \in Task |-> 0] /\ uxTopReadyPriority = 0
    /\ xTickCount = 0 /\ xNextTaskUnblockTime = 0 /\ xPendedTicks = 0
    /\ xYieldPendings = FALSE /\ uxSchedulerSuspended = 0
    /\ xSchedulerRunning = FALSE
    /\ memory = [t \in Task |-> "free"]
    /\ ucNotifyState = [t \in Task |-> "none"] /\ ulNotifiedValue = [t \in Task |-> 0]
    /\ pc = [t \in Task |-> App]

(* prvAddNewTaskToReadyList, its critical section.                         *)
AddNew(t, priority) ==
    /\ uxCurrentNumberOfTasks' = uxCurrentNumberOfTasks + 1
    /\ memory' = [memory EXCEPT ![t] = "live"]
    /\ pxReadyTasksLists' = prvAddTaskToReadyList(pxReadyTasksLists, t, priority)
    /\ uxTopReadyPriority' = taskRECORD_READY_PRIORITY({t}, priority)

(* The task created last among those of the highest priority runs first.   *)
CreateBeforeStart(t, p) ==
    /\ memory[t] = "free"
    /\ uxPriority' = [uxPriority EXCEPT ![t] = p]
    /\ AddNew(t, uxPriority')
    /\ pxCurrentTCB' = IF pxCurrentTCB = NULL THEN t
                       ELSE IF uxPriority[pxCurrentTCB] <= p THEN t ELSE pxCurrentTCB
    /\ UNCHANGED <<NotListed, xTickCount, xPendedTicks, xYieldPendings, uxSchedulerSuspended,
                   xTasksWaitingTermination, uxDeletedTasksWaitingCleanUp, notifyVars, pc>>
xTaskCreateInMain ==
    /\ ~xSchedulerRunning
    /\ \E t \in Task \ {Idle}, p \in Priority : CreateBeforeStart(t, p)
    /\ UNCHANGED xSchedulerRunning

(* prvCreateIdleTasks, then the tick is started.                           *)
vTaskStartScheduler ==
    /\ ~xSchedulerRunning
    /\ xSchedulerRunning' = TRUE
    /\ memory[Idle] = "free"
    /\ AddNew(Idle, uxPriority)
    /\ pxCurrentTCB' = IF pxCurrentTCB = NULL \/ uxPriority[pxCurrentTCB] = 0
                       THEN Idle ELSE pxCurrentTCB
    /\ xNextTaskUnblockTime' = portMAX_DELAY
    /\ UNCHANGED <<sleepVars, xSuspendedTaskList, xPendingReadyList, uxPriority, xTickCount,
                   xPendedTicks, xYieldPendings, uxSchedulerSuspended, xTasksWaitingTermination,
                   uxDeletedTasksWaitingCleanUp, notifyVars, pc>>

-----------------------------------------------------------------------------
(* vTaskSuspendAll and xTaskResumeAll called by the application.           *)

SuspendAll ==
    /\ Calling /\ uxSchedulerSuspended < MaxNesting
    /\ vTaskSuspendAll
    /\ UNCHANGED <<NotListed, readyVars, xTickCount, xPendedTicks, switchVars, lifeVars, notifyVars,
                   uxPriority, pc>>
ResumeAll ==
    /\ Calling /\ uxSchedulerSuspended > 0
    /\ Goto(Resuming(App, App))
    /\ UNCHANGED <<NotListed, readyVars, xTickCount, xPendedTicks, switchVars, lifeVars, notifyVars,
                   uxPriority, uxSchedulerSuspended>>

-----------------------------------------------------------------------------
(* vTaskDelay.                                                             *)

vTaskDelay ==
    /\ Calling /\ MayBlock
    /\ \E n \in Delays :
         IF n > 0
         THEN vTaskSuspendAll /\ Goto([op |-> "delay", ticks |-> n])
         ELSE Goto(Yielding) /\ UNCHANGED uxSchedulerSuspended
    /\ UNCHANGED <<NotListed, readyVars, xTickCount, xPendedTicks, switchVars, lifeVars, notifyVars, uxPriority>>
DelaySleeps ==
    /\ At("delay")
    /\ prvAddCurrentTaskToDelayedList(pc[pxCurrentTCB].ticks, FALSE)
    /\ Goto(Resuming(App, Yielding))
    /\ UNCHANGED <<uxTopReadyPriority, xPendingReadyList, xTickCount, xPendedTicks, switchVars,
                   lifeVars, notifyVars, uxPriority, uxSchedulerSuspended>>

(* xTaskCatchUpTicks.                                                      *)
xTaskCatchUpTicks ==
    /\ Calling /\ MayBlock
    /\ \E n \in CatchUps : vTaskSuspendAll /\ Goto([op |-> "catchup", ticks |-> n])
    /\ UNCHANGED <<NotListed, readyVars, xTickCount, xPendedTicks, switchVars, lifeVars, notifyVars, uxPriority>>
CatchUpPends ==
    /\ At("catchup")
    /\ xPendedTicks' = xPendedTicks + pc[pxCurrentTCB].ticks
    /\ Goto(Resuming(App, App))
    /\ UNCHANGED <<NotListed, readyVars, xTickCount, switchVars, lifeVars, notifyVars, uxPriority,
                   uxSchedulerSuspended>>

-----------------------------------------------------------------------------
(* vTaskSuspend, in two critical sections.                                 *)

FaultyUnlink(t) ==
    /\ pxDelayedTaskList' = pxDelayedTaskList \ {t}
    /\ xPendingReadyList' = xPendingReadyList \ {t}
    /\ UNCHANGED <<pxOverflowDelayedTaskList, xItemValue>>
Unlink(t) ==
    /\ pxDelayedTaskList' = pxDelayedTaskList \ {t}
    /\ pxOverflowDelayedTaskList' = pxOverflowDelayedTaskList \ {t}
    /\ xPendingReadyList' = xPendingReadyList \ {t}
    /\ UNCHANGED xItemValue

vTaskSuspend(t) ==
    /\ Calling /\ t \in (Live \cap Stoppable) \ xTasksWaitingTermination
    /\ t = pxCurrentTCB => MayBlock
    /\ Unlink(t)
    /\ pxReadyTasksLists' = Without(pxReadyTasksLists, t)
    /\ xSuspendedTaskList' = xSuspendedTaskList \cup {t}
    /\ ucNotifyState' = [ucNotifyState EXCEPT ![t] = IF @ = "waiting" THEN "none" ELSE @]
    /\ Goto([op |-> "suspended", who |-> t])
    /\ UNCHANGED <<uxTopReadyPriority, timeVars, switchVars, lifeVars, ulNotifiedValue, uxPriority,
                   uxSchedulerSuspended>>
SuspendReturns ==
    /\ At("suspended")
    /\ UNCHANGED sleepVars
    /\ prvResetNextTaskUnblockTime
    /\ Goto(IF pc[pxCurrentTCB].who = pxCurrentTCB THEN Yielding ELSE App)
    /\ UNCHANGED <<readyVars, xSuspendedTaskList, xPendingReadyList, xTickCount, xPendedTicks,
                   switchVars, lifeVars, notifyVars, uxPriority, uxSchedulerSuspended>>

(* vTaskResume and xTaskResumeFromISR.                                     *)
FaultyprvTaskIsTaskSuspended(t) == t \in xSuspendedTaskList \ xPendingReadyList
prvTaskIsTaskSuspended(t) ==
    t \in xSuspendedTaskList \ xPendingReadyList /\ ucNotifyState[t] # "waiting"

FaultyvTaskResume(t) ==
    /\ Calling /\ t # pxCurrentTCB /\ prvTaskIsTaskSuspended(t)
    /\ xSuspendedTaskList' = xSuspendedTaskList \ {t}
    /\ Keep(prvAddTaskToReadyList(pxReadyTasksLists, t, uxPriority),
            taskRECORD_READY_PRIORITY({t}, uxPriority))
    /\ UNCHANGED <<sleepVars, timeVars, xPendingReadyList, lifeVars, notifyVars, uxPriority,
                   uxSchedulerSuspended, pc>>
vTaskResume(t) ==
    /\ Calling /\ t # pxCurrentTCB /\ prvTaskIsTaskSuspended(t)
    /\ xSuspendedTaskList' = xSuspendedTaskList \ {t}
    /\ LET lists == prvAddTaskToReadyList(pxReadyTasksLists, t, uxPriority)
           top   == taskRECORD_READY_PRIORITY({t}, uxPriority)
       IN  IF uxPriority[pxCurrentTCB] < uxPriority[t] THEN vTaskSwitchContext(lists, top)
           ELSE Keep(lists, top)
    /\ UNCHANGED <<sleepVars, timeVars, xPendingReadyList, lifeVars, notifyVars, uxPriority,
                   uxSchedulerSuspended, pc>>

xTaskResumeFromISR(t) ==
    /\ xSchedulerRunning /\ ~Masked /\ prvTaskIsTaskSuspended(t)
    /\ IF uxSchedulerSuspended = 0
       THEN /\ xSuspendedTaskList' = xSuspendedTaskList \ {t}
            /\ pxReadyTasksLists' = prvAddTaskToReadyList(pxReadyTasksLists, t, uxPriority)
            /\ uxTopReadyPriority' = taskRECORD_READY_PRIORITY({t}, uxPriority)
            /\ xYieldPendings' = (xYieldPendings \/ uxPriority[t] > uxPriority[pxCurrentTCB])
            /\ UNCHANGED xPendingReadyList
       ELSE /\ xPendingReadyList' = xPendingReadyList \cup {t}
            /\ UNCHANGED <<xSuspendedTaskList, readyVars, xYieldPendings>>
    /\ UNCHANGED <<sleepVars, timeVars, pxCurrentTCB, lifeVars, notifyVars, uxPriority, uxSchedulerSuspended, pc>>

-----------------------------------------------------------------------------
(* vTaskPrioritySet.                                                       *)

vTaskPrioritySet(t, p) ==
    /\ Calling /\ t \in Live \ ({Idle} \cup xTasksWaitingTermination) /\ p # uxPriority[t]
    /\ uxPriority' = [uxPriority EXCEPT ![t] = p]
    /\ LET inReady == t \in Members(pxReadyTasksLists[uxPriority[t]])
           lists == IF inReady
                    THEN prvAddTaskToReadyList(Without(pxReadyTasksLists, t), t, uxPriority')
                    ELSE pxReadyTasksLists
           top   == IF inReady THEN taskRECORD_READY_PRIORITY({t}, uxPriority')
                    ELSE uxTopReadyPriority
           yield == IF p > uxPriority[t]
                    THEN t # pxCurrentTCB /\ p > uxPriority[pxCurrentTCB]
                    ELSE t = pxCurrentTCB
       IN  IF yield THEN vTaskSwitchContext(lists, top) ELSE Keep(lists, top)
    /\ UNCHANGED <<sleepVars, timeVars, xSuspendedTaskList, xPendingReadyList, lifeVars, notifyVars,
                   uxSchedulerSuspended, pc>>

-----------------------------------------------------------------------------
(* xTaskCreate.  The heap calls are one section of suspended scheduler.    *)

xTaskCreate(t, p) ==
    /\ Calling /\ memory[t] = "free"
    /\ vTaskSuspendAll
    /\ \/ /\ memory' = [memory EXCEPT ![t] = "new"]
          /\ uxPriority' = [uxPriority EXCEPT ![t] = p]
          /\ LET add == [op |-> "add", who |-> t]
             IN  pc' = [pc EXCEPT ![pxCurrentTCB] = Resuming(add, add), ![t] = App]
       \/ /\ Goto(Resuming(App, App))      \* no memory
          /\ UNCHANGED <<memory, uxPriority>>
    /\ UNCHANGED <<NotListed, readyVars, xTickCount, xPendedTicks, switchVars, xSchedulerRunning,
                   xTasksWaitingTermination, uxDeletedTasksWaitingCleanUp, uxCurrentNumberOfTasks,
                   notifyVars>>
CreateAdds ==
    /\ At("add")
    /\ AddNew(pc[pxCurrentTCB].who, uxPriority)
    /\ Goto([op |-> "created", who |-> pc[pxCurrentTCB].who])
    /\ UNCHANGED <<NotListed, xTickCount, xPendedTicks, switchVars, uxPriority, uxSchedulerSuspended,
                   xTasksWaitingTermination, uxDeletedTasksWaitingCleanUp, xSchedulerRunning,
                   notifyVars>>
CreateReturns ==
    /\ At("created")
    /\ Goto(IF uxPriority[pxCurrentTCB] < uxPriority[pc[pxCurrentTCB].who] THEN Yielding ELSE App)
    /\ UNCHANGED <<NotListed, readyVars, xTickCount, xPendedTicks, switchVars, lifeVars, notifyVars, uxPriority,
                   uxSchedulerSuspended>>

-----------------------------------------------------------------------------
(* vTaskDelete, and the idle task that frees what deleted itself.          *)

vTaskDelete(t) ==
    /\ Calling /\ t \in (Live \cap Mortal) \ xTasksWaitingTermination
    /\ Unlink(t)
    /\ xSuspendedTaskList' = xSuspendedTaskList \ {t}
    /\ pxReadyTasksLists' = Without(pxReadyTasksLists, t)
    /\ IF t = pxCurrentTCB
       THEN /\ MayBlock
            /\ xTasksWaitingTermination' = xTasksWaitingTermination \cup {t}
            /\ uxDeletedTasksWaitingCleanUp' = uxDeletedTasksWaitingCleanUp + 1
            /\ Goto(Yielding)
            /\ UNCHANGED <<uxCurrentNumberOfTasks, memory, xNextTaskUnblockTime>>
       ELSE /\ uxCurrentNumberOfTasks' = uxCurrentNumberOfTasks - 1
            /\ prvResetNextTaskUnblockTime
            /\ memory' = [memory EXCEPT ![t] = "dying"]
            /\ Goto([op |-> "free", who |-> t])
            /\ UNCHANGED <<xTasksWaitingTermination, uxDeletedTasksWaitingCleanUp>>
    /\ UNCHANGED <<uxTopReadyPriority, xTickCount, xPendedTicks, switchVars, xSchedulerRunning,
                   notifyVars, uxPriority, uxSchedulerSuspended>>

(* prvDeleteTCB: the heap clears the memory.                               *)
prvDeleteTCB ==
    /\ At("free")
    /\ vTaskSuspendAll
    /\ LET t == pc[pxCurrentTCB].who
       IN  /\ memory' = [memory EXCEPT ![t] = "free"]
           /\ uxPriority' = [uxPriority EXCEPT ![t] = 0]
           /\ xItemValue' = [xItemValue EXCEPT ![t] = 0]
           /\ ucNotifyState' = [ucNotifyState EXCEPT ![t] = "none"]
           /\ ulNotifiedValue' = [ulNotifiedValue EXCEPT ![t] = 0]
           /\ pc' = [pc EXCEPT ![pxCurrentTCB] = Resuming(App, App), ![t] = App]
    /\ UNCHANGED <<pxDelayedTaskList, pxOverflowDelayedTaskList, xSuspendedTaskList,
                   xPendingReadyList, timeVars, readyVars, switchVars, xSchedulerRunning,
                   xTasksWaitingTermination, uxDeletedTasksWaitingCleanUp, uxCurrentNumberOfTasks>>

(* prvIdleTask: free the dead, then yield to the tasks of its priority.    *)
FaultyprvCheckTasksWaitingTermination ==
    /\ At("app") /\ pxCurrentTCB = Idle /\ uxDeletedTasksWaitingCleanUp > 0
    /\ \E t \in xTasksWaitingTermination :
         /\ xTasksWaitingTermination' = xTasksWaitingTermination \ {t}
         /\ memory' = [memory EXCEPT ![t] = "dying"]
         /\ Goto([op |-> "free", who |-> t])
    /\ UNCHANGED uxCurrentNumberOfTasks
    /\ uxDeletedTasksWaitingCleanUp' = uxDeletedTasksWaitingCleanUp - 1
    /\ UNCHANGED <<NotListed, readyVars, xTickCount, xPendedTicks, switchVars, uxPriority,
                   uxSchedulerSuspended, xSchedulerRunning, notifyVars>>
prvCheckTasksWaitingTermination ==
    /\ At("app") /\ pxCurrentTCB = Idle /\ uxDeletedTasksWaitingCleanUp > 0
    /\ \E t \in xTasksWaitingTermination :
         /\ xTasksWaitingTermination' = xTasksWaitingTermination \ {t}
         /\ memory' = [memory EXCEPT ![t] = "dying"]
         /\ Goto([op |-> "free", who |-> t])
    /\ uxCurrentNumberOfTasks' = uxCurrentNumberOfTasks - 1
    /\ uxDeletedTasksWaitingCleanUp' = uxDeletedTasksWaitingCleanUp - 1
    /\ UNCHANGED <<NotListed, readyVars, xTickCount, xPendedTicks, switchVars, uxPriority,
                   uxSchedulerSuspended, xSchedulerRunning, notifyVars>>
prvIdleTask ==
    /\ At("app") /\ pxCurrentTCB = Idle /\ uxDeletedTasksWaitingCleanUp = 0
    /\ Len(pxReadyTasksLists[0].items) > 1
    /\ Goto(Yielding)
    /\ UNCHANGED <<NotListed, readyVars, xTickCount, xPendedTicks, switchVars, lifeVars, notifyVars, uxPriority,
                   uxSchedulerSuspended>>

-----------------------------------------------------------------------------
AppCalls ==
    \/ SuspendAll \/ ResumeAll
    \/ vTaskDelay \/ xTaskCatchUpTicks
    \/ \E t \in Task : vTaskSuspend(t) \/ vTaskResume(t) \/ vTaskDelete(t)
    \/ \E t \in Task, p \in NewPriorities : vTaskPrioritySet(t, p)
    \/ \E t \in Mortal, p \in Priority : xTaskCreate(t, p)

(* Code the running task executes without asking: it goes on to the end of *)
(* the call it is in.                                                      *)
KernelSteps ==
    \/ DelaySleeps \/ CatchUpPends \/ SuspendReturns
    \/ CreateAdds \/ CreateReturns \/ prvDeleteTCB
    \/ xTaskResumeAll \/ (\E t \in Task : ResumeDrains(t)) \/ ResumeDrained
    \/ ResumeTicks \/ ResumeReturns \/ vPortYield
    \/ prvCheckTasksWaitingTermination \/ prvIdleTask

Interrupts == vPortYieldFromTick \/ \E t \in Task : xTaskResumeFromISR(t)

Next ==
    \/ xTaskCreateInMain \/ vTaskStartScheduler
    \/ AppCalls \/ KernelSteps \/ Interrupts

Spec == Init /\ [][Next]_vars

(* The timer holds its request until the CPU takes it, so the tick comes   *)
(* even if interrupts are masked again and again; and the CPU executes the *)
(* running task; and main starts the scheduler.                            *)
Fairness ==
    /\ SF_vars(vPortYieldFromTick)
    /\ WF_vars(KernelSteps)
    /\ WF_vars(vTaskStartScheduler)
FairSpec == Spec /\ Fairness

-----------------------------------------------------------------------------
(* The variables have their types (tasks.c, the declarations).             *)
TypeOK ==
    /\ pxCurrentTCB \in Task \cup {NULL}
    /\ \A p \in Priority : /\ pxReadyTasksLists[p].items \in Seq(Task)
                           /\ pxReadyTasksLists[p].index \in 0 .. Len(pxReadyTasksLists[p].items)
    /\ pxDelayedTaskList \subseteq Task /\ pxOverflowDelayedTaskList \subseteq Task
    /\ xItemValue \in [Task -> Tick]
    /\ xSuspendedTaskList \subseteq Task /\ xPendingReadyList \subseteq Task
    /\ xTasksWaitingTermination \subseteq Task
    /\ uxDeletedTasksWaitingCleanUp \in 0 .. Cardinality(Task)
    /\ uxCurrentNumberOfTasks \in 0 .. Cardinality(Task)
    /\ uxPriority \in [Task -> Priority] /\ uxTopReadyPriority \in Priority
    /\ xTickCount \in Tick /\ xNextTaskUnblockTime \in Tick
    /\ xPendedTicks \in Nat /\ xYieldPendings \in BOOLEAN
    /\ uxSchedulerSuspended \in Nat /\ xSchedulerRunning \in BOOLEAN
    /\ memory \in [Task -> {"free", "new", "live", "dying"}]
    /\ ucNotifyState \in [Task -> {"none", "waiting", "received"}]
    /\ ulNotifiedValue \in [Task -> Nat]

(* A task that exists is in one list of states, once, and in the list of   *)
(* its priority if it is ready; memory that is not a task is in none, and  *)
(* the running task is never freed.  No call leaves a TCB linked twice or  *)
(* forgotten (xStateListItem).                                             *)
Places == <<Ready, pxDelayedTaskList, pxOverflowDelayedTaskList, xSuspendedTaskList,
            xTasksWaitingTermination>>
OneHome ==
    /\ \A i, j \in DOMAIN Places : i # j => Places[i] \cap Places[j] = {}
    /\ UNION ToSet(Places) = Live
    /\ \A p \in Priority :
          /\ IsInjective(pxReadyTasksLists[p].items)
          /\ \A t \in Members(pxReadyTasksLists[p]) : uxPriority[t] = p
    /\ pxCurrentTCB # NULL => memory[pxCurrentTCB] = "live"

(* Nothing waits for the scheduler to be resumed once it is: tasks made    *)
(* ready and ticks counted in the meantime are not left over               *)
(* (xTaskResumeAll).                                                       *)
NothingLeftPending ==
    xSchedulerRunning /\ uxSchedulerSuspended = 0 /\ ~Masked =>
        xPendingReadyList = {} /\ xPendedTicks = 0

(* xTaskIncrementTick skips the delayed list until xNextTaskUnblockTime:   *)
(* that is never later than the first task to wake.  What is in the list   *)
(* is still to come before the tick count wraps, what is in the overflow   *)
(* list after.                                                             *)
NeverLate ==
    /\ \A t \in pxDelayedTaskList :
          xTickCount < xItemValue[t] /\ xNextTaskUnblockTime <= xItemValue[t]
    /\ \A t \in pxOverflowDelayedTaskList : xItemValue[t] < xTickCount

(* The search of the context switch starts at uxTopReadyPriority and goes  *)
(* down: no ready task is above, and there is one below                    *)
(* (the assertion in taskSELECT_HIGHEST_PRIORITY_TASK).                    *)
SearchFinds ==
    xSchedulerRunning =>
        /\ \A t \in Ready : uxPriority[t] <= uxTopReadyPriority
        /\ \E p \in 0 .. uxTopReadyPriority : pxReadyTasksLists[p].items # <<>>

(* Preemption: while a task runs in application code and no yield is due,  *)
(* no ready task has a higher priority.                                    *)
HighestRuns ==
    At("app") /\ uxSchedulerSuspended = 0 /\ ~xYieldPendings =>
        /\ pxCurrentTCB \in Ready
        /\ \A t \in Ready : uxPriority[t] <= uxPriority[pxCurrentTCB]

(* The kernel's counts of tasks are what its lists hold: the idle task     *)
(* frees every task that deleted itself, once.                             *)
CountsAgree ==
    /\ uxDeletedTasksWaitingCleanUp = Cardinality(xTasksWaitingTermination)
    /\ uxCurrentNumberOfTasks = Cardinality(Live)

(* A new task of a higher priority should run now: xTaskCreate compares    *)
(* its priority after the critical section, so its TCB must still be there *)
(* (prvAddNewTaskToReadyList).                                             *)
CreatedTaskIsCompared == At("created") => memory[pc[pxCurrentTCB].who] # "free"

(* While the scheduler is suspended no other task runs.                    *)
NoSwitchWhileSuspended ==
    [][uxSchedulerSuspended > 0 => pxCurrentTCB' = pxCurrentTCB]_vars

(* How many ticks a task has left to sleep, and how many are not counted   *)
(* yet: what the tick promises, whatever lists and flags implement it.     *)
TicksLeft == [t \in Task |->
    IF t \in pxDelayedTaskList THEN xItemValue[t] - xTickCount
    ELSE IF t \in pxOverflowDelayedTaskList THEN TickRange - xTickCount + xItemValue[t]
    ELSE 0]
Backlog == IF At("ticks") THEN pc[pxCurrentTCB].count ELSE xPendedTicks
Sleeper == INSTANCE Sleep WITH left <- TicksLeft, backlog <- Backlog, Longest <- portMAX_DELAY
KeepsTime == Sleeper!Spec

(* A task that sleeps wakes up.                                            *)
SleepersWake == \A t \in Task : t \in Sleeping ~> t \notin Sleeping

(* Time slicing: a task that stays ready, with none above it, runs again   *)
(* and again.                                                              *)
AtTop(t) == t \in Ready /\ \A u \in Ready : uxPriority[u] <= uxPriority[t]
EqualShare == \A t \in Task : <>[]AtTop(t) => []<>(pxCurrentTCB = t)
=============================================================================
