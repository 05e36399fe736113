------------------------------- MODULE Kernel -------------------------------
(***************************************************************************)
(* The state of tasks.c and the internal functions the API is built from:  *)
(* the lists of tasks, the tick, the context switch and the suspension of  *)
(* the scheduler.                                                          *)
(*                                                                         *)
(* There is one CPU: only the code of pxCurrentTCB runs.  pc[t] is the     *)
(* place in the kernel where task t goes on when it runs; a critical       *)
(* section is one step, and between two steps the tick interrupt may come. *)
(* xTaskResumeAll takes several steps under a mask: one per pending task,  *)
(* and one per pended tick.                                                *)
(*                                                                         *)
(* The delayed, suspended, pending and termination lists are sets: the     *)
(* head of a delayed list is a task with the least item value, and tasks   *)
(* that leave together may come in any order.                              *)
(*                                                                         *)
(* A definition called FaultyX is X with a plausible bug; nothing uses it. *)
(***************************************************************************)
EXTENDS List, FiniteSets

CONSTANTS
    Task,          \* the blocks that hold a TCB
    Idle,          \* the idle task
    NULL,
    TopPriority,   \* configMAX_PRIORITIES - 1
    TickRange,     \* 2^configTICK_TYPE_WIDTH_IN_BITS
    MaxPended      \* bound on xPendedTicks

ASSUME TaskAssumption == IsFiniteSet(Task) /\ Idle \in Task /\ NULL \notin Task

ASSUME WidthAssumption == TopPriority \in Nat /\ TickRange \in Nat /\ TickRange > 1

VARIABLES
    pxCurrentTCB,
    pxReadyTasksLists,
    pxDelayedTaskList,
    pxOverflowDelayedTaskList,
    xItemValue,       \* value of each task's xStateListItem: when to wake
    xSuspendedTaskList,
    xPendingReadyList,
    xTasksWaitingTermination,
    uxDeletedTasksWaitingCleanUp,
    uxCurrentNumberOfTasks,
    uxPriority,
    uxTopReadyPriority,
    xTickCount,
    xNextTaskUnblockTime,
    xPendedTicks,
    xYieldPendings,
    uxSchedulerSuspended,
    xSchedulerRunning,
    memory,           \* a TCB is "free", "new" (not yet listed), "live" or "dying" (unlisted)
    ucNotifyState,    \* "none", "waiting" or "received" (Notify)
    ulNotifiedValue,
    pc

sleepVars  == <<pxDelayedTaskList, pxOverflowDelayedTaskList, xItemValue>>
timeVars   == <<xTickCount, xNextTaskUnblockTime, xPendedTicks>>
readyVars  == <<pxReadyTasksLists, uxTopReadyPriority>>
switchVars == <<pxCurrentTCB, xYieldPendings>>
lifeVars   == <<xTasksWaitingTermination, uxDeletedTasksWaitingCleanUp,
                uxCurrentNumberOfTasks, memory, xSchedulerRunning>>
notifyVars == <<ucNotifyState, ulNotifiedValue>>
vars == <<sleepVars, timeVars, readyVars, switchVars, lifeVars, notifyVars,
          xSuspendedTaskList, xPendingReadyList, uxPriority, uxSchedulerSuspended, pc>>

Priority == 0 .. TopPriority
Tick     == 0 .. TickRange - 1
portMAX_DELAY == TickRange - 1

-----------------------------------------------------------------------------
(* Where a task goes on.                                                   *)

App      == [op |-> "app"]      \* in application code (the loop of the idle task)
(* About to call portYIELD_WITHIN_API, and to go on at next after it.      *)
YieldingTo(next) == [op |-> "yield", next |-> next]
Yielding == YieldingTo(App)
(* In xTaskResumeAll; then at "yielded" or "not", as it returns.           *)
Resuming(yielded, not) == [op |-> "resume", yielded |-> yielded, not |-> not]
(* Where a task goes on once it has resumed the scheduler and yielded.     *)
Onward(place) ==
    LET resumed == IF place.op \in {"resume", "drain", "ticks"} THEN place.not ELSE place
    IN  IF resumed.op = "yield" THEN resumed.next ELSE resumed

At(op) == xSchedulerRunning /\ pc[pxCurrentTCB].op = op
Goto(place) == pc' = [pc EXCEPT ![pxCurrentTCB] = place]

(* Interrupts are masked between the steps of xTaskResumeAll.              *)
Masked == pc[pxCurrentTCB].op \in {"drain", "ticks"}

-----------------------------------------------------------------------------
(* Lists.                                                                  *)

Ready == UNION {Members(pxReadyTasksLists[p]) : p \in Priority}
Sleeping == pxDelayedTaskList \cup pxOverflowDelayedTaskList

(* The ready lists without t, and with t added.                            *)
Without(lists, t) == [p \in Priority |-> uxListRemove(lists[p], t)]
prvAddTaskToReadyList(lists, t, priority) ==
    [lists EXCEPT ![priority[t]] = vListInsertEnd(@, <<t>>)]

(* The ready lists with the tasks of S added, in each list in some order.  *)
Orders(S) == Bijection(1 .. Cardinality(S), S)
OrdersByPriority(S) ==
    {order \in [Priority -> UNION {Orders(T) : T \in SUBSET S}] :
        \A p \in Priority : order[p] \in Orders({t \in S : uxPriority[t] = p})}
WithAll(lists, order) == [p \in Priority |-> vListInsertEnd(lists[p], order[p])]
FaultytaskRECORD_READY_PRIORITY(S, priority) == uxTopReadyPriority
taskRECORD_READY_PRIORITY(S, priority) == Max({uxTopReadyPriority} \cup {priority[t] : t \in S})

(* The value of the head entry, or portMAX_DELAY of the marker.            *)
HeadValue(S, value) == Min({portMAX_DELAY} \cup {value[t] : t \in S})

prvResetNextTaskUnblockTime ==
    xNextTaskUnblockTime' = HeadValue(pxDelayedTaskList', xItemValue')

-----------------------------------------------------------------------------
(* The context switch, with the ready lists as the caller leaves them.     *)

(* A task of the highest list that is not empty, searched from top down.   *)
TopList(lists, top) == Max({p \in 0 .. top : lists[p].items # <<>>})
FaultySelect(lists, top) ==
    /\ pxCurrentTCB' = lists[TopList(lists, top)].items[1]
    /\ pxReadyTasksLists' = lists
    /\ uxTopReadyPriority' = TopList(lists, top)
taskSELECT_HIGHEST_PRIORITY_TASK(lists, top) ==
    LET p == TopList(lists, top)
    IN  /\ pxCurrentTCB' = listGET_OWNER_OF_NEXT_ENTRY(lists[p])
        /\ pxReadyTasksLists' = [lists EXCEPT ![p] = Advance(@)]
        /\ uxTopReadyPriority' = p

FaultySwitch(lists, top) ==
    /\ xYieldPendings' = (uxSchedulerSuspended # 0)
    /\ taskSELECT_HIGHEST_PRIORITY_TASK(lists, top)
vTaskSwitchContext(lists, top) ==
    IF uxSchedulerSuspended # 0
    THEN /\ xYieldPendings' = TRUE
         /\ pxReadyTasksLists' = lists
         /\ uxTopReadyPriority' = top
         /\ UNCHANGED pxCurrentTCB
    ELSE /\ xYieldPendings' = FALSE
         /\ taskSELECT_HIGHEST_PRIORITY_TASK(lists, top)

(* Leave the ready lists so, and go on without a switch.                   *)
Keep(lists, top) ==
    /\ pxReadyTasksLists' = lists
    /\ uxTopReadyPriority' = top
    /\ UNCHANGED switchVars

-----------------------------------------------------------------------------
(* The tick.                                                               *)

(* At zero the two delayed lists change places.                            *)
FaultyNextTick == xTickCount + 1
NextTick == (xTickCount + 1) % TickRange
DueList == IF NextTick = 0 THEN pxOverflowDelayedTaskList ELSE pxDelayedTaskList
LaterList == IF NextTick = 0 THEN pxDelayedTaskList ELSE pxOverflowDelayedTaskList

(* The list is looked at only from the recorded time on.                   *)
UnblockTime == IF NextTick = 0 THEN HeadValue(DueList, xItemValue) ELSE xNextTaskUnblockTime
FaultyWoken == IF NextTick > UnblockTime THEN {t \in DueList : xItemValue[t] <= NextTick} ELSE {}
Woken == IF NextTick >= UnblockTime THEN {t \in DueList : xItemValue[t] <= NextTick} ELSE {}

(* The part of xTaskIncrementTick that is done when the scheduler runs.    *)
TickLists ==
    /\ xTickCount' = NextTick
    /\ pxDelayedTaskList' = DueList \ Woken
    /\ pxOverflowDelayedTaskList' = LaterList
    /\ xNextTaskUnblockTime' = IF NextTick >= UnblockTime THEN HeadValue(DueList \ Woken, xItemValue)
                               ELSE UnblockTime
    /\ xPendingReadyList' = xPendingReadyList \ Woken
    /\ UNCHANGED xItemValue

(* What it returns, with the ready lists it leaves.                        *)
SwitchRequired(lists) ==
    \/ \E t \in Woken : uxPriority[t] > uxPriority[pxCurrentTCB]
    \/ Len(lists[uxPriority[pxCurrentTCB]].items) > 1
    \/ xYieldPendings

(* vPortYieldFromTick: the interrupt calls xTaskIncrementTick, and         *)
(* switches if it says so.                                                 *)
TickPends ==
    /\ xSchedulerRunning /\ ~Masked /\ uxSchedulerSuspended # 0
    /\ xPendedTicks < MaxPended
    /\ xPendedTicks' = xPendedTicks + 1
    /\ UNCHANGED <<sleepVars, xTickCount, xNextTaskUnblockTime, readyVars, switchVars, lifeVars, notifyVars,
                   xSuspendedTaskList, xPendingReadyList, uxPriority, uxSchedulerSuspended, pc>>
TickCounts ==
    /\ xSchedulerRunning /\ ~Masked /\ uxSchedulerSuspended = 0
    /\ TickLists
    /\ \E order \in OrdersByPriority(Woken) :
         LET lists == WithAll(pxReadyTasksLists, order)
             top   == taskRECORD_READY_PRIORITY(Woken, uxPriority)
         IN  IF SwitchRequired(lists) THEN vTaskSwitchContext(lists, top) ELSE Keep(lists, top)
    /\ UNCHANGED <<lifeVars, notifyVars, xSuspendedTaskList, uxPriority, uxSchedulerSuspended, xPendedTicks, pc>>
vPortYieldFromTick == TickPends \/ TickCounts

-----------------------------------------------------------------------------
(* Suspending the scheduler.                                               *)

vTaskSuspendAll == uxSchedulerSuspended' = uxSchedulerSuspended + 1

(* The outermost call makes the pending tasks ready, then counts the       *)
(* pended ticks, then yields if that is due.                               *)
xTaskResumeAll ==
    /\ At("resume")
    /\ uxSchedulerSuspended' = uxSchedulerSuspended - 1
    /\ LET back == pc[pxCurrentTCB]
       IN  Goto(IF uxSchedulerSuspended = 1
                THEN [op |-> "drain", moved |-> FALSE, yielded |-> back.yielded, not |-> back.not]
                ELSE back.not)
    /\ UNCHANGED <<sleepVars, timeVars, readyVars, switchVars, lifeVars, notifyVars,
                   xSuspendedTaskList, xPendingReadyList, uxPriority>>
ResumeDrains(t) ==
    /\ At("drain") /\ t \in xPendingReadyList
    /\ xPendingReadyList' = xPendingReadyList \ {t}
    /\ pxDelayedTaskList' = pxDelayedTaskList \ {t}
    /\ pxOverflowDelayedTaskList' = pxOverflowDelayedTaskList \ {t}
    /\ xSuspendedTaskList' = xSuspendedTaskList \ {t}
    /\ pxReadyTasksLists' = prvAddTaskToReadyList(Without(pxReadyTasksLists, t), t, uxPriority)
    /\ uxTopReadyPriority' = taskRECORD_READY_PRIORITY({t}, uxPriority)
    /\ xYieldPendings' = (xYieldPendings \/ uxPriority[t] > uxPriority[pxCurrentTCB])
    /\ pc' = [pc EXCEPT ![pxCurrentTCB].moved = TRUE]
    /\ UNCHANGED <<xItemValue, timeVars, pxCurrentTCB, lifeVars, notifyVars, uxPriority,
                   uxSchedulerSuspended>>
ResumeDrained ==
    /\ At("drain") /\ xPendingReadyList = {}
    /\ UNCHANGED sleepVars
    /\ IF pc[pxCurrentTCB].moved THEN prvResetNextTaskUnblockTime ELSE UNCHANGED xNextTaskUnblockTime
    /\ LET back == pc[pxCurrentTCB]
       IN  Goto([op |-> "ticks", count |-> xPendedTicks, yielded |-> back.yielded, not |-> back.not])
    /\ UNCHANGED <<xTickCount, xPendedTicks, readyVars, switchVars, lifeVars, notifyVars,
                   xSuspendedTaskList, xPendingReadyList, uxPriority, uxSchedulerSuspended>>

(* xTaskIncrementTick, once per pended tick.                               *)
ResumeTicks ==
    /\ At("ticks") /\ pc[pxCurrentTCB].count > 0
    /\ TickLists
    /\ \E order \in OrdersByPriority(Woken) :
         LET lists == WithAll(pxReadyTasksLists, order)
         IN  /\ pxReadyTasksLists' = lists
             /\ xYieldPendings' = (xYieldPendings \/ SwitchRequired(lists))
    /\ uxTopReadyPriority' = taskRECORD_READY_PRIORITY(Woken, uxPriority)
    /\ pc' = [pc EXCEPT ![pxCurrentTCB].count = @ - 1]
    /\ UNCHANGED <<pxCurrentTCB, lifeVars, notifyVars, xSuspendedTaskList, uxPriority, uxSchedulerSuspended,
                   xPendedTicks>>

FaultyResumeReturns ==
    /\ At("ticks") /\ pc[pxCurrentTCB].count = 0
    /\ UNCHANGED xPendedTicks
    /\ IF xYieldPendings
       THEN /\ Goto(pc[pxCurrentTCB].yielded)
            /\ vTaskSwitchContext(pxReadyTasksLists, uxTopReadyPriority)
       ELSE /\ Goto(pc[pxCurrentTCB].not)
            /\ Keep(pxReadyTasksLists, uxTopReadyPriority)
    /\ UNCHANGED <<sleepVars, xTickCount, xNextTaskUnblockTime, lifeVars, notifyVars, xSuspendedTaskList,
                   xPendingReadyList, uxPriority, uxSchedulerSuspended>>
ResumeReturns ==
    /\ At("ticks") /\ pc[pxCurrentTCB].count = 0
    /\ xPendedTicks' = 0
    /\ IF xYieldPendings
       THEN /\ Goto(pc[pxCurrentTCB].yielded)
            /\ vTaskSwitchContext(pxReadyTasksLists, uxTopReadyPriority)
       ELSE /\ Goto(pc[pxCurrentTCB].not)
            /\ Keep(pxReadyTasksLists, uxTopReadyPriority)
    /\ UNCHANGED <<sleepVars, xTickCount, xNextTaskUnblockTime, lifeVars, notifyVars, xSuspendedTaskList,
                   xPendingReadyList, uxPriority, uxSchedulerSuspended>>

(* portYIELD_WITHIN_API.                                                   *)
vPortYield ==
    /\ At("yield")
    /\ vTaskSwitchContext(pxReadyTasksLists, uxTopReadyPriority)
    /\ Goto(pc[pxCurrentTCB].next)
    /\ UNCHANGED <<sleepVars, timeVars, lifeVars, notifyVars, xSuspendedTaskList, xPendingReadyList,
                   uxPriority, uxSchedulerSuspended>>

-----------------------------------------------------------------------------
(* The running task leaves the ready list to sleep for a while, or without *)
(* end if it may; the scheduler is suspended, so no tick is counted.       *)

TimeToWake(ticks) == (xTickCount + ticks) % TickRange
FaultyprvAddCurrentTaskToDelayedList(ticks, canBlockIndefinitely) ==
    /\ pxReadyTasksLists' = Without(pxReadyTasksLists, pxCurrentTCB)
    /\ IF ticks = portMAX_DELAY /\ canBlockIndefinitely
       THEN /\ xSuspendedTaskList' = xSuspendedTaskList \cup {pxCurrentTCB}
            /\ UNCHANGED <<sleepVars, xNextTaskUnblockTime>>
       ELSE /\ xItemValue' = [xItemValue EXCEPT ![pxCurrentTCB] = TimeToWake(ticks)]
            /\ UNCHANGED xSuspendedTaskList
            /\ IF TimeToWake(ticks) < xTickCount
               THEN /\ pxOverflowDelayedTaskList' = pxOverflowDelayedTaskList \cup {pxCurrentTCB}
                    /\ UNCHANGED <<pxDelayedTaskList, xNextTaskUnblockTime>>
               ELSE /\ pxDelayedTaskList' = pxDelayedTaskList \cup {pxCurrentTCB}
                    /\ UNCHANGED <<pxOverflowDelayedTaskList, xNextTaskUnblockTime>>
prvAddCurrentTaskToDelayedList(ticks, canBlockIndefinitely) ==
    /\ pxReadyTasksLists' = Without(pxReadyTasksLists, pxCurrentTCB)
    /\ IF ticks = portMAX_DELAY /\ canBlockIndefinitely
       THEN /\ xSuspendedTaskList' = xSuspendedTaskList \cup {pxCurrentTCB}
            /\ UNCHANGED <<sleepVars, xNextTaskUnblockTime>>
       ELSE /\ xItemValue' = [xItemValue EXCEPT ![pxCurrentTCB] = TimeToWake(ticks)]
            /\ UNCHANGED xSuspendedTaskList
            /\ IF TimeToWake(ticks) < xTickCount
               THEN /\ pxOverflowDelayedTaskList' = pxOverflowDelayedTaskList \cup {pxCurrentTCB}
                    /\ UNCHANGED <<pxDelayedTaskList, xNextTaskUnblockTime>>
               ELSE /\ pxDelayedTaskList' = pxDelayedTaskList \cup {pxCurrentTCB}
                    /\ xNextTaskUnblockTime' = Min({xNextTaskUnblockTime, TimeToWake(ticks)})
                    /\ UNCHANGED pxOverflowDelayedTaskList
-----------------------------------------------------------------------------
(* A task is unblocked: its state list item leaves its list, and it joins  *)
(* the ready list of its priority.                                         *)

FaultyUnblock(t) ==
    /\ pxDelayedTaskList' = pxDelayedTaskList \ {t}
    /\ xSuspendedTaskList' = xSuspendedTaskList \ {t}
    /\ UNCHANGED <<xItemValue, pxOverflowDelayedTaskList>>
Unblock(t) ==
    /\ pxDelayedTaskList' = pxDelayedTaskList \ {t}
    /\ pxOverflowDelayedTaskList' = pxOverflowDelayedTaskList \ {t}
    /\ xSuspendedTaskList' = xSuspendedTaskList \ {t}
    /\ UNCHANGED xItemValue
ReadyAgain(t) == prvAddTaskToReadyList(Without(pxReadyTasksLists, t), t, uxPriority)
=============================================================================
