------------------------------- MODULE Queue -------------------------------
(***************************************************************************)
(* One queue or counting semaphore of queue.c, over the scheduler: tasks   *)
(* send, receive and peek, for a time or without end, and interrupts send  *)
(* and receive without waiting.  What the items are is in Ring; here the   *)
(* queue holds a number of them.                                           *)
(*                                                                         *)
(* A side of the queue is "send" or "receive": waiting[side] is            *)
(* xTasksWaitingToSend or xTasksWaitingToReceive, and lock[side] counts    *)
(* the waiters of that side to be woken at the unlock, so lock["receive"]  *)
(* is cTxLock and lock["send"] is cRxLock.                                 *)
(***************************************************************************)
EXTENDS TimeOut

CONSTANTS
    uxLength,      \* how many items the queue holds
    Waits,         \* bound: <<task, call, ticks>>, the calls that may have to wait
    Resets         \* bound: the tasks that reset the queue

ASSUME QueueAssumption ==
    /\ uxLength \in Nat \ {0} /\ Waits \subseteq Task \X {"send", "receive", "peek"} \X Tick
    /\ Resets \subseteq Task

VARIABLES
    uxMessagesWaiting,
    waiting,
    lock,
    served,   \* history: the tasks a sender or receiver woke that have yet to try again
    left      \* history: the ticks for which a task has still asked to wait

queueVars == <<uxMessagesWaiting, waiting, lock, served, left, xNumOfOverflows>>
queueAll  == <<vars, queueVars>>

queueUNLOCKED == -1
queueLOCKED_UNMODIFIED == 0
Side == {"send", "receive"}
Waiting == UNION {ToSet(waiting[s]) : s \in Side}

(* What a blocking call does, and the side whose tasks it wakes.           *)
WaitsAt(act) == IF act = "send" THEN "send" ELSE "receive"
Wakes(act) == IF act = "receive" THEN "send" ELSE "receive"
Call == pc[pxCurrentTCB]
Possible(act) ==
    IF act = "send" THEN uxMessagesWaiting < uxLength
    ELSE act = "overwrite" \/ uxMessagesWaiting > 0

(* prvCopyDataToQueue and prvCopyDataFromQueue.                            *)
Count(act) ==
    IF act = "receive" THEN uxMessagesWaiting - 1
    ELSE IF act = "peek" \/ uxMessagesWaiting = uxLength THEN uxMessagesWaiting
    ELSE uxMessagesWaiting + 1

-----------------------------------------------------------------------------
(* Event lists: the highest priority first, the longest wait first among   *)
(* equals.                                                                 *)

vListInsert(list, t) ==
    LET i == SelectInSeq(list, LAMBDA u : uxPriority[u] < uxPriority[t])
    IN  InsertAt(list, IF i = 0 THEN Len(list) + 1 ELSE i, t)

(* The tasks of S leave their event lists; the others keep their order.    *)
Remaining(list, S) ==
    {rest \in Orders(ToSet(list) \ S) :
        \A i, j \in DOMAIN rest : i < j =>
            \E k, l \in DOMAIN list : k < l /\ list[k] = rest[i] /\ list[l] = rest[j]}
FaultyLeave(S) == UNCHANGED waiting
Leave(S) ==
    \E senders \in Remaining(waiting["send"], S), receivers \in Remaining(waiting["receive"], S) :
        waiting' = [send |-> senders, receive |-> receivers]

(* The first n waiters of a side are woken; the tasks of tries now try.    *)
FirstWaiters(side, n) == {waiting[side][i] : i \in 1 .. Min({n, Len(waiting[side])})}
Pop(side, n, tries) ==
    /\ Leave(FirstWaiters(side, n))
    /\ served' = [s \in Side |-> (served[s] \cup IF s = side THEN FirstWaiters(side, n) ELSE {}) \ tries]

(* xTaskRemoveFromEventList of the first waiter of a side, if there is     *)
(* one: it becomes ready, or pending if the scheduler is suspended.  The   *)
(* ready lists are left to the caller.                                     *)
WakeFirst(side, tries) ==
    /\ Pop(side, 1, tries)
    /\ IF waiting[side] # <<>> /\ uxSchedulerSuspended = 0
       THEN Unblock(waiting[side][1]) /\ UNCHANGED xPendingReadyList
       ELSE /\ xPendingReadyList' = xPendingReadyList \cup FirstWaiters(side, 1)
            /\ UNCHANGED <<sleepVars, xSuspendedTaskList>>
Moved(side, lists) ==
    IF waiting[side] # <<>> /\ uxSchedulerSuspended = 0
    THEN prvAddTaskToReadyList(Without(lists, waiting[side][1]), waiting[side][1], uxPriority)
    ELSE lists
MovedTop(side) ==
    IF uxSchedulerSuspended = 0 THEN taskRECORD_READY_PRIORITY(FirstWaiters(side, 1), uxPriority)
    ELSE uxTopReadyPriority
Above(S) == \E t \in S : uxPriority[t] > uxPriority[pxCurrentTCB]

Unconcerned == \* what no call on the queue touches
    <<lifeVars, notifyVars, uxPriority, xTickCount, xPendedTicks, xNumOfOverflows>>
Stay == \* a step of a call that only goes on to another place
    UNCHANGED <<NotListed, readyVars, switchVars, uxMessagesWaiting, waiting, uxSchedulerSuspended,
                left, Unconcerned>>

-----------------------------------------------------------------------------
(* The critical section a call tries first, and again each time it wakes.  *)

(* It succeeds, wakes a task of the other side (or, for a peek, the next   *)
(* reader), and yields to it if it is above.                               *)
Perform(act) ==
    /\ Possible(act)
    /\ uxMessagesWaiting' = Count(act)
    /\ WakeFirst(Wakes(act), {pxCurrentTCB})
    /\ IF Above(FirstWaiters(Wakes(act), 1))
       THEN vTaskSwitchContext(Moved(Wakes(act), pxReadyTasksLists), MovedTop(Wakes(act)))
       ELSE Keep(Moved(Wakes(act), pxReadyTasksLists), MovedTop(Wakes(act)))
    /\ Goto(App)
    /\ UNCHANGED <<lock, left, xNextTaskUnblockTime, uxSchedulerSuspended, Unconcerned>>

(* xQueueGenericSend, xQueueReceive, xQueueSemaphoreTake and xQueuePeek.   *)
(* A call that may not wait and cannot succeed changes nothing.            *)
CallSucceeds ==
    /\ Calling
    /\ \E act \in {"send", "overwrite", "receive", "peek"} :
          /\ act = "overwrite" => uxLength = 1
          /\ Perform(act)
CallMustWait ==
    /\ Calling /\ MayBlock
    /\ \E act \in {"send", "receive", "peek"}, n \in Tick \ {0} :
          /\ <<pxCurrentTCB, act, n>> \in Waits /\ ~Possible(act)
          /\ Goto([op |-> "suspend", act |-> act, time |-> vTaskInternalSetTimeOutState(n)])
          /\ left' = [left EXCEPT ![pxCurrentTCB] = IF n = portMAX_DELAY THEN 0 ELSE n]
    /\ UNCHANGED <<NotListed, readyVars, switchVars, uxMessagesWaiting, waiting, lock, served,
                   uxSchedulerSuspended, Unconcerned>>
RetrySucceeds ==
    /\ At("retry")
    /\ Perform(Call.act)

(* It cannot succeed.  A call whose time is over gives up here too: a      *)
(* reader came back for an item that is gone again.                        *)
TriesInVain(next) ==
    /\ ~Possible(Call.act)
    /\ Goto(next)
    /\ Pop("send", 0, {pxCurrentTCB})
    /\ UNCHANGED lock /\ Stay
RetryMustWait ==
    /\ At("retry") /\ Call.time.ticks # 0
    /\ TriesInVain([Call EXCEPT !.op = "suspend"])
RetryFails ==
    /\ At("retry") /\ Call.time.ticks = 0
    /\ TriesInVain(App)

-----------------------------------------------------------------------------
(* The way into an event list: the scheduler is suspended and the queue    *)
(* locked, so that neither tasks nor interrupts touch the lists; but an    *)
(* interrupt may still change what the queue holds.                        *)

SuspendsAll ==
    /\ At("suspend")
    /\ vTaskSuspendAll
    /\ Goto([Call EXCEPT !.op = "lock"])
    /\ UNCHANGED <<NotListed, readyVars, switchVars, uxMessagesWaiting, waiting, lock, served, left,
                   Unconcerned>>

(* prvLockQueue and xTaskCheckForTimeOut.                                  *)
FaultyprvLockQueue == UNCHANGED lock
prvLockQueue ==
    lock' = [s \in Side |-> IF lock[s] = queueUNLOCKED THEN queueLOCKED_UNMODIFIED ELSE lock[s]]
Unlocking(then) == [op |-> "unlock", act |-> Call.act, time |-> Call.time, then |-> then]
Locks ==
    /\ At("lock")
    /\ prvLockQueue
    /\ LET time == Checked(Call.time)
       IN  Goto(IF TimedOut(Call.time) THEN [Unlocking("timesOut") EXCEPT !.time = time]
                ELSE [op |-> "test", act |-> Call.act, time |-> time])
    /\ UNCHANGED served /\ Stay
(* prvIsQueueFull and prvIsQueueEmpty; next is where a call that has to    *)
(* wait goes.                                                              *)
FaultyTests(next) ==
    /\ At("test")
    /\ Goto([Call EXCEPT !.op = next])
    /\ UNCHANGED <<lock, served>> /\ Stay
Tests(next) ==
    /\ At("test")
    /\ Goto(IF Possible(Call.act) THEN Unlocking("retries") ELSE [Call EXCEPT !.op = next])
    /\ UNCHANGED <<lock, served>> /\ Stay

vTaskPlaceOnEventList ==
    /\ At("place")
    /\ waiting' = [waiting EXCEPT ![WaitsAt(Call.act)] = vListInsert(@, pxCurrentTCB)]
    /\ prvAddCurrentTaskToDelayedList(Call.time.ticks, TRUE)
    /\ Goto(Unlocking("sleeps"))
    /\ UNCHANGED <<uxTopReadyPriority, xPendingReadyList, switchVars, uxMessagesWaiting, lock, served,
                   left, uxSchedulerSuspended, Unconcerned>>

(* prvUnlockQueue wakes the tasks interrupts would have woken: first the   *)
(* receivers, then the senders.                                            *)
FaultyUnlocked(side) == [lock EXCEPT ![side] = queueLOCKED_UNMODIFIED]
Unlocked(side) == [lock EXCEPT ![side] = queueUNLOCKED]
Wake(side) ==
    /\ Pop(side, lock[side], {})
    /\ LET woken == FirstWaiters(side, lock[side])
       IN  /\ xPendingReadyList' = xPendingReadyList \cup woken
           /\ xYieldPendings' = (xYieldPendings \/ Above(woken))
    /\ lock' = Unlocked(side)
    /\ UNCHANGED <<sleepVars, xSuspendedTaskList, xNextTaskUnblockTime, readyVars, pxCurrentTCB,
                   uxMessagesWaiting, uxSchedulerSuspended, left, Unconcerned>>
UnlocksReceivers ==
    /\ At("unlock")
    /\ Wake("receive")
    /\ Goto([Call EXCEPT !.op = "unlocked"])
Back(call) == [op |-> "retry", act |-> call.act, time |-> call.time]
UnlocksSenders ==
    /\ At("unlocked")
    /\ Wake("send")
    /\ LET again == Back(Call)
           over  == IF Call.act = "send" THEN App ELSE [again EXCEPT !.op = "recheck"]
       IN  Goto(IF Call.then = "sleeps" THEN Resuming(again, YieldingTo(again))
                ELSE IF Call.then = "retries" THEN Resuming(again, again)
                ELSE Resuming(over, over))

(* A reader whose time is over looks once more before it gives up.         *)
Rechecks(end) ==
    /\ At("recheck")
    /\ Goto(IF Possible(Call.act) THEN Back(Call) ELSE end)
    /\ UNCHANGED <<lock, served>> /\ Stay

-----------------------------------------------------------------------------
(* Interrupts: xQueueGenericSendFromISR, xQueueGiveFromISR and             *)
(* xQueueReceiveFromISR.  While the queue is locked they only count.       *)

prvIncrementQueueLock(side) ==
    lock' = [lock EXCEPT ![side] = IF @ < uxCurrentNumberOfTasks THEN @ + 1 ELSE @]

FromISR(act) ==
    /\ xSchedulerRunning /\ ~Masked /\ Possible(act)
    /\ uxMessagesWaiting' = Count(act)
    /\ LET side == Wakes(act)
       IN  IF lock[side] = queueUNLOCKED
           THEN /\ WakeFirst(side, {})
                /\ pxReadyTasksLists' = Moved(side, pxReadyTasksLists)
                /\ uxTopReadyPriority' = MovedTop(side)
                /\ xYieldPendings' = (xYieldPendings \/ Above(FirstWaiters(side, 1)))
                /\ UNCHANGED lock
           ELSE /\ prvIncrementQueueLock(side)
                /\ UNCHANGED <<sleepVars, xSuspendedTaskList, xPendingReadyList, readyVars,
                               xYieldPendings, waiting, served>>
    /\ UNCHANGED <<xNextTaskUnblockTime, pxCurrentTCB, uxSchedulerSuspended, left, pc, Unconcerned>>

(* xQueueGenericReset of a queue in use wakes one sender.                  *)
xQueueGenericReset ==
    /\ Calling /\ pxCurrentTCB \in Resets
    /\ uxMessagesWaiting' = 0
    /\ lock' = [s \in Side |-> queueUNLOCKED]
    /\ WakeFirst("send", {})
    /\ IF Above(FirstWaiters("send", 1)) THEN vTaskSwitchContext(Moved("send", pxReadyTasksLists), MovedTop("send"))
       ELSE Keep(Moved("send", pxReadyTasksLists), MovedTop("send"))
    /\ UNCHANGED <<xNextTaskUnblockTime, uxSchedulerSuspended, left, pc, Unconcerned>>

-----------------------------------------------------------------------------
(* What the scheduler does to tasks that wait.                             *)

(* The tasks whose event list item a step of Scheduler removes: those that *)
(* the tick wakes, and the one that vTaskSuspend or vTaskDelete is for.    *)
Dropped ==
    IF xTickCount' # xTickCount THEN Woken
    ELSE {t \in Task : At("app") /\ pc'[pxCurrentTCB].op \in {"suspended", "free"}
                                 /\ pc'[pxCurrentTCB].who = t}

(* The tasks it resumes.  prvTaskIsTaskSuspended asks also that the event  *)
(* list item is in no list.                                                *)
Resumed == {t \in xSuspendedTaskList \ xPendingReadyList :
               t \in Ready' \cup xPendingReadyList'}

QueueInit ==
    /\ Init
    /\ uxMessagesWaiting = 0
    /\ waiting = [s \in Side |-> <<>>]
    /\ lock = [s \in Side |-> queueUNLOCKED]
    /\ served = [s \in Side |-> {}]
    /\ left = [t \in Task |-> 0]
    /\ xNumOfOverflows = 0

QueueSteps ==
    \/ CallSucceeds \/ CallMustWait \/ RetrySucceeds \/ RetryMustWait \/ RetryFails
    \/ SuspendsAll \/ Locks \/ Tests("place") \/ vTaskPlaceOnEventList
    \/ UnlocksReceivers \/ UnlocksSenders \/ Rechecks(App)
    \/ \E act \in {"send", "receive"} : FromISR(act)
    \/ xQueueGenericReset

SchedulerSteps ==
    /\ Next
    /\ CountOverflows
    /\ Leave(Dropped)
    /\ Resumed \cap Waiting = {}
    /\ left' = [t \in Task |-> IF xTickCount' # xTickCount THEN Max({0, left[t] - 1}) ELSE left[t]]
    /\ UNCHANGED <<uxMessagesWaiting, lock, served>>

QueueNext == QueueSteps \/ SchedulerSteps

QueueSpec == QueueInit /\ [][QueueNext]_queueAll
-----------------------------------------------------------------------------
(* No wake-up is lost: while a task waits to receive, every item in the    *)
(* queue is owed to a task that was woken for it and has yet to try, or is *)
(* counted for the unlock, or the unlock will wake all who wait; and so    *)
(* for senders and free places (xQueueGenericSend, prvUnlockQueue).        *)
Available == [receive |-> uxMessagesWaiting, send |-> uxLength - uxMessagesWaiting]
NoWakeUpLost ==
    \A s \in Side :
        waiting[s] # <<>> =>
            \/ Available[s] <= Cardinality(served[s]) + Max({lock[s], 0})
            \/ Len(waiting[s]) <= lock[s]

(* A call gives up only when its time is over, and never sleeps for less   *)
(* than what is left of it (xTaskCheckForTimeOut, which a call asks again  *)
(* after each wake-up).                                                    *)
GivesUpInTime ==
    \A t \in Task :
        /\ pc[t].op \in {"unlock", "unlocked"} /\ pc[t].then = "timesOut" => left[t] = 0
        /\ pc[t].op \in {"retry", "test", "inherit", "place"} => pc[t].time.ticks >= left[t]

(* A task waits in one event list, once, and sleeps while it does: what    *)
(* wakes it by its state list also takes it off the event list             *)
(* (xTaskIncrementTick, vTaskSuspend, xTaskRemoveFromEventList).           *)
WaitersSleep ==
    /\ \A s \in Side : IsInjective(waiting[s])
    /\ ToSet(waiting["send"]) \cap ToSet(waiting["receive"]) = {}
    /\ Waiting \subseteq (Sleeping \cup xSuspendedTaskList) \ xPendingReadyList

(* The queue is locked only within a call of the running task, with the    *)
(* scheduler suspended, and no count outlives it (prvUnlockQueue).         *)
LockedByRunner ==
    \A s \in Side :
        lock[s] # queueUNLOCKED =>
            /\ uxSchedulerSuspended > 0
            /\ pc[pxCurrentTCB].op \in {"test", "inherit", "place", "unlock", "unlocked"}
=============================================================================
