------------------------------- MODULE Notify -------------------------------
(***************************************************************************)
(* Task notifications of tasks.c, over the scheduler.  A task has one      *)
(* notification: a state and a value.  It waits with ulTaskNotifyTake or   *)
(* xTaskNotifyWait, for a time or without end; a task or an interrupt      *)
(* notifies it.  The value is a count; the bits a wait clears are none of  *)
(* them or all.                                                            *)
(***************************************************************************)
EXTENDS Scheduler

CONSTANTS
    Waits,        \* bound: the ticks a task waits for a notification
    Listeners,    \* bound: the tasks that wait
    MaxNotified   \* bound on ulNotifiedValue

ASSUME NotifyAssumption ==
    Waits \subseteq 0 .. portMAX_DELAY /\ Listeners \subseteq Task \ {Idle} /\ MaxNotified \in Nat

VARIABLE stopped   \* history: the tasks vTaskSuspend stopped and nobody resumed

notifyAll == <<vars, stopped>>

Undisturbed == \* what notifications and waits leave alone
    <<lifeVars, uxPriority, xTickCount, xPendedTicks, stopped>>
OnlyNotification ==
    UNCHANGED <<NotListed, readyVars, switchVars, uxSchedulerSuspended, Undisturbed>>

-----------------------------------------------------------------------------
(* Waiting: f is the function, "take" or "wait"; clear is                  *)
(* xClearCountOnExit, or whether ulBitsToClearOnExit clears.               *)

Answered(f) ==
    IF f = "take" THEN ulNotifiedValue[pxCurrentTCB] # 0
    ELSE ucNotifyState[pxCurrentTCB] = "received"

Exit(f) == IF f = "take" THEN "takeEnds" ELSE "waitEnds"

WaitCall(f) ==
    /\ Calling /\ pxCurrentTCB \in Listeners
    /\ \E n \in Waits, clear \in BOOLEAN :
         IF ~Answered(f) /\ n > 0
         THEN /\ MayBlock /\ vTaskSuspendAll
              /\ Goto([op |-> f, ticks |-> n, clear |-> clear])
         ELSE /\ Goto([op |-> Exit(f), clear |-> clear])
              /\ UNCHANGED uxSchedulerSuspended
    /\ UNCHANGED <<NotListed, readyVars, switchVars, notifyVars, Undisturbed>>

(* The first critical section: the answer may have come since.             *)
WaitDecides(f) ==
    /\ At(f)
    /\ LET me == pc[pxCurrentTCB]
           end == [op |-> Exit(f), clear |-> me.clear]
       IN  IF ~Answered(f)
           THEN /\ ucNotifyState' = [ucNotifyState EXCEPT ![pxCurrentTCB] = "waiting"]
                /\ \/ UNCHANGED ulNotifiedValue
                   \/ /\ f = "wait"          \* ulBitsToClearOnEntry
                      /\ ulNotifiedValue' = [ulNotifiedValue EXCEPT ![pxCurrentTCB] = 0]
                /\ Goto([op |-> "listen", ticks |-> me.ticks, end |-> end])
           ELSE UNCHANGED notifyVars /\ Goto(Resuming(end, end))
    /\ OnlyNotification

WaitSleeps ==
    /\ At("listen")
    /\ prvAddCurrentTaskToDelayedList(pc[pxCurrentTCB].ticks, TRUE)
    /\ Goto(Resuming(pc[pxCurrentTCB].end, YieldingTo(pc[pxCurrentTCB].end)))
    /\ UNCHANGED <<uxTopReadyPriority, xPendingReadyList, switchVars, notifyVars,
                   uxSchedulerSuspended, Undisturbed>>

(* The last critical section.                                              *)
ulTaskGenericNotifyTake ==
    /\ At("takeEnds")
    /\ ulNotifiedValue' = [ulNotifiedValue EXCEPT ![pxCurrentTCB] =
                             IF @ = 0 \/ pc[pxCurrentTCB].clear THEN 0 ELSE @ - 1]
    /\ ucNotifyState' = [ucNotifyState EXCEPT ![pxCurrentTCB] = "none"]
    /\ Goto(App)
    /\ OnlyNotification
xTaskGenericNotifyWait ==
    /\ At("waitEnds")
    /\ ulNotifiedValue' = [ulNotifiedValue EXCEPT ![pxCurrentTCB] =
                             IF ucNotifyState[pxCurrentTCB] = "received" /\ pc[pxCurrentTCB].clear
                             THEN 0 ELSE @]
    /\ ucNotifyState' = [ucNotifyState EXCEPT ![pxCurrentTCB] = "none"]
    /\ Goto(App)
    /\ OnlyNotification

-----------------------------------------------------------------------------
(* Notifying.                                                              *)

(* The value after each eAction; without overwrite a notification that was *)
(* not read stays.                                                         *)
NewValues(t) ==
    {v \in 0 .. MaxNotified :
       \/ v = ulNotifiedValue[t] + 1                    \* eIncrement
       \/ ucNotifyState[t] # "received"                 \* eSetValue..., eSetBits
       \/ v \in {ulNotifiedValue[t], MaxNotified}}      \* eNoAction, overwrite

FaultyReceive(t, v) ==
    /\ ulNotifiedValue' = [ulNotifiedValue EXCEPT ![t] = v]
    /\ UNCHANGED ucNotifyState
Receive(t, v) ==
    /\ ucNotifyState' = [ucNotifyState EXCEPT ![t] = "received"]
    /\ ulNotifiedValue' = [ulNotifiedValue EXCEPT ![t] = v]

xTaskGenericNotify(t) ==
    /\ Calling /\ t \in Live \ ({Idle} \cup xTasksWaitingTermination)
    /\ \E v \in NewValues(t) : Receive(t, v)
    /\ IF ucNotifyState[t] = "waiting"
       THEN /\ Unblock(t)
            /\ LET top == taskRECORD_READY_PRIORITY({t}, uxPriority)
               IN  IF uxPriority[pxCurrentTCB] < uxPriority[t]
                   THEN vTaskSwitchContext(ReadyAgain(t), top)
                   ELSE Keep(ReadyAgain(t), top)
       ELSE UNCHANGED <<sleepVars, xSuspendedTaskList, readyVars, switchVars>>
    /\ UNCHANGED <<xPendingReadyList, xNextTaskUnblockTime, uxSchedulerSuspended, pc, Undisturbed>>

FaultyvTaskGenericNotifyGiveFromISR(t) ==
    /\ xSchedulerRunning /\ ~Masked /\ t \in Live \ ({Idle} \cup xTasksWaitingTermination)
    /\ ulNotifiedValue[t] < MaxNotified
    /\ Receive(t, ulNotifiedValue[t] + 1)
    /\ IF ucNotifyState[t] # "waiting"
       THEN UNCHANGED <<sleepVars, xSuspendedTaskList, readyVars, xPendingReadyList, xYieldPendings>>
       ELSE /\ Unblock(t)
            /\ pxReadyTasksLists' = ReadyAgain(t)
            /\ uxTopReadyPriority' = taskRECORD_READY_PRIORITY({t}, uxPriority)
            /\ xYieldPendings' = (xYieldPendings \/ uxPriority[t] > uxPriority[pxCurrentTCB])
            /\ UNCHANGED xPendingReadyList
    /\ UNCHANGED <<xNextTaskUnblockTime, pxCurrentTCB, uxSchedulerSuspended, pc, Undisturbed>>
vTaskGenericNotifyGiveFromISR(t) ==
    /\ xSchedulerRunning /\ ~Masked /\ t \in Live \ ({Idle} \cup xTasksWaitingTermination)
    /\ ulNotifiedValue[t] < MaxNotified
    /\ Receive(t, ulNotifiedValue[t] + 1)
    /\ IF ucNotifyState[t] # "waiting"
       THEN UNCHANGED <<sleepVars, xSuspendedTaskList, readyVars, xPendingReadyList, xYieldPendings>>
       ELSE /\ IF uxSchedulerSuspended = 0
               THEN /\ Unblock(t)
                    /\ pxReadyTasksLists' = ReadyAgain(t)
                    /\ uxTopReadyPriority' = taskRECORD_READY_PRIORITY({t}, uxPriority)
                    /\ UNCHANGED xPendingReadyList
               ELSE /\ xPendingReadyList' = xPendingReadyList \cup {t}
                    /\ UNCHANGED <<sleepVars, xSuspendedTaskList, readyVars>>
            /\ xYieldPendings' = (xYieldPendings \/ uxPriority[t] > uxPriority[pxCurrentTCB])
    /\ UNCHANGED <<xNextTaskUnblockTime, pxCurrentTCB, uxSchedulerSuspended, pc, Undisturbed>>

(* xTaskNotifyStateClear and ulTaskNotifyValueClear.                       *)
xTaskGenericNotifyStateClear(t) ==
    /\ Calling /\ t \in Live /\ ucNotifyState[t] = "received"
    /\ ucNotifyState' = [ucNotifyState EXCEPT ![t] = "none"]
    /\ UNCHANGED <<ulNotifiedValue, pc>> /\ OnlyNotification
ulTaskGenericNotifyValueClear(t) ==
    /\ Calling /\ t \in Live /\ ulNotifiedValue[t] # 0
    /\ ulNotifiedValue' = [ulNotifiedValue EXCEPT ![t] = 0]
    /\ UNCHANGED <<ucNotifyState, pc>> /\ OnlyNotification

-----------------------------------------------------------------------------
NotifyInit == Init /\ stopped = {}

Notifications ==
    \/ \E f \in {"take", "wait"} : WaitCall(f) \/ WaitDecides(f)
    \/ WaitSleeps \/ ulTaskGenericNotifyTake \/ xTaskGenericNotifyWait
    \/ \E t \in Task :
         \/ xTaskGenericNotify(t) \/ vTaskGenericNotifyGiveFromISR(t)
         \/ xTaskGenericNotifyStateClear(t) \/ ulTaskGenericNotifyValueClear(t)

(* The task a vTaskSuspend call has just put in the suspended list.        *)
JustStopped ==
    {t \in Task : At("app") /\ pc'[pxCurrentTCB] = [op |-> "suspended", who |-> t]}

NotifyNext ==
    \/ Notifications
    \/ /\ Next
       /\ stopped' = JustStopped \cup (stopped \cap (xSuspendedTaskList' \ xPendingReadyList'))

NotifySpec == NotifyInit /\ [][NotifyNext]_notifyAll

-----------------------------------------------------------------------------
(* The suspended list holds the tasks that were stopped and those that     *)
(* wait without end.  The kernel tells them apart by what it has at hand,  *)
(* so that a resume wakes the former and never the latter                  *)
(* (prvTaskIsTaskSuspended).                                               *)
StoppedTasksAreKnown == \A t \in Task : prvTaskIsTaskSuspended(t) <=> t \in stopped

(* A task that was notified does not go on sleeping for it: it is ready,   *)
(* about to be, stopped, or still running                                  *)
(* (ulTaskGenericNotifyTake between its section and the sleep).            *)
Listening(t) == pc[t].op \in {"takeEnds", "waitEnds"}
NotifiedIsWoken ==
    \A t \in Live :
        Listening(t) /\ ucNotifyState[t] = "received" /\ t \notin stopped =>
            t \in Ready \cup xPendingReadyList

(* A task that waits for a notification has its event list item free       *)
(* (the assertions in xTaskGenericNotify).                                 *)
EventItemFree == \A t \in xPendingReadyList : ucNotifyState[t] # "waiting"
=============================================================================
