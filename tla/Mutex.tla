------------------------------- MODULE Mutex -------------------------------
(***************************************************************************)
(* One recursive mutex: a queue of one item that has a holder, who         *)
(* inherits the priority of the tasks that wait for it.  Taking waits as   *)
(* receiving does, in the steps of Queue; what is different is here.       *)
(*                                                                         *)
(* Interrupts do not use a mutex, only the holder gives it, and nobody     *)
(* changes priorities.  Each task may hold this mutex only.                *)
(***************************************************************************)
EXTENDS Queue

CONSTANT MaxDepth   \* bound: how often the holder takes the mutex again

ASSUME MutexAssumption ==
    /\ uxLength = 1 /\ NewPriorities = {} /\ MaxDepth \in Nat \ {0}
    /\ Waits \subseteq Task \X {"receive"} \X Tick   \* a task waits only to take it

VARIABLES
    xMutexHolder,
    uxRecursiveCallCount,
    uxMutexesHeld,
    uxBasePriority,
    xInheritanceOccurred   \* the tasks in a call in which this variable is true

mutexVars ==
    <<xMutexHolder, uxRecursiveCallCount, uxMutexesHeld, uxBasePriority, xInheritanceOccurred>>
mutexAll  == <<queueAll, mutexVars>>

Undisturbed == \* what no call on the mutex touches
    <<lifeVars, notifyVars, xTickCount, xPendedTicks, xNumOfOverflows, uxBasePriority>>

(* prvInitialiseMutex gives the mutex once.                                *)
MutexInit ==
    /\ Init
    /\ uxMessagesWaiting = 1
    /\ waiting = [s \in Side |-> <<>>]
    /\ lock = [s \in Side |-> queueUNLOCKED]
    /\ served = [s \in Side |-> {}]
    /\ left = [t \in Task |-> 0]
    /\ xNumOfOverflows = 0
    /\ xMutexHolder = NULL /\ uxRecursiveCallCount = 0
    /\ uxMutexesHeld = [t \in Task |-> 0]
    /\ uxBasePriority = uxPriority
    /\ xInheritanceOccurred = {}

-----------------------------------------------------------------------------
(* xQueueTakeMutexRecursive, which calls xQueueSemaphoreTake unless the    *)
(* caller is the holder.  Only the holder reads uxRecursiveCallCount.      *)

FaultyTaken ==
    /\ xMutexHolder' = IF xMutexHolder = NULL THEN pxCurrentTCB ELSE xMutexHolder
    /\ uxRecursiveCallCount' = uxRecursiveCallCount + 1
    /\ xInheritanceOccurred' = xInheritanceOccurred \ {pxCurrentTCB}
    /\ UNCHANGED <<uxMutexesHeld, uxBasePriority>>
Taken ==
    /\ xMutexHolder' = pxCurrentTCB
    /\ uxMutexesHeld' = [uxMutexesHeld EXCEPT ![pxCurrentTCB] = @ + 1]
    /\ uxRecursiveCallCount' = uxRecursiveCallCount + 1
    /\ xInheritanceOccurred' = xInheritanceOccurred \ {pxCurrentTCB}
    /\ UNCHANGED uxBasePriority
Takes ==
    /\ Calling /\ xMutexHolder # pxCurrentTCB
    /\ Perform("receive") /\ Taken
TakesAgain ==
    /\ Calling /\ xMutexHolder = pxCurrentTCB
    /\ uxRecursiveCallCount < MaxDepth
    /\ uxRecursiveCallCount' = uxRecursiveCallCount + 1
    /\ UNCHANGED <<queueAll, xMutexHolder, uxMutexesHeld, uxBasePriority, xInheritanceOccurred>>
MustWait ==
    /\ xMutexHolder # pxCurrentTCB
    /\ CallMustWait
    /\ UNCHANGED mutexVars
TakesAtLast == RetrySucceeds /\ Taken

(* A waiter whose time is over and who was beaten to a mutex it saw free   *)
(* returns without a look at the holder: xInheritanceOccurred ends with    *)
(* its call.                                                               *)
TakeFails ==
    /\ RetryFails
    /\ xInheritanceOccurred' = xInheritanceOccurred \ {pxCurrentTCB}
    /\ UNCHANGED <<xMutexHolder, uxRecursiveCallCount, uxMutexesHeld, uxBasePriority>>

(* A task of this priority enters a ready list anew if it was in one.      *)
Relisted(t, priority) ==
    IF t \in Members(pxReadyTasksLists[uxPriority[t]])
    THEN prvAddTaskToReadyList(Without(pxReadyTasksLists, t), t, priority)
    ELSE pxReadyTasksLists
RelistedTop(t, priority) ==
    IF t \in Members(pxReadyTasksLists[uxPriority[t]]) THEN taskRECORD_READY_PRIORITY({t}, priority)
    ELSE uxTopReadyPriority
Reprioritise(t, p) ==
    /\ uxPriority' = [uxPriority EXCEPT ![t] = p]
    /\ pxReadyTasksLists' = Relisted(t, uxPriority')
    /\ uxTopReadyPriority' = RelistedTop(t, uxPriority')

Unmoved == \* a step of the wait that wakes and moves nobody else
    UNCHANGED <<NotListed, switchVars, uxMessagesWaiting, waiting, lock, served, left,
                uxSchedulerSuspended, xMutexHolder, uxRecursiveCallCount, uxMutexesHeld, Undisturbed>>

(* xTaskPriorityInherit, before the caller goes into the event list.       *)
Inherits ==
    /\ At("inherit")
    /\ IF xMutexHolder # NULL /\ uxPriority[xMutexHolder] < uxPriority[pxCurrentTCB]
       THEN Reprioritise(xMutexHolder, uxPriority[pxCurrentTCB])
       ELSE UNCHANGED <<uxPriority, readyVars>>
    /\ xInheritanceOccurred' =
          IF xMutexHolder # NULL /\ uxPriority[pxCurrentTCB] > uxBasePriority[xMutexHolder]
          THEN xInheritanceOccurred \cup {pxCurrentTCB}
          ELSE xInheritanceOccurred \ {pxCurrentTCB}
    /\ Goto([Call EXCEPT !.op = "place"])
    /\ Unmoved

(* prvGetHighestPriorityOfWaitToReceiveList.                               *)
HighestWaiting ==
    IF waiting["receive"] = <<>> THEN 0 ELSE uxPriority[Head(waiting["receive"])]

(* vTaskPriorityDisinheritAfterTimeout, by a waiter whose time is over: the *)
(* holder, if there is one by now, falls to what the others ask of it.     *)
FaultyPriorityToUse == uxBasePriority[xMutexHolder]
PriorityToUse == Max({uxBasePriority[xMutexHolder], HighestWaiting})
GivesUp ==
    /\ At("giveUp")
    /\ IF /\ xMutexHolder # NULL /\ uxPriority[xMutexHolder] # PriorityToUse
          /\ uxMutexesHeld[xMutexHolder] = 1
       THEN Reprioritise(xMutexHolder, PriorityToUse)
       ELSE UNCHANGED <<uxPriority, readyVars>>
    /\ xInheritanceOccurred' = xInheritanceOccurred \ {pxCurrentTCB}
    /\ Goto(App)
    /\ Unmoved
FaultyRecheckEnds == App
RecheckEnds ==
    IF pxCurrentTCB \in xInheritanceOccurred THEN [op |-> "giveUp"] ELSE App

-----------------------------------------------------------------------------
(* xQueueGiveMutexRecursive; the last of the calls gives the mutex.        *)

GivesOnce ==
    /\ Calling /\ xMutexHolder = pxCurrentTCB /\ uxRecursiveCallCount > 1
    /\ uxRecursiveCallCount' = uxRecursiveCallCount - 1
    /\ UNCHANGED <<queueAll, xMutexHolder, uxMutexesHeld, uxBasePriority, xInheritanceOccurred>>

(* xTaskPriorityDisinherit: who holds no other mutex falls to its base     *)
(* priority.                                                               *)
Falls ==
    /\ uxPriority[pxCurrentTCB] # uxBasePriority[pxCurrentTCB]
    /\ uxMutexesHeld[pxCurrentTCB] = 1
Disinherited ==
    IF Falls THEN [uxPriority EXCEPT ![pxCurrentTCB] = uxBasePriority[pxCurrentTCB]] ELSE uxPriority
AfterFall ==
    IF Falls
    THEN prvAddTaskToReadyList(Without(pxReadyTasksLists, pxCurrentTCB), pxCurrentTCB, Disinherited)
    ELSE pxReadyTasksLists

(* A waiter that wakes is yielded to if it is above; that the giver fell   *)
(* counts only if nobody waits.                                            *)
YieldRequired ==
    IF waiting["receive"] = <<>> THEN Falls
    ELSE uxPriority[Head(waiting["receive"])] > Disinherited[pxCurrentTCB]
Gives ==
    /\ Calling /\ xMutexHolder = pxCurrentTCB /\ uxRecursiveCallCount = 1
    /\ uxPriority' = Disinherited
    /\ uxMutexesHeld' = [uxMutexesHeld EXCEPT ![pxCurrentTCB] = @ - 1]
    /\ uxRecursiveCallCount' = 0
    /\ xMutexHolder' = NULL
    /\ uxMessagesWaiting' = Count("send")
    /\ WakeFirst("receive", {})
    /\ IF YieldRequired
       THEN vTaskSwitchContext(Moved("receive", AfterFall), MovedTop("receive"))
       ELSE Keep(Moved("receive", AfterFall), MovedTop("receive"))
    /\ UNCHANGED <<lock, left, xNextTaskUnblockTime, uxSchedulerSuspended, pc, xInheritanceOccurred,
                   Undisturbed>>

-----------------------------------------------------------------------------
(* Memory that is freed is cleared, and a TCB made from it starts with its *)
(* base priority, without mutexes and in no call.                          *)
MadeOrFreed == {t \in Task : (memory[t] = "free") # (memory'[t] = "free")}
Anew ==
    /\ uxBasePriority' = [t \in Task |-> IF t \in MadeOrFreed THEN uxPriority'[t] ELSE uxBasePriority[t]]
    /\ uxMutexesHeld' = [t \in Task |-> IF t \in MadeOrFreed THEN 0 ELSE uxMutexesHeld[t]]
    /\ xInheritanceOccurred' = xInheritanceOccurred \ MadeOrFreed
    /\ UNCHANGED <<xMutexHolder, uxRecursiveCallCount>>

WaitSteps == \* as in Queue
    \/ RetryMustWait \/ SuspendsAll \/ Locks \/ Tests("inherit") \/ vTaskPlaceOnEventList
    \/ UnlocksReceivers \/ UnlocksSenders \/ Rechecks(RecheckEnds)

MutexNext ==
    \/ Takes \/ TakesAgain \/ TakesAtLast \/ TakeFails \/ MustWait
    \/ Inherits \/ GivesUp \/ GivesOnce \/ Gives
    \/ WaitSteps /\ UNCHANGED mutexVars
    \/ SchedulerSteps /\ Anew

MutexSpec == MutexInit /\ [][MutexNext]_mutexAll
-----------------------------------------------------------------------------
(* Nobody holds a free mutex, and one task holds one that is taken         *)
(* (xMutexHolder, uxMutexesHeld and the count of the queue agree); the     *)
(* holder does not wait for itself.                                        *)
OneHolder ==
    /\ xMutexHolder = NULL <=> uxMessagesWaiting = 1
    /\ \A t \in Task : uxMutexesHeld[t] = IF t = xMutexHolder THEN 1 ELSE 0
    /\ xMutexHolder \notin Waiting
    /\ uxRecursiveCallCount > 0 <=> xMutexHolder # NULL

(* No inversion: the holder has at least the priority of whoever sleeps    *)
(* for the mutex, or a task of that priority is awake in its call and will *)
(* see to it before it sleeps or gives up (xTaskPriorityInherit,           *)
(* vTaskPriorityDisinheritAfterTimeout).  Who tries a last time, its time  *)
(* over, sees to nothing.                                                  *)
InCall(t) == Onward(pc[t]).op \in
    {"retry", "suspend", "lock", "test", "inherit", "place", "unlock", "unlocked", "recheck", "giveUp"}
WillSee(t) == InCall(t) /\ (Onward(pc[t]).op = "retry" => Onward(pc[t]).time.ticks # 0)
HolderCarriesWaiters ==
    \A t \in Waiting :
        \/ xMutexHolder = NULL
        \/ uxPriority[xMutexHolder] >= uxPriority[t]
        \/ \E u \in Task \ Waiting : WillSee(u) /\ uxPriority[u] >= uxPriority[t]

(* What was lent comes back: a task is above its base priority only while  *)
(* it holds the mutex and a task of that priority is still in its call and *)
(* will see to it (xTaskPriorityDisinherit,                                *)
(* vTaskPriorityDisinheritAfterTimeout).                                   *)
NoStrayPriority ==
    \A t \in Task :
        uxPriority[t] = uxBasePriority[t] \/
            (t = xMutexHolder /\ \E u \in Task : WillSee(u) /\ uxPriority[u] = uxPriority[t])
=============================================================================
