----------------------------- MODULE WaitProofs -----------------------------
(***************************************************************************)
(* Theorems about what a task waits for: the time, in Periodic, and        *)
(* notifications, in Notify.                                               *)
(*                                                                         *)
(* The scheduler keeps time, for every width of the tick count: it         *)
(* implements Sleep, and periodic tasks are on time, since what a call     *)
(* computes from three tick counts that may each have wrapped is the time  *)
(* that passed without the wraps.  With notifications the invariant of the *)
(* scheduler holds too, and no notification is lost.                       *)
(***************************************************************************)
EXTENDS Periodic, Notify, SchedulerProofs

-----------------------------------------------------------------------------
(* How long a task still sleeps.                                           *)

LEMMA Clock ==
    ASSUME IInv
    PROVE  /\ TickRange \in Nat /\ xTickCount \in Nat /\ xTickCount <= TickRange - 1
           /\ \A t \in Task : xItemValue[t] \in Nat /\ xItemValue[t] <= TickRange - 1
           /\ \A t \in pxDelayedTaskList :
                 t \in Task /\ xTickCount < xItemValue[t] /\ t \notin pxOverflowDelayedTaskList
           /\ \A t \in pxOverflowDelayedTaskList : t \in Task /\ xItemValue[t] < xTickCount
  BY WidthAssumption DEF IInv, Typed, Homes, NeverLate, Tick

LEMMA LeftIs ==
    \A t \in Task :
       TicksLeft[t] = IF t \in pxDelayedTaskList THEN xItemValue[t] - xTickCount
                      ELSE IF t \in pxOverflowDelayedTaskList THEN TickRange - xTickCount + xItemValue[t]
                      ELSE 0
  BY DEF TicksLeft

LEMMA AsleepIsSleeping ==
    ASSUME IInv
    PROVE  /\ TicksLeft \in [Task -> Nat]
           /\ \A t \in Task : TicksLeft[t] > 0 <=> t \in Sleeping
<1>1. \A t \in Task : TicksLeft[t] \in Nat /\ (TicksLeft[t] > 0 <=> t \in Sleeping)
  BY Clock, LeftIs DEF Sleeping
<1>2. TicksLeft = [t \in Task |-> TicksLeft[t]]
  BY DEF TicksLeft
<1> QED
  BY <1>1, <1>2

LEMMA LeftBecomes ==
    ASSUME NEW f, f = [t \in Task |-> f[t]], \A t \in Task : TicksLeft'[t] = f[t]
    PROVE  TicksLeft' = f
<1>1. TicksLeft' = [t \in Task |-> TicksLeft'[t]]
  BY DEF TicksLeft
<1> QED
  BY <1>1

(* What a step does to the sleep of the tasks.                             *)
LEMMA LeftSame ==
    ASSUME UNCHANGED <<pxDelayedTaskList, pxOverflowDelayedTaskList, xTickCount>>,
           \A t \in Sleeping \cap Task : xItemValue'[t] = xItemValue[t]
    PROVE  UNCHANGED TicksLeft
  BY DEF TicksLeft, Sleeping

LEMMA LeftGone ==
    ASSUME IInv, NEW t \in Task,
           pxDelayedTaskList' = pxDelayedTaskList \ {t},
           pxOverflowDelayedTaskList' = pxOverflowDelayedTaskList \ {t},
           UNCHANGED <<xItemValue, xTickCount>>
    PROVE  /\ TicksLeft' = [u \in Task |-> IF u = t THEN 0 ELSE TicksLeft[u]]
           /\ Sleeping' = Sleeping \ {t}
<1>1. \A u \in Task : TicksLeft'[u] = IF u = t THEN 0 ELSE TicksLeft[u]
  BY LeftIs, Clock DEF TicksLeft
<1> QED
  BY <1>1 DEF TicksLeft, Sleeping

LEMMA LeftRoused ==
    ASSUME IInv, NEW t \in Task,
           pxDelayedTaskList' = pxDelayedTaskList \ {t},
           pxOverflowDelayedTaskList' = pxOverflowDelayedTaskList \ {t},
           UNCHANGED <<xItemValue, xTickCount>>, UNCHANGED Backlog
    PROVE  Sleeper!Next
<1> DEFINE S == {t} \cap Sleeper!Asleep
<1>1. S \in SUBSET Sleeper!Asleep
  OBVIOUS
<1>2. \A u \in Task : u \in S <=> u = t /\ TicksLeft[u] > 0
  BY DEF Sleeper!Asleep
<1>3. \A u \in Task : TicksLeft'[u] = IF u \in S THEN 0 ELSE TicksLeft[u]
  BY <1>2, LeftGone, AsleepIsSleeping
<1> HIDE DEF S
<1>4. TicksLeft' = [u \in Task |-> IF u \in S THEN 0 ELSE TicksLeft[u]]
  BY <1>3, LeftGone
<1>5. Sleeper!Rouse(S)
  BY <1>4 DEF Sleeper!Rouse
<1> QED
  BY <1>1, <1>5 DEF Sleeper!Next

(* A counted tick takes one from every sleep, and wakes those it ends.     *)
LEMMA LeftCounted == IInv /\ TickLists => Sleeper!Count
<1> SUFFICES ASSUME IInv, TickLists PROVE Sleeper!Count
  OBVIOUS
<1>1. NextTick = IF xTickCount = TickRange - 1 THEN 0 ELSE xTickCount + 1
  BY NextTickIs DEF IInv, Typed
<1>2. /\ xTickCount' = NextTick /\ xItemValue' = xItemValue
      /\ pxDelayedTaskList' = DueList \ Woken /\ pxOverflowDelayedTaskList' = LaterList
  BY DEF TickLists
<1>3. \A t \in DueList : t \in Woken <=> xItemValue[t] <= NextTick
  <2>1. UnblockTime \in Nat /\ NextTick \in Nat /\ \A t \in DueList : UnblockTime <= xItemValue[t]
    <3>1. UnblockTime \in Nat /\ NextTick \in Nat /\ DueList \in SUBSET Task
      BY TickTypes DEF Tick
    <3>2. CASE NextTick = 0
      BY <3>1, <3>2, HeadValueIs DEF UnblockTime, IInv, Typed
    <3>3. CASE NextTick # 0
      BY <3>1, <3>3 DEF UnblockTime, DueList, IInv, NeverLate
    <3> QED
      BY <3>1, <3>2, <3>3
  <2>2. \A t \in DueList : xItemValue[t] \in Nat
    BY TickTypes, Clock
  <2> QED
    BY <2>1, <2>2 DEF Woken
<1>4. \A t \in Task : TicksLeft'[t] = IF TicksLeft[t] > 0 THEN TicksLeft[t] - 1 ELSE 0
  <2> SUFFICES ASSUME NEW t \in Task
               PROVE  TicksLeft'[t] = IF TicksLeft[t] > 0 THEN TicksLeft[t] - 1 ELSE 0
    OBVIOUS
  <2>1. TicksLeft'[t] = IF t \in DueList \ Woken THEN xItemValue[t] - NextTick
                        ELSE IF t \in LaterList THEN TickRange - NextTick + xItemValue[t]
                        ELSE 0
    BY <1>2 DEF TicksLeft
  <2>2. CASE NextTick = 0
    <3>1. xTickCount = TickRange - 1
      BY <1>1, <2>2, Clock
    <3>2. pxDelayedTaskList = {}
      BY <3>1, Clock
    <3>3. DueList = pxOverflowDelayedTaskList /\ LaterList = {}
      BY <2>2, <3>2 DEF DueList, LaterList
    <3> QED
      BY <1>3, <2>1, <2>2, <3>1, <3>2, <3>3, LeftIs, Clock
  <2>3. CASE NextTick # 0
    <3>1. /\ NextTick = xTickCount + 1
          /\ DueList = pxDelayedTaskList /\ LaterList = pxOverflowDelayedTaskList
      BY <1>1, <2>3 DEF DueList, LaterList
    <3> QED
      BY <1>3, <2>1, <3>1, LeftIs, Clock
  <2> QED
    BY <2>2, <2>3
<1>5. TicksLeft' = [t \in Task |-> IF TicksLeft[t] > 0 THEN TicksLeft[t] - 1 ELSE 0]
  BY <1>4 DEF TicksLeft
<1> QED
  BY <1>5 DEF Sleeper!Count

(* A task that delays itself sleeps for as long as it asked.               *)
LEMMA LeftAsked ==
    ASSUME IInv, DelaySleeps
    PROVE  /\ pxCurrentTCB \in Task /\ TicksLeft[pxCurrentTCB] = 0
           /\ pc[pxCurrentTCB].ticks \in 1 .. portMAX_DELAY
           /\ TicksLeft' = [TicksLeft EXCEPT ![pxCurrentTCB] = pc[pxCurrentTCB].ticks]
<1> DEFINE me == pxCurrentTCB
           n == pc[me].ticks
           wake == TimeToWake(n)
<1>1. me \in Task /\ n \in 1 .. portMAX_DELAY /\ me \in Ready
  <2>1. xSchedulerRunning /\ pc[me].op = "delay"
    BY DEF DelaySleeps, At
  <2>2. me \in Task /\ n \in 1 .. portMAX_DELAY
    BY <2>1, Here, PlaceShape
  <2> QED
    BY <2>2, DelaySleepsFromReady
<1>2. me \notin Sleeping
  BY <1>1 DEF IInv, Homes
<1>3. n \in Tick /\ xTickCount \in Tick
  BY <1>1 DEF Tick, portMAX_DELAY, IInv, Typed
<1>4. wake = IF xTickCount + n < TickRange THEN xTickCount + n ELSE xTickCount + n - TickRange
  BY <1>3, Wraps DEF TimeToWake
<1>5. /\ xTickCount' = xTickCount
      /\ xItemValue' = [xItemValue EXCEPT ![me] = wake]
      /\ IF wake < xTickCount
         THEN /\ pxOverflowDelayedTaskList' = pxOverflowDelayedTaskList \cup {me}
              /\ UNCHANGED pxDelayedTaskList
         ELSE /\ pxDelayedTaskList' = pxDelayedTaskList \cup {me}
              /\ UNCHANGED pxOverflowDelayedTaskList
  BY DEF DelaySleeps, prvAddCurrentTaskToDelayedList
<1>6. n \in Nat /\ n > 0 /\ n <= TickRange - 1
  BY <1>1, WidthAssumption DEF portMAX_DELAY
<1>7. xItemValue'[me] = wake /\ \A t \in Task \ {me} : xItemValue'[t] = xItemValue[t]
  BY <1>1, <1>5 DEF IInv, Typed
<1> HIDE DEF wake, n, me
<1>8. TicksLeft'[me] = n
  BY <1>1, <1>2, <1>4, <1>5, <1>6, <1>7, Clock DEF TicksLeft, Sleeping
<1>9. \A t \in Task \ {me} : TicksLeft'[t] = TicksLeft[t]
  BY <1>5, <1>7 DEF TicksLeft
<1>10. TicksLeft' = [TicksLeft EXCEPT ![me] = n]
  <2>1. \A t \in Task : TicksLeft'[t] = [TicksLeft EXCEPT ![me] = n][t]
    BY <1>1, <1>8, <1>9, AsleepIsSleeping
  <2> QED
    BY <2>1, AsleepIsSleeping, LeftBecomes
<1>11. TicksLeft[me] = 0
  BY <1>1, <1>2, LeftIs DEF Sleeping
<1> QED
  BY <1>1, <1>10, <1>11 DEF me, n

LEMMA LeftDelayed ==
    ASSUME IInv, DelaySleeps, UNCHANGED Backlog
    PROVE  Sleeper!Next
  BY LeftAsked DEF Sleeper!Next, Sleeper!Sleep

-----------------------------------------------------------------------------
(* The ticks that are not counted yet.                                     *)

LEMMA NoTicks ==
    ASSUME IInv, Next, xSchedulerRunning,
           pc'[pxCurrentTCB].op # "ticks",
           \A t \in Task \ {pxCurrentTCB} : pc'[t] = pc[t] \/ pc'[t] = App
    PROVE  Backlog' = xPendedTicks'
<1>1. \A t \in Task : pc'[t].op # "ticks"
  BY DEF IInv, Suspension, Urgent, App
<1>2. xSchedulerRunning' => pxCurrentTCB' \in Task
  BY AliveKept DEF Alive, Live
<1> QED
  BY <1>1, <1>2 DEF Backlog, At

(* Most steps start outside the loop over pended ticks and stay out of it. *)
LEMMA BacklogIsPended ==
    ASSUME IInv, Next, xSchedulerRunning, ~At("ticks"),
           NEW place, place.op # "ticks",
           \/ UNCHANGED pc
           \/ pc' = [pc EXCEPT ![pxCurrentTCB] = place]
           \/ \E u \in Task : pc' = [pc EXCEPT ![pxCurrentTCB] = place, ![u] = App]
    PROVE  Backlog = xPendedTicks /\ Backlog' = xPendedTicks'
<1>1. /\ pxCurrentTCB \in Task /\ pc \in [Task -> Place] /\ pc[pxCurrentTCB].op # "ticks"
      /\ App.op # "ticks"
  BY Here DEF At, App
<1>2. /\ pc'[pxCurrentTCB].op # "ticks"
      /\ \A t \in Task \ {pxCurrentTCB} : pc'[t] = pc[t] \/ pc'[t] = App
  BY <1>1
<1>3. Backlog' = xPendedTicks'
  BY <1>2, NoTicks
<1> QED
  BY <1>3 DEF Backlog

LEMMA BacklogSame ==
    ASSUME IInv, Next, xSchedulerRunning, ~At("ticks"), UNCHANGED xPendedTicks,
           NEW place \in Place, place.op # "ticks",
           \/ UNCHANGED pc
           \/ pc' = [pc EXCEPT ![pxCurrentTCB] = place]
           \/ \E u \in Task : pc' = [pc EXCEPT ![pxCurrentTCB] = place, ![u] = App]
    PROVE  UNCHANGED Backlog
  BY BacklogIsPended

(* The places the calls of the application lead to.                        *)
LEMMA NotInLoop ==
    /\ App \in Place /\ App.op # "ticks" /\ Yielding \in Place /\ Yielding.op # "ticks"
    /\ \A y, n \in Ends : /\ Resuming(y, n) \in Place /\ Resuming(y, n).op # "ticks"
                          /\ y \in Place /\ y.op # "ticks"
    /\ \A u \in Task : LET add == [op |-> "add", who |-> u] IN add \in Ends
<1>1. App \in Ends /\ Yielding \in Ends /\ \A u \in Task : [op |-> "add", who |-> u] \in Ends
  BY PlaceMade
<1>2. \A y \in Ends : y \in Place /\ y.op # "ticks"
  BY EndShape DEF EndOps, OutOps
<1>3. \A y, n \in Ends : Resuming(y, n) \in Place /\ Resuming(y, n).op # "ticks"
  BY PlaceMade DEF Resuming
<1> QED
  BY <1>1, <1>2, <1>3

(* The step of a call, by where it leads.                                  *)
LEMMA CallKeepsBacklog ==
    ASSUME IInv, Next, xSchedulerRunning, UNCHANGED xPendedTicks,
           \/ SuspendAll \/ ResumeAll \/ vTaskDelay \/ xTaskCatchUpTicks \/ SuspendReturns
           \/ CreateAdds \/ CreateReturns \/ prvDeleteTCB \/ xTaskResumeAll \/ vPortYield
           \/ DelaySleeps \/ prvCheckTasksWaitingTermination \/ prvIdleTask
           \/ \E t \in Task : \/ vTaskSuspend(t) \/ vTaskResume(t) \/ vTaskDelete(t) \/ ResumeDrains(t)
                              \/ xTaskResumeFromISR(t)
                              \/ \E p \in Priority : vTaskPrioritySet(t, p) \/ xTaskCreate(t, p)
    PROVE  UNCHANGED Backlog
<1> USE DEF At
<1>0. pxCurrentTCB \in Task /\ pc[pxCurrentTCB] \in Place
  BY Here
<1>1. CASE SuspendAll \/ \E t \in Task : vTaskResume(t) \/ \E p \in Priority : vTaskPrioritySet(t, p)
  BY <1>1, NotInLoop, BacklogSame DEF SuspendAll, vTaskResume, vTaskPrioritySet, Calling
<1>2. CASE \E t \in Task : xTaskResumeFromISR(t)
  BY <1>2, NotInLoop, BacklogSame DEF xTaskResumeFromISR, Masked
<1>3. CASE ResumeAll \/ DelaySleeps
  <2>1. PICK y \in Ends, n \in Ends : pc' = [pc EXCEPT ![pxCurrentTCB] = Resuming(y, n)]
    BY <1>3, PlaceMade DEF ResumeAll, DelaySleeps, Goto
  <2>2. ~At("ticks")
    BY <1>3 DEF ResumeAll, DelaySleeps, Calling
  <2> QED
    BY <2>1, <2>2, NotInLoop, BacklogSame
<1>4. CASE vTaskDelay \/ xTaskCatchUpTicks
  <2>1. ~At("ticks")
    BY <1>4 DEF vTaskDelay, xTaskCatchUpTicks, Calling
  <2>2. ASSUME NEW n, NEW o \in {"delay", "catchup"},
               pc' = [pc EXCEPT ![pxCurrentTCB] = [op |-> o, ticks |-> n]]
        PROVE  UNCHANGED Backlog
    <3> DEFINE place == [op |-> o, ticks |-> n]
    <3>1. place.op # "ticks" /\ pc' = [pc EXCEPT ![pxCurrentTCB] = place]
      BY <2>2
    <3> HIDE DEF place
    <3>2. Backlog = xPendedTicks /\ Backlog' = xPendedTicks'
      BY <2>1, <3>1, BacklogIsPended
    <3> QED
      BY <3>2
  <2>3. ASSUME pc' = [pc EXCEPT ![pxCurrentTCB] = Yielding] PROVE UNCHANGED Backlog
    BY <2>1, <2>3, NotInLoop, BacklogSame
  <2> QED
    BY <1>4, <2>2, <2>3 DEF vTaskDelay, xTaskCatchUpTicks, Goto
<1>5. CASE SuspendReturns \/ CreateReturns \/ prvIdleTask
  <2>1. PICK y \in Ends : pc' = [pc EXCEPT ![pxCurrentTCB] = y]
    BY <1>5, PlaceMade DEF SuspendReturns, CreateReturns, prvIdleTask, Goto
  <2>2. ~At("ticks")
    BY <1>5 DEF SuspendReturns, CreateReturns, prvIdleTask
  <2> QED
    BY <2>1, <2>2, NotInLoop, BacklogSame
<1>6. CASE CreateAdds \/ prvCheckTasksWaitingTermination \/ \E t \in Task : vTaskSuspend(t)
  <2>1. ~At("ticks")
    BY <1>6 DEF CreateAdds, prvCheckTasksWaitingTermination, vTaskSuspend, Calling
  <2>2. ASSUME NEW u, NEW o \in {"created", "free", "suspended"},
               pc' = [pc EXCEPT ![pxCurrentTCB] = [op |-> o, who |-> u]]
        PROVE  UNCHANGED Backlog
    <3> DEFINE place == [op |-> o, who |-> u]
    <3>1. place.op # "ticks" /\ pc' = [pc EXCEPT ![pxCurrentTCB] = place]
      BY <2>2
    <3> HIDE DEF place
    <3>2. Backlog = xPendedTicks /\ Backlog' = xPendedTicks'
      BY <2>1, <3>1, BacklogIsPended
    <3> QED
      BY <3>2
  <2> QED
    BY <1>6, <2>2 DEF CreateAdds, prvCheckTasksWaitingTermination, vTaskSuspend, Goto
<1>7. ASSUME NEW t \in Task, vTaskDelete(t) PROVE UNCHANGED Backlog
  <2> DEFINE place == IF t = pxCurrentTCB THEN Yielding ELSE [op |-> "free", who |-> t]
  <2>1. /\ place.op # "ticks" /\ pc' = [pc EXCEPT ![pxCurrentTCB] = place] /\ ~At("ticks")
    BY <1>7, NotInLoop DEF vTaskDelete, Calling, Goto
  <2> HIDE DEF place
  <2> QED
    BY <2>1, BacklogIsPended
<1>8. CASE prvDeleteTCB
  <2>1. /\ pc' = [pc EXCEPT ![pxCurrentTCB] = Resuming(App, App), ![pc[pxCurrentTCB].who] = App]
        /\ pc[pxCurrentTCB].who \in Task /\ ~At("ticks")
    BY <1>8, DeleteTCBReady DEF prvDeleteTCB
  <2>2. Resuming(App, App) \in Place /\ Resuming(App, App).op # "ticks"
    BY NotInLoop, PlaceMade
  <2> QED
    BY <2>1, <2>2, BacklogSame
<1>9. CASE xTaskResumeAll
  <2> DEFINE back == pc[pxCurrentTCB]
             place == IF uxSchedulerSuspended = 1
                      THEN [op |-> "drain", moved |-> FALSE, yielded |-> back.yielded, not |-> back.not]
                      ELSE back.not
  <2>1. back.not \in Ends
    BY <1>9, <1>0, PlaceShape DEF xTaskResumeAll
  <2>2. place.op # "ticks" /\ pc' = [pc EXCEPT ![pxCurrentTCB] = place] /\ ~At("ticks")
    BY <1>9, <2>1, NotInLoop DEF xTaskResumeAll, Goto
  <2> HIDE DEF place
  <2> QED
    BY <2>2, BacklogIsPended
<1>10. CASE vPortYield
  <2>1. pc[pxCurrentTCB].op = "yield" /\ pc[pxCurrentTCB].next \in Ends
    BY <1>10, <1>0, PlaceShape DEF vPortYield, Ends
  <2> DEFINE place == pc[pxCurrentTCB].next
  <2>2. place.op # "ticks" /\ pc' = [pc EXCEPT ![pxCurrentTCB] = place] /\ ~At("ticks")
    BY <1>10, <2>1, NotInLoop DEF vPortYield, Goto
  <2> HIDE DEF place
  <2> QED
    BY <2>2, BacklogIsPended
<1>11. ASSUME NEW t \in Task, ResumeDrains(t) PROVE UNCHANGED Backlog
  <2> DEFINE place == [pc[pxCurrentTCB] EXCEPT !.moved = TRUE]
  <2>1. pc[pxCurrentTCB] \in [op : {"drain"}, moved : BOOLEAN, yielded : Ends, not : Ends]
    BY <1>11, <1>0, PlaceShape DEF ResumeDrains
  <2>2. place.op # "ticks" /\ ~At("ticks")
    BY <2>1
  <2>3. pc' = [pc EXCEPT ![pxCurrentTCB] = place]
    BY <1>11 DEF ResumeDrains
  <2> HIDE DEF place
  <2> QED
    BY <2>2, <2>3, BacklogIsPended
<1>12. ASSUME NEW t \in Task, NEW p \in Priority, xTaskCreate(t, p) PROVE UNCHANGED Backlog
  <2>1. ~At("ticks")
    BY <1>12 DEF xTaskCreate, Calling
  <2>2. PICK y \in Ends : \/ pc' = [pc EXCEPT ![pxCurrentTCB] = Resuming(y, y)]
                          \/ pc' = [pc EXCEPT ![pxCurrentTCB] = Resuming(y, y), ![t] = App]
    BY <1>12, PlaceMade DEF xTaskCreate, Goto
  <2> QED
    BY <2>1, <2>2, NotInLoop, BacklogSame
<1> QED
  BY <1>1, <1>2, <1>3, <1>4, <1>5, <1>6, <1>7, <1>8, <1>9, <1>10, <1>11, <1>12

-----------------------------------------------------------------------------
(* The step simulation.                                                    *)

LEMMA SleepsFromTheStart == Init => Sleeper!Init
<1> SUFFICES ASSUME Init PROVE Sleeper!Init
  OBVIOUS
<1>1. TicksLeft = [t \in Task |-> 0]
  BY DEF Init, TicksLeft
<1>2. Backlog = 0
  BY DEF Init, Backlog, At
<1> QED
  BY <1>1, <1>2 DEF Sleeper!Init

LEMMA StepKeepsTime ==
    IInv /\ [Next]_vars => [Sleeper!Next]_<<TicksLeft, Backlog>>
<1> SUFFICES ASSUME IInv, [Next]_vars
             PROVE  Sleeper!Next \/ UNCHANGED <<TicksLeft, Backlog>>
  OBVIOUS
<1> USE DEF NotListed, sleepVars, timeVars
<1>1. CASE UNCHANGED vars
  BY <1>1, LeftSame DEF vars, switchVars, lifeVars, Backlog, At
<1>2. CASE Next /\ ~xSchedulerRunning
  <2>1. xTaskCreateInMain \/ vTaskStartScheduler
    BY <1>2, StaysRunning DEF Next
  <2>2. UNCHANGED <<sleepVars, xTickCount, xPendedTicks, pc>>
    BY <2>1 DEF xTaskCreateInMain, CreateBeforeStart, vTaskStartScheduler
  <2>3. \A t \in Task : pc'[t].op # "ticks"
    BY <1>2, <2>2 DEF IInv, Alive, NotStarted, App
  <2>4. xSchedulerRunning' => pxCurrentTCB' \in Task
    BY <1>2, AliveKept DEF Alive, Live
  <2>5. Backlog' = xPendedTicks' /\ Backlog = xPendedTicks
    BY <1>2, <2>3, <2>4 DEF Backlog, At
  <2> QED
    BY <2>2, <2>5, LeftSame
<1>3. CASE Next /\ xSchedulerRunning
  <2> USE <1>3
  <2> DEFINE me == pxCurrentTCB
  <2>0. me \in Task /\ pc[me] \in Place /\ pc \in [Task -> Place] /\ xPendedTicks \in Nat
    BY Here DEF IInv, Typed
  <2>1. ASSUME UNCHANGED <<sleepVars, xTickCount>> PROVE UNCHANGED TicksLeft
    BY <2>1, LeftSame
  <2>2. CASE \/ SuspendAll \/ ResumeAll \/ vTaskDelay \/ xTaskCatchUpTicks \/ SuspendReturns
             \/ CreateAdds \/ CreateReturns \/ xTaskResumeAll \/ vPortYield
             \/ prvCheckTasksWaitingTermination \/ prvIdleTask
             \/ \E t \in Task : \/ vTaskResume(t) \/ xTaskResumeFromISR(t)
                                \/ \E p \in Priority : vTaskPrioritySet(t, p) \/ xTaskCreate(t, p)
    <3>1. UNCHANGED <<sleepVars, xTickCount, xPendedTicks>>
      BY <2>2 DEF SuspendAll, ResumeAll, vTaskDelay, xTaskCatchUpTicks, SuspendReturns, CreateAdds,
         CreateReturns, xTaskResumeAll, vPortYield, prvCheckTasksWaitingTermination, prvIdleTask,
         vTaskResume, xTaskResumeFromISR, vTaskPrioritySet, xTaskCreate
    <3> QED
      BY <2>1, <2>2, <3>1, CallKeepsBacklog
  <2>3. ASSUME NEW t \in Task, vTaskSuspend(t) \/ vTaskDelete(t) \/ ResumeDrains(t)
        PROVE  Sleeper!Next
    <3>1. /\ pxDelayedTaskList' = pxDelayedTaskList \ {t}
          /\ pxOverflowDelayedTaskList' = pxOverflowDelayedTaskList \ {t}
          /\ UNCHANGED <<xItemValue, xTickCount, xPendedTicks>>
      BY <2>3 DEF vTaskSuspend, vTaskDelete, Unlink, ResumeDrains
    <3>2. UNCHANGED Backlog
      BY <2>3, <3>1, CallKeepsBacklog
    <3> QED
      BY <3>1, <3>2, LeftRoused
  <2>4. CASE prvDeleteTCB
    <3>1. /\ pc[me].who \in Task /\ memory[pc[me].who] = "dying"
          /\ xItemValue' = [xItemValue EXCEPT ![pc[me].who] = 0]
          /\ UNCHANGED <<pxDelayedTaskList, pxOverflowDelayedTaskList, xTickCount, xPendedTicks>>
      BY <2>4, DeleteTCBReady DEF prvDeleteTCB
    <3>2. pc[me].who \notin Sleeping
      BY <3>1 DEF IInv, Homes, Live
    <3>3. \A t \in Sleeping \cap Task : xItemValue'[t] = xItemValue[t]
      BY <3>1, <3>2 DEF IInv, Typed
    <3> QED
      BY <2>4, <3>1, <3>3, LeftSame, CallKeepsBacklog
  <2>5. CASE DelaySleeps
    BY <2>5, CallKeepsBacklog, LeftDelayed DEF DelaySleeps
  <2>6. CASE CatchUpPends
    <3>1. /\ pc[me].ticks \in Nat /\ ~At("ticks")
          /\ xPendedTicks' = xPendedTicks + pc[me].ticks
          /\ pc' = [pc EXCEPT ![pxCurrentTCB] = Resuming(App, App)]
      BY <2>0, <2>6, PlaceShape DEF CatchUpPends, At, Goto, Tick
    <3>2. Resuming(App, App).op # "ticks"
      BY DEF Resuming
    <3>3. Backlog = xPendedTicks /\ Backlog' = xPendedTicks'
      BY <3>1, <3>2, BacklogIsPended
    <3>4. UNCHANGED TicksLeft
      BY <2>1, <2>6 DEF CatchUpPends
    <3> QED
      BY <2>0, <3>1, <3>3, <3>4 DEF Sleeper!Next, Sleeper!Defer
  <2>7. CASE ResumeDrained
    <3>1. pc'[me] = [op |-> "ticks", count |-> xPendedTicks, yielded |-> pc[me].yielded, not |-> pc[me].not]
      BY <2>0, <2>7 DEF ResumeDrained, Goto
    <3>2. pc'[me].op = "ticks" /\ pc'[me].count = xPendedTicks
      BY <3>1
    <3>3. At("ticks")' /\ ~At("ticks") /\ pxCurrentTCB' = me
      BY <2>7, <3>2, StaysRunning DEF ResumeDrained, KernelSteps, At, switchVars
    <3>4. UNCHANGED Backlog
      BY <3>2, <3>3 DEF Backlog
    <3> QED
      BY <2>1, <2>7, <3>4 DEF ResumeDrained
  <2>8. CASE ResumeTicks
    <3>1. /\ pc[me] \in [op : {"ticks"}, count : Nat, yielded : Ends, not : Ends]
          /\ At("ticks") /\ pc[me].count > 0
      BY <2>0, <2>8, PlaceShape DEF ResumeTicks, At
    <3>2. pc'[me] = [pc[me] EXCEPT !.count = @ - 1] /\ pxCurrentTCB' = me
      BY <2>0, <2>8 DEF ResumeTicks
    <3>3. pc'[me].op = "ticks" /\ pc'[me].count = pc[me].count - 1
      BY <3>1, <3>2
    <3>4. At("ticks")'
      BY <2>8, <3>2, <3>3, StaysRunning DEF KernelSteps, At
    <3>5. Backlog > 0 /\ Backlog' = Backlog - 1
      BY <3>1, <3>2, <3>3, <3>4 DEF Backlog
    <3> QED
      BY <2>8, <3>5, LeftCounted DEF ResumeTicks, Sleeper!Next, Sleeper!CatchUp
  <2>9. CASE ResumeReturns
    <3>1. /\ pc[me].yielded \in Ends /\ pc[me].not \in Ends /\ At("ticks") /\ pc[me].count = 0
      BY <2>0, <2>9, PlaceShape DEF ResumeReturns, At
    <3>2. pc' \in {[pc EXCEPT ![me] = pc[me].yielded], [pc EXCEPT ![me] = pc[me].not]}
      BY <2>9 DEF ResumeReturns, Goto
    <3>3. pc'[me].op # "ticks" /\ \A t \in Task \ {me} : pc'[t] = pc[t]
      BY <2>0, <3>1, <3>2, NotInLoop
    <3>4. Backlog' = 0 /\ Backlog = 0
      BY <2>9, <3>1, <3>3, NoTicks DEF Backlog, ResumeReturns
    <3> QED
      BY <2>1, <2>9, <3>4 DEF ResumeReturns
  <2>10. CASE TickPends
    <3>1. ~At("ticks") /\ UNCHANGED pc /\ xPendedTicks' = xPendedTicks + 1
      BY <2>10 DEF TickPends, Masked, At
    <3>2. Backlog = xPendedTicks /\ Backlog' = xPendedTicks'
      BY <3>1, NotInLoop, BacklogIsPended
    <3>3. UNCHANGED TicksLeft
      BY <2>1, <2>10 DEF TickPends
    <3> QED
      BY <2>0, <3>1, <3>2, <3>3 DEF Sleeper!Next, Sleeper!Defer
  <2>11. CASE TickCounts
    <3>1. ~At("ticks") /\ UNCHANGED <<pc, xPendedTicks>>
      BY <2>11 DEF TickCounts, Masked, At
    <3>2. xPendedTicks = 0
      BY <2>11 DEF TickCounts, IInv, Suspension, NothingLeftPending
    <3>3. Backlog = 0 /\ UNCHANGED Backlog
      BY <3>1, <3>2, NotInLoop, BacklogIsPended
    <3> QED
      BY <2>11, <3>3, LeftCounted DEF TickCounts, Sleeper!Next, Sleeper!Tick
  <2> QED
    BY <2>2, <2>3, <2>4, <2>5, <2>6, <2>7, <2>8, <2>9, <2>10, <2>11, BoundAssumption
    DEF Next, AppCalls, KernelSteps, Interrupts, vPortYieldFromTick, xTaskCreateInMain,
        vTaskStartScheduler
<1> QED
  BY <1>1, <1>2, <1>3

(* The scheduler implements Sleep: for every width of the tick count and   *)
(* any number of tasks, a task told to sleep for n ticks wakes at the n-th *)
(* tick that is counted unless it is roused, and no tick is lost           *)
(* (vTaskDelay, xTaskIncrementTick, xTaskResumeAll).                       *)
THEOREM TimeIsKept == Spec => KeepsTime
  BY Inductive, SleepsFromTheStart, StepKeepsTime, PTL DEF Spec, KeepsTime, Sleeper!Spec

-----------------------------------------------------------------------------
(* Arithmetic.                                                             *)

LEMMA Minus ==
    ASSUME NEW a \in Tick, NEW b \in Tick
    PROVE  /\ (a - b) % TickRange = IF b <= a THEN a - b ELSE a - b + TickRange
           /\ (a - b) % TickRange \in Tick
<1> DEFINE W == TickRange
<1>1. W \in Nat /\ W > 1 /\ a \in 0 .. W - 1 /\ b \in 0 .. W - 1
  BY WidthAssumption DEF Tick
<1> HIDE DEF W
<1>2. CASE b <= a
  <2>1. (a - b) % W = a - b
    BY <1>1, <1>2
  <2> QED
    BY <1>1, <1>2, <2>1 DEF Tick, W
<1>3. CASE ~(b <= a)
  <2> DEFINE m == a - b + W
  <2>1. m \in Nat /\ m < W /\ a - b = m + (-1) * W
    BY <1>1, <1>3
  <2>2. (m + (-1) * W) % W = m
    BY <1>1, <2>1
  <2> QED
    BY <1>1, <1>3, <2>1, <2>2 DEF Tick, W
<1> QED
  BY <1>2, <1>3 DEF W

(* The whole periods in a time, and what is left.                          *)
LEMMA Parts ==
    ASSUME NEW n \in Nat, NEW d \in Nat \ {0}
    PROVE  /\ n = ((n \div d) * d) + (n % d)
           /\ n % d \in 0 .. d - 1
           /\ (n \div d) * d \in 0 .. n
<1>1. n % d \in 0 .. d - 1 /\ n \div d \in Nat
  OBVIOUS
<1>2. n = ((n \div d) * d) + (n % d)
  OBVIOUS
<1> DEFINE m == (n \div d) * d
<1>3. m \in Nat
  BY <1>1
<1> QED
  BY <1>1, <1>2, <1>3

LEMMA AtLeastZero ==
    ASSUME NEW n \in Int
    PROVE  Max({0, n}) = IF n > 0 THEN n ELSE 0
<1> DEFINE m == Max({0, n})
<1>1. m \in {0, n} /\ 0 <= m /\ n <= m
  <2>1. CASE n > 0
    BY <2>1, GreatestNumber
  <2>2. CASE ~(n > 0)
    BY <2>2 DEF Max
  <2> QED
    BY <2>1, <2>2
<1> QED
  BY <1>1
-----------------------------------------------------------------------------
(* The tick count shows the time kept and the ticks since, less the wraps. *)
Shows(now, previous, ticks) == now - (previous + ticks) \in {-TickRange, 0, TickRange}

LEMMA ShowsLately ==
    ASSUME NEW now \in Tick, NEW previous \in Tick, NEW ticks \in Tick, Shows(now, previous, ticks)
    PROVE  now = IF previous + ticks < TickRange THEN previous + ticks
                 ELSE previous + ticks - TickRange
  BY WidthAssumption DEF Shows, Tick

LEMMA ShowsNext ==
    ASSUME NEW now \in Tick, NEW previous \in Tick, NEW ticks \in Int,
           -TickRange < ticks, ticks < TickRange, Shows(now, previous, ticks), ticks + 1 < TickRange
    PROVE  Shows(IF now = TickRange - 1 THEN 0 ELSE now + 1, previous, ticks + 1)
  BY WidthAssumption DEF Shows, Tick

(* xTaskDelayUntil, whatever wrapped.                                      *)
LEMMA UntilCounts ==
    ASSUME xTickCount \in Tick, NEW previous \in Tick, NEW ticks \in Tick,
           NEW increment \in Tick \ {0}, Shows(xTickCount, previous, ticks)
    PROVE  LET toWake == (previous + increment) % TickRange
           IN  /\ toWake \in Tick /\ Shows(xTickCount, toWake, ticks - increment)
               /\ (IF xShouldDelay(previous, toWake) THEN (toWake - xTickCount) % TickRange ELSE 0)
                     = IF increment > ticks THEN increment - ticks ELSE 0
<1> DEFINE toWake == (previous + increment) % TickRange
<1>1. /\ toWake \in Tick
      /\ toWake = IF previous + increment < TickRange THEN previous + increment
                  ELSE previous + increment - TickRange
  BY Wraps
<1>2. xTickCount = IF previous + ticks < TickRange THEN previous + ticks
                   ELSE previous + ticks - TickRange
  BY ShowsLately
<1>3. (toWake - xTickCount) % TickRange = IF xTickCount <= toWake THEN toWake - xTickCount
                                          ELSE toWake - xTickCount + TickRange
  BY <1>1, Minus
<1> HIDE DEF toWake
<1>4. Shows(xTickCount, toWake, ticks - increment)
  BY <1>1, <1>2, WidthAssumption DEF Shows, Tick
<1>5. (IF xShouldDelay(previous, toWake) THEN (toWake - xTickCount) % TickRange ELSE 0)
         = IF increment > ticks THEN increment - ticks ELSE 0
  BY <1>1, <1>2, <1>3, WidthAssumption DEF xShouldDelay, Tick
<1> QED
  BY <1>1, <1>4, <1>5 DEF toWake

(* xTaskPeriodicDelay.                                                     *)
LEMMA PeriodCounts ==
    ASSUME xTickCount \in Tick, NEW previous \in Tick, NEW ticks \in Tick,
           NEW increment \in Tick \ {0}, Shows(xTickCount, previous, ticks)
    PROVE  LET elapsed == (xTickCount - previous) % TickRange
               whole   == (elapsed \div increment) * increment
               kept    == (previous + whole) % TickRange
           IN  /\ ticks % increment \in 0 .. increment - 1
               /\ kept \in Tick /\ Shows(xTickCount, kept, ticks % increment)
               /\ increment - (elapsed - whole) = increment - (ticks % increment)
<1> DEFINE elapsed == (xTickCount - previous) % TickRange
           whole == (elapsed \div increment) * increment
           kept == (previous + whole) % TickRange
           rest == ticks % increment
<1>1. xTickCount = IF previous + ticks < TickRange THEN previous + ticks
                   ELSE previous + ticks - TickRange
  BY ShowsLately
<1>2. elapsed = ticks
  <2>1. elapsed = IF previous <= xTickCount THEN xTickCount - previous
                  ELSE xTickCount - previous + TickRange
    BY Minus
  <2> HIDE DEF elapsed
  <2> QED
    BY <1>1, <2>1, WidthAssumption DEF Tick
<1>3. ticks \in Nat /\ increment \in Nat \ {0}
  BY DEF Tick
<1>4. ticks = whole + rest /\ rest \in 0 .. increment - 1 /\ whole \in 0 .. ticks
  BY <1>2, <1>3, Parts
<1> HIDE DEF rest, whole, elapsed
<1>5. whole \in Tick
  BY <1>4, WidthAssumption DEF Tick
<1>6. /\ kept \in Tick
      /\ kept = IF previous + whole < TickRange THEN previous + whole
                ELSE previous + whole - TickRange
  BY <1>5, Wraps
<1> HIDE DEF kept
<1>7. Shows(xTickCount, kept, rest)
  BY <1>1, <1>3, <1>4, <1>5, <1>6, WidthAssumption DEF Shows, Tick
<1>8. increment - (elapsed - whole) = increment - rest
  BY <1>2, <1>3, <1>4
<1> QED
  BY <1>4, <1>6, <1>7, <1>8 DEF rest, whole, elapsed, kept

-----------------------------------------------------------------------------
(* A call that delays keeps the invariant of the scheduler.                *)

LEMMA DelayForKeeps ==
    ASSUME IInv, Calling, MayBlock, NEW n \in 0 .. portMAX_DELAY, NEW previous, DelayFor(n, previous)
    PROVE  /\ IInv' /\ UNCHANGED <<TicksLeft, xTickCount>>
           /\ pxCurrentTCB \in Task /\ TicksLeft[pxCurrentTCB] = 0
           /\ \A t \in Task : pc[t].op # "delay"
           /\ \A t \in Task \ {pxCurrentTCB} : pc'[t] = pc[t]
           /\ IF n > 0 THEN pc'[pxCurrentTCB] = [op |-> "delay", ticks |-> n]
              ELSE pc'[pxCurrentTCB].op # "delay"
<1> DEFINE place == IF n > 0 THEN [op |-> "delay", ticks |-> n] ELSE Resuming(App, Yielding)
<1>1. /\ xSchedulerRunning /\ pxCurrentTCB \in Ready /\ pxCurrentTCB \in Task
      /\ pxCurrentTCB # Idle /\ pc \in [Task -> Place]
      /\ xPendingReadyList = {} /\ xPendedTicks = 0 /\ uxSchedulerSuspended = 0
      /\ pc[pxCurrentTCB] = App
  BY InApp, Here DEF Calling, MayBlock
<1>2. pc' = [pc EXCEPT ![pxCurrentTCB] = place] /\ uxSchedulerSuspended' = 1
  BY <1>1 DEF DelayFor, vTaskSuspendAll, Goto
<1>3. UNCHANGED <<NotListed, readyVars, xTickCount, xPendedTicks, switchVars, lifeVars, notifyVars, uxPriority>>
  BY DEF DelayFor
<1>4. place \in Plain /\ place \in Place
  <2>1. n > 0 => n \in 1 .. portMAX_DELAY
    OBVIOUS
  <2> QED
    BY <2>1, PlainPlaces DEF Plain
<1>5. place.op = IF n > 0 THEN "delay" ELSE "resume"
  BY DEF Resuming
<1>6. (n > 0 => place = [op |-> "delay", ticks |-> n]) /\ Ahead(place)
  BY OwnPlaces
<1> HIDE DEF place
<1> USE DEF NotListed, sleepVars, readyVars, switchVars, lifeVars, notifyVars
<1>7. Ready' = Ready /\ Sleeping' = Sleeping /\ Live' = Live
  BY <1>3 DEF Ready, Sleeping, Live
<1>8. Typed'
  BY <1>2, <1>3, <1>4 DEF IInv, Typed
<1>9. Homes' /\ TopKnown'
  BY <1>3, <1>7 DEF IInv, Homes, TopKnown, Holds, Covers
<1>10. Alive' /\ Away'
  BY <1>1, <1>3, <1>7 DEF IInv, Alive, Away
<1>11. Suspension'
  <2>1. Moves(place) /\ xSchedulerRunning' /\ pxCurrentTCB \in Ready' \ {Idle}
    BY <1>1, <1>2, <1>3, <1>7 DEF Moves, Stays
  <2>2. place.op \in {"delay", "resume"}
    BY <1>5
  <2> QED
    BY <1>1, <1>2, <2>1, <2>2, SuspensionMoves
<1>12. Owned'
  BY <1>1, <1>2, <1>3, <1>4, OwnedByMove
<1>13. NeverLate' /\ CountsAgree'
  BY <1>3, <1>7 DEF IInv, NeverLate, CountsAgree
<1>14. OneWay'
  <2>1. \A t \in Task : pc'[t] = IF t = pxCurrentTCB THEN place ELSE pc[t]
    BY <1>1, <1>2
  <2> QED
    BY <2>1, <1>6 DEF IInv, OneWay, Ahead
<1>15. IInv'
  BY <1>8, <1>9, <1>10, <1>11, <1>12, <1>13, <1>14 DEF IInv
<1>16. UNCHANGED <<TicksLeft, xTickCount>>
  BY <1>3, LeftSame
<1>17. TicksLeft[pxCurrentTCB] = 0
  BY <1>1, LeftIs DEF IInv, Homes, Sleeping
<1>18. \A t \in Task : pc[t].op # "delay"
  BY <1>1 DEF IInv, Suspension, Urgent, AboutToSleep, App
<1> QED
  BY <1>1, <1>2, <1>5, <1>6, <1>15, <1>16, <1>17, <1>18

-----------------------------------------------------------------------------
(* What a step of the scheduler does to delays.                            *)

Counting == TickCounts \/ ResumeTicks
Delaying == vTaskDelay \/ DelaySleeps
Stopping(t) == vTaskSuspend(t) \/ vTaskDelete(t) \/ ResumeDrains(t)

LEMMA ClockStands ==
    ASSUME IInv, Next, ~Counting
    PROVE  /\ UNCHANGED xTickCount
           /\ \/ Delaying \/ \E t \in Task : Stopping(t)
              \/ UNCHANGED <<TicksLeft, Sleeping>>
<1> USE DEF NotListed, sleepVars, timeVars
<1>1. CASE UNCHANGED <<sleepVars, xTickCount>>
  BY <1>1, LeftSame DEF Sleeping
<1>2. CASE Delaying
  BY <1>2 DEF Delaying, vTaskDelay, DelaySleeps
<1>3. ASSUME NEW t \in Task, Stopping(t) PROVE UNCHANGED xTickCount
  BY <1>3 DEF Stopping, vTaskSuspend, vTaskDelete, ResumeDrains
<1>4. CASE prvDeleteTCB
  <2> DEFINE who == pc[pxCurrentTCB].who
  <2>1. /\ who \in Task /\ memory[who] = "dying"
        /\ xItemValue' = [xItemValue EXCEPT ![who] = 0]
        /\ UNCHANGED <<pxDelayedTaskList, pxOverflowDelayedTaskList, xTickCount>>
    BY <1>4, DeleteTCBReady DEF prvDeleteTCB
  <2>2. who \notin Sleeping
    BY <2>1 DEF IInv, Homes, Live
  <2>3. \A t \in Sleeping \cap Task : xItemValue'[t] = xItemValue[t]
    BY <2>1, <2>2 DEF IInv, Typed
  <2> QED
    BY <2>1, <2>3, LeftSame DEF Sleeping
<1>5. CASE SuspendAll \/ ResumeAll \/ xTaskCatchUpTicks
           \/ \E t \in Task : vTaskResume(t) \/ \E p \in Priority : vTaskPrioritySet(t, p) \/ xTaskCreate(t, p)
  BY <1>1, <1>5 DEF SuspendAll, ResumeAll, xTaskCatchUpTicks, vTaskResume, vTaskPrioritySet, xTaskCreate
<1>6. CASE CatchUpPends \/ SuspendReturns \/ CreateAdds \/ CreateReturns \/ xTaskResumeAll
           \/ ResumeDrained \/ ResumeReturns \/ vPortYield
           \/ prvCheckTasksWaitingTermination \/ prvIdleTask
  BY <1>1, <1>6 DEF CatchUpPends, SuspendReturns, CreateAdds, CreateReturns, xTaskResumeAll,
     ResumeDrained, ResumeReturns, vPortYield, prvCheckTasksWaitingTermination, prvIdleTask
<1>7. CASE TickPends \/ \E t \in Task : xTaskResumeFromISR(t)
  BY <1>1, <1>7 DEF TickPends, xTaskResumeFromISR
<1>8. CASE xTaskCreateInMain \/ vTaskStartScheduler
  BY <1>1, <1>8 DEF xTaskCreateInMain, CreateBeforeStart, vTaskStartScheduler
<1> QED
  BY <1>2, <1>3, <1>4, <1>5, <1>6, <1>7, <1>8, BoundAssumption
  DEF Next, AppCalls, KernelSteps, Interrupts, vPortYieldFromTick, Counting, Delaying, Stopping

(* Only vTaskDelay makes a call to delay, and only DelaySleeps ends it.    *)
LEMMA DelaysStand ==
    ASSUME IInv, Next, ~Delaying
    PROVE  \A t \in Task : pc[t].op = "delay" \/ pc'[t].op = "delay" => pc'[t] = pc[t]
<1>1. CASE UNCHANGED pc
  BY <1>1
<1>2. ASSUME xSchedulerRunning, ~At("delay"), NEW place, place.op # "delay",
             \/ pc' = [pc EXCEPT ![pxCurrentTCB] = place]
             \/ \E u \in Task : pc' = [pc EXCEPT ![pxCurrentTCB] = place, ![u] = App]
      PROVE  \A t \in Task : pc[t].op # "delay" /\ pc'[t].op # "delay"
  <2>1. \A t \in Task : pc[t].op # "delay"
    BY <1>2 DEF At, IInv, Suspension, Urgent, AboutToSleep
  <2>2. pc \in [Task -> Place] /\ App.op # "delay"
    BY DEF IInv, Typed, App
  <2> QED
    BY <1>2, <2>1, <2>2
<1>3. CASE SuspendAll \/ TickPends \/ TickCounts \/ xTaskCreateInMain \/ vTaskStartScheduler
           \/ \E t \in Task : \/ vTaskResume(t) \/ xTaskResumeFromISR(t)
                              \/ \E p \in Priority : vTaskPrioritySet(t, p)
  BY <1>1, <1>3 DEF SuspendAll, TickPends, TickCounts, xTaskCreateInMain, CreateBeforeStart,
     vTaskStartScheduler, vTaskResume, xTaskResumeFromISR, vTaskPrioritySet
<1>4. CASE AppCalls \/ KernelSteps
  <2> xSchedulerRunning /\ pc[pxCurrentTCB] \in Place /\ pxCurrentTCB \in Task /\ pc \in [Task -> Place]
    BY <1>4, StaysRunning, Here
  <2> DEFINE me == pxCurrentTCB
  <2> USE DEF At, Calling, Goto
  <2>1. CASE ResumeAll \/ CatchUpPends
    BY <1>2, <2>1 DEF ResumeAll, CatchUpPends, Resuming
  <2>2. CASE xTaskCatchUpTicks
    BY <1>2, <2>2 DEF xTaskCatchUpTicks
  <2>3. CASE SuspendReturns \/ CreateReturns \/ prvIdleTask
    BY <1>2, <2>3 DEF SuspendReturns, CreateReturns, prvIdleTask, App, Yielding, YieldingTo
  <2>4. CASE CreateAdds \/ prvCheckTasksWaitingTermination \/ \E t \in Task : vTaskSuspend(t)
    <3>1. ~At("delay")
      BY <2>4 DEF CreateAdds, prvCheckTasksWaitingTermination, vTaskSuspend
    <3>2. ASSUME NEW u, NEW o \in {"created", "free", "suspended"},
                 pc' = [pc EXCEPT ![me] = [op |-> o, who |-> u]]
          PROVE  \A t \in Task : pc[t].op # "delay" /\ pc'[t].op # "delay"
      <4> DEFINE place == [op |-> o, who |-> u]
      <4>1. place.op # "delay" /\ pc' = [pc EXCEPT ![me] = place]
        BY <3>2
      <4> HIDE DEF place
      <4> QED
        BY <1>2, <3>1, <4>1
    <3> QED
      BY <2>4, <3>2 DEF CreateAdds, prvCheckTasksWaitingTermination, vTaskSuspend
  <2>5. ASSUME NEW t \in Task, vTaskDelete(t) PROVE \A u \in Task : pc[u].op # "delay" /\ pc'[u].op # "delay"
    <3> DEFINE place == IF t = me THEN Yielding ELSE [op |-> "free", who |-> t]
    <3>1. place.op # "delay" /\ pc' = [pc EXCEPT ![me] = place] /\ ~At("delay")
      BY <2>5 DEF vTaskDelete, Yielding, YieldingTo
    <3> HIDE DEF place
    <3> QED
      BY <1>2, <3>1
  <2>6. CASE prvDeleteTCB
    <3>1. pc[me].who \in Task
      BY <2>6, DeleteTCBReady
    <3>2. Resuming(App, App).op # "delay"
      BY DEF Resuming
    <3> QED
      BY <1>2, <2>6, <3>1, <3>2 DEF prvDeleteTCB
  <2>7. CASE xTaskResumeAll
    <3> DEFINE back == pc[me]
               place == IF uxSchedulerSuspended = 1
                        THEN [op |-> "drain", moved |-> FALSE, yielded |-> back.yielded, not |-> back.not]
                        ELSE back.not
    <3>1. back.not.op # "delay"
      BY <2>7, PlaceShape, EndShape DEF xTaskResumeAll, EndOps, OutOps
    <3>2. place.op # "delay" /\ pc' = [pc EXCEPT ![me] = place] /\ ~At("delay")
      BY <2>7, <3>1 DEF xTaskResumeAll
    <3> HIDE DEF place
    <3> QED
      BY <1>2, <3>2
  <2>8. ASSUME NEW t \in Task, ResumeDrains(t) PROVE \A u \in Task : pc[u].op # "delay" /\ pc'[u].op # "delay"
    <3> DEFINE place == [pc[me] EXCEPT !.moved = TRUE]
    <3>1. pc[me] \in [op : {"drain"}, moved : BOOLEAN, yielded : Ends, not : Ends]
      BY <2>8, PlaceShape DEF ResumeDrains
    <3>2. place.op # "delay" /\ ~At("delay")
      BY <3>1
    <3>3. pc' = [pc EXCEPT ![me] = place]
      BY <2>8 DEF ResumeDrains
    <3> HIDE DEF place
    <3> QED
      BY <1>2, <3>2, <3>3
  <2>9. CASE ResumeDrained
    BY <1>2, <2>9 DEF ResumeDrained
  <2>10. CASE ResumeTicks
    <3> DEFINE place == [pc[me] EXCEPT !.count = @ - 1]
    <3>1. pc[me] \in [op : {"ticks"}, count : Nat, yielded : Ends, not : Ends]
      BY <2>10, PlaceShape DEF ResumeTicks
    <3>2. place.op # "delay" /\ ~At("delay")
      BY <3>1
    <3>3. pc' = [pc EXCEPT ![me] = place]
      BY <2>10 DEF ResumeTicks
    <3> HIDE DEF place
    <3> QED
      BY <1>2, <3>2, <3>3
  <2>11. CASE ResumeReturns
    <3>1. pc[me].yielded.op # "delay" /\ pc[me].not.op # "delay"
      BY <2>11, PlaceShape, EndShape DEF ResumeReturns, EndOps, OutOps
    <3> QED
      BY <1>2, <2>11, <3>1 DEF ResumeReturns
  <2>12. CASE vPortYield
    <3>1. pc[me].next.op # "delay"
      BY <2>12, PlaceShape, OutShape DEF vPortYield, OutOps
    <3> QED
      BY <1>2, <2>12, <3>1 DEF vPortYield
  <2>13. ASSUME NEW t \in Task, NEW p \in Priority, xTaskCreate(t, p)
         PROVE  \A u \in Task : pc[u].op # "delay" /\ pc'[u].op # "delay"
    <3>1. \A y \in Ends : Resuming(y, y).op # "delay"
      BY DEF Resuming
    <3>2. PICK y \in Ends : \/ pc' = [pc EXCEPT ![me] = Resuming(y, y)]
                            \/ pc' = [pc EXCEPT ![me] = Resuming(y, y), ![t] = App]
      BY <2>13, PlaceMade DEF xTaskCreate
    <3>3. ~At("delay")
      BY <2>13 DEF xTaskCreate
    <3> QED
      BY <1>2, <3>1, <3>2, <3>3
  <2> QED
    BY <1>3, <1>4, <2>1, <2>2, <2>3, <2>4, <2>5, <2>6, <2>7, <2>8, <2>9, <2>10, <2>11, <2>12, <2>13,
       BoundAssumption
    DEF AppCalls, KernelSteps, Delaying
<1> QED
  BY <1>3, <1>4 DEF Next, Interrupts, vPortYieldFromTick

-----------------------------------------------------------------------------
(* The invariant: a task's time and what passed since give the tick count, *)
(* and a call is due when its task is woken.                               *)

Kept ==
    /\ pxPreviousWakeTime \in [Task -> Tick] /\ since \in [Task -> Int]
    /\ \A t \in Task : -TickRange < since[t] /\ since[t] <= TickRange
    /\ \A t \in PeriodicTask :
          since[t] < TickRange => Shows(xTickCount, pxPreviousWakeTime[t], since[t])
Awaited == due = [t \in Task |-> IF pc[t].op = "delay" THEN pc[t].ticks ELSE TicksLeft[t]]
PeriodicInv == IInv /\ Kept /\ Awaited

(* A call that asks for n ticks, and keeps a time so that s ticks passed.  *)
LEMMA CallKeeps ==
    ASSUME PeriodicInv, Calling, MayBlock, NEW n \in 0 .. portMAX_DELAY, NEW previous \in Tick,
           NEW s \in Int, -TickRange < s, s <= TickRange,
           s < TickRange => Shows(xTickCount, previous, s), DelayFor(n, previous),
           since' = [since EXCEPT ![pxCurrentTCB] = s], due' = [due EXCEPT ![pxCurrentTCB] = n]
    PROVE  PeriodicInv'
<1> USE DEF PeriodicInv
<1>1. /\ IInv' /\ UNCHANGED <<TicksLeft, xTickCount>>
      /\ pxCurrentTCB \in Task /\ TicksLeft[pxCurrentTCB] = 0
      /\ \A t \in Task : pc[t].op # "delay"
      /\ \A t \in Task \ {pxCurrentTCB} : pc'[t] = pc[t]
      /\ IF n > 0 THEN pc'[pxCurrentTCB] = [op |-> "delay", ticks |-> n]
         ELSE pc'[pxCurrentTCB].op # "delay"
  BY DelayForKeeps
<1>2. pxPreviousWakeTime' = [pxPreviousWakeTime EXCEPT ![pxCurrentTCB] = previous]
  BY DEF DelayFor
<1>3. Kept'
  BY <1>1, <1>2 DEF Kept, PeriodicTask
<1>4. Awaited'
  <2>1. due = [t \in Task |-> TicksLeft[t]]
    BY <1>1 DEF Awaited
  <2>2. n > 0 => pc'[pxCurrentTCB].op = "delay" /\ pc'[pxCurrentTCB].ticks = n
    BY <1>1
  <2>3. \A t \in Task : due'[t] = IF pc'[t].op = "delay" THEN pc'[t].ticks ELSE TicksLeft'[t]
    BY <1>1, <2>1, <2>2
  <2>4. due' = [t \in Task |-> due'[t]]
    BY <2>1
  <2> QED
    BY <2>3, <2>4 DEF Awaited
<1> QED
  BY <1>1, <1>3, <1>4

LEMMA UntilKeeps == PeriodicInv /\ xTaskDelayUntil => PeriodicInv'
<1> SUFFICES ASSUME PeriodicInv, xTaskDelayUntil PROVE PeriodicInv'
  OBVIOUS
<1> DEFINE me == pxCurrentTCB
           previous == pxPreviousWakeTime[me]
           ticks == since[me]
<1>1. PICK increment \in Periods[me] :
        LET toWake == (previous + increment) % TickRange
        IN  /\ DelayFor(IF xShouldDelay(previous, toWake) THEN (toWake - xTickCount) % TickRange ELSE 0,
                        toWake)
            /\ since' = [since EXCEPT ![me] = @ - increment]
            /\ due' = [due EXCEPT ![me] = Max({0, increment - ticks})]
  BY DEF xTaskDelayUntil
<1> DEFINE toWake == (previous + increment) % TickRange
           n == IF xShouldDelay(previous, toWake) THEN (toWake - xTickCount) % TickRange ELSE 0
<1>2. Calling /\ MayBlock /\ ticks \in Tick
  BY DEF xTaskDelayUntil
<1>3. me \in Task /\ increment \in Tick \ {0} /\ me \in PeriodicTask
  BY <1>1, <1>2, InApp, PeriodAssumption DEF Calling, PeriodicInv, PeriodicTask
<1>4. previous \in Tick /\ xTickCount \in Tick /\ since \in [Task -> Int]
  BY <1>3 DEF PeriodicInv, Kept, IInv, Typed
<1>5. ticks < TickRange /\ ticks \in Nat /\ increment < TickRange /\ increment \in Nat /\ increment > 0
      /\ TickRange \in Nat
  BY <1>2, <1>3, WidthAssumption DEF Tick
<1>6. Shows(xTickCount, previous, ticks)
  BY <1>3, <1>5 DEF PeriodicInv, Kept
<1>7. /\ toWake \in Tick /\ Shows(xTickCount, toWake, ticks - increment)
      /\ n = IF increment > ticks THEN increment - ticks ELSE 0
  BY <1>2, <1>3, <1>4, <1>6, UntilCounts
<1>8. Max({0, increment - ticks}) = n
  BY <1>5, <1>7, AtLeastZero
<1>9. n \in 0 .. portMAX_DELAY
  BY <1>5, <1>7 DEF portMAX_DELAY
<1>10. /\ DelayFor(n, toWake)
       /\ since' = [since EXCEPT ![me] = ticks - increment] /\ due' = [due EXCEPT ![me] = n]
  BY <1>1, <1>8
<1> DEFINE s == ticks - increment
<1>11. s \in Int /\ -TickRange < s /\ s <= TickRange
  BY <1>5
<1> HIDE DEF n, toWake, s
<1>12. Shows(xTickCount, toWake, s) /\ since' = [since EXCEPT ![me] = s]
  BY <1>7, <1>10 DEF s
<1> QED
  BY <1>2, <1>7, <1>9, <1>10, <1>11, <1>12, CallKeeps

LEMMA PeriodicDelayKeeps == PeriodicInv /\ xTaskPeriodicDelay => PeriodicInv'
<1> SUFFICES ASSUME PeriodicInv, xTaskPeriodicDelay PROVE PeriodicInv'
  OBVIOUS
<1> DEFINE me == pxCurrentTCB
           previous == pxPreviousWakeTime[me]
           ticks == since[me]
           elapsed == (xTickCount - previous) % TickRange
<1>1. PICK increment \in Periods[me] :
        LET whole == (elapsed \div increment) * increment
        IN  /\ DelayFor(increment - (elapsed - whole), (previous + whole) % TickRange)
            /\ since' = [since EXCEPT ![me] = @ % increment]
            /\ due' = [due EXCEPT ![me] = increment - (ticks % increment)]
  BY DEF xTaskPeriodicDelay
<1> DEFINE whole == (elapsed \div increment) * increment
           kept == (previous + whole) % TickRange
           rest == ticks % increment
           n == increment - rest
<1>2. Calling /\ MayBlock /\ ticks \in Tick
  BY DEF xTaskPeriodicDelay
<1>3. me \in Task /\ increment \in Tick \ {0} /\ me \in PeriodicTask
  BY <1>1, <1>2, InApp, PeriodAssumption DEF Calling, PeriodicInv, PeriodicTask
<1>4. previous \in Tick /\ xTickCount \in Tick /\ since \in [Task -> Int]
  BY <1>3 DEF PeriodicInv, Kept, IInv, Typed
<1>5. ticks < TickRange /\ increment < TickRange /\ increment \in Nat /\ increment > 0
      /\ TickRange \in Nat
  BY <1>2, <1>3, WidthAssumption DEF Tick
<1>6. Shows(xTickCount, previous, ticks)
  BY <1>3, <1>5 DEF PeriodicInv, Kept
<1>7. /\ rest \in 0 .. increment - 1 /\ kept \in Tick /\ Shows(xTickCount, kept, rest)
      /\ increment - (elapsed - whole) = n
  BY <1>2, <1>3, <1>4, <1>6, PeriodCounts
<1>8. /\ DelayFor(n, kept)
      /\ since' = [since EXCEPT ![me] = rest] /\ due' = [due EXCEPT ![me] = n]
  BY <1>1, <1>7
<1> HIDE DEF rest, kept, whole, elapsed
<1>9. n \in 0 .. portMAX_DELAY /\ rest \in Int /\ -TickRange < rest /\ rest <= TickRange
  BY <1>5, <1>7 DEF portMAX_DELAY
<1> HIDE DEF n
<1> QED
  BY <1>2, <1>7, <1>8, <1>9, CallKeeps

LEMMA StartKeeps == PeriodicInv /\ StartsPeriod => PeriodicInv'
<1> SUFFICES ASSUME PeriodicInv, StartsPeriod PROVE PeriodicInv'
  OBVIOUS
<1> USE DEF PeriodicInv
<1>1. IInv' /\ UNCHANGED <<xTickCount, TicksLeft, pc, due>>
  BY StutterKeeps, LeftSame DEF StartsPeriod, vars, sleepVars, timeVars
<1>2. xTickCount \in Tick /\ Shows(xTickCount, xTickCount, 0)
  BY DEF IInv, Typed, Shows, Tick
<1>3. Kept'
  BY <1>1, <1>2, WidthAssumption DEF Kept, StartsPeriod, PeriodicTask
<1>4. Awaited'
  BY <1>1 DEF Awaited
<1> QED
  BY <1>1, <1>3, <1>4

(* A step of the scheduler: the clock goes on by one, or stands.           *)
LEMMA ClockMoves ==
    ASSUME IInv, Next
    PROVE  /\ Counting => Ticks /\ TickLists
           /\ ~Counting => ~Ticks
           /\ xTickCount' = IF Ticks THEN IF xTickCount = TickRange - 1 THEN 0 ELSE xTickCount + 1
                            ELSE xTickCount
<1>1. xTickCount \in Tick /\ NextTick = IF xTickCount = TickRange - 1 THEN 0 ELSE xTickCount + 1
  BY NextTickIs DEF IInv, Typed
<1>2. NextTick # xTickCount
  BY <1>1, WidthAssumption DEF Tick
<1>3. Counting => TickLists /\ xTickCount' = NextTick
  BY DEF Counting, TickCounts, ResumeTicks, TickLists
<1> QED
  BY <1>1, <1>2, <1>3, ClockStands DEF Ticks

LEMMA StepKeepsTimes == PeriodicInv /\ SchedulerSteps => Kept'
<1> SUFFICES ASSUME PeriodicInv, SchedulerSteps PROVE Kept'
  OBVIOUS
<1> USE DEF PeriodicInv
<1>1. /\ IInv /\ Next /\ UNCHANGED pxPreviousWakeTime /\ xTickCount \in Tick
      /\ since' = [t \in Task |-> IF Ticks /\ t \in PeriodicTask /\ since[t] < TickRange
                                  THEN since[t] + 1 ELSE since[t]]
  BY DEF SchedulerSteps, IInv, Typed
<1>2. TickRange \in Nat
  BY WidthAssumption
<1>3. CASE Ticks
  <2>1. xTickCount' = IF xTickCount = TickRange - 1 THEN 0 ELSE xTickCount + 1
    BY <1>1, <1>3, ClockMoves
  <2>2. ASSUME NEW t \in PeriodicTask, since'[t] < TickRange
        PROVE  Shows(xTickCount', pxPreviousWakeTime'[t], since'[t])
    <3>1. t \in Task /\ since[t] \in Int /\ pxPreviousWakeTime[t] \in Tick /\ -TickRange < since[t]
          /\ since[t] <= TickRange
      BY DEF PeriodicTask, Kept
    <3>2. since[t] < TickRange /\ since'[t] = since[t] + 1
      BY <1>1, <1>2, <1>3, <2>2, <3>1
    <3>3. Shows(xTickCount, pxPreviousWakeTime[t], since[t])
      BY <3>2 DEF Kept
    <3> QED
      BY <1>1, <2>1, <2>2, <3>1, <3>2, <3>3, ShowsNext
  <2> QED
    BY <1>1, <1>2, <1>3, <2>2 DEF Kept
<1>4. CASE ~Ticks
  <2>1. xTickCount' = xTickCount /\ \A t \in Task : since'[t] = since[t]
    BY <1>1, <1>4 DEF Ticks
  <2> QED
    BY <1>1, <2>1 DEF Kept, PeriodicTask
<1> QED
  BY <1>3, <1>4

LEMMA StepKeepsDue == PeriodicInv /\ SchedulerSteps => Awaited'
<1> SUFFICES ASSUME PeriodicInv, SchedulerSteps PROVE Awaited'
  OBVIOUS
<1> DEFINE Awaits(t) == IF pc[t].op = "delay" THEN pc[t].ticks ELSE TicksLeft[t]
           Became(t) == IF Ticks THEN Max({0, due[t] - 1})
                        ELSE IF pc[t] = App /\ pc'[t].op = "delay" THEN pc'[t].ticks
                        ELSE IF t \in Sleeping \ Sleeping' THEN 0
                        ELSE due[t]
<1>1. /\ IInv /\ Next /\ due' = [t \in Task |-> Became(t)] /\ \A t \in Task : due[t] = Awaits(t)
      /\ App.op # "delay"
  BY DEF SchedulerSteps, PeriodicInv, Awaited, App
<1>2. SUFFICES ASSUME NEW t \in Task
               PROVE  Became(t) = IF pc'[t].op = "delay" THEN pc'[t].ticks ELSE TicksLeft'[t]
  BY <1>1 DEF Awaited
<1>3. pc[t].op = "delay" => xSchedulerRunning /\ t = pxCurrentTCB /\ uxSchedulerSuspended = 1 /\ At("delay")
  <2>1. pc[t].op = "delay" => pc[t] # App /\ pc[t].op \in AboutToSleep /\ pc[t].op \in Urgent
    BY DEF App, AboutToSleep, Urgent
  <2> QED
    BY <1>1, <2>1 DEF IInv, Suspension, In, Alive, NotStarted, At
<1>4. TicksLeft[t] \in Nat /\ (TicksLeft[t] > 0 <=> t \in Sleeping)
  BY <1>1, AsleepIsSleeping
<1>5. CASE Counting
  <2>1. Ticks /\ Sleeper!Count
    BY <1>1, <1>5, ClockMoves, LeftCounted
  <2>2. pc[t].op # "delay"
    BY <1>3, <1>5 DEF Counting, TickCounts, ResumeTicks, At
  <2>3. pc'[t].op # "delay"
    <3>1. ~Delaying
      BY <2>1 DEF Delaying, vTaskDelay, DelaySleeps, Ticks
    <3> QED
      BY <1>1, <2>2, <3>1, DelaysStand
  <2>4. TicksLeft'[t] = IF TicksLeft[t] > 0 THEN TicksLeft[t] - 1 ELSE 0
    BY <2>1 DEF Sleeper!Count
  <2>5. Became(t) = IF TicksLeft[t] - 1 > 0 THEN TicksLeft[t] - 1 ELSE 0
    BY <1>1, <1>4, <2>1, <2>2, AtLeastZero
  <2> QED
    BY <1>4, <2>3, <2>4, <2>5
<1>6. CASE ~Counting /\ ~Delaying
  <2>1. ~Ticks
    BY <1>1, <1>6, ClockMoves
  <2>2. pc[t].op = "delay" \/ pc'[t].op = "delay" => pc'[t] = pc[t]
    BY <1>1, <1>6, DelaysStand
  <2>3. CASE UNCHANGED <<TicksLeft, Sleeping>>
    BY <1>1, <2>1, <2>2, <2>3
  <2>4. ASSUME NEW u \in Task, Stopping(u)
        PROVE  Became(t) = IF pc'[t].op = "delay" THEN pc'[t].ticks ELSE TicksLeft'[t]
    <3>1. /\ pxDelayedTaskList' = pxDelayedTaskList \ {u}
          /\ pxOverflowDelayedTaskList' = pxOverflowDelayedTaskList \ {u}
          /\ UNCHANGED <<xItemValue, xTickCount>> /\ ~At("delay")
      BY <2>4 DEF Stopping, vTaskSuspend, vTaskDelete, Unlink, ResumeDrains, timeVars, Calling, At
    <3>2. TicksLeft'[t] = IF t = u THEN 0 ELSE TicksLeft[t]
      BY <1>1, <3>1, LeftGone
    <3>3. Sleeping' = Sleeping \ {u}
      BY <1>1, <3>1, LeftGone
    <3> QED
      BY <1>1, <1>3, <1>4, <2>1, <2>2, <3>1, <3>2, <3>3
  <2> QED
    BY <1>1, <1>6, <2>3, <2>4, ClockStands
<1>7. CASE vTaskDelay
  <2>1. /\ UNCHANGED <<pxDelayedTaskList, pxOverflowDelayedTaskList, xItemValue, xTickCount>>
        /\ At("app") /\ xSchedulerRunning
    BY <1>7 DEF vTaskDelay, NotListed, sleepVars, Calling, At
  <2>2. UNCHANGED <<TicksLeft, Sleeping>> /\ ~Ticks
    BY <2>1, LeftSame DEF Sleeping, Ticks
  <2>3. pxCurrentTCB \in Task /\ pc[pxCurrentTCB] = App /\ pc \in [Task -> Place]
    BY <1>1, <2>1, InApp, Here
  <2>4. PICK n \in Delays : pc' = [pc EXCEPT ![pxCurrentTCB] =
                                      IF n > 0 THEN [op |-> "delay", ticks |-> n] ELSE Yielding]
    BY <1>7 DEF vTaskDelay, Goto
  <2>5. Yielding.op # "delay"
    BY DEF Yielding, YieldingTo
  <2>6. pc[t].op # "delay"
    BY <1>1, <1>3, <2>3
  <2>7. CASE t = pxCurrentTCB
    <3>1. pc'[t].op = "delay" => pc[t] = App
      BY <2>3, <2>7
    <3> QED
      BY <1>1, <2>2, <2>6, <3>1
  <2>8. CASE t # pxCurrentTCB
    BY <1>1, <2>2, <2>3, <2>4, <2>6, <2>8
  <2> QED
    BY <2>7, <2>8
<1>8. CASE DelaySleeps
  <2> DEFINE me == pxCurrentTCB
  <2>1. /\ me \in Task /\ TicksLeft' = [TicksLeft EXCEPT ![me] = pc[me].ticks]
        /\ At("delay") /\ pc' = [pc EXCEPT ![me] = Resuming(App, Yielding)]
        /\ pc \in [Task -> Place] /\ UNCHANGED xTickCount
    BY <1>1, <1>8, LeftAsked DEF DelaySleeps, Goto, IInv, Typed
  <2>2. Resuming(App, Yielding).op # "delay" /\ ~Ticks
    BY <2>1 DEF Resuming, Ticks
  <2>3. Sleeping \subseteq Sleeping'
    BY <1>8 DEF DelaySleeps, prvAddCurrentTaskToDelayedList, Sleeping
  <2>4. pc'[t] = IF t = me THEN Resuming(App, Yielding) ELSE pc[t]
    BY <2>1
  <2>5. TicksLeft'[t] = IF t = me THEN pc[t].ticks ELSE TicksLeft[t]
    BY <1>1, <2>1, AsleepIsSleeping
  <2>6. pc[t].op = "delay" <=> t = me
    BY <1>3, <2>1 DEF At
  <2>7. pc'[t].op # "delay"
    BY <2>2, <2>4, <2>6
  <2>8. Became(t) = due[t]
    BY <2>2, <2>3, <2>7
  <2> QED
    BY <1>1, <2>5, <2>6, <2>7, <2>8
<1> QED
  BY <1>5, <1>6, <1>7, <1>8 DEF Delaying

LEMMA PeriodicStepKeeps == PeriodicInv /\ [PeriodicNext]_periodAll => PeriodicInv'
<1> SUFFICES ASSUME PeriodicInv, [PeriodicNext]_periodAll PROVE PeriodicInv'
  OBVIOUS
<1>1. CASE xTaskDelayUntil \/ xTaskPeriodicDelay \/ StartsPeriod
  BY <1>1, UntilKeeps, PeriodicDelayKeeps, StartKeeps
<1>2. CASE SchedulerSteps
  <2>1. IInv'
    BY <1>2, StepKeeps DEF SchedulerSteps, PeriodicInv
  <2> QED
    BY <1>2, <2>1, StepKeepsTimes, StepKeepsDue DEF PeriodicInv
<1>3. CASE UNCHANGED periodAll
  <2>1. IInv' /\ UNCHANGED <<xTickCount, TicksLeft, pc, due, since, pxPreviousWakeTime>>
    BY <1>3, StutterKeeps, LeftSame DEF PeriodicInv, periodAll, periodVars, vars, sleepVars, timeVars
  <2> QED
    BY <2>1 DEF PeriodicInv, Kept, Awaited
<1> QED
  BY <1>1, <1>2, <1>3 DEF PeriodicNext

LEMMA PeriodicStart == PeriodicInit => PeriodicInv
<1> SUFFICES ASSUME PeriodicInit PROVE PeriodicInv
  OBVIOUS
<1>1. IInv
  BY InitHolds DEF PeriodicInit
<1>2. Kept
  BY WidthAssumption DEF PeriodicInit, Init, Kept, Shows, Tick, PeriodicTask
<1>3. \A t \in Task : pc[t].op # "delay" /\ TicksLeft[t] = 0
  BY LeftIs DEF PeriodicInit, Init, App
<1>4. Awaited
  BY <1>3 DEF PeriodicInit, Awaited
<1> QED
  BY <1>1, <1>2, <1>4 DEF PeriodicInv

(* Every call that delays returns at the tick it asked for, for every      *)
(* width of the tick count, any number of tasks and any periods: a         *)
(* periodic task does not drift where the count wraps                      *)
(* (xTaskDelayUntil, xTaskPeriodicDelay).                                  *)
THEOREM DelaysEndOnTime == PeriodicSpec => []OnTime
<1>1. PeriodicInv => OnTime
  <2> SUFFICES ASSUME PeriodicInv, NEW t \in Task
               PROVE  /\ t \in Sleeping => TicksLeft[t] = due[t]
                      /\ pc[t] = App /\ t \notin Sleeping => due[t] = 0
    BY DEF OnTime
  <2>1. t \in Sleeping => pc[t].op # "delay"
    <3>1. pc[t].op = "delay" => pc[t] # App /\ pc[t].op \in AboutToSleep /\ pc[t].op \in Urgent
      BY DEF App, AboutToSleep, Urgent
    <3> QED
      BY <3>1 DEF PeriodicInv, IInv, Suspension, In, Alive, NotStarted, Homes
  <2>2. pc[t] = App => pc[t].op # "delay"
    BY DEF App
  <2>3. t \notin Sleeping => TicksLeft[t] = 0
    BY LeftIs DEF Sleeping
  <2> QED
    BY <2>1, <2>2, <2>3 DEF PeriodicInv, Awaited
<1> QED
  BY <1>1, PeriodicStart, PeriodicStepKeeps, PTL DEF PeriodicSpec

(* The clock keeps its promise to periodic tasks too: the calls that delay *)
(* them lose no tick, and wake them by the ticks that are counted          *)
(* (vTaskSuspendAll, xTaskIncrementTick).                                  *)
THEOREM PeriodsKeepTime == PeriodicSpec => KeepsTime
<1>1. PeriodicInv /\ [PeriodicNext]_periodAll => [Sleeper!Next]_<<TicksLeft, Backlog>>
  <2> SUFFICES ASSUME PeriodicInv, [PeriodicNext]_periodAll
               PROVE  [Sleeper!Next]_<<TicksLeft, Backlog>>
    OBVIOUS
  <2>1. CASE SchedulerSteps \/ StartsPeriod \/ UNCHANGED periodAll
    BY <2>1, StepKeepsTime DEF PeriodicInv, SchedulerSteps, StartsPeriod, periodAll
  <2>2. ASSUME Calling, MayBlock, NEW n, NEW previous, DelayFor(n, previous)
        PROVE  UNCHANGED <<TicksLeft, Backlog>>
    <3> DEFINE place == IF n > 0 THEN [op |-> "delay", ticks |-> n] ELSE Resuming(App, Yielding)
    <3>1. /\ pc' = [pc EXCEPT ![pxCurrentTCB] = place]
          /\ UNCHANGED <<pxDelayedTaskList, pxOverflowDelayedTaskList, xItemValue, xTickCount,
                         xPendedTicks, pxCurrentTCB, xSchedulerRunning>>
      BY <2>2 DEF DelayFor, Goto, NotListed, sleepVars, switchVars, lifeVars
    <3>2. pxCurrentTCB \in Task /\ pc \in [Task -> Place] /\ pc[pxCurrentTCB].op = "app"
      BY <2>2, Here DEF PeriodicInv, Calling, At
    <3>3. place.op # "ticks"
      BY DEF Resuming
    <3> HIDE DEF place
    <3>4. ~At("ticks") /\ ~At("ticks")'
      BY <3>1, <3>2, <3>3 DEF At
    <3> QED
      BY <3>1, <3>4, LeftSame DEF Backlog
  <2>3. CASE xTaskDelayUntil
    BY <2>2, <2>3 DEF xTaskDelayUntil
  <2>4. CASE xTaskPeriodicDelay
    BY <2>2, <2>4 DEF xTaskPeriodicDelay
  <2> QED
    BY <2>1, <2>3, <2>4 DEF PeriodicNext
<1>2. PeriodicInit => PeriodicInv /\ Sleeper!Init
  BY PeriodicStart, SleepsFromTheStart DEF PeriodicInit
<1> QED
  BY <1>1, <1>2, PeriodicStepKeeps, PTL DEF PeriodicSpec, KeepsTime, Sleeper!Spec

-----------------------------------------------------------------------------
(* Notifications.                                                          *)

(* A task that waits for a notification, or will when it goes on.          *)
Awaits(t) == Onward(pc[t]).op \in {"listen", "takeEnds", "waitEnds"}

(* Whether a task is marked as waiting, and where it is: a task that is    *)
(* marked waits, one that waits asleep is marked unless it was notified,   *)
(* and what is pending is not marked.                                      *)
WaitersAwait == \A t \in Task : ucNotifyState[t] = "waiting" => Awaits(t) /\ memory[t] # "free"
SleepersWait ==
    \A t \in (Sleeping \cup xTasksWaitingTermination) \ xPendingReadyList :
        Awaits(t) => ucNotifyState[t] = "waiting"
Undecided == In({"take", "wait"}) => pxCurrentTCB \notin xPendingReadyList
Decided ==
    At("listen") => ucNotifyState[pxCurrentTCB] = "waiting" \/ pxCurrentTCB \in xPendingReadyList

NotifyInv ==
    /\ IInv /\ StoppedTasksAreKnown /\ EventItemFree
    /\ WaitersAwait /\ SleepersWait /\ Undecided /\ Decided

-----------------------------------------------------------------------------
(* The places of the calls.                                                *)

LEMMA WaitShape ==
    ASSUME NEW p \in Place
    PROVE  /\ p.op \in {"take", "wait"} => p.ticks \in 1 .. portMAX_DELAY /\ p.clear \in BOOLEAN
           /\ p.op = "listen" => p.ticks \in 1 .. portMAX_DELAY /\ p.end \in NotifyEnds
           /\ p.op \in {"takeEnds", "waitEnds"} => p.clear \in BOOLEAN
<1>1. CASE p \in NotifyCalls
  BY <1>1 DEF NotifyCalls
<1>2. CASE p \in NotifyEnds
  BY <1>2 DEF NotifyEnds
<1>3. CASE p.op \notin {"take", "wait", "listen", "takeEnds", "waitEnds"}
  BY <1>3
<1>4. \/ p \in NotifyCalls \/ p \in NotifyEnds
      \/ p.op \notin {"take", "wait", "listen", "takeEnds", "waitEnds"}
  BY DEF Place, Ends, Outs, Yields, Adds, App, QueueEnds, QueueCalls
<1> QED
  BY <1>1, <1>2, <1>3, <1>4

LEMMA WaitPlaces ==
    /\ \A f \in {"take", "wait"}, n \in 1 .. portMAX_DELAY, c \in BOOLEAN :
          [op |-> f, ticks |-> n, clear |-> c] \in Plain
    /\ \A f \in {"take", "wait"}, c \in BOOLEAN : [op |-> Exit(f), clear |-> c] \in NotifyEnds
    /\ \A n \in 1 .. portMAX_DELAY, e \in NotifyEnds : [op |-> "listen", ticks |-> n, end |-> e] \in Plain
    /\ \A e \in NotifyEnds : /\ e \in Plain /\ Resuming(e, e) \in Plain
                             /\ Resuming(e, YieldingTo(e)) \in Plain
<1>1. \A f \in {"take", "wait"}, n \in 1 .. portMAX_DELAY, c \in BOOLEAN :
          [op |-> f, ticks |-> n, clear |-> c] \in NotifyCalls
  BY DEF NotifyCalls
<1>2. \A n \in 1 .. portMAX_DELAY, e \in NotifyEnds : [op |-> "listen", ticks |-> n, end |-> e] \in NotifyCalls
  BY DEF NotifyCalls
<1>3. \A f \in {"take", "wait"}, c \in BOOLEAN : [op |-> Exit(f), clear |-> c] \in NotifyEnds
  BY DEF NotifyEnds, Exit
<1>4. \A e \in NotifyEnds : e \in Outs \cup Yields /\ YieldingTo(e) \in Outs \cup Yields
  BY DEF Outs, Yields, YieldingTo
<1> QED
  BY <1>1, <1>2, <1>3, <1>4, PlainPlaces

(* Where the places of a call lead.                                        *)
LEMMA WaitOnward ==
    ASSUME NEW e \in NotifyEnds
    PROVE  /\ Onward(e) = e /\ Onward(YieldingTo(e)) = e
           /\ Onward(Resuming(e, e)) = e /\ Onward(Resuming(e, YieldingTo(e))) = e
           /\ e.op \in {"takeEnds", "waitEnds"}
<1>1. e.op \in {"takeEnds", "waitEnds"}
  BY DEF NotifyEnds
<1>2. e.op \notin {"resume", "drain", "ticks"} /\ e.op # "yield"
  BY <1>1
<1>3. Onward(e) = e
  BY <1>2 DEF Onward
<1>4. Onward(YieldingTo(e)) = e
  BY DEF Onward, YieldingTo
<1>5. Onward(Resuming(e, e)) = e /\ Onward(Resuming(e, YieldingTo(e))) = e
  BY <1>2 DEF Onward, YieldingTo, Resuming
<1> QED
  BY <1>1, <1>3, <1>4, <1>5

-----------------------------------------------------------------------------
(* What the steps of the scheduler do to waiters.                          *)

(* What a step leaves of a task's part in all this.                        *)
MarkKept(t) ==
    /\ t \in xSuspendedTaskList' \ xPendingReadyList' => t \in xSuspendedTaskList \ xPendingReadyList
    /\ t \in xPendingReadyList' => t \in xPendingReadyList \/ prvTaskIsTaskSuspended(t)
    /\ t \in (Sleeping \cup xTasksWaitingTermination)' \ xPendingReadyList' =>
          \/ t \in (Sleeping \cup xTasksWaitingTermination) \ xPendingReadyList
          \/ t = pxCurrentTCB /\ pc[t].op \in Own
    /\ \/ ucNotifyState'[t] = ucNotifyState[t] /\ (memory'[t] = "free" => memory[t] = "free")
       \/ ucNotifyState'[t] = "none" /\ memory[t] = "dying"
    /\ t \notin JustStopped
Stopped(t) ==
    /\ t \in xSuspendedTaskList' /\ t \notin xPendingReadyList'
    /\ t \notin Sleeping' \cup xTasksWaitingTermination'
    /\ ucNotifyState'[t] # "waiting" /\ t \in JustStopped
    /\ memory'[t] = memory[t]

LEMMA KeptOrStopped == IInv /\ Next => \A t \in Task : MarkKept(t) \/ Stopped(t)
<1> SUFFICES ASSUME IInv, Next PROVE \A t \in Task : MarkKept(t) \/ Stopped(t)
  OBVIOUS
<1> USE DEF Sleeping, NotListed, sleepVars, lifeVars, notifyVars, timeVars
<1>1. ASSUME NEW t \in JustStopped
      PROVE  At("app") /\ pc'[pxCurrentTCB].op = "suspended" /\ pc' # pc
  <2>1. At("app") /\ pc'[pxCurrentTCB] = [op |-> "suspended", who |-> t]
    BY <1>1 DEF JustStopped
  <2> QED
    BY <2>1 DEF At
<1>2. ASSUME UNCHANGED <<pxDelayedTaskList, pxOverflowDelayedTaskList, xSuspendedTaskList, xPendingReadyList,
                         xTasksWaitingTermination, notifyVars>>,
             \A t \in Task : memory'[t] = "free" => memory[t] = "free",
             JustStopped = {}
      PROVE  \A t \in Task : MarkKept(t)
  BY <1>2 DEF MarkKept
<1>3. CASE xTaskCreateInMain \/ vTaskStartScheduler
  <2>1. UNCHANGED <<pxDelayedTaskList, pxOverflowDelayedTaskList, xSuspendedTaskList, xPendingReadyList,
                    xTasksWaitingTermination, notifyVars, pc>>
    BY <1>3 DEF xTaskCreateInMain, CreateBeforeStart, vTaskStartScheduler
  <2>2. PICK u \in Task : memory' = [memory EXCEPT ![u] = "live"]
    BY <1>3, TaskAssumption DEF xTaskCreateInMain, CreateBeforeStart, vTaskStartScheduler, AddNew
  <2>3. \A t \in Task : memory'[t] = "free" => memory[t] = "free"
    BY <2>2 DEF IInv, Typed
  <2> QED
    BY <1>1, <1>2, <2>1, <2>3
<1>4. CASE AppCalls \/ KernelSteps \/ Interrupts
  <2> xSchedulerRunning /\ pxCurrentTCB \in Task /\ pxCurrentTCB \in Live /\ pc \in [Task -> Place]
    BY <1>4, StaysRunning, Here
  <2>q. ASSUME NEW place, pc' = [pc EXCEPT ![pxCurrentTCB] = place], place.op # "suspended"
        PROVE  JustStopped = {}
    BY <1>1, <2>q
  <2> USE DEF Goto, At
  <2>1. CASE \/ SuspendAll \/ TickPends
             \/ \E t \in Task, p \in Priority : vTaskPrioritySet(t, p)
    BY <1>1, <1>2, <2>1 DEF SuspendAll, TickPends, vTaskPrioritySet
  <2>2. CASE ResumeAll \/ vTaskDelay \/ xTaskCatchUpTicks \/ CatchUpPends \/ SuspendReturns \/ CreateReturns
             \/ prvIdleTask
    <3>1. /\ App.op # "suspended" /\ Yielding.op # "suspended"
          /\ \A n : [op |-> "delay", ticks |-> n].op # "suspended"
          /\ \A n : [op |-> "catchup", ticks |-> n].op # "suspended"
          /\ Resuming(App, App).op # "suspended"
      BY DEF Resuming, App, Yielding, YieldingTo
    <3>2. ASSUME ResumeAll \/ CatchUpPends PROVE JustStopped = {}
      BY <2>q, <3>1, <3>2 DEF ResumeAll, CatchUpPends
    <3>3. ASSUME vTaskDelay \/ xTaskCatchUpTicks PROVE JustStopped = {}
      <4>1. \/ pc' = [pc EXCEPT ![pxCurrentTCB] = Yielding]
            \/ \E n : pc' = [pc EXCEPT ![pxCurrentTCB] = [op |-> "delay", ticks |-> n]]
            \/ \E n : pc' = [pc EXCEPT ![pxCurrentTCB] = [op |-> "catchup", ticks |-> n]]
        BY <3>3 DEF vTaskDelay, xTaskCatchUpTicks
      <4> QED
        BY <2>q, <3>1, <4>1
    <3>4. ASSUME SuspendReturns \/ CreateReturns \/ prvIdleTask PROVE JustStopped = {}
      <4>1. pc' = [pc EXCEPT ![pxCurrentTCB] = App] \/ pc' = [pc EXCEPT ![pxCurrentTCB] = Yielding]
        BY <3>4 DEF SuspendReturns, CreateReturns, prvIdleTask
      <4> QED
        BY <2>q, <3>1, <4>1
    <3>5. JustStopped = {}
      BY <2>2, <3>2, <3>3, <3>4
    <3> QED
      BY <1>2, <2>2, <3>5
      DEF ResumeAll, vTaskDelay, xTaskCatchUpTicks, CatchUpPends, SuspendReturns, CreateReturns, prvIdleTask
  <2>3. CASE xTaskResumeAll \/ ResumeDrained \/ ResumeReturns \/ vPortYield
    <3>1. JustStopped = {}
      BY <1>1, <2>3 DEF xTaskResumeAll, ResumeDrained, ResumeReturns, vPortYield
    <3> QED
      BY <1>2, <2>3, <3>1 DEF xTaskResumeAll, ResumeDrained, ResumeReturns, vPortYield
  <2>4. ASSUME NEW u \in Task, vTaskSuspend(u) PROVE \A t \in Task : MarkKept(t) \/ Stopped(t)
    <3>1. /\ pxDelayedTaskList' = pxDelayedTaskList \ {u}
          /\ pxOverflowDelayedTaskList' = pxOverflowDelayedTaskList \ {u}
          /\ xPendingReadyList' = xPendingReadyList \ {u}
          /\ xSuspendedTaskList' = xSuspendedTaskList \cup {u}
          /\ ucNotifyState' = [ucNotifyState EXCEPT ![u] = IF @ = "waiting" THEN "none" ELSE @]
          /\ u \notin xTasksWaitingTermination /\ UNCHANGED <<xTasksWaitingTermination, memory>>
      BY <2>4 DEF vTaskSuspend, Unlink
    <3>2. At("app") /\ pc'[pxCurrentTCB] = [op |-> "suspended", who |-> u]
      BY <2>4 DEF vTaskSuspend, Calling
    <3>3. JustStopped = {u}
      <4>1. \A t : [op |-> "suspended", who |-> u] = [op |-> "suspended", who |-> t] => u = t
        OBVIOUS
      <4> QED
        BY <3>2, <4>1 DEF JustStopped
    <3>4. Stopped(u)
      BY <3>1, <3>3 DEF Stopped, IInv, Typed
    <3>5. \A t \in Task : t # u => MarkKept(t)
      BY <3>1, <3>3 DEF MarkKept, IInv, Typed
    <3> QED
      BY <3>4, <3>5
  <2>5. ASSUME NEW u \in Task, vTaskDelete(u) PROVE \A t \in Task : MarkKept(t)
    <3>1. /\ pxDelayedTaskList' = pxDelayedTaskList \ {u}
          /\ pxOverflowDelayedTaskList' = pxOverflowDelayedTaskList \ {u}
          /\ xPendingReadyList' = xPendingReadyList \ {u}
          /\ xSuspendedTaskList' = xSuspendedTaskList \ {u}
          /\ UNCHANGED notifyVars
          /\ \/ /\ u = pxCurrentTCB /\ pc[u].op = "app" /\ UNCHANGED memory
                /\ xTasksWaitingTermination' = xTasksWaitingTermination \cup {u}
                /\ pc' = [pc EXCEPT ![pxCurrentTCB] = Yielding]
             \/ /\ UNCHANGED xTasksWaitingTermination
                /\ memory' = [memory EXCEPT ![u] = "dying"]
                /\ pc' = [pc EXCEPT ![pxCurrentTCB] = [op |-> "free", who |-> u]]
      BY <2>5 DEF vTaskDelete, Unlink, Calling
    <3>2. JustStopped = {}
      <4>1. [op |-> "free", who |-> u].op # "suspended" /\ Yielding.op # "suspended"
        BY DEF Yielding, YieldingTo
      <4> QED
        BY <2>q, <3>1, <4>1
    <3>3. \A t \in Task : memory'[t] = "free" => memory[t] = "free"
      BY <3>1 DEF IInv, Typed
    <3>4. /\ Sleeping' = Sleeping \ {u}
          /\ \/ UNCHANGED xTasksWaitingTermination
             \/ /\ xTasksWaitingTermination' = xTasksWaitingTermination \cup {u}
                /\ u = pxCurrentTCB /\ pc[u].op \in Own
      BY <3>1 DEF Own
    <3>5. UNCHANGED ucNotifyState /\ u \notin xTasksWaitingTermination
      BY <2>5, <3>1 DEF vTaskDelete
    <3> QED
      BY <3>1, <3>2, <3>3, <3>4, <3>5 DEF MarkKept
  <2>6. ASSUME NEW u \in Task, vTaskResume(u) \/ xTaskResumeFromISR(u) PROVE \A t \in Task : MarkKept(t)
    <3>1. JustStopped = {}
      BY <1>1, <2>6 DEF vTaskResume, xTaskResumeFromISR
    <3> QED
      BY <2>6, <3>1 DEF MarkKept, vTaskResume, xTaskResumeFromISR
  <2>7. ASSUME NEW t \in Task, NEW p \in Priority, xTaskCreate(t, p) PROVE \A u \in Task : MarkKept(u)
    <3>1. memory'[t] # "free" => \A u \in Task : memory'[u] = "free" => memory[u] = "free"
      BY <2>7 DEF xTaskCreate, IInv, Typed
    <3>2. \A u \in Task : memory'[u] = "free" => memory[u] = "free"
      BY <2>7, <3>1 DEF xTaskCreate, IInv, Typed
    <3>3. t # pxCurrentTCB
      BY <2>7 DEF xTaskCreate, Live
    <3>4. pc'[pxCurrentTCB].op = "resume"
      BY <2>7, <3>3 DEF xTaskCreate, Resuming
    <3> QED
      BY <1>1, <1>2, <2>7, <3>2, <3>4 DEF xTaskCreate
  <2>8. CASE CreateAdds
    <3>1. JustStopped = {}
      BY <1>1, <2>8 DEF CreateAdds
    <3>2. \A t \in Task : memory'[t] = "free" => memory[t] = "free"
      BY <2>8 DEF CreateAdds, AddNew, IInv, Typed
    <3> QED
      BY <1>2, <2>8, <3>1, <3>2 DEF CreateAdds, AddNew
  <2>9. CASE prvDeleteTCB
    <3> DEFINE u == pc[pxCurrentTCB].who
    <3>1. u \in Task /\ memory[u] = "dying"
      BY <2>9, DeleteTCBReady
    <3>2. JustStopped = {}
      BY <1>1, <2>9 DEF prvDeleteTCB
    <3>3. /\ memory' = [memory EXCEPT ![u] = "free"]
          /\ ucNotifyState' = [ucNotifyState EXCEPT ![u] = "none"]
          /\ UNCHANGED <<pxDelayedTaskList, pxOverflowDelayedTaskList, xSuspendedTaskList, xPendingReadyList,
                         xTasksWaitingTermination>>
      BY <2>9 DEF prvDeleteTCB
    <3> HIDE DEF u
    <3> QED
      BY <3>1, <3>2, <3>3 DEF MarkKept, IInv, Typed
  <2>10. CASE prvCheckTasksWaitingTermination
    <3>1. PICK u \in xTasksWaitingTermination :
             /\ xTasksWaitingTermination' = xTasksWaitingTermination \ {u}
             /\ memory' = [memory EXCEPT ![u] = "dying"]
             /\ pc' = [pc EXCEPT ![pxCurrentTCB] = [op |-> "free", who |-> u]]
      BY <2>10 DEF prvCheckTasksWaitingTermination
    <3>2. UNCHANGED <<NotListed, notifyVars>>
      BY <2>10 DEF prvCheckTasksWaitingTermination
    <3>3. JustStopped = {}
      <4>1. [op |-> "free", who |-> u].op # "suspended"
        OBVIOUS
      <4> QED
        BY <2>q, <3>1, <4>1
    <3>4. \A t \in Task : memory'[t] = "free" => memory[t] = "free"
      BY <3>1 DEF IInv, Typed
    <3> QED
      BY <3>1, <3>2, <3>3, <3>4 DEF MarkKept
  <2>11. CASE DelaySleeps
    <3>1. JustStopped = {}
      BY <1>1, <2>11 DEF DelaySleeps
    <3>2. /\ UNCHANGED <<xSuspendedTaskList, xPendingReadyList, xTasksWaitingTermination, memory, notifyVars>>
          /\ pxDelayedTaskList' \subseteq pxDelayedTaskList \cup {pxCurrentTCB}
          /\ pxOverflowDelayedTaskList' \subseteq pxOverflowDelayedTaskList \cup {pxCurrentTCB}
          /\ pc[pxCurrentTCB].op = "delay"
      BY <2>11 DEF DelaySleeps, prvAddCurrentTaskToDelayedList
    <3> QED
      BY <3>1, <3>2 DEF MarkKept, Own
  <2>12. ASSUME NEW u \in Task, ResumeDrains(u) PROVE \A t \in Task : MarkKept(t)
    <3>1. JustStopped = {}
      BY <1>1, <2>12 DEF ResumeDrains
    <3>2. u \notin xTasksWaitingTermination
      BY <2>12 DEF ResumeDrains, IInv, Homes
    <3> QED
      BY <2>12, <3>1, <3>2 DEF MarkKept, ResumeDrains
  <2>13. CASE TickCounts \/ ResumeTicks
    <3>1. JustStopped = {}
      BY <1>1, <2>13 DEF TickCounts, ResumeTicks
    <3>2. /\ Woken \subseteq Sleeping /\ DueList \cup LaterList = Sleeping
          /\ Woken \cap LaterList = {}
      BY DEF Woken, DueList, LaterList, IInv, Homes
    <3>3. /\ Sleeping' = (DueList \ Woken) \cup LaterList
          /\ xPendingReadyList' = xPendingReadyList \ Woken
          /\ UNCHANGED <<xSuspendedTaskList, xTasksWaitingTermination, memory, notifyVars>>
      BY <2>13 DEF TickCounts, ResumeTicks, TickLists
    <3>4. Woken \cap xSuspendedTaskList = {} /\ Woken \cap xTasksWaitingTermination = {}
      BY <3>2 DEF IInv, Homes
    <3> QED
      BY <3>1, <3>2, <3>3, <3>4 DEF MarkKept
  <2> QED
    BY <1>4, <2>1, <2>2, <2>3, <2>4, <2>5, <2>6, <2>7, <2>8, <2>9, <2>10, <2>11, <2>12, <2>13, BoundAssumption
    DEF AppCalls, KernelSteps, Interrupts, vPortYieldFromTick
<1> QED
  BY <1>3, <1>4 DEF Next

LEMMA NotifySchedulerKeeps ==
    ASSUME NotifyInv, Next, stopped' = JustStopped \cup (stopped \cap (xSuspendedTaskList' \ xPendingReadyList'))
    PROVE  NotifyInv'
<1> USE DEF NotifyInv
<1>1. IInv'
  BY StepKeeps
<1>2. \A t \in Task : MarkKept(t) \/ Stopped(t)
  BY KeptOrStopped
<1>3. \A t \in Task : GoesOn(t)
  BY OneWayKept
<1>4. /\ xSuspendedTaskList \cup Sleeping \cup xTasksWaitingTermination \subseteq Live
      /\ xPendingReadyList' \subseteq Task /\ xPendingReadyList \subseteq Task
      /\ Sleeping \subseteq Task /\ Sleeping' \subseteq Task
      /\ xTasksWaitingTermination \subseteq Task /\ xTasksWaitingTermination' \subseteq Task
  BY <1>1 DEF IInv, Homes, Typed, Sleeping
<1>5. StoppedTasksAreKnown'
  <2> SUFFICES ASSUME NEW t \in Task PROVE prvTaskIsTaskSuspended(t)' <=> t \in stopped'
    BY DEF StoppedTasksAreKnown
  <2>1. CASE Stopped(t)
    BY <2>1 DEF Stopped, prvTaskIsTaskSuspended
  <2>2. CASE MarkKept(t)
    <3>1. t \in stopped' <=> t \in stopped /\ t \in xSuspendedTaskList' \ xPendingReadyList'
      BY <2>2 DEF MarkKept
    <3>2. t \in stopped <=> prvTaskIsTaskSuspended(t)
      BY DEF StoppedTasksAreKnown
    <3>3. t \in xSuspendedTaskList => ucNotifyState'[t] = ucNotifyState[t]
      BY <1>4, <2>2 DEF MarkKept, Live
    <3> QED
      BY <2>2, <3>1, <3>2, <3>3 DEF MarkKept, prvTaskIsTaskSuspended
  <2> QED
    BY <1>2, <2>1, <2>2
<1>6. EventItemFree'
  <2> SUFFICES ASSUME NEW t \in xPendingReadyList' PROVE ucNotifyState'[t] # "waiting"
    BY DEF EventItemFree
  <2>1. ~Stopped(t) /\ t \in Task
    BY <1>4 DEF Stopped
  <2> QED
    BY <1>2, <2>1 DEF MarkKept, EventItemFree, prvTaskIsTaskSuspended
<1>7. WaitersAwait'
  <2> SUFFICES ASSUME NEW t \in Task, ucNotifyState'[t] = "waiting" PROVE Awaits(t)' /\ memory'[t] # "free"
    BY DEF WaitersAwait
  <2>1. ucNotifyState[t] = "waiting" /\ (memory'[t] = "free" => memory[t] = "free")
    BY <1>2 DEF MarkKept, Stopped
  <2>2. Onward(pc[t]).op \in {"listen", "takeEnds", "waitEnds"} /\ memory[t] # "free"
    BY <2>1 DEF WaitersAwait, Awaits
  <2>3. ~Ahead(pc[t])
    BY <2>2 DEF Ahead, Own
  <2>4. Onward(pc'[t]) = Onward(pc[t])
    BY <1>3, <2>1, <2>2, <2>3 DEF GoesOn
  <2> QED
    BY <2>1, <2>2, <2>4 DEF Awaits
<1>8. SleepersWait'
  <2> SUFFICES ASSUME NEW t \in Task, t \in (Sleeping \cup xTasksWaitingTermination)' \ xPendingReadyList', Awaits(t)'
               PROVE  ucNotifyState'[t] = "waiting"
    BY <1>4 DEF SleepersWait
  <2>1. MarkKept(t)
    BY <1>2 DEF Stopped
  <2>2. Onward(pc'[t]).op \in {"listen", "takeEnds", "waitEnds"}
    BY DEF Awaits
  <2>3. ~Ahead(pc'[t]) /\ pc'[t] # App
    BY <2>2 DEF Ahead, Own, App, Onward
  <2>4. Onward(pc[t]).op \in {"listen", "takeEnds", "waitEnds"}
    BY <1>3, <2>2, <2>3 DEF GoesOn
  <2>5. pc[t].op \notin Own
    BY <2>4 DEF Onward, Own
  <2>6. t \in (Sleeping \cup xTasksWaitingTermination) \ xPendingReadyList
    BY <2>1, <2>5 DEF MarkKept
  <2>7. ucNotifyState[t] = "waiting" /\ memory[t] = "live"
    BY <1>4, <2>4, <2>6 DEF SleepersWait, Awaits, Live
  <2> QED
    BY <2>1, <2>7 DEF MarkKept
<1>9. ASSUME In({"take", "wait", "listen"})'
      PROVE  /\ pxCurrentTCB' = pxCurrentTCB /\ pc'[pxCurrentTCB] = pc[pxCurrentTCB]
             /\ In({"take", "wait", "listen"}) /\ pxCurrentTCB \in Ready /\ pxCurrentTCB \in Task
             /\ xPendingReadyList \subseteq xPendingReadyList'
             /\ xPendingReadyList' \subseteq xPendingReadyList \cup xSuspendedTaskList
             /\ ucNotifyState'[pxCurrentTCB] = ucNotifyState[pxCurrentTCB]
  <2> DEFINE t == pxCurrentTCB'
  <2>1. In(CallOps)' /\ pc'[t].op \in {"take", "wait", "listen"}
    BY <1>9 DEF In, CallOps
  <2>2. t \in Task /\ pc'[t] = pc[t] /\ pc[t].op \in {"take", "wait", "listen"} /\ xSchedulerRunning
    BY <2>1, StillInCall
  <2>3. t = pxCurrentTCB
    BY <2>2 DEF IInv, Suspension, Urgent, AboutToSleep
  <2>4. In({"take", "wait", "listen"}) /\ In(CallOps) /\ In(AboutToSleep)
    BY <2>2, <2>3 DEF In, CallOps, AboutToSleep
  <2>5. uxSchedulerSuspended = 1 /\ t \in Ready
    BY <2>3, <2>4 DEF IInv, Suspension
  <2>6. /\ xPendingReadyList \subseteq xPendingReadyList'
        /\ xPendingReadyList' \subseteq xPendingReadyList \cup xSuspendedTaskList
    BY <2>4, <2>5, HeldInCall
  <2>7. ucNotifyState'[t] = ucNotifyState[t]
    <3>1. ~At("app")
      BY <2>2, <2>3 DEF At
    <3>2. t \notin JustStopped /\ memory[t] = "live"
      BY <2>3, <2>5, <3>1, ReadyFacts DEF JustStopped, Live
    <3> QED
      BY <1>2, <2>2, <3>2 DEF MarkKept, Stopped
  <2> QED
    BY <2>2, <2>3, <2>4, <2>5, <2>6, <2>7
<1>10. Undecided'
  <2> SUFFICES ASSUME In({"take", "wait"})' PROVE pxCurrentTCB' \notin xPendingReadyList'
    BY DEF Undecided
  <2>1. In({"take", "wait", "listen"})'
    BY DEF In
  <2>2. In({"take", "wait"})
    BY <1>9, <2>1 DEF In
  <2>3. pxCurrentTCB \notin xSuspendedTaskList
    BY <1>9, <2>1 DEF IInv, Homes
  <2> QED
    BY <1>9, <2>1, <2>2, <2>3 DEF Undecided
<1>11. Decided'
  <2> SUFFICES ASSUME At("listen")'
               PROVE  ucNotifyState'[pxCurrentTCB'] = "waiting" \/ pxCurrentTCB' \in xPendingReadyList'
    BY DEF Decided
  <2>1. In({"take", "wait", "listen"})'
    BY DEF In, At
  <2>2. At("listen")
    BY <1>9, <2>1 DEF In, At
  <2> QED
    BY <1>9, <2>1, <2>2 DEF Decided
<1> QED
  BY <1>1, <1>5, <1>6, <1>7, <1>8, <1>10, <1>11

-----------------------------------------------------------------------------
(* The steps of the waits.                                                 *)

(* A task in application code does not wait.                               *)
LEMMA InAppUnmarked ==
    ASSUME NotifyInv, At("app")
    PROVE  ucNotifyState[pxCurrentTCB] # "waiting"
<1>1. pxCurrentTCB \in Task /\ pc[pxCurrentTCB] = App
  BY InApp DEF NotifyInv
<1>2. Onward(App) = App /\ App.op = "app"
  BY DEF Onward, App
<1>3. ~Awaits(pxCurrentTCB)
  BY <1>1, <1>2 DEF Awaits
<1> QED
  BY <1>1, <1>3 DEF NotifyInv, WaitersAwait

(* The running task goes on in its wait, and its mark with it.             *)
LEMMA WaitMoves ==
    ASSUME NotifyInv, IInv', UNCHANGED <<NotListed, lifeVars, pxCurrentTCB, stopped>>,
           pxCurrentTCB \in Ready, NEW place, Goto(place), NEW mark,
           ucNotifyState' = [ucNotifyState EXCEPT ![pxCurrentTCB] = mark],
           mark = "waiting" => /\ Onward(place).op \in {"listen", "takeEnds", "waitEnds"}
                               /\ pxCurrentTCB \notin xPendingReadyList,
           place.op \in {"take", "wait"} => pxCurrentTCB \notin xPendingReadyList,
           place.op = "listen" => mark = "waiting"
    PROVE  NotifyInv'
<1> USE DEF NotifyInv, Goto
<1> DEFINE me == pxCurrentTCB
<1>1. /\ me \in Task /\ me \notin Sleeping /\ me \notin xSuspendedTaskList
      /\ me \notin xTasksWaitingTermination /\ memory[me] # "free"
  BY ReadyFacts DEF IInv, Homes, Live
<1>2. /\ ucNotifyState'[me] = mark /\ pc'[me] = place
      /\ \A t \in Task : t # me => ucNotifyState'[t] = ucNotifyState[t] /\ pc'[t] = pc[t]
  BY <1>1 DEF IInv, Typed
<1>3. /\ UNCHANGED <<xSuspendedTaskList, xPendingReadyList, xTasksWaitingTermination, memory>>
      /\ Sleeping' = Sleeping /\ me' = me /\ stopped' = stopped /\ xSchedulerRunning' = xSchedulerRunning
  BY DEF NotListed, sleepVars, lifeVars, Sleeping
<1> HIDE DEF me
<1>4. StoppedTasksAreKnown'
  BY <1>1, <1>2, <1>3 DEF StoppedTasksAreKnown, prvTaskIsTaskSuspended
<1>5. EventItemFree'
  BY <1>2, <1>3 DEF EventItemFree, IInv, Typed, me
<1>6. WaitersAwait'
  <2> SUFFICES ASSUME NEW t \in Task, ucNotifyState'[t] = "waiting" PROVE Awaits(t)' /\ memory'[t] # "free"
    BY DEF WaitersAwait
  <2> QED
    BY <1>1, <1>2, <1>3 DEF WaitersAwait, Awaits, me
<1>7. SleepersWait'
  <2> SUFFICES ASSUME NEW t \in (Sleeping \cup xTasksWaitingTermination) \ xPendingReadyList, Awaits(t)'
               PROVE  ucNotifyState'[t] = "waiting"
    BY <1>3 DEF SleepersWait
  <2>1. t # me /\ t \in Task
    BY <1>1 DEF IInv, Typed, Sleeping
  <2> QED
    BY <1>2, <2>1 DEF SleepersWait, Awaits
<1>8. Undecided' /\ Decided'
  BY <1>2, <1>3 DEF Undecided, Decided, In, At, me
<1> QED
  BY <1>4, <1>5, <1>6, <1>7, <1>8

LEMMA WaitCallKeeps ==
    ASSUME NotifyInv, NEW f \in {"take", "wait"}, WaitCall(f)
    PROVE  NotifyInv'
<1> USE DEF NotifyInv
<1>1. /\ xSchedulerRunning /\ pxCurrentTCB \in Ready /\ pxCurrentTCB \in Task /\ pxCurrentTCB # Idle
      /\ pc[pxCurrentTCB] = App /\ ucNotifyState[pxCurrentTCB] # "waiting" /\ At("app")
      /\ uxSchedulerSuspended = 0 => xPendingReadyList = {} /\ xPendedTicks = 0
  BY InApp, InAppUnmarked DEF WaitCall, Calling
<1>2. UNCHANGED <<NotListed, readyVars, switchVars, notifyVars, Undisturbed>>
  BY DEF WaitCall
<1>3. Rearranges({}, {})
  BY <1>2, NothingMoves DEF Undisturbed, switchVars, notifyVars, IInv, Typed
<1>4. PICK n \in Waits, clear \in BOOLEAN :
         IF ~Answered(f) /\ n > 0
         THEN MayBlock /\ vTaskSuspendAll /\ Goto([op |-> f, ticks |-> n, clear |-> clear])
         ELSE Goto([op |-> Exit(f), clear |-> clear]) /\ UNCHANGED uxSchedulerSuspended
  BY DEF WaitCall
<1>5. /\ ucNotifyState' = [ucNotifyState EXCEPT ![pxCurrentTCB] = ucNotifyState[pxCurrentTCB]]
      /\ UNCHANGED <<NotListed, lifeVars, pxCurrentTCB, stopped>> /\ Stays
  BY <1>2 DEF notifyVars, switchVars, Undisturbed, IInv, Typed, Stays
<1>6. CASE ~Answered(f) /\ n > 0
  <2> DEFINE place == [op |-> f, ticks |-> n, clear |-> clear]
  <2>1. Goto(place) /\ uxSchedulerSuspended = 0 /\ uxSchedulerSuspended' = 1
    BY <1>4, <1>6 DEF MayBlock, vTaskSuspendAll
  <2>2. place \in Plain /\ place.op \in {"take", "wait"}
    <3>1. n \in 1 .. portMAX_DELAY
      BY <1>6, NotifyAssumption, WidthAssumption DEF portMAX_DELAY
    <3> QED
      BY <3>1, WaitPlaces
  <2> HIDE DEF place
  <2>3. Moves(place)
    BY <1>5, <2>1 DEF Moves, Goto
  <2>4. place.op \notin {"resume", "drain", "ticks", "catchup", "listen"} /\ place.op \notin Unlocks
    BY <2>2 DEF Unlocks
  <2>5. IInv'
    BY <1>1, <1>3, <2>1, <2>2, <2>3, <2>4, CallMoves
  <2> QED
    BY <1>1, <1>5, <2>1, <2>4, <2>5, WaitMoves
<1>7. CASE ~(~Answered(f) /\ n > 0)
  <2> DEFINE place == [op |-> Exit(f), clear |-> clear]
  <2>1. Goto(place) /\ UNCHANGED uxSchedulerSuspended
    BY <1>4, <1>7
  <2>2. place \in NotifyEnds
    BY WaitPlaces
  <2> HIDE DEF place
  <2>3. place \in Plain /\ place.op \in {"takeEnds", "waitEnds"}
    BY <2>2, WaitPlaces, WaitOnward
  <2>4. place.op \notin Urgent
    BY <2>3 DEF Urgent, AboutToSleep, Unlocks
  <2>5. MayGive(place) /\ ~Masked
    BY <1>1, <2>1, <2>4 DEF MayGive, Goto, Masked, App
  <2>6. IInv'
    BY <1>1, <1>3, <2>1, <2>3, <2>5, CallGives
  <2>7. place.op \notin {"take", "wait", "listen"}
    BY <2>3
  <2> QED
    BY <1>1, <1>5, <2>1, <2>6, <2>7, WaitMoves
<1> QED
  BY <1>6, <1>7

LEMMA WaitDecidesKeeps ==
    ASSUME NotifyInv, NEW f \in {"take", "wait"}, WaitDecides(f)
    PROVE  NotifyInv'
<1> USE DEF NotifyInv
<1> DEFINE me == pc[pxCurrentTCB]
           end == [op |-> Exit(f), clear |-> me.clear]
           listen == [op |-> "listen", ticks |-> me.ticks, end |-> end]
<1>1. /\ xSchedulerRunning /\ me.op = f /\ In({"take", "wait"}) /\ In(AboutToSleep) /\ me \in Place
  BY Here DEF WaitDecides, At, In, AboutToSleep
<1>2. /\ uxSchedulerSuspended = 1 /\ pxCurrentTCB \in Ready /\ pxCurrentTCB # Idle /\ pxCurrentTCB \in Task
      /\ pxCurrentTCB \notin xPendingReadyList
  BY <1>1, SleepsFromReady DEF In, Undecided
<1>3. end \in NotifyEnds /\ listen \in Plain
  <2>1. me.ticks \in 1 .. portMAX_DELAY /\ me.clear \in BOOLEAN
    BY <1>1, WaitShape
  <2> QED
    BY <2>1, WaitPlaces
<1>4. listen.op = "listen" /\ Onward(listen) = listen
  BY DEF Onward
<1>5. /\ \/ /\ ucNotifyState' = [ucNotifyState EXCEPT ![pxCurrentTCB] = "waiting"] /\ Goto(listen)
            /\ ulNotifiedValue' \in {ulNotifiedValue, [ulNotifiedValue EXCEPT ![pxCurrentTCB] = 0]}
         \/ UNCHANGED notifyVars /\ Goto(Resuming(end, end))
      /\ OnlyNotification
  BY DEF WaitDecides
<1> HIDE DEF listen, end, me
<1>6. ucNotifyState' \in [Task -> {"none", "waiting", "received"}] /\ ulNotifiedValue' \in [Task -> Nat]
  BY <1>2, <1>5 DEF IInv, Typed, notifyVars
<1>7. /\ Rearranges({}, {}) /\ uxSchedulerSuspended' = uxSchedulerSuspended /\ Stays
      /\ UNCHANGED <<NotListed, lifeVars, pxCurrentTCB, stopped>>
  <2>1. xYieldPendings' \in BOOLEAN
    BY <1>5 DEF OnlyNotification, switchVars, IInv, Typed
  <2> QED
    BY <1>5, <1>6, <2>1, NothingMoves DEF OnlyNotification, Undisturbed, switchVars, Stays
<1>8. CASE ucNotifyState' = [ucNotifyState EXCEPT ![pxCurrentTCB] = "waiting"] /\ Goto(listen)
  <2>1. listen.op \notin {"resume", "drain", "ticks", "catchup", "take", "wait"} /\ listen.op \notin Unlocks
    BY <1>4 DEF Unlocks
  <2>2. Moves(listen)
    BY <1>7, <1>8 DEF Moves, Goto
  <2>3. IInv'
    BY <1>1, <1>2, <1>3, <1>7, <2>1, <2>2, CallMoves
  <2> QED
    BY <1>2, <1>4, <1>7, <1>8, <2>1, <2>3, WaitMoves
<1>9. CASE UNCHANGED notifyVars /\ Goto(Resuming(end, end))
  <2> DEFINE back == Resuming(end, end)
  <2>1. /\ back \in Plain /\ back.op = "resume" /\ back.yielded = end /\ back.not = end
        /\ Onward(back) = end /\ end.op \in {"takeEnds", "waitEnds"}
    BY <1>3, WaitPlaces, WaitOnward DEF Resuming
  <2>2. Moves(back) /\ Goto(back)
    BY <1>7, <1>9 DEF Moves, Goto
  <2> HIDE DEF back
  <2>3. /\ back.op \notin {"drain", "ticks", "take", "wait", "listen"} /\ back.op \notin AboutToSleep
        /\ back.op \notin Unlocks
    BY <2>1 DEF AboutToSleep, Unlocks
  <2>4. IInv'
    BY <1>1, <1>2, <1>7, <2>1, <2>2, <2>3, CallMoves
  <2>5. ucNotifyState' = [ucNotifyState EXCEPT ![pxCurrentTCB] = ucNotifyState[pxCurrentTCB]]
    BY <1>9 DEF notifyVars, IInv, Typed
  <2> QED
    BY <1>2, <1>7, <2>1, <2>2, <2>3, <2>4, <2>5, WaitMoves
<1> QED
  BY <1>5, <1>8, <1>9

LEMMA WaitEndsKeeps ==
    ASSUME NotifyInv, ulTaskGenericNotifyTake \/ xTaskGenericNotifyWait
    PROVE  NotifyInv'
<1> USE DEF NotifyInv
<1>1. /\ xSchedulerRunning /\ In({"takeEnds", "waitEnds"}) /\ pxCurrentTCB \in Task
      /\ pc[pxCurrentTCB] \in Place
  BY Here DEF ulTaskGenericNotifyTake, xTaskGenericNotifyWait, At, In
<1>2. pxCurrentTCB \in Ready /\ ~Masked
  BY <1>1 DEF In, Masked, At, IInv, Away, Leaving, Unlocks
<1>3. /\ ucNotifyState' = [ucNotifyState EXCEPT ![pxCurrentTCB] = "none"] /\ Goto(App) /\ OnlyNotification
      /\ \E v \in Nat : ulNotifiedValue' = [ulNotifiedValue EXCEPT ![pxCurrentTCB] = v]
  <2>1. ulNotifiedValue \in [Task -> Nat] /\ ulNotifiedValue[pxCurrentTCB] \in Nat
    BY <1>1 DEF IInv, Typed
  <2>2. ulNotifiedValue[pxCurrentTCB] # 0 => ulNotifiedValue[pxCurrentTCB] - 1 \in Nat
    BY <2>1
  <2> QED
    BY <2>1, <2>2 DEF ulTaskGenericNotifyTake, xTaskGenericNotifyWait
<1>4. ucNotifyState' \in [Task -> {"none", "waiting", "received"}] /\ ulNotifiedValue' \in [Task -> Nat]
  BY <1>1, <1>3 DEF IInv, Typed
<1>5. /\ Rearranges({}, {}) /\ UNCHANGED uxSchedulerSuspended
      /\ UNCHANGED <<NotListed, lifeVars, pxCurrentTCB, stopped>>
  <2>1. xYieldPendings' \in BOOLEAN
    BY <1>3 DEF OnlyNotification, switchVars, IInv, Typed
  <2> QED
    BY <1>3, <1>4, <2>1, NothingMoves DEF OnlyNotification, Undisturbed, switchVars
<1>6. App \in Plain /\ App.op \notin Urgent /\ App.op \notin {"take", "wait", "listen"}
  BY PlainPlaces DEF App, Urgent, AboutToSleep, Unlocks
<1>7. MayGive(App)
  BY <1>3, <1>6 DEF MayGive, Goto
<1>8. IInv'
  BY <1>1, <1>2, <1>5, <1>6, <1>7, CallGives
<1> QED
  BY <1>2, <1>3, <1>5, <1>6, <1>8, WaitMoves

LEMMA WaitSleepsKeeps ==
    ASSUME NotifyInv, WaitSleeps
    PROVE  NotifyInv'
<1> USE DEF NotifyInv
<1> DEFINE me == pxCurrentTCB
           end == pc[me].end
           place == Resuming(end, YieldingTo(end))
<1>1. /\ xSchedulerRunning /\ In(AboutToSleep) /\ me \in Task /\ me \in Ready /\ me # Idle
      /\ pc[me].ticks \in 1 .. portMAX_DELAY /\ end \in NotifyEnds
      /\ ucNotifyState[me] = "waiting" \/ me \in xPendingReadyList
  <2>1. xSchedulerRunning /\ pc[me].op = "listen" /\ In(AboutToSleep) /\ pc[me] \in Place
    BY Here DEF WaitSleeps, At, In, AboutToSleep
  <2> QED
    BY <2>1, SleepsFromReady, WaitShape DEF Decided, At, In
<1>2. /\ place \in Plain /\ place.op = "resume" /\ place.yielded = end /\ place.not = YieldingTo(end)
      /\ Onward(place) = end /\ Onward(place.yielded) = Onward(place.not)
      /\ place.not.op = "yield" /\ end.op \in {"takeEnds", "waitEnds"}
  BY <1>1, WaitPlaces, WaitOnward DEF Resuming, YieldingTo
<1>3. /\ prvAddCurrentTaskToDelayedList(pc[me].ticks, TRUE) /\ pc' = [pc EXCEPT ![me] = place]
      /\ UNCHANGED <<uxTopReadyPriority, xPendingReadyList, switchVars, notifyVars, lifeVars, uxPriority,
                     uxSchedulerSuspended, xTickCount, xPendedTicks, stopped>>
  BY DEF WaitSleeps, Goto, Undisturbed
<1> HIDE DEF place, end
<1>4. IInv'
  BY <1>1, <1>2, <1>3, CallSleeps DEF Goto
<1>5. \/ /\ xSuspendedTaskList' = xSuspendedTaskList \cup {me}
         /\ UNCHANGED <<pxDelayedTaskList, pxOverflowDelayedTaskList>>
      \/ /\ pxDelayedTaskList' = pxDelayedTaskList \cup {me}
         /\ UNCHANGED <<xSuspendedTaskList, pxOverflowDelayedTaskList>>
      \/ /\ pxOverflowDelayedTaskList' = pxOverflowDelayedTaskList \cup {me}
         /\ UNCHANGED <<xSuspendedTaskList, pxDelayedTaskList>>
  BY <1>1, <1>3, FallsAsleep
<1>6. /\ xSuspendedTaskList' \in {xSuspendedTaskList, xSuspendedTaskList \cup {me}}
      /\ Sleeping' \subseteq Sleeping \cup {me}
      /\ UNCHANGED <<xTasksWaitingTermination, xPendingReadyList, ucNotifyState, memory, stopped>>
      /\ me' = me /\ xSchedulerRunning' = xSchedulerRunning
  BY <1>3, <1>5 DEF Sleeping, lifeVars, notifyVars, switchVars
<1>7. pc'[me] = place /\ \A t \in Task : t # me => pc'[t] = pc[t]
  BY <1>1, <1>3 DEF IInv, Typed
<1>8. me \notin xSuspendedTaskList /\ memory[me] # "free"
  BY <1>1, ReadyFacts DEF IInv, Homes, Live
<1> HIDE DEF me
<1>9. StoppedTasksAreKnown'
  BY <1>1, <1>6, <1>8 DEF StoppedTasksAreKnown, prvTaskIsTaskSuspended
<1>10. EventItemFree'
  BY <1>6 DEF EventItemFree
<1>11. WaitersAwait'
  BY <1>2, <1>6, <1>7, <1>8 DEF WaitersAwait, Awaits
<1>12. SleepersWait'
  <2> SUFFICES ASSUME NEW t \in (Sleeping \cup xTasksWaitingTermination)' \ xPendingReadyList', Awaits(t)'
               PROVE  ucNotifyState'[t] = "waiting"
    BY DEF SleepersWait
  <2>1. CASE t = me
    BY <1>1, <1>6, <2>1
  <2>2. CASE t # me
    <3>1. t \in (Sleeping \cup xTasksWaitingTermination) \ xPendingReadyList /\ t \in Task
      BY <1>6, <2>2 DEF IInv, Typed, Sleeping
    <3> QED
      BY <1>6, <1>7, <2>2, <3>1 DEF SleepersWait, Awaits
  <2> QED
    BY <2>1, <2>2
<1>13. Undecided' /\ Decided'
  BY <1>2, <1>6, <1>7 DEF Undecided, Decided, In, At, me
<1> QED
  BY <1>4, <1>9, <1>10, <1>11, <1>12, <1>13

-----------------------------------------------------------------------------
(* The steps that notify.                                                  *)

(* A task receives a notification: if it was marked as waiting it is made  *)
(* ready or pending.                                                       *)
Goes(t, S, P) ==
    /\ pxDelayedTaskList' = pxDelayedTaskList \ S
    /\ pxOverflowDelayedTaskList' = pxOverflowDelayedTaskList \ S
    /\ xSuspendedTaskList' = xSuspendedTaskList \ S
    /\ xPendingReadyList' = xPendingReadyList \cup P
Received(t) ==
    \/ ucNotifyState[t] # "waiting" /\ Goes(t, {}, {})
    \/ ucNotifyState[t] = "waiting" /\ Goes(t, {t}, {}) /\ ~At("listen")
    \/ ucNotifyState[t] = "waiting" /\ Goes(t, {}, {t})

LEMMA ReceivedKeeps ==
    ASSUME NotifyInv, IInv', NEW t \in Live \ xTasksWaitingTermination, xSchedulerRunning,
           ucNotifyState' = [ucNotifyState EXCEPT ![t] = "received"], Received(t),
           UNCHANGED <<lifeVars, pc, stopped>>, Stays \/ At("app")
    PROVE  NotifyInv'
<1> USE DEF NotifyInv, Goes
<1>1. /\ t \in Task /\ t \notin xTasksWaitingTermination /\ ucNotifyState'[t] = "received"
      /\ \A u \in Task : u # t => ucNotifyState'[u] = ucNotifyState[u]
  BY DEF Live, IInv, Typed
<1>2. UNCHANGED <<xTasksWaitingTermination, memory, xSchedulerRunning>>
  BY DEF lifeVars
<1>3. ASSUME NEW u \in Task, u # t
      PROVE  /\ u \in xSuspendedTaskList' <=> u \in xSuspendedTaskList
             /\ u \in xPendingReadyList' <=> u \in xPendingReadyList
             /\ u \in Sleeping' <=> u \in Sleeping
  BY <1>3 DEF Received, Sleeping
<1>4. StoppedTasksAreKnown'
  <2> SUFFICES ASSUME NEW u \in Task PROVE prvTaskIsTaskSuspended(u)' <=> u \in stopped'
    BY DEF StoppedTasksAreKnown
  <2>1. u \in stopped' <=> prvTaskIsTaskSuspended(u)
    BY DEF StoppedTasksAreKnown
  <2>2. CASE u # t
    BY <1>1, <1>3, <2>1, <2>2 DEF prvTaskIsTaskSuspended
  <2>3. CASE u = t
    BY <1>1, <2>1, <2>3 DEF prvTaskIsTaskSuspended, Received
  <2> QED
    BY <2>2, <2>3
<1>5. EventItemFree'
  <2> SUFFICES ASSUME NEW u \in xPendingReadyList', u # t PROVE ucNotifyState'[u] # "waiting"
    BY <1>1 DEF EventItemFree
  <2>1. u \in xPendingReadyList /\ u \in Task
    BY DEF Received, IInv, Typed
  <2> QED
    BY <1>1, <2>1 DEF EventItemFree
<1>6. WaitersAwait'
  <2> SUFFICES ASSUME NEW u \in Task, ucNotifyState'[u] = "waiting" PROVE Awaits(u)' /\ memory'[u] # "free"
    BY DEF WaitersAwait
  <2> QED
    BY <1>1, <1>2 DEF WaitersAwait, Awaits
<1>7. SleepersWait'
  <2> SUFFICES ASSUME NEW u \in (Sleeping \cup xTasksWaitingTermination)' \ xPendingReadyList', Awaits(u)'
               PROVE  ucNotifyState'[u] = "waiting"
    BY DEF SleepersWait
  <2>1. u \in Task /\ Awaits(u)
    BY <1>2 DEF IInv, Typed, Sleeping, Awaits
  <2>2. CASE u # t
    BY <1>1, <1>2, <1>3, <2>1, <2>2 DEF SleepersWait
  <2>3. u # t
    <3>1. CASE ucNotifyState[t] # "waiting" /\ Goes(t, {}, {})
      BY <1>1, <1>2, <2>1, <3>1 DEF SleepersWait, Sleeping
    <3>2. CASE Goes(t, {t}, {}) \/ Goes(t, {}, {t})
      BY <1>1, <1>2, <3>2 DEF Sleeping
    <3> QED
      BY <3>1, <3>2 DEF Received
  <2> QED
    BY <2>2, <2>3
<1>8. ASSUME In({"take", "wait", "listen"})'
      PROVE  pxCurrentTCB' = pxCurrentTCB /\ In({"take", "wait", "listen"}) /\ pxCurrentTCB \in Task
  <2>1. pxCurrentTCB' \in Task /\ pc'[pxCurrentTCB'].op \in Urgent
    BY <1>8 DEF IInv, Alive, Live, In, Urgent, AboutToSleep
  <2>2. pxCurrentTCB' = pxCurrentTCB
    BY <2>1 DEF IInv, Suspension
  <2> QED
    BY <1>2, <1>8, <2>1, <2>2 DEF In
<1>9. Undecided'
  <2> SUFFICES ASSUME In({"take", "wait"})' PROVE pxCurrentTCB' \notin xPendingReadyList'
    BY DEF Undecided
  <2>1. In({"take", "wait", "listen"})'
    BY DEF In
  <2>2. pxCurrentTCB' = pxCurrentTCB /\ In({"take", "wait"}) /\ pxCurrentTCB \in Task
    BY <1>2, <1>8, <2>1 DEF In
  <2>3. Onward(pc[pxCurrentTCB]) = pc[pxCurrentTCB]
    BY <2>2 DEF In, Onward
  <2>4. ucNotifyState[pxCurrentTCB] # "waiting"
    BY <2>2, <2>3 DEF WaitersAwait, Awaits, In
  <2> QED
    BY <2>2, <2>4 DEF Undecided, Received
<1>10. Decided'
  <2> SUFFICES ASSUME At("listen")'
               PROVE  ucNotifyState'[pxCurrentTCB'] = "waiting" \/ pxCurrentTCB' \in xPendingReadyList'
    BY DEF Decided
  <2>1. In({"take", "wait", "listen"})'
    BY DEF In, At
  <2>2. pxCurrentTCB' = pxCurrentTCB /\ At("listen") /\ pxCurrentTCB \in Task
    BY <1>2, <1>8, <2>1 DEF In, At
  <2> QED
    BY <1>1, <2>2 DEF Decided, Received
<1> QED
  BY <1>4, <1>5, <1>6, <1>7, <1>9, <1>10

LEMMA NotifyKeeps ==
    ASSUME NotifyInv, NEW t \in Task, xTaskGenericNotify(t)
    PROVE  NotifyInv'
<1> USE DEF NotifyInv
<1>1. /\ At("app") /\ t \in Live \ xTasksWaitingTermination /\ ~At("listen")
      /\ UNCHANGED <<xPendingReadyList, xNextTaskUnblockTime, uxSchedulerSuspended, pc, Undisturbed>>
  BY DEF xTaskGenericNotify, Calling, At
<1>2. /\ xSchedulerRunning /\ pxCurrentTCB \in Ready /\ pxCurrentTCB \in Task
      /\ pc[pxCurrentTCB] = App /\ pc = [pc EXCEPT ![pxCurrentTCB] = App]
  BY <1>1, InApp
<1>3. PICK v \in Nat : Receive(t, v)
  BY NotifyAssumption DEF xTaskGenericNotify, NewValues
<1>4. ucNotifyState' \in [Task -> {"none", "waiting", "received"}] /\ ulNotifiedValue' \in [Task -> Nat]
  BY <1>3 DEF Receive, IInv, Typed
<1>5. Received(t) /\ \E S : Rearranges(S, {})
  <2>1. CASE ucNotifyState[t] # "waiting"
    <3>1. UNCHANGED <<sleepVars, xSuspendedTaskList, readyVars, switchVars>>
      BY <2>1 DEF xTaskGenericNotify
    <3>2. UNCHANGED <<NotListed, readyVars, lifeVars, uxPriority, xTickCount, xPendedTicks, switchVars>>
      BY <1>1, <3>1 DEF NotListed, Undisturbed
    <3>3. Rearranges({}, {})
      BY <1>4, <3>2, NothingMoves DEF switchVars, IInv, Typed
    <3>4. Received(t)
      BY <2>1, <3>2 DEF Received, Goes, NotListed, sleepVars
    <3> QED
      BY <3>3, <3>4
  <2>2. CASE ucNotifyState[t] = "waiting"
    <3> DEFINE top == taskRECORD_READY_PRIORITY({t}, uxPriority)
               lists == ReadyAgain(t)
    <3>1. Unblock(t) /\ (vTaskSwitchContext(lists, top) \/ Keep(lists, top))
      BY <2>2 DEF xTaskGenericNotify
    <3>2. UNCHANGED uxPriority /\ uxPriority \in [Task -> Priority]
      BY <1>1, ReadyFacts DEF Undisturbed
    <3>3. /\ Holds(lists, Ready \cup {t}, uxPriority) /\ Covers(Ready \cup {t}, uxPriority, top)
          /\ Ready \cup {t} \in SUBSET Task
      BY <3>2, MoveReady, ReadyFacts DEF ReadyAgain
    <3> HIDE DEF lists, top
    <3>4. Switches(Ready \cup {t})
      BY <3>1, <3>2, <3>3, SwitchReady
    <3>5. Goes(t, {t}, {})
      BY <1>1, <3>1 DEF Unblock, Goes
    <3>6. Rearranges({t}, {})
      BY <1>1, <1>4, <3>1, <3>2, <3>4, <3>5 DEF Rearranges, Goes, Unblock, Undisturbed, timeVars, IInv, Alive
    <3> QED
      BY <1>1, <2>2, <3>5, <3>6 DEF Received
  <2> QED
    BY <2>1, <2>2
<1>6. MayGive(App) /\ App \in Plain /\ ~Masked
  BY <1>1, <1>2, PlainPlaces DEF MayGive, App, Urgent, AboutToSleep, Unlocks, Masked
<1>7. IInv'
  BY <1>1, <1>2, <1>5, <1>6, CallGives
<1> QED
  BY <1>1, <1>2, <1>3, <1>5, <1>7, ReceivedKeeps DEF Receive, Undisturbed

LEMMA NotifyFromISRKeeps ==
    ASSUME NotifyInv, NEW t \in Task, vTaskGenericNotifyGiveFromISR(t)
    PROVE  NotifyInv'
<1> USE DEF NotifyInv
<1>1. /\ xSchedulerRunning /\ ~Masked /\ t \in Live \ xTasksWaitingTermination
      /\ UNCHANGED <<xNextTaskUnblockTime, pxCurrentTCB, uxSchedulerSuspended, pc, Undisturbed>>
  BY DEF vTaskGenericNotifyGiveFromISR
<1>2. ulNotifiedValue[t] + 1 \in Nat /\ Receive(t, ulNotifiedValue[t] + 1)
  BY DEF vTaskGenericNotifyGiveFromISR, IInv, Typed
<1>3. ucNotifyState' \in [Task -> {"none", "waiting", "received"}] /\ ulNotifiedValue' \in [Task -> Nat]
  BY <1>2 DEF Receive, IInv, Typed
<1>4. xYieldPendings' \in BOOLEAN
  BY DEF vTaskGenericNotifyGiveFromISR, IInv, Typed
<1>5. CASE ucNotifyState[t] # "waiting"
  <2>1. UNCHANGED <<sleepVars, xSuspendedTaskList, readyVars, xPendingReadyList>>
    BY <1>5 DEF vTaskGenericNotifyGiveFromISR
  <2>2. UNCHANGED <<NotListed, readyVars, lifeVars, uxPriority, xTickCount, xPendedTicks>>
    BY <1>1, <2>1 DEF NotListed, Undisturbed
  <2>3. Rearranges({}, {})
    BY <1>1, <1>3, <1>4, <2>2, NothingMoves
  <2>4. Received(t)
    BY <1>5, <2>2 DEF Received, Goes, NotListed, sleepVars
  <2>5. IInv'
    BY <1>1, <2>3, Interrupted DEF Stays
  <2> QED
    BY <1>1, <1>2, <2>4, <2>5, ReceivedKeeps DEF Receive, Undisturbed, Stays
<1>6. CASE ucNotifyState[t] = "waiting" /\ uxSchedulerSuspended = 0
  <2> DEFINE top == taskRECORD_READY_PRIORITY({t}, uxPriority)
             lists == ReadyAgain(t)
  <2>1. /\ Unblock(t) /\ pxReadyTasksLists' = lists /\ uxTopReadyPriority' = top
        /\ UNCHANGED xPendingReadyList
    BY <1>6 DEF vTaskGenericNotifyGiveFromISR
  <2>2. UNCHANGED uxPriority /\ uxPriority \in [Task -> Priority]
    BY <1>1, ReadyFacts DEF Undisturbed
  <2>3. /\ Holds(lists, Ready \cup {t}, uxPriority) /\ Covers(Ready \cup {t}, uxPriority, top)
        /\ Ready \cup {t} \in SUBSET Task
    BY <2>2, MoveReady, ReadyFacts DEF ReadyAgain
  <2> HIDE DEF lists, top
  <2>4. Switches(Ready \cup {t})
    BY <1>1, <1>4, <2>1, <2>2, <2>3, Becomes DEF Switches
  <2>5. Goes(t, {t}, {})
    BY <2>1 DEF Unblock, Goes
  <2>6. Rearranges({t}, {})
    BY <1>1, <1>3, <2>1, <2>2, <2>4, <2>5 DEF Rearranges, Goes, Unblock, Undisturbed, timeVars, IInv, Alive
  <2>7. IInv'
    BY <1>1, <2>6, Interrupted DEF Stays
  <2>8. Received(t)
    <3>1. ~At("listen")
      BY <1>6 DEF IInv, Suspension, At, In, AboutToSleep
    <3> QED
      BY <1>6, <2>5, <3>1 DEF Received
  <2> QED
    BY <1>1, <1>2, <2>7, <2>8, ReceivedKeeps DEF Receive, Undisturbed, Stays
<1>7. CASE ucNotifyState[t] = "waiting" /\ uxSchedulerSuspended # 0
  <2>1. /\ xPendingReadyList' = xPendingReadyList \cup {t}
        /\ UNCHANGED <<sleepVars, xSuspendedTaskList, readyVars>>
    BY <1>7 DEF vTaskGenericNotifyGiveFromISR
  <2>2. Goes(t, {}, {t})
    BY <2>1 DEF Goes, sleepVars
  <2>3. Switches(Ready \cup {})
    <3>1. UNCHANGED uxPriority /\ uxPriority \in [Task -> Priority]
      BY <1>1, ReadyFacts DEF Undisturbed
    <3>2. ReadyBecomes(Ready)
      BY <2>1, <3>1, SameReady
    <3> QED
      BY <1>1, <1>4, <3>2 DEF Switches
  <2>4. Rearranges({}, {t})
    BY <1>1, <1>3, <2>1, <2>2, <2>3 DEF Rearranges, Goes, Undisturbed, timeVars, sleepVars, IInv, Alive, Typed
  <2>5. IInv'
    BY <1>1, <1>7, <2>4, Interrupted DEF Stays
  <2>6. Received(t)
    BY <1>7, <2>2 DEF Received
  <2> QED
    BY <1>1, <1>2, <2>5, <2>6, ReceivedKeeps DEF Receive, Undisturbed, Stays
<1> QED
  BY <1>5, <1>6, <1>7

(* A notification is cleared: nobody who waits has one.                    *)
LEMMA ClearKeeps ==
    ASSUME NotifyInv, NEW t \in Task,
           xTaskGenericNotifyStateClear(t) \/ ulTaskGenericNotifyValueClear(t)
    PROVE  NotifyInv'
<1> USE DEF NotifyInv
<1>1. /\ At("app") /\ UNCHANGED pc /\ OnlyNotification
      /\ \/ ucNotifyState[t] = "received" /\ ucNotifyState' = [ucNotifyState EXCEPT ![t] = "none"]
         \/ UNCHANGED ucNotifyState
      /\ \E v \in Nat : ulNotifiedValue' = [ulNotifiedValue EXCEPT ![t] = v]
  <2>1. ulNotifiedValue = [ulNotifiedValue EXCEPT ![t] = ulNotifiedValue[t]] /\ ulNotifiedValue[t] \in Nat
    BY DEF IInv, Typed
  <2> QED
    BY <2>1 DEF xTaskGenericNotifyStateClear, ulTaskGenericNotifyValueClear, Calling, At
<1>2. /\ ucNotifyState' \in [Task -> {"none", "waiting", "received"}] /\ ulNotifiedValue' \in [Task -> Nat]
      /\ \A u \in Task : ucNotifyState'[u] = "waiting" <=> ucNotifyState[u] = "waiting"
  BY <1>1 DEF IInv, Typed
<1>3. /\ UNCHANGED <<xSuspendedTaskList, xPendingReadyList, xTasksWaitingTermination, memory, pc,
                     xSchedulerRunning, pxCurrentTCB, stopped>>
      /\ Sleeping' = Sleeping
  BY <1>1 DEF OnlyNotification, NotListed, sleepVars, lifeVars, switchVars, Undisturbed, Sleeping
<1>4. Rearranges({}, {}) /\ UNCHANGED uxSchedulerSuspended
  <2>1. xYieldPendings' \in BOOLEAN
    BY <1>1 DEF OnlyNotification, switchVars, IInv, Typed
  <2> QED
    BY <1>1, <1>2, <2>1, NothingMoves DEF OnlyNotification, Undisturbed, switchVars
<1>5. /\ xSchedulerRunning /\ pxCurrentTCB \in Ready /\ pxCurrentTCB \in Task
      /\ pc[pxCurrentTCB] = App /\ pc = [pc EXCEPT ![pxCurrentTCB] = App]
  BY <1>1, InApp
<1>6. MayGive(App) /\ App \in Plain /\ ~Masked
  BY <1>1, <1>5, PlainPlaces DEF MayGive, App, Urgent, AboutToSleep, Unlocks, Masked
<1>7. IInv'
  BY <1>4, <1>5, <1>6, CallGives
<1>8. StoppedTasksAreKnown' /\ WaitersAwait'
  BY <1>2, <1>3 DEF StoppedTasksAreKnown, prvTaskIsTaskSuspended, WaitersAwait, Awaits
<1>9. EventItemFree' /\ SleepersWait'
  BY <1>2, <1>3 DEF EventItemFree, SleepersWait, Awaits, Sleeping, IInv, Typed
<1>10. Undecided' /\ Decided'
  BY <1>3, <1>5 DEF Undecided, Decided, In, At, App
<1> QED
  BY <1>7, <1>8, <1>9, <1>10

-----------------------------------------------------------------------------
(* Every behaviour of NotifySpec.                                          *)

LEMMA NotifyInitHolds == NotifyInit => NotifyInv
<1> SUFFICES ASSUME NotifyInit PROVE NotifyInv
  OBVIOUS
<1>1. IInv
  BY InitHolds DEF NotifyInit
<1>2. /\ stopped = {} /\ xSuspendedTaskList = {} /\ xPendingReadyList = {} /\ Sleeping = {}
      /\ xTasksWaitingTermination = {} /\ ~xSchedulerRunning
      /\ \A t \in Task : ucNotifyState[t] = "none"
  BY DEF NotifyInit, Init, Sleeping
<1>3. StoppedTasksAreKnown /\ EventItemFree /\ WaitersAwait /\ SleepersWait
  BY <1>2 DEF StoppedTasksAreKnown, prvTaskIsTaskSuspended, EventItemFree, WaitersAwait, SleepersWait
<1>4. Undecided /\ Decided
  BY <1>2 DEF Undecided, Decided, In, At
<1> QED
  BY <1>1, <1>3, <1>4 DEF NotifyInv

LEMMA NotifyStutter == NotifyInv /\ UNCHANGED notifyAll => NotifyInv'
<1> SUFFICES ASSUME NotifyInv, UNCHANGED notifyAll PROVE NotifyInv'
  OBVIOUS
<1>1. UNCHANGED vars /\ UNCHANGED stopped
  BY DEF notifyAll
<1>2. IInv'
  BY <1>1, StutterKeeps DEF NotifyInv
<1>3. /\ UNCHANGED <<pxDelayedTaskList, pxOverflowDelayedTaskList, xSuspendedTaskList, xPendingReadyList>>
      /\ UNCHANGED <<xTasksWaitingTermination, memory, xSchedulerRunning, ucNotifyState, pc, pxCurrentTCB>>
  BY <1>1 DEF vars, sleepVars, lifeVars, notifyVars, switchVars
<1>4. StoppedTasksAreKnown' /\ EventItemFree' /\ WaitersAwait' /\ SleepersWait'
  BY <1>1, <1>3 DEF NotifyInv, StoppedTasksAreKnown, prvTaskIsTaskSuspended, EventItemFree, WaitersAwait, SleepersWait,
                    Awaits, Sleeping
<1>5. Undecided' /\ Decided'
  BY <1>3 DEF NotifyInv, Undecided, Decided, In, At
<1> QED
  BY <1>2, <1>4, <1>5 DEF NotifyInv

LEMMA NotifyStepKeeps == NotifyInv /\ [NotifyNext]_notifyAll => NotifyInv'
<1> SUFFICES ASSUME NotifyInv, [NotifyNext]_notifyAll PROVE NotifyInv'
  OBVIOUS
<1>1. CASE Notifications
  BY <1>1, WaitCallKeeps, WaitDecidesKeeps, WaitSleepsKeeps, WaitEndsKeeps, NotifyKeeps, NotifyFromISRKeeps,
     ClearKeeps DEF Notifications
<1>2. CASE /\ Next
           /\ stopped' = JustStopped \cup (stopped \cap (xSuspendedTaskList' \ xPendingReadyList'))
  BY <1>2, NotifySchedulerKeeps
<1>3. CASE UNCHANGED notifyAll
  BY <1>3, NotifyStutter
<1> QED
  BY <1>1, <1>2, <1>3 DEF NotifyNext

(* NotifyInv is inductive; with it the invariant of the scheduler holds    *)
(* while tasks wait and are notified.                                      *)
THEOREM NotifyInductive == NotifySpec => []NotifyInv
<1>1. NotifyInit => NotifyInv
  BY NotifyInitHolds
<1>2. NotifyInv /\ [NotifyNext]_notifyAll => NotifyInv'
  BY NotifyStepKeeps
<1> QED
  BY <1>1, <1>2, PTL DEF NotifySpec

(* The test of prvTaskIsTaskSuspended is right: a task is taken for        *)
(* stopped if and only if vTaskSuspend stopped it and nobody resumed it    *)
(* since; one that waits without end is not.                               *)
THEOREM StoppedTasksAreAlwaysKnown == NotifySpec => []StoppedTasksAreKnown
<1>1. NotifyInv => StoppedTasksAreKnown
  BY DEF NotifyInv
<1> QED
  BY NotifyInductive, <1>1, PTL

(* The event list item of a task that waits for a notification is free     *)
(* (the assertions of xTaskGenericNotify and vTaskGenericNotifyGiveFromISR *)
(* before they link it).                                                   *)
THEOREM EventItemIsFree == NotifySpec => []EventItemFree
<1>1. NotifyInv => EventItemFree
  BY DEF NotifyInv
<1> QED
  BY NotifyInductive, <1>1, PTL

(* No notification is lost: however the notifier and the waiter interleave *)
(* between the check of ulTaskGenericNotifyTake and the sleep, a task that *)
(* was notified is ready, about to be, or stopped by vTaskSuspend.         *)
THEOREM NotifiedTasksWake == NotifySpec => []NotifiedIsWoken
<1>1. NotifyInv => NotifiedIsWoken
  <2> SUFFICES ASSUME NotifyInv, NEW t \in Live, Listening(t), ucNotifyState[t] = "received",
                      t \notin stopped, t \notin xPendingReadyList
               PROVE  t \in Ready
    BY DEF NotifiedIsWoken
  <2>1. t \in Task /\ t \in Ready \cup Sleeping \cup xSuspendedTaskList \cup xTasksWaitingTermination
    BY DEF NotifyInv, IInv, Homes, Live
  <2>2. Onward(pc[t]) = pc[t] /\ Awaits(t)
    BY DEF Listening, Onward, Awaits
  <2>3. t \notin Sleeping \cup xTasksWaitingTermination
    BY <2>2 DEF NotifyInv, SleepersWait
  <2>4. t \notin xSuspendedTaskList
    BY <2>1 DEF NotifyInv, StoppedTasksAreKnown, prvTaskIsTaskSuspended
  <2> QED
    BY <2>1, <2>3, <2>4
<1> QED
  BY NotifyInductive, <1>1, PTL

(* Each TCB is in one list, once, in the list of its priority if it is     *)
(* ready, also while tasks wait for notifications and get them.            *)
THEOREM WaitersHaveOneHome == NotifySpec => []OneHome
<1>1. NotifyInv => OneHome
  BY HomesAreOne DEF NotifyInv
<1> QED
  BY NotifyInductive, <1>1, PTL
=============================================================================
