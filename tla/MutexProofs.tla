---------------------------- MODULE MutexProofs ----------------------------
(***************************************************************************)
(* The mutex, for every number of tasks, priorities and time-outs: it has  *)
(* one holder, who waits for nothing, and only the holder is above its     *)
(* base priority.  The calls that wait are those of a queue, whose         *)
(* invariant is the first part of the mutex's.  If no task is stopped or   *)
(* deleted, the holder carries the priority of those that wait, and gives  *)
(* back what it borrowed.                                                  *)
(***************************************************************************)
EXTENDS Mutex, QueueProofs

MutexTyped ==
    /\ xMutexHolder \in (Task \ {Idle}) \cup {NULL}
    /\ uxRecursiveCallCount \in Nat
    /\ uxMutexesHeld \in [Task -> Nat]
    /\ uxBasePriority \in [Task -> Priority]
    /\ xInheritanceOccurred \subseteq Task

(* The variables that say who holds the mutex agree, the holder is in no   *)
(* call that may wait, and the calls that wait are those that take it.     *)
Agreed ==
    /\ xMutexHolder = NULL <=> uxMessagesWaiting = 1
    /\ \A t \in Task : uxMutexesHeld[t] = IF t = xMutexHolder THEN 1 ELSE 0
    /\ uxRecursiveCallCount > 0 <=> xMutexHolder # NULL
HolderIsOut == xMutexHolder # NULL => ~InCall(xMutexHolder)
TakesOnly == \A t \in Task : Onward(pc[t]).op \in HasTime => Onward(pc[t]).act = "receive"

(* Only the holder is above its base priority.                             *)
Lent ==
    \A t \in Task : uxBasePriority[t] <= uxPriority[t]
                    /\ (t # xMutexHolder => uxPriority[t] = uxBasePriority[t])

MutexInv == QueueInv /\ MutexTyped /\ Agreed /\ HolderIsOut /\ TakesOnly /\ Lent

(* What the application has to see to: no task that holds the mutex is     *)
(* deleted and freed.  xMutexHolder would go on pointing at its memory,    *)
(* whatever becomes of it.                                                 *)
HolderStands == xMutexHolder # NULL => memory[xMutexHolder] # "free"
-----------------------------------------------------------------------------
(* The places of InCall are those of a call with a time-out.               *)
LEMMA CallPlaces == \A p : p.op \in HasTime \cup {"giveUp"} <=> p.op \in
    {"retry", "suspend", "lock", "test", "inherit", "place", "unlock", "unlocked", "recheck", "giveUp"}
  BY DEF HasTime

(* Who waits is in a call, the holder is not.                              *)
LEMMA HolderIsAwake ==
    QueueInv /\ MutexTyped /\ HolderIsOut => xMutexHolder \notin Waiting
<1> SUFFICES ASSUME QueueInv, MutexTyped, HolderIsOut, xMutexHolder \in Waiting PROVE FALSE
  OBVIOUS
<1>1. Waiting \subseteq Task
  BY WaitersAreNotReady DEF Live
<1>2. xMutexHolder # NULL
  BY <1>1, TaskAssumption
<1>3. PICK s \in Side : xMutexHolder \in ToSet(waiting[s])
  BY DEF Waiting
<1>4. Onward(pc[xMutexHolder]).op = "retry" \/ Onward(pc[xMutexHolder]).op \in Unlocks
  BY <1>3 DEF QueueInv, WaitersInCall, Entered
<1> QED
  BY <1>2, <1>4 DEF HolderIsOut, InCall, Unlocks

(* The running task goes on to a place, and who holds the mutex is in none *)
(* of these calls.                                                         *)
LEMMA CallersKept ==
    ASSUME MutexInv, NEW place, Goto(place),
           Onward(place).op \in HasTime => Onward(place).act = "receive",
           \/ xMutexHolder' = NULL
           \/ xMutexHolder' = xMutexHolder /\ xMutexHolder # pxCurrentTCB
           \/ xMutexHolder' = pxCurrentTCB /\ pxCurrentTCB \in Task /\ place = App
    PROVE  HolderIsOut' /\ TakesOnly'
<1>1. pc \in [Task -> Place] /\ xMutexHolder \in Task \cup {NULL}
  BY DEF MutexInv, MutexTyped, QueueInv, IInv, Typed
<1>2. \A t \in Task : pc'[t] = IF t = pxCurrentTCB THEN place ELSE pc[t]
  BY <1>1 DEF Goto
<1>3. TakesOnly'
  BY <1>2 DEF MutexInv, TakesOnly
<1>4. HolderIsOut'
  <2>1. ASSUME xMutexHolder' = xMutexHolder, xMutexHolder # pxCurrentTCB PROVE HolderIsOut'
    BY <1>1, <1>2, <2>1 DEF MutexInv, HolderIsOut, InCall
  <2>2. ASSUME xMutexHolder' = pxCurrentTCB, pxCurrentTCB \in Task, place = App PROVE HolderIsOut'
    <3>1. Onward(App) = App /\ App.op = "app"
      BY DEF Onward, App
    <3> QED
      BY <1>2, <2>2, <3>1 DEF HolderIsOut, InCall
  <2>3. xMutexHolder' = NULL => HolderIsOut'
    BY DEF HolderIsOut
  <2> QED
    BY <2>1, <2>2, <2>3
<1> QED
  BY <1>3, <1>4

(* Who takes the mutex found it free.                                      *)
LEMMA TakesFree ==
    ASSUME MutexInv, pxCurrentTCB \in Task, pxCurrentTCB # Idle, Perform("receive"), Taken
    PROVE  MutexTyped' /\ Agreed' /\ HolderIsOut' /\ TakesOnly' /\ Lent'
<1>1. uxMessagesWaiting \in 0 .. 1
  BY MutexAssumption DEF MutexInv, QueueInv, QueueTyped
<1>2. uxMessagesWaiting = 1 /\ uxMessagesWaiting' = 0
  BY <1>1 DEF Perform, Possible, Count
<1>3. /\ xMutexHolder = NULL /\ uxRecursiveCallCount \in Nat /\ ~(uxRecursiveCallCount > 0)
      /\ uxMutexesHeld \in [Task -> Nat] /\ \A t \in Task : uxMutexesHeld[t] = 0
  BY <1>2, TaskAssumption DEF MutexInv, MutexTyped, Agreed
<1>4. /\ xMutexHolder' = pxCurrentTCB /\ uxRecursiveCallCount' = 1
      /\ uxMutexesHeld' = [uxMutexesHeld EXCEPT ![pxCurrentTCB] = @ + 1]
  BY <1>3 DEF Taken
<1>5. \A t \in Task : uxMutexesHeld'[t] = IF t = pxCurrentTCB THEN 1 ELSE 0
  BY <1>3, <1>4
<1>6. MutexTyped'
  BY <1>3, <1>4 DEF MutexInv, MutexTyped, Taken
<1>7. Agreed'
  BY <1>2, <1>4, <1>5, TaskAssumption DEF Agreed
<1>8. HolderIsOut' /\ TakesOnly'
  <2>1. Onward(App).op \notin HasTime
    BY DEF Onward, App, HasTime
  <2> QED
    BY <1>4, <2>1, CallersKept DEF Perform
<1>9. Lent'
  BY <1>3, TaskAssumption DEF MutexInv, Lent, Perform, Unconcerned, Taken
<1> QED
  BY <1>6, <1>7, <1>8, <1>9

(* The mutex is taken at once, or after a wait.                            *)
LEMMA TakesKeeps == MutexInv /\ Takes => MutexInv'
<1> SUFFICES ASSUME MutexInv, Takes PROVE MutexInv'
  OBVIOUS
<1>1. CallSucceeds
  BY DEF Takes, CallSucceeds
<1>2. QueueInv'
  BY <1>1, CallSucceedsKeeps DEF MutexInv
<1>3. pxCurrentTCB \in Task /\ pxCurrentTCB # Idle
  BY InApp DEF MutexInv, QueueInv, Takes, Calling
<1> QED
  BY <1>2, <1>3, TakesFree DEF Takes, MutexInv

LEMMA TakesAtLastKeeps == MutexInv /\ TakesAtLast => MutexInv'
<1> SUFFICES ASSUME MutexInv, TakesAtLast PROVE MutexInv'
  OBVIOUS
<1>1. QueueInv'
  BY RetrySucceedsKeeps DEF MutexInv, TakesAtLast
<1>2. /\ pxCurrentTCB \in Task /\ pxCurrentTCB # Idle
      /\ pc[pxCurrentTCB] = CallAt("retry", pc[pxCurrentTCB].act, pc[pxCurrentTCB].time)
  BY TriesWhenReady DEF MutexInv, TakesAtLast, RetrySucceeds
<1>3. pc[pxCurrentTCB].act = "receive"
  <2>1. pc[pxCurrentTCB].op = "retry"
    BY DEF TakesAtLast, RetrySucceeds, At
  <2>2. Onward(pc[pxCurrentTCB]) = pc[pxCurrentTCB]
    BY <2>1 DEF Onward
  <2> QED
    BY <1>2, <2>1, <2>2 DEF MutexInv, TakesOnly, HasTime
<1>4. Perform("receive") /\ Taken
  BY <1>3 DEF TakesAtLast, RetrySucceeds, Call
<1> QED
  BY <1>1, <1>2, <1>4, TakesFree DEF MutexInv

(* The count changes only while the caller holds the mutex.                *)
LEMMA CountsAgainKeeps == MutexInv /\ (TakesAgain \/ GivesOnce) => MutexInv'
<1> SUFFICES ASSUME MutexInv, TakesAgain \/ GivesOnce PROVE MutexInv'
  OBVIOUS
<1>1. /\ UNCHANGED <<queueAll, xMutexHolder, uxMutexesHeld, uxBasePriority, xInheritanceOccurred>>
      /\ Calling /\ xMutexHolder = pxCurrentTCB
  BY DEF TakesAgain, GivesOnce
<1>2. QueueInv'
  BY <1>1, QueueStutter DEF MutexInv
<1>3. uxMessagesWaiting' = uxMessagesWaiting /\ pc' = pc
  BY <1>1 DEF queueAll, queueVars, vars
<1>4. uxRecursiveCallCount \in Nat /\ (uxRecursiveCallCount > 0 <=> xMutexHolder # NULL)
  BY DEF MutexInv, MutexTyped, Agreed
<1>5. xMutexHolder # NULL
  <2>1. pxCurrentTCB \in Task
    BY <1>1, InApp DEF MutexInv, QueueInv, Calling
  <2> QED
    BY <1>1, <2>1, TaskAssumption
<1>6. uxRecursiveCallCount' \in Nat /\ uxRecursiveCallCount' > 0
  BY <1>4, <1>5 DEF TakesAgain, GivesOnce
<1>7. MutexTyped' /\ Agreed'
  BY <1>1, <1>3, <1>5, <1>6 DEF MutexInv, MutexTyped, Agreed
<1>8. HolderIsOut' /\ TakesOnly'
  BY <1>1, <1>3 DEF MutexInv, HolderIsOut, TakesOnly, InCall
<1>9. Lent'
  BY <1>1 DEF MutexInv, Lent, queueAll, vars
<1> QED
  BY <1>2, <1>7, <1>8, <1>9 DEF MutexInv

(* The caller finds the mutex taken and is about to wait.                  *)
LEMMA MustWaitKeeps == MutexInv /\ MustWait => MutexInv'
<1> SUFFICES ASSUME MutexInv, MustWait PROVE MutexInv'
  OBVIOUS
<1>1. QueueInv' /\ UNCHANGED mutexVars /\ UNCHANGED uxMessagesWaiting
  BY CallMustWaitKeeps DEF MutexInv, MustWait, CallMustWait
<1>2. PICK act \in {"send", "receive", "peek"}, n \in Tick \ {0} :
         /\ <<pxCurrentTCB, act, n>> \in Waits
         /\ Goto([op |-> "suspend", act |-> act, time |-> vTaskInternalSetTimeOutState(n)])
  BY DEF MustWait, CallMustWait
<1>3. act = "receive"
  BY <1>2, MutexAssumption
<1> DEFINE place == [op |-> "suspend", act |-> act, time |-> vTaskInternalSetTimeOutState(n)]
<1>4. Onward(place) = place /\ place.act = act
  BY DEF Onward
<1>5. Goto(place)
  BY <1>2
<1> HIDE DEF place
<1>6. HolderIsOut' /\ TakesOnly'
  BY <1>1, <1>3, <1>4, <1>5, CallersKept DEF MustWait, mutexVars
<1>7. UNCHANGED uxPriority
  BY DEF MustWait, CallMustWait, Unconcerned
<1> QED
  BY <1>1, <1>6, <1>7 DEF MutexInv, MutexTyped, Agreed, Lent, mutexVars

(* A step of the wait is one of the running task, in its call; it goes on  *)
(* with the same call, and takes nothing; who ends the call without the    *)
(* mutex lent nothing.                                                     *)
Follows(place) ==
    /\ place.op \notin {"place", "created"}
    /\ place.op = "inherit" => ~Possible("receive")
    /\ \/ Onward(place).op \in HasTime \cup {"giveUp"}
       \/ Onward(place) = App /\ pxCurrentTCB \notin xInheritanceOccurred
LEMMA WaitGoes ==
    ASSUME MutexInv, WaitSteps
    PROVE  /\ pxCurrentTCB \in Task /\ pxCurrentTCB # xMutexHolder /\ UNCHANGED uxMessagesWaiting
           /\ \E place : /\ Goto(place) /\ Follows(place)
                         /\ Onward(place).op \in HasTime => Onward(place).act = pc[pxCurrentTCB].act
           /\ pc[pxCurrentTCB].act = "receive"
<1> DEFINE me == pxCurrentTCB
           here == pc[me]
<1>1. /\ xSchedulerRunning /\ UNCHANGED uxMessagesWaiting
      /\ here.op \in {"retry", "suspend", "lock", "test", "place", "unlock", "unlocked", "recheck"}
  BY VainTry DEF WaitSteps, SuspendsAll, Locks, Tests, vTaskPlaceOnEventList, UnlocksReceivers, UnlocksSenders,
     Wake, Rechecks, Stay, At
<1>2. me \in Task /\ here \in Place
  BY <1>1, Here DEF MutexInv, QueueInv
<1>3. Onward(here) = here /\ here.op \in HasTime
  BY <1>1 DEF Onward, HasTime
<1>4. here.act = "receive"
  BY <1>2, <1>3 DEF MutexInv, TakesOnly
<1>5. me # xMutexHolder
  BY <1>2, <1>3, CallPlaces, TaskAssumption DEF MutexInv, HolderIsOut, InCall
<1>6. here.op \notin Unlocks => here = CallAt(here.op, here.act, here.time)
  BY <1>2, <1>3, QueueShape
<1> DEFINE To(place) == Goto(place) /\ Follows(place) /\ (Onward(place).op \in HasTime => Onward(place).act = here.act)
<1>7. \A o \in HasTime : /\ Onward(CallAt(o, here.act, here.time)).act = here.act
                          /\ Onward(CallAt(o, here.act, here.time)).op \in HasTime
                          /\ CallAt(o, here.act, here.time).op = o
  BY DEF Onward, CallAt, HasTime
<1>8. ASSUME NEW o \in HasTime \ {"place"}, Goto([here EXCEPT !.op = o]), here.op \notin Unlocks,
              o = "inherit" => ~Possible("receive")
       PROVE  \E place : To(place)
  <2>1. [here EXCEPT !.op = o] = CallAt(o, here.act, here.time)
    <3>1. \A x, y, z : [CallAt(x, y, z) EXCEPT !.op = o] = CallAt(o, y, z)
      BY DEF CallAt
    <3> HIDE DEF here
    <3> QED
      BY <1>6, <1>8, <3>1
  <2> DEFINE place == CallAt(o, here.act, here.time)
  <2>2. place.op = o /\ Onward(place).act = here.act /\ Onward(place).op \in HasTime
    BY <1>7
  <2>3. Goto(place) /\ o \notin {"place", "created"}
    BY <1>8, <2>1 DEF HasTime
  <2> HIDE DEF place, here
  <2> QED
    BY <1>8, <2>2, <2>3 DEF Follows
<1>9. ASSUME RetryMustWait \/ SuspendsAll \/ vTaskPlaceOnEventList PROVE \E place : To(place)
  <2>1. CASE RetryMustWait
    BY <1>8, <2>1 DEF RetryMustWait, TriesInVain, Call, At, Unlocks, HasTime
  <2>2. CASE SuspendsAll
    BY <1>8, <2>2 DEF SuspendsAll, At, Unlocks, HasTime, Call
  <2>3. CASE vTaskPlaceOnEventList
    <3>1. Unlocking("sleeps").op = "unlock" /\ Unlocking("sleeps").act = here.act
      BY DEF Unlocking, Call
    <3>2. Onward(Unlocking("sleeps")) = Unlocking("sleeps")
      BY <3>1 DEF Onward
    <3>3. Goto(Unlocking("sleeps"))
      BY <2>3 DEF vTaskPlaceOnEventList
    <3> HIDE DEF here
    <3> QED
      BY <3>1, <3>2, <3>3 DEF Follows, HasTime
  <2> QED
    BY <1>9, <2>1, <2>2, <2>3
<1>10. ASSUME Locks \/ Tests("inherit") PROVE \E place : To(place)
  <2>1. \A h : Unlocking(h).op = "unlock" /\ Unlocking(h).act = here.act
    BY DEF Unlocking, Call
  <2>2. CASE Locks
    <3> DEFINE time == Checked(here.time)
               over == [Unlocking("timesOut") EXCEPT !.time = time]
               test == [op |-> "test", act |-> here.act, time |-> time]
    <3>1. Goto(IF TimedOut(here.time) THEN over ELSE test)
      BY <2>2 DEF Locks, Call
    <3>2. over.op = "unlock" /\ over.act = here.act /\ test.op = "test" /\ test.act = here.act
      BY DEF Unlocking, Call
    <3> HIDE DEF over, test
    <3>3. Onward(over) = over /\ Onward(test) = test
      BY <3>2 DEF Onward
    <3> HIDE DEF here
    <3> QED
      BY <3>1, <3>2, <3>3 DEF Follows, HasTime
  <2>3. CASE Tests("inherit")
    <3>1. \/ Goto(Unlocking("retries"))
          \/ Goto([here EXCEPT !.op = "inherit"]) /\ ~Possible("receive")
      BY <1>4, <2>3 DEF Tests, Call
    <3>2. CASE Goto(Unlocking("retries"))
      <4>1. Onward(Unlocking("retries")) = Unlocking("retries")
        BY <2>1 DEF Onward
      <4> HIDE DEF here
      <4> QED
        BY <2>1, <3>2, <4>1 DEF Follows, HasTime
    <3>3. CASE Goto([here EXCEPT !.op = "inherit"]) /\ ~Possible("receive")
      BY <1>8, <2>3, <3>3 DEF Tests, At, Unlocks, HasTime
    <3> QED
      BY <3>1, <3>2, <3>3
  <2> QED
    BY <1>10, <2>2, <2>3
<1>11. ASSUME UnlocksReceivers PROVE \E place : To(place)
  <2>1. here.op = "unlock"
    BY <1>11 DEF UnlocksReceivers, At
  <2>2. here = UnlockAt("unlock", here.act, here.time, here.then)
    BY <1>2, <1>3, <2>1, QueueShape DEF Unlocks
  <2> DEFINE place == UnlockAt("unlocked", here.act, here.time, here.then)
  <2>3. [here EXCEPT !.op = "unlocked"] = place
    <3>1. \A x, y, z : [UnlockAt("unlock", x, y, z) EXCEPT !.op = "unlocked"] = UnlockAt("unlocked", x, y, z)
      BY DEF UnlockAt
    <3> HIDE DEF here
    <3> QED
      BY <2>2, <3>1
  <2>4. place.act = here.act /\ place.op = "unlocked"
    BY DEF UnlockAt
  <2>5. Goto(place)
    BY <1>11, <2>3 DEF UnlocksReceivers, Call
  <2> HIDE DEF place
  <2>6. Onward(place) = place
    BY <2>4 DEF Onward
  <2> HIDE DEF here
  <2> QED
    BY <2>4, <2>5, <2>6 DEF Follows, HasTime
<1>12. ASSUME UnlocksSenders PROVE \E place : To(place)
  <2> DEFINE a == here.act
             c == here.time
  <2>1. PICK p \in {App, CallAt("retry", a, c), CallAt("recheck", a, c)} :
           Goto(Resuming(p, IF here.then = "sleeps" THEN YieldingTo(p) ELSE p)) /\ p # App
    BY <1>4, <1>12, UnlockedGoes DEF MutexInv
  <2> DEFINE place == Resuming(p, IF here.then = "sleeps" THEN YieldingTo(p) ELSE p)
  <2>2. p.op \in {"retry", "recheck"} /\ p.act = here.act
    <3>1. \A o : CallAt(o, a, c).op = o /\ CallAt(o, a, c).act = a
      BY DEF CallAt
    <3> QED
      BY <2>1, <3>1
  <2>3. Onward(place) = p
    BY <2>2, QueueOnward
  <2>4. Goto(place) /\ place.op = "resume"
    BY <2>1 DEF Resuming
  <2> HIDE DEF place, here
  <2> QED
    BY <2>2, <2>3, <2>4 DEF Follows, HasTime
<1>13. ASSUME Rechecks(RecheckEnds) PROVE \E place : To(place)
  <2>1. PICK place \in {RecheckEnds, Back(Call)} : Goto(place)
    BY <1>13 DEF Rechecks
  <2>2. Back(Call).op = "retry" /\ Back(Call).act = here.act
    BY DEF Back, Call
  <2>3. RecheckEnds.op \in {"giveUp", "app"}
    BY DEF RecheckEnds, App
  <2>4. RecheckEnds = App \/ RecheckEnds.op = "giveUp"
    BY DEF RecheckEnds
  <2>5. RecheckEnds = App => pxCurrentTCB \notin xInheritanceOccurred
    <3>1. App.op # "giveUp"
      BY DEF App
    <3> QED
      BY <3>1 DEF RecheckEnds
  <2>6. Onward(place) = place /\ place.op \in {"retry", "giveUp", "app"}
    BY <2>2, <2>3 DEF Onward
  <2>7. /\ place.op = "retry" => Onward(place).op \in HasTime
        /\ place.op # "retry" => place = RecheckEnds /\ "giveUp" \notin HasTime /\ "app" \notin HasTime
    BY <2>1, <2>2, <2>6 DEF HasTime
  <2>8. Onward(place).op \in HasTime => Onward(place).act = here.act
    BY <2>1, <2>2, <2>3, <2>6, <2>7
  <2>9. Follows(place)
    BY <2>4, <2>5, <2>6, <2>7 DEF Follows
  <2> HIDE DEF here
  <2> QED
    BY <2>1, <2>8, <2>9
<1>14. \E place : To(place)
  BY <1>9, <1>10, <1>11, <1>12, <1>13 DEF WaitSteps
<1> QED
  BY <1>1, <1>2, <1>4, <1>5, <1>14

(* The steps of the wait are those of Queue.                               *)
LEMMA WaitStepKeepsQueue == QueueInv /\ WaitSteps => QueueInv'
<1> SUFFICES ASSUME QueueInv, WaitSteps PROVE QueueInv'
  OBVIOUS
<1>1. RecheckEnds \in {App, [op |-> "giveUp"]}
  BY DEF RecheckEnds
<1>2. CASE Rechecks(RecheckEnds)
  BY <1>1, <1>2, RechecksKeeps
<1>3. CASE Tests("inherit")
  BY <1>3, TestsKeeps
<1>4. CASE RetryMustWait \/ SuspendsAll \/ Locks \/ vTaskPlaceOnEventList \/ UnlocksReceivers \/ UnlocksSenders
  BY <1>4, VainTryKeeps, SuspendsAllKeeps, LocksKeeps, PlacesKeeps, UnlocksReceiversKeeps, UnlocksSendersKeeps
<1> QED
  BY <1>2, <1>3, <1>4 DEF WaitSteps

LEMMA WaitStepKeeps == MutexInv /\ WaitSteps /\ UNCHANGED mutexVars => MutexInv'
<1> SUFFICES ASSUME MutexInv, WaitSteps, UNCHANGED mutexVars PROVE MutexInv'
  OBVIOUS
<1>1. QueueInv'
  BY WaitStepKeepsQueue DEF MutexInv
<1>2. HolderIsOut' /\ TakesOnly'
  BY WaitGoes, CallersKept DEF mutexVars
<1>3. MutexTyped' /\ Agreed'
  BY WaitGoes DEF MutexInv, MutexTyped, Agreed, mutexVars
<1>4. UNCHANGED uxPriority
  BY VainTry DEF WaitSteps, SuspendsAll, Locks, Tests, vTaskPlaceOnEventList, UnlocksReceivers, UnlocksSenders,
     Wake, Rechecks, Stay, Unconcerned
<1>5. Lent'
  BY <1>4 DEF MutexInv, Lent, mutexVars
<1> QED
  BY <1>1, <1>2, <1>3, <1>5 DEF MutexInv

(* A waiter that tries a last time in vain was not the holder.             *)
LEMMA TakeFailsKeeps == MutexInv /\ TakeFails => MutexInv'
<1> SUFFICES ASSUME MutexInv, TakeFails PROVE MutexInv'
  OBVIOUS
<1>1. /\ RetryFails /\ UNCHANGED <<xMutexHolder, uxRecursiveCallCount, uxMutexesHeld, uxBasePriority>>
      /\ xInheritanceOccurred' = xInheritanceOccurred \ {pxCurrentTCB}
  BY DEF TakeFails
<1>2. QueueInv' /\ At("retry") /\ Goto(App) /\ UNCHANGED <<uxMessagesWaiting, uxPriority>>
  BY <1>1, VainTry, VainTryKeeps DEF MutexInv, RetryFails, TriesInVain, Unconcerned
<1>3. pxCurrentTCB \in Task /\ pxCurrentTCB # xMutexHolder
  <2>1. /\ pxCurrentTCB \in Task /\ pc[pxCurrentTCB].op = "retry"
        /\ Onward(pc[pxCurrentTCB]) = pc[pxCurrentTCB]
    BY <1>2, TriesWhenReady DEF MutexInv, Onward
  <2> QED
    BY <2>1, TaskAssumption DEF MutexInv, HolderIsOut, InCall
<1>4. HolderIsOut' /\ TakesOnly'
  <2>1. Onward(App).op \notin HasTime
    BY DEF Onward, App, HasTime
  <2> QED
    BY <1>1, <1>2, <1>3, <2>1, CallersKept
<1>5. MutexTyped' /\ Agreed' /\ Lent'
  BY <1>1, <1>2 DEF MutexInv, MutexTyped, Agreed, Lent
<1> QED
  BY <1>2, <1>4, <1>5 DEF MutexInv

(* The scheduler starts and ends no call on the mutex.                     *)
LEMMA SchedulerLeavesCalls ==
    ASSUME QueueInv, SchedulerSteps, NEW t \in Task, Onward(pc'[t]).op \in HasTime \cup {"giveUp"}
    PROVE  Onward(pc'[t]) = Onward(pc[t])
<1>1. GoesOn(t)
  BY OneWayKept DEF QueueInv, SchedulerSteps
<1>2. App.op \in Own /\ Onward(App) = App /\ (HasTime \cup {"giveUp"}) \cap Own = {}
  BY DEF App, Onward, HasTime, Own
<1> QED
  BY <1>1, <1>2 DEF GoesOn, Ahead

(* The scheduler gives a task a priority when it makes it, and clears it   *)
(* when it frees it.                                                       *)
LEMMA PrioritiesStand ==
    ASSUME IInv, Next, NEW t \in Task, t \notin MadeOrFreed
    PROVE  uxPriority'[t] = uxPriority[t]
<1>1. memory \in [Task -> {"free", "new", "live", "dying"}] /\ uxPriority \in [Task -> Priority]
  BY DEF IInv, Typed
<1>2. ASSUME NEW u \in Task, NEW m \in {"free", "new", "live"}, memory' = [memory EXCEPT ![u] = m],
             (memory[u] = "free") # (m = "free"), NEW p, uxPriority' = [uxPriority EXCEPT ![u] = p]
      PROVE  uxPriority'[t] = uxPriority[t]
  BY <1>1, <1>2 DEF MadeOrFreed
<1>3. CASE xTaskCreateInMain
  <2>1. PICK u \in Task \ {Idle}, p \in Priority : CreateBeforeStart(u, p)
    BY <1>3 DEF xTaskCreateInMain
  <2>2. /\ u \in Task /\ memory[u] = "free" /\ memory' = [memory EXCEPT ![u] = "live"]
        /\ uxPriority' = [uxPriority EXCEPT ![u] = p]
    BY <2>1 DEF CreateBeforeStart, AddNew
  <2> QED
    BY <1>2, <2>2
<1>4. ASSUME NEW u \in Mortal, NEW p \in Priority, xTaskCreate(u, p) PROVE uxPriority'[t] = uxPriority[t]
  <2>1. u \in Task /\ memory[u] = "free"
    BY <1>4, BoundAssumption DEF xTaskCreate
  <2>2. \/ memory' = [memory EXCEPT ![u] = "new"] /\ uxPriority' = [uxPriority EXCEPT ![u] = p]
        \/ UNCHANGED uxPriority
    BY <1>4 DEF xTaskCreate
  <2> QED
    BY <1>2, <2>1, <2>2
<1>5. CASE prvDeleteTCB
  <2> DEFINE u == pc[pxCurrentTCB].who
  <2>1. u \in Task /\ memory[u] = "dying"
    BY <1>5, DeleteTCBReady
  <2>2. memory' = [memory EXCEPT ![u] = "free"] /\ uxPriority' = [uxPriority EXCEPT ![u] = 0]
    BY <1>5 DEF prvDeleteTCB
  <2> HIDE DEF u
  <2> QED
    BY <1>2, <2>1, <2>2
<1>6. ~\E u \in Task, p \in NewPriorities : vTaskPrioritySet(u, p)
  BY MutexAssumption
<1>7. ASSUME NEW u \in Task,
             vTaskSuspend(u) \/ vTaskResume(u) \/ vTaskDelete(u) \/ ResumeDrains(u) \/ xTaskResumeFromISR(u)
      PROVE  UNCHANGED uxPriority
  BY <1>7 DEF vTaskSuspend, vTaskResume, vTaskDelete, ResumeDrains, xTaskResumeFromISR
<1>8. ASSUME Quiet \/ vTaskStartScheduler \/ CreateAdds PROVE UNCHANGED uxPriority
  BY <1>8
  DEF Quiet, SuspendAll, ResumeAll, vTaskDelay, xTaskCatchUpTicks, CatchUpPends, xTaskResumeAll, TickPends, CreateReturns,
      prvIdleTask, ResumeDrained, SuspendReturns, prvCheckTasksWaitingTermination, vTaskStartScheduler, CreateAdds
<1>9. ASSUME DelaySleeps \/ ResumeTicks \/ TickCounts \/ ResumeReturns \/ vPortYield PROVE UNCHANGED uxPriority
  BY <1>9 DEF DelaySleeps, ResumeTicks, TickCounts, ResumeReturns, vPortYield
<1> QED
  BY <1>3, <1>4, <1>5, <1>6, <1>7, <1>8, <1>9
  DEF Next, AppCalls, KernelSteps, Interrupts, vPortYieldFromTick, Quiet

(* The steps of the scheduler leave the mutex alone; a TCB that is made or *)
(* freed holds nothing, and its holder is neither.                         *)
LEMMA SchedulerKeeps ==
    ASSUME MutexInv, HolderStands, HolderStands', SchedulerSteps, Anew
    PROVE  MutexInv'
<1>1. QueueInv' /\ IInv /\ Next
  BY SchedulerKeepsQueue DEF MutexInv, QueueInv, SchedulerSteps
<1>2. /\ UNCHANGED <<xMutexHolder, uxRecursiveCallCount, uxMessagesWaiting>>
      /\ \A t \in Task : uxMutexesHeld'[t] = IF t \in MadeOrFreed THEN 0 ELSE uxMutexesHeld[t]
      /\ \A t \in Task : uxBasePriority'[t] = IF t \in MadeOrFreed THEN uxPriority'[t] ELSE uxBasePriority[t]
      /\ xMutexHolder \notin MadeOrFreed
  <2>1. xMutexHolder \notin MadeOrFreed
    BY TaskAssumption DEF HolderStands, MadeOrFreed, Anew
  <2> QED
    BY <2>1 DEF Anew, SchedulerSteps
<1>3. MutexTyped' /\ Agreed'
  <2>1. uxPriority' \in [Task -> Priority] /\ uxBasePriority \in [Task -> Priority] /\ uxMutexesHeld \in [Task -> Nat]
    BY <1>1 DEF QueueInv, IInv, Typed, MutexInv, MutexTyped
  <2>2. uxBasePriority' \in [Task -> Priority] /\ uxMutexesHeld' \in [Task -> Nat]
    BY <2>1 DEF Anew
  <2>3. MutexTyped'
    BY <1>2, <2>2 DEF MutexInv, MutexTyped, Anew
  <2>4. Agreed'
    BY <1>2 DEF MutexInv, Agreed
  <2> QED
    BY <2>3, <2>4
<1>4. HolderIsOut'
  <2> SUFFICES ASSUME xMutexHolder # NULL, InCall(xMutexHolder)' PROVE FALSE
    BY <1>2 DEF HolderIsOut, InCall
  <2>1. xMutexHolder \in Task
    BY DEF MutexInv, MutexTyped
  <2>2. Onward(pc'[xMutexHolder]).op \in HasTime \cup {"giveUp"}
    BY <1>2, CallPlaces DEF InCall
  <2>3. Onward(pc'[xMutexHolder]) = Onward(pc[xMutexHolder])
    BY <2>1, <2>2, SchedulerLeavesCalls DEF MutexInv
  <2> QED
    BY <1>2, <2>3 DEF MutexInv, HolderIsOut, InCall
<1>5. TakesOnly'
  <2> SUFFICES ASSUME NEW t \in Task, Onward(pc'[t]).op \in HasTime PROVE Onward(pc'[t]).act = "receive"
    BY DEF TakesOnly
  <2>1. Onward(pc'[t]) = Onward(pc[t])
    BY SchedulerLeavesCalls DEF MutexInv
  <2> QED
    BY <2>1 DEF MutexInv, TakesOnly
<1>6. Lent'
  <2>1. uxPriority' \in [Task -> Priority] /\ Priority \subseteq Nat
    BY <1>1, PriorityIsNat DEF QueueInv, IInv, Typed
  <2>2. ASSUME NEW t \in Task
        PROVE  uxBasePriority'[t] <= uxPriority'[t] /\ (t # xMutexHolder => uxPriority'[t] = uxBasePriority'[t])
    <3>1. \A p \in Priority : p <= p
      BY <2>1
    <3>2. t \notin MadeOrFreed => uxPriority'[t] = uxPriority[t]
      BY <1>1, PrioritiesStand
    <3>3. uxPriority'[t] <= uxPriority'[t]
      BY <2>1, <3>1
    <3> QED
      BY <1>2, <3>2, <3>3 DEF MutexInv, Lent
  <2> QED
    BY <1>2, <2>2 DEF Lent
<1> QED
  BY <1>1, <1>3, <1>4, <1>5, <1>6 DEF MutexInv
-----------------------------------------------------------------------------
(* The steps that change a priority.                                       *)

(* The holder enters the ready list of its new priority, if it was ready.  *)
LEMMA ReprioritiseReady ==
    ASSUME IInv, NEW t \in Task \ {Idle}, NEW p \in Priority, Reprioritise(t, p)
    PROVE  ReadyBecomes(Ready) /\ uxPriority' \in [Task -> Priority] /\ uxPriority'[Idle] = 0
<1>1. /\ uxPriority' = [uxPriority EXCEPT ![t] = p] /\ uxPriority' \in [Task -> Priority]
      /\ uxPriority'[Idle] = 0
  BY TaskAssumption DEF Reprioritise, IInv, Typed, Alive
<1>2. t \in Members(pxReadyTasksLists[uxPriority[t]]) <=> t \in Ready
  BY ReadyFacts DEF Holds
<1>3. Holds(pxReadyTasksLists', Ready, uxPriority') /\ Covers(Ready, uxPriority', uxTopReadyPriority')
  <2>1. CASE t \in Ready
    <3>1. Ready \cup {t} = Ready
      BY <2>1
    <3>2. \A u \in Ready \ {t} : uxPriority'[u] = uxPriority[u]
      BY <1>1, ReadyFacts
    <3>3. /\ pxReadyTasksLists' = prvAddTaskToReadyList(Without(pxReadyTasksLists, t), t, uxPriority')
          /\ uxTopReadyPriority' = taskRECORD_READY_PRIORITY({t}, uxPriority')
      BY <1>2, <2>1 DEF Reprioritise, Relisted, RelistedTop
    <3>4. PICK priority \in [Task -> Priority] : priority = uxPriority'
      BY <1>1
    <3>5. /\ Holds(prvAddTaskToReadyList(Without(pxReadyTasksLists, t), t, priority), Ready \cup {t}, priority)
          /\ Covers(Ready \cup {t}, priority, taskRECORD_READY_PRIORITY({t}, priority))
      BY <3>2, <3>4, MoveReady
    <3> QED
      BY <3>1, <3>3, <3>4, <3>5
  <2>2. CASE t \notin Ready
    <3>1. \A u \in Ready : uxPriority'[u] = uxPriority[u]
      BY <1>1, <2>2, ReadyFacts
    <3>2. pxReadyTasksLists' = pxReadyTasksLists /\ uxTopReadyPriority' = uxTopReadyPriority
      BY <1>2, <2>2 DEF Reprioritise, Relisted, RelistedTop
    <3> QED
      BY <3>1, <3>2, <1>1, ReadyFacts, HoldsOther DEF Covers
  <2> QED
    BY <2>1, <2>2
<1> QED
  BY <1>1, <1>3, ReadyFacts, Becomes

(* The greater of two numbers.                                             *)
LEMMA Greater ==
    ASSUME NEW a \in Int, NEW b \in Int
    PROVE  Max({a, b}) = IF a >= b THEN a ELSE b
<1> DEFINE m == IF a >= b THEN a ELSE b
<1>1. m \in {a, b} /\ \A y \in {a, b} : y <= m
  OBVIOUS
<1>2. \A x \in {a, b} : (\A y \in {a, b} : x >= y) => x = m
  OBVIOUS
<1>3. \A y \in {a, b} : m >= y
  OBVIOUS
<1> HIDE DEF m
<1>4. (CHOOSE x \in {a, b} : \A y \in {a, b} : x >= y) = m
  BY <1>1, <1>2, <1>3
<1> QED
  BY <1>4 DEF Max, m

(* The head of a list that is not empty is in it.                          *)
LEMMA FirstOf ==
    ASSUME NEW S, NEW list \in Seq(S), list # <<>>
    PROVE  Head(list) = list[1] /\ list[1] \in S /\ list[1] \in ToSet(list)
<1>1. Len(list) \in Nat /\ Len(list) # 0 /\ DOMAIN list = 1 .. Len(list)
  BY LenProperties, EmptySeq
<1>2. 1 \in DOMAIN list
  BY <1>1
<1>3. Head(list) = list[1]
  BY HeadTailProperties
<1> QED
  BY <1>2, <1>3, ElementOfSeq DEF ToSet

(* What the holder is to fall to.                                          *)
LEMMA UseIsPriority ==
    ASSUME MutexInv, xMutexHolder # NULL
    PROVE  /\ HighestWaiting \in Priority /\ PriorityToUse \in Priority
           /\ PriorityToUse = IF uxBasePriority[xMutexHolder] >= HighestWaiting
                              THEN uxBasePriority[xMutexHolder] ELSE HighestWaiting
<1>1. /\ uxBasePriority[xMutexHolder] \in Priority /\ uxPriority \in [Task -> Priority]
      /\ waiting["receive"] \in Seq(Task)
  BY DEF MutexInv, MutexTyped, QueueInv, QueueTyped, Side, IInv, Typed
<1>2. HighestWaiting \in Priority
  BY <1>1, FirstOf, PriorityIsNat DEF HighestWaiting
<1>3. Priority \subseteq Int
  BY PriorityIsNat
<1> QED
  BY <1>1, <1>2, <1>3, Greater DEF PriorityToUse

(* The holder may change its priority, and the running task goes on.       *)
LEMMA LendsKeeps ==
    ASSUME MutexInv, xSchedulerRunning, pxCurrentTCB \in Task,
           \/ UNCHANGED <<uxPriority, readyVars>>
           \/ xMutexHolder # NULL /\ \E p \in Priority : Reprioritise(xMutexHolder, p),
           NEW place, Goto(place), Unmoved
    PROVE  /\ Rearranges({}, {}) /\ Departs({} \cup {}) /\ Moves(place) /\ QueueTyped'
<1>1. IInv /\ QueueTyped /\ xMutexHolder \in (Task \ {Idle}) \cup {NULL}
  BY DEF MutexInv, QueueInv, MutexTyped
<1>2. /\ UNCHANGED <<NotListed, switchVars, uxMessagesWaiting, waiting, lock, served, left,
                     uxSchedulerSuspended, lifeVars, notifyVars, xTickCount, xPendedTicks, xNumOfOverflows>>
  BY DEF Unmoved, Undisturbed
<1>3. ReadyBecomes(Ready) /\ uxPriority' \in [Task -> Priority] /\ uxPriority'[Idle] = 0
  <2>1. CASE UNCHANGED <<uxPriority, readyVars>>
    <3>1. uxPriority \in [Task -> Priority] /\ uxPriority[Idle] = 0
      BY <1>1 DEF IInv, Typed, Alive
    <3> QED
      BY <1>1, <2>1, <3>1, SameReady
  <2>2. CASE xMutexHolder # NULL /\ \E p \in Priority : Reprioritise(xMutexHolder, p)
    BY <1>1, <2>2, ReprioritiseReady
  <2> QED
    BY <2>1, <2>2
<1>4. Switches(Ready \cup {})
  BY <1>1, <1>2, <1>3 DEF Switches, switchVars, IInv, Typed
<1>5. Rearranges({}, {})
  BY <1>1, <1>2, <1>3, <1>4 DEF Rearranges, NotListed, sleepVars, timeVars, notifyVars, IInv, Typed
<1>6. Departs({} \cup {})
  BY <1>2, NobodyLeaves DEF MutexInv
<1>7. Moves(place)
  BY <1>2 DEF Moves, Stays, Goto, switchVars
<1>8. QueueTyped'
  BY <1>1, <1>2 DEF QueueTyped
<1> QED
  BY <1>5, <1>6, <1>7, <1>8

(* A waiter lends its priority; a waiter that gives up takes it back.      *)
LEMMA InheritsKeeps == MutexInv /\ Inherits => MutexInv'
<1> SUFFICES ASSUME MutexInv, Inherits PROVE MutexInv'
  OBVIOUS
<1> DEFINE me == pxCurrentTCB
           c == pc[me].time
           a == pc[me].act
           place == CallAt("place", a, c)
<1>1. /\ xSchedulerRunning /\ me \in Task /\ me \in Ready /\ me # Idle
      /\ uxSchedulerSuspended = 1 /\ me \notin xPendingReadyList
      /\ pc[me] = CallAt("inherit", a, c) /\ a \in Acts /\ c \in TimeOuts /\ c.ticks # 0 /\ InTime(c, left[me])
      /\ \A s \in Side : lock[s] # queueUNLOCKED
  BY EntersWhenReady DEF Inherits, MutexInv
<1>2. /\ Unmoved /\ Goto([pc[me] EXCEPT !.op = "place"])
      /\ \/ UNCHANGED <<uxPriority, readyVars>>
         \/ xMutexHolder # NULL /\ Reprioritise(xMutexHolder, uxPriority[me])
  BY DEF Inherits, Call
<1>3. place \in Plain /\ place.op = "place" /\ place.time = c /\ place.act = a /\ Onward(place) = place
  BY <1>1, QueuePlaces DEF CallAt, Onward
<1>4. Goto(place)
  BY <1>1, <1>2 DEF CallAt
<1>5. uxPriority[me] \in Priority
  BY <1>1 DEF MutexInv, QueueInv, IInv, Typed
<1>6. a = "receive" /\ me # xMutexHolder
  <2>1. Onward(pc[me]) = pc[me] /\ pc[me].op = "inherit"
    BY <1>1 DEF Onward, CallAt
  <2> QED
    BY <1>1, <2>1, TaskAssumption DEF MutexInv, TakesOnly, HasTime, HolderIsOut, InCall
<1> HIDE DEF place, c, a
<1>7. Rearranges({}, {}) /\ Departs({} \cup {}) /\ Moves(place) /\ QueueTyped'
  BY <1>1, <1>2, <1>4, <1>5, LendsKeeps
<1>8. /\ UNCHANGED <<lock, left, xNumOfOverflows, uxSchedulerSuspended, uxMessagesWaiting, xMutexHolder,
                     uxRecursiveCallCount, uxMutexesHeld, uxBasePriority>>
      /\ xPendingReadyList' = xPendingReadyList
  BY <1>2 DEF Unmoved, Undisturbed, NotListed
<1>9. /\ "place" \in AboutToSleep /\ "place" \notin Unlocks /\ "place" \notin Tries
      /\ "place" \notin {"resume", "drain", "ticks", "catchup", "unlocked"}
  BY DEF AboutToSleep, Unlocks, Tries
<1>10. IInv'
  BY <1>1, <1>3, <1>7, <1>8, <1>9, CallMoves DEF MutexInv, QueueInv
<1>11. QueueInv'
  BY <1>1, <1>3, <1>7, <1>8, <1>9, <1>10, GoesTo DEF MutexInv
<1>12. HolderIsOut' /\ TakesOnly'
  BY <1>3, <1>4, <1>6, <1>8, CallersKept
<1>13. MutexTyped' /\ Agreed'
  BY <1>1, <1>8 DEF MutexInv, MutexTyped, Agreed, Inherits
<1>14. Lent'
  <2>1. CASE UNCHANGED <<uxPriority, readyVars>>
    BY <1>8, <2>1 DEF MutexInv, Lent
  <2>2. CASE ~UNCHANGED <<uxPriority, readyVars>>
    <3>1. /\ xMutexHolder # NULL /\ uxPriority[xMutexHolder] < uxPriority[me]
          /\ uxPriority' = [uxPriority EXCEPT ![xMutexHolder] = uxPriority[me]]
      BY <2>2 DEF Inherits, Reprioritise
    <3>2. /\ xMutexHolder \in Task /\ uxPriority \in [Task -> Nat] /\ uxBasePriority \in [Task -> Nat]
      BY <3>1, PriorityIsNat DEF MutexInv, MutexTyped, QueueInv, IInv, Typed
    <3>3. \A t \in Task : uxPriority'[t] = IF t = xMutexHolder THEN uxPriority[me] ELSE uxPriority[t]
      BY <3>1, <3>2
    <3>4. uxBasePriority[xMutexHolder] <= uxPriority[xMutexHolder]
      BY <3>2 DEF MutexInv, Lent
    <3>5. uxBasePriority[xMutexHolder] <= uxPriority[me]
      BY <1>1, <3>1, <3>2, <3>4
    <3> QED
      BY <1>8, <3>3, <3>5 DEF MutexInv, Lent
  <2> QED
    BY <2>1, <2>2
<1> QED
  BY <1>11, <1>12, <1>13, <1>14 DEF MutexInv

LEMMA GivesUpKeeps == MutexInv /\ GivesUp => MutexInv'
<1> SUFFICES ASSUME MutexInv, GivesUp PROVE MutexInv'
  OBVIOUS
<1> DEFINE me == pxCurrentTCB
<1>1. /\ xSchedulerRunning /\ pc[me].op = "giveUp" /\ me \in Task
  BY Here DEF GivesUp, At, MutexInv, QueueInv
<1>2. Onward(pc[me]) = pc[me]
  BY <1>1 DEF Onward
<1>3. me # Idle /\ me # xMutexHolder
  BY <1>1, <1>2, TaskAssumption DEF MutexInv, QueueInv, IdleIsOut, Own, HolderIsOut, InCall
<1>4. me \in Ready
  BY <1>1 DEF MutexInv, QueueInv, IInv, Away, Leaving, In, Unlocks, At
<1>5. uxSchedulerSuspended = 0 /\ xPendingReadyList = {} /\ xPendedTicks = 0
  <2>1. uxSchedulerSuspended = 0
    BY <1>1, <1>2 DEF MutexInv, QueueInv, Trying, At, Tries
  <2> QED
    BY <1>1, <2>1 DEF MutexInv, QueueInv, IInv, Suspension, NothingLeftPending, Masked
<1>6. \A s \in Side : lock[s] = queueUNLOCKED
  BY <1>1, InAppUnlocked DEF MutexInv
<1>7. /\ Unmoved /\ Goto(App)
      /\ \/ UNCHANGED <<uxPriority, readyVars>>
         \/ xMutexHolder # NULL /\ Reprioritise(xMutexHolder, PriorityToUse)
  BY DEF GivesUp
<1>8. Rearranges({}, {}) /\ Departs({} \cup {}) /\ Moves(App) /\ QueueTyped'
  BY <1>1, <1>7, UseIsPriority, LendsKeeps
<1>9. /\ UNCHANGED <<lock, left, xNumOfOverflows, uxSchedulerSuspended, uxMessagesWaiting, xMutexHolder,
                     uxRecursiveCallCount, uxMutexesHeld, uxBasePriority, xPendingReadyList, xPendedTicks>>
  BY <1>7 DEF Unmoved, Undisturbed, NotListed
<1>10. /\ App \in Plain /\ App.op = "app" /\ Onward(App) = App
       /\ "app" \notin AboutToSleep \cup Unlocks \cup Tries \cup HasTime \cup Enters
  BY PlainPlaces DEF App, Onward, AboutToSleep, Unlocks, Tries, HasTime, Enters
<1>11. IInv'
  BY <1>1, <1>4, <1>5, <1>8, <1>9, <1>10, CallMoves DEF MutexInv, QueueInv
<1>12. QueueInv'
  BY <1>1, <1>3, <1>4, <1>5, <1>6, <1>8, <1>9, <1>10, <1>11, GoesTo DEF MutexInv
<1>13. HolderIsOut' /\ TakesOnly'
  BY <1>3, <1>7, <1>9, <1>10, CallersKept
<1>14. MutexTyped' /\ Agreed'
  BY <1>1, <1>9 DEF MutexInv, MutexTyped, Agreed, GivesUp
<1>15. Lent'
  <2>1. CASE UNCHANGED <<uxPriority, readyVars>>
    BY <1>9, <2>1 DEF MutexInv, Lent
  <2>2. CASE xMutexHolder # NULL /\ Reprioritise(xMutexHolder, PriorityToUse)
    <3> DEFINE p == PriorityToUse
    <3>1. /\ xMutexHolder \in Task /\ uxPriority \in [Task -> Nat] /\ uxBasePriority \in [Task -> Nat]
          /\ HighestWaiting \in Nat
          /\ p = IF uxBasePriority[xMutexHolder] >= HighestWaiting THEN uxBasePriority[xMutexHolder]
                 ELSE HighestWaiting
      BY <2>2, UseIsPriority, PriorityIsNat DEF MutexInv, MutexTyped, QueueInv, IInv, Typed
    <3>2. uxPriority' = [uxPriority EXCEPT ![xMutexHolder] = p]
      BY <2>2 DEF Reprioritise
    <3> HIDE DEF p
    <3>3. \A t \in Task : uxPriority'[t] = IF t = xMutexHolder THEN p ELSE uxPriority[t]
      BY <3>1, <3>2
    <3>4. uxBasePriority[xMutexHolder] <= p
      BY <3>1
    <3> QED
      BY <1>9, <3>3, <3>4 DEF MutexInv, Lent
  <2> QED
    BY <1>7, <2>1, <2>2
<1> QED
  BY <1>12, <1>13, <1>14, <1>15 DEF MutexInv

(* The giver falls to its base priority and enters that ready list, and    *)
(* the first waiter is made ready: the ready lists are right for the new   *)
(* priorities, and the search for a task still starts high enough.         *)
LEMMA GivesReady ==
    ASSUME MutexInv, pxCurrentTCB \in Ready, pxCurrentTCB # Idle, xSchedulerRunning, WakeFirst("receive", {}),
           uxMutexesHeld[pxCurrentTCB] = 1
    PROVE  LET R == Ready \cup MadeReady("receive")
           IN  /\ Disinherited \in [Task -> Priority] /\ Disinherited[Idle] = 0
               /\ \A t \in Task : Disinherited[t] = IF t = pxCurrentTCB THEN uxBasePriority[t] ELSE uxPriority[t]
               /\ Holds(Moved("receive", AfterFall), R, Disinherited)
               /\ Covers(R, Disinherited, MovedTop("receive"))
<1> DEFINE me == pxCurrentTCB
           first == waiting["receive"][1]
           S == MadeReady("receive")
           R == Ready \cup S
<1>1. /\ IInv /\ Ready \in SUBSET Task /\ me \in Task /\ me # Idle /\ uxPriority \in [Task -> Priority]
      /\ uxBasePriority \in [Task -> Priority] /\ waiting \in [Side -> Seq(Task)] /\ uxPriority[Idle] = 0
  BY ReadyFacts DEF MutexInv, MutexTyped, QueueInv, QueueTyped
<1>2. \A t \in Task : Disinherited[t] = IF t = me THEN uxBasePriority[t] ELSE uxPriority[t]
  BY <1>1 DEF Disinherited, Falls
<1>3. Disinherited \in [Task -> Priority] /\ Disinherited[Idle] = 0
  <2>1. Disinherited \in [Task -> Priority]
    BY <1>1 DEF Disinherited
  <2> QED
    BY <1>1, <1>2, <2>1, TaskAssumption
<1>4. /\ Holds(Moved("receive", pxReadyTasksLists), R, uxPriority) /\ Covers(R, uxPriority, MovedTop("receive"))
      /\ R \subseteq Task
  BY <1>1, WakesFirst DEF MutexInv, Side, Live
<1>5. Covers(R, Disinherited, MovedTop("receive"))
  <2>1. \A t \in R : Disinherited[t] <= uxPriority[t] /\ Disinherited[t] \in Nat /\ uxPriority[t] \in Nat
    <3>1. \A t \in Task : uxBasePriority[t] <= uxPriority[t] /\ uxBasePriority[t] \in Nat /\ uxPriority[t] \in Nat
      BY <1>1, PriorityIsNat DEF MutexInv, Lent
    <3> QED
      BY <1>2, <1>4, <3>1
  <2> HIDE DEF R
  <2>2. MovedTop("receive") \in Priority /\ MovedTop("receive") \in Nat
    BY <1>4, PriorityIsNat DEF Covers
  <2> QED
    BY <1>4, <2>1, <2>2 DEF Covers
<1>6. Holds(AfterFall, Ready, Disinherited)
  <2>1. CASE Falls
    <3>1. Ready \cup {me} = Ready
      OBVIOUS
    <3>2. \A u \in Ready \ {me} : Disinherited[u] = uxPriority[u]
      BY <1>1, <1>2
    <3>3. AfterFall = prvAddTaskToReadyList(Without(pxReadyTasksLists, me), me, Disinherited)
      BY <2>1 DEF AfterFall
    <3> QED
      BY <1>1, <1>3, <3>1, <3>2, <3>3, MoveReady
  <2>2. CASE ~Falls
    BY <1>1, <2>2, ReadyFacts DEF AfterFall, Disinherited
  <2> QED
    BY <2>1, <2>2
<1>7. Holds(Moved("receive", AfterFall), R, Disinherited)
  <2>1. CASE waiting["receive"] # <<>> /\ uxSchedulerSuspended = 0
    <3>1. first \in Task /\ first \in Waiting /\ FirstWaiters("receive", 1) = {first}
      <4>1. waiting["receive"] \in Seq(Task)
        BY <1>1 DEF Side
      <4>2. first \in Task /\ first \in ToSet(waiting["receive"])
        BY <2>1, <4>1, FirstOf
      <4>3. FirstWaiters("receive", 1) = {first}
        BY <1>1, <2>1, FirstWait DEF Side
      <4> QED
        BY <4>2, <4>3 DEF Waiting, Side
    <3>2. first # me /\ first \notin Ready
      BY <3>1, WaitersAreNotReady DEF MutexInv
    <3>3. R = (Ready \ {first}) \cup {first}
      BY <2>1, <3>1, <3>2 DEF MadeReady
    <3>4. Moved("receive", AfterFall) = prvAddTaskToReadyList(Without(AfterFall, first), first, uxPriority)
      BY <2>1 DEF Moved
    <3>5. prvAddTaskToReadyList(Without(AfterFall, first), first, uxPriority)
             = prvAddTaskToReadyList(Without(AfterFall, first), first, Disinherited)
      BY <1>2, <3>1, <3>2 DEF prvAddTaskToReadyList
    <3> HIDE DEF first, R
    <3>6. Holds(Without(AfterFall, first), Ready \ {first}, Disinherited)
      BY <1>1, <1>3, <1>6, WithoutHolds
    <3>7. Holds(prvAddTaskToReadyList(Without(AfterFall, first), first, Disinherited), R, Disinherited)
      BY <1>1, <1>3, <3>1, <3>3, <3>6, AddHolds
    <3> QED
      BY <3>4, <3>5, <3>7
  <2>2. CASE ~(waiting["receive"] # <<>> /\ uxSchedulerSuspended = 0)
    <3>1. S = {}
      <4>1. waiting["receive"] = <<>> => FirstWaiters("receive", 1) = {}
        BY <1>1, FirstWait DEF Side
      <4> QED
        BY <2>2, <4>1 DEF MadeReady
    <3>2. R = Ready
      BY <3>1
    <3> QED
      BY <1>6, <2>2, <3>2 DEF Moved
  <2> QED
    BY <2>1, <2>2
<1> QED
  BY <1>2, <1>3, <1>5, <1>7

LEMMA GivesKeeps == MutexInv /\ Gives => MutexInv'
<1> SUFFICES ASSUME MutexInv, Gives PROVE MutexInv'
  OBVIOUS
<1> DEFINE me == pxCurrentTCB
           S == MadeReady("receive")
           P == MadePending("receive")
           lists == Moved("receive", AfterFall)
           top == MovedTop("receive")
<1>1. /\ xSchedulerRunning /\ me \in Ready /\ me \in Task /\ me # Idle /\ pc[me] = App
      /\ pc = [pc EXCEPT ![me] = App] /\ xMutexHolder = me
  BY InApp DEF MutexInv, QueueInv, Gives, Calling
<1>2. uxMutexesHeld[me] = 1 /\ uxMessagesWaiting \in 0 .. 1 /\ uxMessagesWaiting # 1
  BY <1>1, MutexAssumption, TaskAssumption DEF MutexInv, Agreed, QueueInv, QueueTyped
<1>3. WakeFirst("receive", {}) /\ "receive" \in Side
  BY DEF Gives, Side
<1>4. /\ S \cup P \subseteq Live \ xTasksWaitingTermination
      /\ P = {} \/ uxSchedulerSuspended # 0
      /\ Departs(S \cup P) /\ served' \in [Side -> SUBSET Task]
      /\ pxDelayedTaskList' = pxDelayedTaskList \ S
      /\ pxOverflowDelayedTaskList' = pxOverflowDelayedTaskList \ S
      /\ xSuspendedTaskList' = xSuspendedTaskList \ S
      /\ xPendingReadyList' = xPendingReadyList \cup P
      /\ UNCHANGED xItemValue
  BY <1>1, <1>3, WakesFirst DEF MutexInv
<1>5. /\ Disinherited \in [Task -> Priority] /\ Disinherited[Idle] = 0
      /\ \A t \in Task : Disinherited[t] = IF t = me THEN uxBasePriority[t] ELSE uxPriority[t]
      /\ Holds(lists, Ready \cup S, Disinherited) /\ Covers(Ready \cup S, Disinherited, top)
  BY <1>1, <1>2, <1>3, GivesReady
<1>6. /\ vTaskSwitchContext(lists, top) \/ Keep(lists, top)
      /\ uxPriority' = Disinherited /\ uxMessagesWaiting' = Count("send") /\ xMutexHolder' = NULL
      /\ uxMutexesHeld' = [uxMutexesHeld EXCEPT ![me] = @ - 1] /\ uxRecursiveCallCount' = 0
      /\ UNCHANGED <<lock, left, xNextTaskUnblockTime, uxSchedulerSuspended, pc, xInheritanceOccurred, uxBasePriority,
                     lifeVars, notifyVars, xTickCount, xPendedTicks, xNumOfOverflows>>
  BY DEF Gives, Undisturbed
<1>7. uxMessagesWaiting' = 1
  BY <1>2, <1>6, MutexAssumption DEF Count
<1> HIDE DEF S, P, lists, top
<1>8. IInv /\ Ready \cup S \in SUBSET Task /\ Ready \cup S # {}
  BY <1>1, <1>4, ReadyFacts DEF Live, MutexInv, QueueInv
<1>9. Switches(Ready \cup S)
  BY <1>5, <1>6, <1>8, SwitchReady
<1>10. Rearranges(S, P)
  BY <1>4, <1>5, <1>6, <1>8, <1>9 DEF Rearranges, timeVars, notifyVars, IInv, Typed
<1>11. /\ App \in Plain /\ ~Masked /\ MayGive(App)
  <2>1. App.op = "app" /\ App.op \notin Urgent
    BY DEF App, Urgent, AboutToSleep, Unlocks
  <2> QED
    BY <1>1, <1>6, <2>1, PlainPlaces DEF Masked, MayGive
<1>12. IInv'
  BY <1>1, <1>4, <1>6, <1>8, <1>10, <1>11, CallGives
<1>13. QueueTyped'
  <2>1. QueueTyped
    BY DEF MutexInv, QueueInv
  <2> QED
    BY <1>4, <1>6, <1>7, <2>1, MutexAssumption DEF QueueTyped, Departs
<1>14. \A s \in Side : lock'[s] = queueUNLOCKED
  <2>1. pc[me].op = "app"
    BY <1>1 DEF App
  <2> QED
    BY <1>1, <1>6, <2>1, InAppUnlocked DEF MutexInv
<1>15. QueueInv'
  BY <1>1, <1>6, <1>10, <1>11, <1>12, <1>13, <1>4, <1>14, GivesWay DEF MutexInv
<1>16. \A t \in Task : uxMutexesHeld'[t] = 0
  BY <1>1, <1>6, TaskAssumption DEF MutexInv, MutexTyped, Agreed
<1>17. MutexTyped' /\ Agreed'
  <2>1. uxMutexesHeld' \in [Task -> Nat]
    <3>1. uxMutexesHeld \in [Task -> Nat] /\ uxMutexesHeld[me] - 1 \in Nat
      BY <1>2 DEF MutexInv, MutexTyped
    <3> QED
      BY <1>6, <3>1
  <2> QED
    BY <1>6, <1>7, <1>16, <2>1, TaskAssumption DEF MutexInv, MutexTyped, Agreed
<1>18. HolderIsOut' /\ TakesOnly'
  BY <1>6 DEF MutexInv, HolderIsOut, TakesOnly
<1>19. Lent'
  <2>1. \A t \in Task : uxPriority'[t] = uxBasePriority[t] /\ uxBasePriority[t] \in Nat
    BY <1>1, <1>5, <1>6, PriorityIsNat DEF MutexInv, Lent, MutexTyped
  <2>2. \A t \in Task : uxBasePriority[t] <= uxBasePriority[t]
    BY <2>1
  <2> QED
    BY <1>6, <2>1, <2>2 DEF Lent
<1> QED
  BY <1>15, <1>17, <1>18, <1>19 DEF MutexInv

-----------------------------------------------------------------------------
(* The invariant at the start, when nothing happens, and in each step.     *)
LEMMA MutexInitHolds == MutexInit => MutexInv
<1> SUFFICES ASSUME MutexInit PROVE MutexInv
  OBVIOUS
<1>1. /\ Init /\ uxMessagesWaiting = 1 /\ lock = [s \in Side |-> queueUNLOCKED] /\ served = [s \in Side |-> {}]
      /\ left = [t \in Task |-> 0] /\ xNumOfOverflows = 0 /\ waiting = [s \in Side |-> <<>>]
      /\ xMutexHolder = NULL /\ uxRecursiveCallCount = 0 /\ uxMutexesHeld = [t \in Task |-> 0]
      /\ uxBasePriority = uxPriority /\ xInheritanceOccurred = {}
  BY DEF MutexInit
<1>2. pc = [t \in Task |-> App] /\ uxPriority = [t \in Task |-> 0] /\ ~xSchedulerRunning
  BY <1>1 DEF Init
<1>3. Onward(App) = App /\ App.op \notin HasTime /\ 0 \in Priority
  BY PriorityIsNat DEF Onward, App, HasTime
<1>4. QueueInv
  <2>1. IInv
    BY <1>1, InitHolds
  <2>2. <<>> \in Seq(Task) /\ ToSet(<<>>) = {} /\ IsInjective(<<>>)
    BY EmptySeq DEF ToSet, IsInjective
  <2>3. Waiting = {}
    BY <1>1, <2>2 DEF Waiting
  <2>4. QueueTyped
    BY <1>1, <2>2, MutexAssumption DEF QueueTyped
  <2>5. WaitersSleep
    BY <1>1, <2>2, <2>3 DEF WaitersSleep, Side
  <2>6. WaitersInCall /\ LockedByRunner
    BY <1>1, <2>2 DEF WaitersInCall, LockedByRunner
  <2>7. Entering /\ HoldsLock /\ Trying
    BY <1>2 DEF Entering, HoldsLock, Trying, In
  <2>8. App.op \in Own
    BY DEF App, Own
  <2>9. TimesKept /\ IdleIsOut
    BY <1>2, <1>3, <2>8, TaskAssumption DEF TimesKept, TimeKept, IdleIsOut
  <2> QED
    BY <2>1, <2>4, <2>5, <2>6, <2>7, <2>9 DEF QueueInv
<1>5. MutexTyped /\ Agreed
  BY <1>1, <1>2, <1>3, TaskAssumption DEF MutexTyped, Agreed
<1>6. HolderIsOut /\ TakesOnly /\ Lent
  BY <1>1, <1>2, <1>3 DEF HolderIsOut, TakesOnly, Lent
<1> QED
  BY <1>4, <1>5, <1>6 DEF MutexInv

LEMMA MutexStutter == MutexInv /\ UNCHANGED mutexAll => MutexInv'
<1> SUFFICES ASSUME MutexInv, UNCHANGED mutexAll PROVE MutexInv'
  OBVIOUS
<1>1. UNCHANGED queueAll /\ UNCHANGED mutexVars
  BY DEF mutexAll
<1>2. QueueInv'
  BY <1>1, QueueStutter DEF MutexInv
<1>3. UNCHANGED <<pc, uxPriority, uxMessagesWaiting>>
  BY <1>1 DEF queueAll, queueVars, vars
<1> QED
  BY <1>1, <1>2, <1>3 DEF MutexInv, MutexTyped, Agreed, HolderIsOut, InCall, TakesOnly, Lent, mutexVars

LEMMA MutexStepKeeps == MutexInv /\ HolderStands /\ HolderStands' /\ [MutexNext]_mutexAll => MutexInv'
<1> SUFFICES ASSUME MutexInv, HolderStands, HolderStands', [MutexNext]_mutexAll PROVE MutexInv'
  OBVIOUS
<1>1. CASE Takes \/ TakesAgain \/ TakesAtLast \/ TakeFails \/ MustWait
  BY <1>1, TakesKeeps, CountsAgainKeeps, TakesAtLastKeeps, TakeFailsKeeps, MustWaitKeeps
<1>2. CASE Inherits \/ GivesUp \/ GivesOnce \/ Gives
  BY <1>2, InheritsKeeps, GivesUpKeeps, CountsAgainKeeps, GivesKeeps
<1>3. CASE WaitSteps /\ UNCHANGED mutexVars
  BY <1>3, WaitStepKeeps
<1>4. CASE SchedulerSteps /\ Anew
  BY <1>4, SchedulerKeeps
<1>5. CASE UNCHANGED mutexAll
  BY <1>5, MutexStutter
<1> QED
  BY <1>1, <1>2, <1>3, <1>4, <1>5 DEF MutexNext

(* MutexInv is inductive while no holder is freed; with it the invariants  *)
(* of the scheduler and of the wait hold also while the priority of the    *)
(* holder changes.                                                         *)
THEOREM MutexInductive == MutexSpec /\ []HolderStands => []MutexInv
<1>1. MutexInit => MutexInv
  BY MutexInitHolds
<1>2. MutexInv /\ HolderStands /\ HolderStands' /\ [MutexNext]_mutexAll => MutexInv'
  BY MutexStepKeeps
<1> QED
  BY <1>1, <1>2, PTL DEF MutexSpec

(* Nobody holds a free mutex, and one task holds one that is taken, as     *)
(* often as it took it; the holder does not wait (xQueueTakeMutexRecursive,*)
(* xQueueGiveMutexRecursive, prvCopyDataToQueue).  Tasks may be deleted,   *)
(* but no holder of the mutex.                                             *)
THEOREM MutexHasOneHolder == MutexSpec /\ []HolderStands => []OneHolder
<1>1. MutexInv => OneHolder
  BY HolderIsAwake DEF MutexInv, Agreed, OneHolder
<1> QED
  BY MutexInductive, <1>1, PTL

(* The tasks that wait for a mutex sleep, each in one event list, once, and*)
(* each in one list of states, while priorities come and go (vListInsert,  *)
(* xTaskPriorityInherit, xTaskPriorityDisinherit), and waiters are stopped *)
(* and deleted, but no holder.                                             *)
THEOREM MutexWaitersSleep ==
    MutexSpec /\ []HolderStands => [](WaitersSleep /\ LockedByRunner /\ OneHome)
<1>1. MutexInv => WaitersSleep /\ LockedByRunner /\ OneHome
  BY HomesAreOne DEF MutexInv, QueueInv
<1> QED
  BY MutexInductive, <1>1, PTL

(* A call that takes a mutex gives up only when its time is over           *)
(* (xQueueSemaphoreTake), while no holder is deleted.                      *)
THEOREM MutexCallsGiveUpInTime == MutexSpec /\ []HolderStands => []GivesUpInTime
<1>1. MutexInv => GivesUpInTime
  BY CallsHaveTime DEF MutexInv
<1> QED
  BY MutexInductive, <1>1, PTL

(* Where no task is deleted, the holder stands.                            *)
LEMMA HolderStays ==
    ASSUME Mortal = {}, MutexInv, Immortal, HolderStands, [MutexNext]_mutexAll
    PROVE  Immortal' /\ HolderStands'
<1>1. IInv /\ QueueInv /\ xMutexHolder \in Task \cup {NULL}
  BY DEF MutexInv, MutexTyped, QueueInv
<1>2. \A t \in Ready : t \in Task /\ memory[t] # "free"
  BY <1>1, ReadyFacts DEF Live
<1>3. ASSUME UNCHANGED lifeVars, xMutexHolder' \in {NULL, xMutexHolder} PROVE Immortal' /\ HolderStands'
  BY <1>3 DEF lifeVars, Immortal, HolderStands
<1>4. CASE SchedulerSteps /\ Anew
  <2>1. Endures /\ UNCHANGED xMutexHolder
    BY <1>1, <1>4, ImmortalEndure DEF SchedulerSteps, Anew
  <2> QED
    BY <1>1, <2>1 DEF Endures, Immortal, HolderStands
<1>5. CASE Takes \/ TakesAtLast
  <2>1. UNCHANGED lifeVars /\ xMutexHolder' = pxCurrentTCB
    BY <1>5 DEF Takes, TakesAtLast, RetrySucceeds, Perform, Unconcerned, Taken
  <2>2. pxCurrentTCB \in Ready
    BY <1>1, <1>5, InApp, TriesWhenReady DEF Takes, TakesAtLast, RetrySucceeds, Calling
  <2> QED
    BY <1>2, <2>1, <2>2 DEF lifeVars, Immortal, HolderStands
<1>6. CASE TakesAgain \/ GivesOnce \/ MustWait \/ TakeFails
  BY <1>3, <1>6, VainTry
  DEF TakesAgain, GivesOnce, MustWait, CallMustWait, TakeFails, Unconcerned, queueAll, vars, mutexVars, lifeVars
<1>7. CASE Inherits \/ GivesUp \/ Gives
  BY <1>3, <1>7 DEF Inherits, GivesUp, Gives, Unmoved, Undisturbed
<1>8. CASE WaitSteps /\ UNCHANGED mutexVars
  <2>1. UNCHANGED lifeVars
    BY <1>8, VainTry
    DEF WaitSteps, SuspendsAll, Locks, Tests, vTaskPlaceOnEventList, UnlocksReceivers, UnlocksSenders, Wake, Rechecks,
        Stay, Unconcerned
  <2> QED
    BY <1>3, <1>8, <2>1 DEF mutexVars
<1>9. CASE UNCHANGED mutexAll
  BY <1>3, <1>9 DEF mutexAll, mutexVars, queueAll, vars, lifeVars
<1> QED
  BY <1>4, <1>5, <1>6, <1>7, <1>8, <1>9 DEF MutexNext

(* So no hypothesis on the holder is needed there.                         *)
THEOREM HoldersStand ==
    ASSUME Mortal = {}
    PROVE  MutexSpec => [](MutexInv /\ Immortal /\ HolderStands)
<1>1. MutexInit => MutexInv /\ Immortal /\ HolderStands
  BY MutexInitHolds DEF MutexInit, Init, Immortal, HolderStands
<1>2. MutexInv /\ Immortal /\ HolderStands /\ [MutexNext]_mutexAll => (MutexInv /\ Immortal /\ HolderStands)'
  BY HolderStays, MutexStepKeeps
<1> QED
  BY <1>1, <1>2, PTL DEF MutexSpec
-----------------------------------------------------------------------------
(* What is lent, from whom, and for how long.  The priority of the holder  *)
(* follows from what the waiters know of themselves, so their event list,  *)
(* their flags and the calls they are in have to agree; that the tasks are *)
(* neither deleted nor stopped is part of it.                              *)

Steady == Mortal = {} /\ Stoppable = {}

(* The event list is in the order of the priorities; interrupts do not use *)
(* the mutex, so nothing is counted while it is locked; no yield waits     *)
(* while tasks may be switched; who is suspended waits for the mutex; and  *)
(* nobody took it before the scheduler was started.                        *)
Sorted(list, priority) ==
    \A i, j \in DOMAIN list : i < j => priority[list[j]] <= priority[list[i]]
InOrder == Sorted(waiting["receive"], uxPriority)
NothingCounted == \A s \in Side : lock[s] \in {queueUNLOCKED, queueLOCKED_UNMODIFIED}
NoYieldLeft ==
    uxSchedulerSuspended = 0 /\ ~(xSchedulerRunning /\ Masked) => ~xYieldPendings
StoppedWait == xSuspendedTaskList \subseteq Waiting \cup xPendingReadyList
FreeAtFirst == ~xSchedulerRunning => xMutexHolder = NULL

Orderly ==
    /\ MutexInv /\ Immortal
    /\ InOrder /\ NothingCounted /\ NoYieldLeft /\ StoppedWait /\ FreeAtFirst
-----------------------------------------------------------------------------
(* Nobody waits to give a mutex.                                           *)
LEMMA NobodySends ==
    ASSUME MutexInv
    PROVE  waiting["send"] = <<>> /\ Waiting = ToSet(waiting["receive"])
<1>1. ASSUME NEW t \in ToSet(waiting["send"]) PROVE FALSE
  <2>1. Onward(pc[t]) \in Entered("send") /\ t \in Task
    BY WaitersAreNotReady DEF MutexInv, QueueInv, WaitersInCall, Side, Waiting, Live
  <2>2. Onward(pc[t]).op \in HasTime /\ Onward(pc[t]).act = "send"
    BY <2>1 DEF Entered, HasTime, Unlocks, WaitsAt
  <2> QED
    BY <2>1, <2>2 DEF MutexInv, TakesOnly
<1>2. waiting["send"] \in Seq(Task)
  BY DEF MutexInv, QueueInv, QueueTyped, Side
<1>3. waiting["send"] = <<>>
  BY <1>1, <1>2, NoneWait
<1> QED
  BY <1>1, <1>3 DEF Waiting, Side

(* So taking it wakes nobody.                                              *)
LEMMA TakesQuietly ==
    ASSUME MutexInv, Perform("receive")
    PROVE  /\ Waiting' = Waiting /\ Leave({})
           /\ Ready' = Ready /\ Goto(App)
           /\ UNCHANGED <<sleepVars, xSuspendedTaskList, xPendingReadyList, switchVars, uxSchedulerSuspended, lock,
                          uxPriority, lifeVars>>
<1>1. waiting["send"] = <<>> /\ waiting \in [Side -> Seq(Task)] /\ Wakes("receive") = "send" /\ "send" \in Side
  BY NobodySends DEF MutexInv, QueueInv, QueueTyped, Wakes, Side
<1>2. FirstWaiters("send", 1) = {}
  BY <1>1, FirstWait
<1>3. WakeFirst("send", {pxCurrentTCB})
  BY <1>1 DEF Perform
<1>4. Leave({}) /\ UNCHANGED <<sleepVars, xSuspendedTaskList, xPendingReadyList>>
  BY <1>1, <1>2, <1>3 DEF WakeFirst, Pop
<1>5. Departs({})
  BY <1>1, <1>4, LeaveDeparts
<1>6. Waiting' = Waiting
  BY <1>5 DEF Departs, Waiting
<1>7. ~Above(FirstWaiters("send", 1))
  BY <1>2 DEF Above
<1>8. Keep(Moved("send", pxReadyTasksLists), MovedTop("send")) /\ Moved("send", pxReadyTasksLists) = pxReadyTasksLists
  BY <1>1, <1>7 DEF Perform, Moved
<1>9. Ready' = Ready
  BY <1>8 DEF Keep, Ready
<1> QED
  BY <1>4, <1>6, <1>8, <1>9 DEF Perform, Keep, Unconcerned

(* A sorted list stays sorted when tasks leave it.                         *)
LEMMA RestIsSorted ==
    ASSUME NEW list, NEW priority, NEW S, NEW rest \in Remaining(list, S), Sorted(list, priority)
    PROVE  Sorted(rest, priority)
BY DEF Remaining, Sorted

LEMMA OrderStands ==
    ASSUME MutexInv, InOrder, UNCHANGED waiting \/ \E S : Leave(S),
           \A t \in Waiting : uxPriority'[t] = uxPriority[t]
    PROVE  InOrder'
<1>1. Sorted(waiting'["receive"], uxPriority)
  <2>1. CASE UNCHANGED waiting
    BY <2>1 DEF InOrder
  <2>2. CASE \E S : Leave(S)
    <3>1. PICK S : waiting'["receive"] \in Remaining(waiting["receive"], S)
      BY <2>2 DEF Leave
    <3> QED
      BY <3>1, RestIsSorted DEF InOrder
  <2> QED
    BY <2>1, <2>2
<1>2. \A i \in DOMAIN waiting'["receive"] : waiting'["receive"][i] \in Waiting
  <2>1. ToSet(waiting'["receive"]) \subseteq Waiting
    <3>1. CASE UNCHANGED waiting
      BY <3>1 DEF Waiting, Side
    <3>2. ASSUME NEW S, Leave(S) PROVE ToSet(waiting'["receive"]) \subseteq Waiting
      BY <3>2, LeaveDeparts DEF Departs, Waiting, Side, MutexInv, QueueInv, QueueTyped
    <3> QED
      BY <3>1, <3>2
  <2> QED
    BY <2>1 DEF ToSet
<1> QED
  BY <1>1, <1>2 DEF InOrder, Sorted

(* A sorted list stays sorted when a task enters it.                       *)
LEMMA InsertIsSorted ==
    ASSUME NEW list \in Seq(Task), NEW t \in Task, uxPriority \in [Task -> Nat], Sorted(list, uxPriority)
    PROVE  Sorted(vListInsert(list, t), uxPriority)
<1>1. PICK at \in 0 .. Len(list) :
          /\ vListInsert(list, t) = SubSeq(list, 1, at) \o <<t>> \o SubSeq(list, at + 1, Len(list))
          /\ \A i \in 1 .. at : ~(uxPriority[list[i]] < uxPriority[t])
          /\ at < Len(list) => uxPriority[list[at + 1]] < uxPriority[t]
  BY InsertCuts
<1> DEFINE A == SubSeq(list, 1, at)
           B == SubSeq(list, at + 1, Len(list))
           one == <<t>>
           U == A \o one
           r == U \o B
           len == Len(list)
<1>2. /\ A \in Seq(Task) /\ Len(A) = at /\ \A i \in 1 .. at : A[i] = list[i]
      /\ B \in Seq(Task) /\ Len(B) = len - at /\ \A i \in 1 .. len - at : B[i] = list[at + i]
  BY Cut
<1>3. one \in Seq(Task) /\ Len(one) = 1 /\ one[1] = t
  OBVIOUS
<1>4. /\ len \in Nat /\ at \in Nat /\ at <= len /\ DOMAIN list = 1 .. len
      /\ \A i \in 1 .. len : list[i] \in Task
  BY LenProperties, ElementOfSeq
<1>5. vListInsert(list, t) = r
  BY <1>1
<1> HIDE DEF A, B, one, len
<1>6. /\ U \in Seq(Task) /\ Len(U) = at + 1
      /\ \A i \in 1 .. at : U[i] = list[i]
      /\ U[at + 1] = t
  <2>1. /\ U \in Seq(Task) /\ Len(U) = Len(A) + Len(one)
        /\ \A i \in 1 .. Len(A) + Len(one) : U[i] = IF i <= Len(A) THEN A[i] ELSE one[i - Len(A)]
    BY <1>2, <1>3, ConcatProperties
  <2> HIDE DEF U
  <2> QED
    BY <1>2, <1>3, <1>4, <2>1
<1> HIDE DEF U
<1>7. /\ r \in Seq(Task) /\ Len(r) = len + 1
      /\ \A i \in 1 .. len + 1 : r[i] = IF i <= at THEN list[i] ELSE IF i = at + 1 THEN t ELSE list[i - 1]
  <2>1. /\ r \in Seq(Task) /\ Len(r) = Len(U) + Len(B)
        /\ \A i \in 1 .. Len(U) + Len(B) : r[i] = IF i <= Len(U) THEN U[i] ELSE B[i - Len(U)]
    <3>1. U \in Seq(Task) /\ B \in Seq(Task)
      BY <1>2, <1>6
    <3> QED
      BY ONLY <3>1, ConcatProperties DEF r
  <2> HIDE DEF r
  <2>2. Len(r) = len + 1 /\ Len(U) + Len(B) = len + 1
    BY <1>2, <1>4, <1>6, <2>1
  <2>3. ASSUME NEW i \in 1 .. len + 1, i > at + 1 PROVE r[i] = list[i - 1]
    <3>1. i - (at + 1) \in 1 .. len - at /\ at + (i - (at + 1)) = i - 1 /\ ~(i <= at + 1)
      BY <1>4, <2>3
    <3>2. B[i - (at + 1)] = list[at + (i - (at + 1))]
      BY <1>2, <3>1
    <3>3. r[i] = B[i - (at + 1)]
      BY <1>6, <2>1, <2>2, <3>1
    <3> QED
      BY <3>1, <3>2, <3>3
  <2>4. ASSUME NEW i \in 1 .. len + 1, ~(i > at + 1) PROVE r[i] = IF i <= at THEN list[i] ELSE t
    BY <1>4, <1>6, <2>1, <2>2, <2>4
  <2> QED
    BY <1>4, <2>1, <2>2, <2>3, <2>4
<1> HIDE DEF r
<1>8. DOMAIN r = 1 .. len + 1
  BY <1>7, LenProperties
<1> DEFINE pr(i) == uxPriority[list[i]]
           new == uxPriority[t]
<1>9. /\ \A i \in 1 .. len : pr(i) \in Nat
      /\ new \in Nat
      /\ \A i, j \in 1 .. len : i < j => pr(j) <= pr(i)
  BY <1>4 DEF Sorted
<1>10. \A i \in 1 .. len : IF i <= at THEN new <= pr(i) ELSE pr(i) <= new
  <2> SUFFICES ASSUME NEW i \in 1 .. len PROVE IF i <= at THEN new <= pr(i) ELSE pr(i) <= new
    OBVIOUS
  <2>1. CASE i <= at
    <3>1. ~(pr(i) < new)
      BY <1>1, <1>4, <2>1
    <3> HIDE DEF pr, new
    <3> QED
      BY <1>9, <2>1, <3>1
  <2>2. CASE ~(i <= at)
    <3>1. at + 1 \in 1 .. len /\ (i = at + 1 \/ at + 1 < i)
      BY <1>4, <2>2
    <3>2. pr(at + 1) < new
      BY <1>1, <1>4, <3>1 DEF len
    <3> HIDE DEF pr, new
    <3>3. pr(i) \in Nat /\ pr(at + 1) \in Nat /\ new \in Nat /\ pr(i) <= pr(at + 1)
      BY <1>9, <3>1
    <3> QED
      BY <2>2, <3>2, <3>3
  <2> QED
    BY <2>1, <2>2
<1>11. ASSUME NEW i \in 1 .. len + 1, NEW j \in 1 .. len + 1, i < j
       PROVE  uxPriority[r[j]] <= uxPriority[r[i]]
  <2>1. /\ uxPriority[r[i]] = IF i <= at THEN pr(i) ELSE IF i = at + 1 THEN new ELSE pr(i - 1)
        /\ uxPriority[r[j]] = IF j <= at THEN pr(j) ELSE IF j = at + 1 THEN new ELSE pr(j - 1)
    BY <1>7
  <2> HIDE DEF pr, new
  <2>2. CASE i <= at
    <3>1. i \in 1 .. len /\ new <= pr(i)
      BY <1>4, <1>10, <2>2
    <3>2. CASE j <= at
      BY <1>4, <1>9, <1>11, <2>1, <2>2, <3>2
    <3>3. CASE j = at + 1
      BY <1>4, <2>1, <2>2, <3>1, <3>3
    <3>4. CASE j > at + 1
      <4>1. j - 1 \in 1 .. len /\ i < j - 1
        BY <1>4, <2>2, <3>4
      <4> QED
        BY <1>4, <1>9, <2>1, <2>2, <3>1, <3>4, <4>1
    <3> QED
      BY <1>4, <3>2, <3>3, <3>4
  <2>3. CASE i = at + 1
    <3>1. j > at + 1 /\ j - 1 \in 1 .. len /\ ~(j - 1 <= at)
      BY <1>4, <1>11, <2>3
    <3>2. pr(j - 1) <= new
      BY <1>10, <3>1
    <3> QED
      BY <1>4, <2>1, <2>3, <3>1, <3>2
  <2>4. CASE i > at + 1
    <3>1. i - 1 \in 1 .. len /\ j - 1 \in 1 .. len /\ i - 1 < j - 1
      BY <1>4, <1>11, <2>4
    <3>2. pr(j - 1) <= pr(i - 1)
      BY <1>9, <3>1
    <3> QED
      BY <1>4, <1>11, <2>1, <2>4, <3>2
  <2> QED
    BY <1>4, <2>2, <2>3, <2>4
<1> QED
  BY <1>5, <1>8, <1>11 DEF Sorted

(* What the scheduler does to tasks that are neither made, deleted nor     *)
(* stopped while it runs.                                                  *)
Calm ==
    \/ SuspendAll \/ ResumeAll \/ vTaskDelay \/ xTaskCatchUpTicks \/ CatchUpPends
    \/ xTaskResumeAll \/ TickPends \/ CreateReturns \/ prvIdleTask \/ ResumeDrained
    \/ SuspendReturns \/ DelaySleeps \/ TickCounts \/ ResumeTicks \/ ResumeReturns \/ vPortYield
    \/ \E t \in Task : ResumeDrains(t)

LEMMA SteadySteps ==
    ASSUME Steady, Orderly, SchedulerSteps
    PROVE  xTaskCreateInMain \/ vTaskStartScheduler \/ Calm
<1>1. IInv /\ Next /\ Immortal /\ StoppedWait /\ Resumed \cap Waiting = {}
  BY DEF Orderly, MutexInv, QueueInv, SchedulerSteps
<1>2. ASSUME NEW t \in Task, vTaskSuspend(t) \/ vTaskDelete(t) PROVE FALSE
  BY <1>2 DEF Steady, vTaskSuspend, vTaskDelete
<1>3. ASSUME NEW t \in Task, vTaskResume(t) \/ xTaskResumeFromISR(t) PROVE FALSE
  <2>1. t \in xSuspendedTaskList \ xPendingReadyList
    BY <1>3 DEF vTaskResume, xTaskResumeFromISR, prvTaskIsTaskSuspended
  <2>2. t \in Ready' \/ t \in xPendingReadyList'
    <3>1. vTaskResume(t) => t \in Ready'
      BY <1>1, ResumeReady DEF Switches, ReadyBecomes
    <3>2. xTaskResumeFromISR(t) /\ uxSchedulerSuspended = 0 => t \in Ready'
      BY <1>1, ResumeFromISRReady DEF ReadyBecomes
    <3>3. xTaskResumeFromISR(t) /\ uxSchedulerSuspended # 0 => t \in xPendingReadyList'
      BY DEF xTaskResumeFromISR
    <3> QED
      BY <1>3, <3>1, <3>2, <3>3
  <2> QED
    BY <1>1, <2>1, <2>2 DEF StoppedWait, Resumed
<1>4. \A t \in Task : memory[t] \in {"free", "live"} /\ t \notin xTasksWaitingTermination
  BY <1>1 DEF Steady, Immortal
<1>5. ~CreateAdds /\ ~prvDeleteTCB
  BY <1>1, <1>4, CreateAddsReady, DeleteTCBReady
<1>6. ~prvCheckTasksWaitingTermination
  BY <1>1, <1>4 DEF prvCheckTasksWaitingTermination, IInv, Typed
<1>7. /\ ~\E t \in Task, p \in NewPriorities : vTaskPrioritySet(t, p)
      /\ ~\E t \in Mortal, p \in Priority : xTaskCreate(t, p)
  BY MutexAssumption DEF Steady
<1> QED
  BY <1>1, <1>2, <1>3, <1>5, <1>6, <1>7 DEF Next, AppCalls, KernelSteps, Interrupts, vPortYieldFromTick, Calm

(* Before the scheduler is started nobody waits.                           *)
LEMMA NobodyYet ==
    ASSUME QueueInv, ~xSchedulerRunning
    PROVE  Waiting = {} /\ \A t \in Task : pc[t] = App
<1>1. \A t \in Task : pc[t] = App
  BY DEF QueueInv, IInv, Alive, NotStarted
<1>2. Onward(App).op = "app"
  BY DEF App, Onward
<1>3. ASSUME NEW t \in Waiting PROVE FALSE
  <2>1. PICK s \in Side : t \in ToSet(waiting[s])
    BY <1>3 DEF Waiting
  <2>2. Onward(pc[t]) \in Entered(s) /\ t \in Task
    BY <1>3, <2>1, WaitersAreNotReady DEF QueueInv, WaitersInCall, Live
  <2> QED
    BY <1>1, <1>2, <2>2 DEF Entered, Unlocks
<1> QED
  BY <1>1, <1>3

(* Steps that wake some of the waiters.                                    *)
LEMMA OrderlyMoves ==
    ASSUME Orderly, MutexInv', xSchedulerRunning, UNCHANGED lifeVars, NEW S, NEW P,
           xSuspendedTaskList' = xSuspendedTaskList \ S, xPendingReadyList' = xPendingReadyList \cup P,
           Departs(S \cup P), UNCHANGED waiting \/ \E Q : Leave(Q),
           \A t \in Waiting : uxPriority'[t] = uxPriority[t],
           NothingCounted', NoYieldLeft'
    PROVE  Orderly'
<1>1. InOrder'
  BY OrderStands DEF Orderly
<1>2. StoppedWait'
  <2>1. Waiting' = Waiting \ (S \cup P)
    BY DEF Departs, Waiting
  <2> QED
    BY <2>1 DEF Orderly, StoppedWait
<1>3. Immortal' /\ FreeAtFirst'
  BY DEF Orderly, Immortal, FreeAtFirst, lifeVars
<1> QED
  BY <1>1, <1>2, <1>3 DEF Orderly

(* Steps that wake nobody and let nobody else run.                         *)
LEMMA OrderlyStands ==
    ASSUME Orderly, MutexInv', xSchedulerRunning, ~Masked,
           UNCHANGED <<lifeVars, xSuspendedTaskList, xPendingReadyList, switchVars>>,
           UNCHANGED waiting \/ Leave({}),
           \A t \in Waiting : uxPriority'[t] = uxPriority[t],
           NothingCounted', uxSchedulerSuspended' = 0 => uxSchedulerSuspended = 0
    PROVE  Orderly'
<1>1. Departs({} \cup {})
  <2>1. QueueInv /\ waiting \in [Side -> Seq(Task)]
    BY DEF Orderly, MutexInv, QueueInv, QueueTyped
  <2>2. Departs({})
    BY <2>1, NobodyLeaves, LeaveDeparts
  <2> QED
    BY <2>2
<1>2. NoYieldLeft'
  BY DEF Orderly, NoYieldLeft, switchVars
<1> QED
  BY <1>1, <1>2, OrderlyMoves

LEMMA WaitOrders ==
    ASSUME Orderly, MutexInv',
           RetryMustWait \/ TakeFails \/ SuspendsAll \/ Locks \/ Tests("inherit") \/ Rechecks(RecheckEnds)
    PROVE  Orderly'
<1>1. MutexInv /\ NothingCounted
  BY DEF Orderly
<1>2. xSchedulerRunning /\ ~Masked
  BY VainTry DEF TakeFails, SuspendsAll, Locks, Tests, Rechecks, At, Masked
<1>3. UNCHANGED <<lifeVars, xSuspendedTaskList, xPendingReadyList, switchVars, uxPriority>>
  BY VainTry DEF TakeFails, SuspendsAll, Locks, Tests, Rechecks, Stay, Unconcerned, NotListed
<1>4. UNCHANGED waiting \/ Leave({})
  <2>1. waiting \in [Side -> Seq(Task)] /\ "send" \in Side
    BY <1>1 DEF MutexInv, QueueInv, QueueTyped, Side
  <2>2. FirstWaiters("send", 0) = {}
    BY <2>1, FirstWait
  <2>3. RetryMustWait \/ TakeFails => Leave({})
    BY <2>2, VainTry DEF TakeFails, Pop
  <2>4. UNCHANGED waiting \/ RetryMustWait \/ TakeFails
    BY DEF SuspendsAll, Locks, Tests, Rechecks, Stay
  <2> QED
    BY <2>3, <2>4
<1>5. NothingCounted'
  <2>1. lock' = lock \/ prvLockQueue
    BY VainTry DEF TakeFails, SuspendsAll, Locks, Tests, Rechecks
  <2> QED
    BY <1>1, <2>1 DEF NothingCounted, prvLockQueue
<1>6. uxSchedulerSuspended' = 0 => uxSchedulerSuspended = 0
  <2>1. uxSchedulerSuspended \in Nat
    BY <1>1 DEF MutexInv, QueueInv, IInv, Typed
  <2>2. uxSchedulerSuspended' = uxSchedulerSuspended \/ uxSchedulerSuspended' = uxSchedulerSuspended + 1
    BY VainTry DEF TakeFails, SuspendsAll, Locks, Tests, Rechecks, Stay, vTaskSuspendAll
  <2> QED
    BY <2>1, <2>2
<1> QED
  BY <1>2, <1>3, <1>4, <1>5, <1>6, OrderlyStands

LEMMA LendOrders ==
    ASSUME Orderly, MutexInv', Inherits \/ GivesUp
    PROVE  Orderly'
<1>1. MutexInv /\ NothingCounted
  BY DEF Orderly
<1>2. xSchedulerRunning /\ ~Masked
  BY DEF Inherits, GivesUp, At, Masked
<1>3. UNCHANGED <<lifeVars, xSuspendedTaskList, xPendingReadyList, switchVars, waiting, lock, uxSchedulerSuspended>>
  BY DEF Inherits, GivesUp, Unmoved, NotListed, Undisturbed
<1>4. ASSUME NEW t \in Waiting PROVE uxPriority'[t] = uxPriority[t]
  <2>1. t # xMutexHolder /\ t \in Task
    BY <1>1, HolderIsAwake, WaitersAreNotReady DEF MutexInv, Live
  <2>2. UNCHANGED uxPriority \/ \E p : uxPriority' = [uxPriority EXCEPT ![xMutexHolder] = p]
    BY DEF Inherits, GivesUp, Reprioritise
  <2>3. uxPriority \in [Task -> Priority]
    BY <1>1 DEF MutexInv, QueueInv, IInv, Typed
  <2> QED
    BY <2>1, <2>2, <2>3
<1>5. NothingCounted'
  BY <1>1, <1>3 DEF NothingCounted
<1> QED
  BY <1>2, <1>3, <1>4, <1>5, OrderlyStands

LEMMA TakeOrders ==
    ASSUME Orderly, MutexInv', Takes \/ TakesAgain \/ TakesAtLast \/ MustWait \/ GivesOnce
    PROVE  Orderly'
<1>1. MutexInv /\ NothingCounted
  BY DEF Orderly
<1>2. xSchedulerRunning /\ ~Masked
  BY DEF Takes, TakesAgain, TakesAtLast, MustWait, CallMustWait, RetrySucceeds, GivesOnce, Calling, At, Masked
<1>3. ASSUME TakesAgain \/ MustWait \/ GivesOnce
      PROVE  UNCHANGED <<lifeVars, xSuspendedTaskList, xPendingReadyList, switchVars, waiting, lock, uxSchedulerSuspended,
                         uxPriority>>
  BY <1>3 DEF TakesAgain, MustWait, CallMustWait, GivesOnce, queueAll, vars, queueVars, NotListed, Unconcerned
<1>4. ASSUME Takes \/ TakesAtLast
      PROVE  Leave({}) /\ UNCHANGED <<lifeVars, xSuspendedTaskList, xPendingReadyList, switchVars, lock,
                                      uxSchedulerSuspended, uxPriority>>
  <2>1. CASE Takes
    BY <1>1, <2>1, TakesQuietly DEF Takes
  <2>2. CASE TakesAtLast
    <3>1. At("retry") /\ Perform(pc[pxCurrentTCB].act)
      BY <2>2 DEF TakesAtLast, RetrySucceeds, Call
    <3>2. pc[pxCurrentTCB].act = "receive"
      <4>1. pxCurrentTCB \in Task
        BY <1>1, <1>2, Here DEF MutexInv, QueueInv
      <4>2. Onward(pc[pxCurrentTCB]) = pc[pxCurrentTCB] /\ pc[pxCurrentTCB].op \in HasTime
        BY <3>1 DEF At, Onward, HasTime
      <4> QED
        BY <1>1, <4>1, <4>2 DEF MutexInv, TakesOnly
    <3> QED
      BY <1>1, <3>1, <3>2, TakesQuietly
  <2> QED
    BY <1>4, <2>1, <2>2
<1>5. NothingCounted'
  BY <1>1, <1>3, <1>4 DEF NothingCounted
<1> QED
  BY <1>2, <1>3, <1>4, <1>5, OrderlyStands

(* Nothing was counted, so an unlock wakes nobody.                         *)
LEMMA UnlocksQuietly ==
    ASSUME MutexInv, NothingCounted, UnlocksReceivers \/ UnlocksSenders
    PROVE  /\ xSchedulerRunning /\ uxSchedulerSuspended = 1 /\ Leave({}) /\ Waiting' = Waiting /\ ~Masked
           /\ \A s \in Side : lock'[s] \in {lock[s], queueUNLOCKED}
           /\ UNCHANGED <<lifeVars, sleepVars, xSuspendedTaskList, xPendingReadyList, switchVars, readyVars, uxPriority,
                          uxSchedulerSuspended>>
<1>1. QueueInv /\ waiting \in [Side -> Seq(Task)] /\ lock \in [Side -> Nat \cup {queueUNLOCKED}]
  BY DEF MutexInv, QueueInv, QueueTyped
<1>2. /\ xSchedulerRunning /\ ~Masked
      /\ \E o \in Unlocks : At(o)
      /\ \E side \in Side : Wake(side)
  BY DEF UnlocksReceivers, UnlocksSenders, At, Unlocks, Masked, Side
<1>3. uxSchedulerSuspended = 1
  BY <1>1, <1>2, UnlocksInCall
<1>4. PICK side \in Side : Wake(side)
  BY <1>2
<1>5. FirstWaiters(side, lock[side]) = {}
  <2>1. lock[side] \in Int /\ lock[side] <= 0
    BY DEF NothingCounted, queueUNLOCKED, queueLOCKED_UNMODIFIED
  <2> QED
    BY <1>1, <2>1, FirstWait
<1>6. Leave({}) /\ UNCHANGED xPendingReadyList
  BY <1>4, <1>5 DEF Wake, Pop
<1>7. Waiting' = Waiting
  BY <1>1, <1>6, LeaveDeparts DEF Departs, Waiting
<1>8. UNCHANGED xYieldPendings
  <2>1. ~Above({}) /\ xYieldPendings \in BOOLEAN
    BY <1>1 DEF Above, QueueInv, IInv, Typed
  <2>2. xYieldPendings' = (xYieldPendings \/ Above({}))
    BY <1>4, <1>5 DEF Wake
  <2> QED
    BY <2>1, <2>2
<1>9. UNCHANGED <<lifeVars, sleepVars, xSuspendedTaskList, pxCurrentTCB, readyVars, uxPriority, uxSchedulerSuspended>>
  BY <1>4 DEF Wake, Unconcerned
<1>10. \A s \in Side : lock'[s] \in {lock[s], queueUNLOCKED}
  BY <1>1, <1>4 DEF Wake, Unlocked
<1> QED
  BY <1>2, <1>3, <1>6, <1>7, <1>8, <1>9, <1>10 DEF switchVars

LEMMA UnlockOrders ==
    ASSUME Orderly, MutexInv', UnlocksReceivers \/ UnlocksSenders
    PROVE  Orderly'
<1>1. MutexInv /\ NothingCounted
  BY DEF Orderly
<1>2. NothingCounted'
  BY <1>1, UnlocksQuietly DEF NothingCounted
<1> QED
  BY <1>1, <1>2, UnlocksQuietly, OrderlyStands

(* The running task joins those that wait.                                 *)
LEMMA PlacesLast ==
    ASSUME MutexInv, vTaskPlaceOnEventList
    PROVE  /\ xSchedulerRunning /\ pxCurrentTCB \in Task /\ uxSchedulerSuspended = 1 /\ pxCurrentTCB \notin Waiting
           /\ waiting'["receive"] = vListInsert(waiting["receive"], pxCurrentTCB)
           /\ Waiting' = Waiting \cup {pxCurrentTCB}
           /\ UNCHANGED <<lifeVars, xPendingReadyList, switchVars, lock, uxPriority, uxSchedulerSuspended>>
<1>1. QueueInv /\ waiting \in [Side -> Seq(Task)]
  BY DEF MutexInv, QueueInv, QueueTyped
<1>2. At("place")
  BY DEF vTaskPlaceOnEventList
<1>3. xSchedulerRunning /\ pxCurrentTCB \in Task /\ pxCurrentTCB \in Ready /\ uxSchedulerSuspended = 1
  BY <1>1, <1>2, EntersWhenReady
<1>4. pxCurrentTCB \notin Waiting
  BY <1>1, <1>3, WaitersAreNotReady
<1>5. pc[pxCurrentTCB].act = "receive"
  BY WaitGoes DEF WaitSteps
<1>6. waiting' = [waiting EXCEPT !["receive"] = vListInsert(@, pxCurrentTCB)]
  BY <1>5 DEF vTaskPlaceOnEventList, Call, WaitsAt
<1>7. /\ waiting'["receive"] = vListInsert(waiting["receive"], pxCurrentTCB)
      /\ waiting'["send"] = waiting["send"]
  BY <1>1, <1>6 DEF Side
<1>8. ToSet(waiting'["receive"]) = ToSet(waiting["receive"]) \cup {pxCurrentTCB}
  BY <1>1, <1>3, <1>7, InsertAdds DEF Side
<1>9. Waiting' = Waiting \cup {pxCurrentTCB}
  BY <1>7, <1>8 DEF Waiting, Side
<1>10. UNCHANGED <<lifeVars, xPendingReadyList, switchVars, lock, uxPriority, uxSchedulerSuspended>>
  BY DEF vTaskPlaceOnEventList, Unconcerned
<1> QED
  BY <1>3, <1>4, <1>7, <1>9, <1>10

LEMMA PlaceOrders ==
    ASSUME Orderly, MutexInv', vTaskPlaceOnEventList
    PROVE  Orderly'
<1>1. MutexInv
  BY DEF Orderly
<1>2. InOrder'
  <2>1. waiting["receive"] \in Seq(Task) /\ uxPriority \in [Task -> Nat]
    <3>1. waiting["receive"] \in Seq(Task) /\ uxPriority \in [Task -> Priority]
      BY <1>1 DEF MutexInv, QueueInv, QueueTyped, IInv, Typed, Side
    <3> QED
      BY <3>1, PriorityIsNat
  <2>2. UNCHANGED uxPriority
    BY <1>1, PlacesLast
  <2> QED
    BY <1>1, <2>1, <2>2, PlacesLast, InsertIsSorted DEF Orderly, InOrder
<1>3. StoppedWait'
  <2>1. xSuspendedTaskList' \subseteq xSuspendedTaskList \cup {pxCurrentTCB}
    BY DEF vTaskPlaceOnEventList, prvAddCurrentTaskToDelayedList
  <2> QED
    BY <1>1, <2>1, PlacesLast DEF Orderly, StoppedWait
<1>4. NothingCounted' /\ NoYieldLeft' /\ FreeAtFirst' /\ Immortal'
  BY <1>1, PlacesLast DEF Orderly, NothingCounted, NoYieldLeft, FreeAtFirst, Immortal, lifeVars
<1> QED
  BY <1>2, <1>3, <1>4 DEF Orderly

LEMMA GiveOrders ==
    ASSUME Orderly, MutexInv', Gives
    PROVE  Orderly'
<1>1. MutexInv /\ QueueInv /\ IInv /\ NothingCounted
  BY DEF Orderly, MutexInv, QueueInv
<1>2. At("app") /\ xSchedulerRunning /\ ~Masked /\ xMutexHolder = pxCurrentTCB
  BY DEF Gives, Calling, At, Masked
<1>3. WakeFirst("receive", {}) /\ "receive" \in Side
  BY DEF Gives, Side
<1>4. Leave(FirstWaiters("receive", 1))
  BY <1>3 DEF WakeFirst, Pop
<1>5. \A t \in Waiting : uxPriority'[t] = uxPriority[t]
  <2>1. pxCurrentTCB \notin Waiting /\ Waiting \subseteq Task
    BY <1>1, <1>2, HolderIsAwake, WaitersAreNotReady DEF MutexInv, Live
  <2>2. uxPriority' = uxPriority \/ \E p : uxPriority' = [uxPriority EXCEPT ![pxCurrentTCB] = p]
    BY DEF Gives, Disinherited
  <2>3. uxPriority \in [Task -> Priority]
    BY <1>1 DEF IInv, Typed
  <2> QED
    BY <2>1, <2>2, <2>3
<1>6. UNCHANGED <<lifeVars, lock, uxSchedulerSuspended>>
  BY DEF Gives, Undisturbed
<1>7. NothingCounted'
  BY <1>1, <1>6 DEF NothingCounted
<1>8. NoYieldLeft'
  BY <1>2, <1>6 DEF Gives, vTaskSwitchContext, Keep, switchVars, Orderly, NoYieldLeft
<1> QED
  BY <1>1, <1>2, <1>3, <1>4, <1>5, <1>6, <1>7, <1>8, WakesFirst, OrderlyMoves

(* Who is ready or pending stays so, but for the running task that delays  *)
(* itself; who is suspended stays so unless it was pending.                *)
LEMMA CalmFacts ==
    ASSUME QueueInv, SchedulerSteps, Calm
    PROVE  /\ xSchedulerRunning /\ xSchedulerRunning'
           /\ UNCHANGED <<uxPriority, lifeVars>>
           /\ Dropped \subseteq Sleeping
           /\ xSuspendedTaskList' \subseteq xSuspendedTaskList
           /\ xPendingReadyList' \subseteq xPendingReadyList
           /\ \A t \in xPendingReadyList : t \in xPendingReadyList' \/ t \notin xSuspendedTaskList'
           /\ \A t \in Ready \cup xPendingReadyList :
                 t \in Ready' \cup xPendingReadyList' \/ (t = pxCurrentTCB /\ At("delay"))
<1> DEFINE Still ==
      \/ SuspendAll \/ ResumeAll \/ vTaskDelay \/ xTaskCatchUpTicks \/ CatchUpPends \/ xTaskResumeAll
      \/ TickPends \/ CreateReturns \/ prvIdleTask \/ ResumeDrained \/ SuspendReturns
<1> DEFINE Keeps ==
      /\ UNCHANGED <<uxPriority, lifeVars>>
      /\ Dropped \subseteq Sleeping
      /\ xSuspendedTaskList' \subseteq xSuspendedTaskList
      /\ xPendingReadyList' \subseteq xPendingReadyList
      /\ \A t \in xPendingReadyList : t \in xPendingReadyList' \/ t \notin xSuspendedTaskList'
      /\ \A t \in Ready \cup xPendingReadyList :
            t \in Ready' \cup xPendingReadyList' \/ (t = pxCurrentTCB /\ At("delay"))
<1>1. IInv /\ Next
  BY DEF QueueInv, SchedulerSteps
<1>2. xSchedulerRunning /\ xSchedulerRunning'
  <2>1. Calm => AppCalls \/ KernelSteps \/ Interrupts
    BY DEF Calm, AppCalls, KernelSteps, Interrupts, vPortYieldFromTick
  <2> QED
    BY <2>1, StaysRunning
<1>3. pc \in [Task -> Place] /\ pxCurrentTCB \in Task
  BY <1>1, <1>2, Here
<1>4. ASSUME UNCHANGED xTickCount, NEW place, Goto(place), place.op \notin {"suspended", "free"} PROVE Dropped = {}
  BY <1>3, <1>4 DEF Dropped, Goto
<1>5. ASSUME UNCHANGED <<xTickCount, pc>> PROVE Dropped = {}
  BY <1>5 DEF Dropped, At
<1>6. ASSUME UNCHANGED xTickCount, ~At("app") PROVE Dropped = {}
  BY <1>6 DEF Dropped
<1>7. ASSUME Still PROVE Keeps
  <2>1. UNCHANGED <<lifeVars, xSuspendedTaskList, xPendingReadyList, xTickCount, uxPriority>>
    BY <1>7 DEF SuspendAll, ResumeAll, vTaskDelay, xTaskCatchUpTicks, CatchUpPends, xTaskResumeAll, TickPends,
       CreateReturns, prvIdleTask, ResumeDrained, SuspendReturns, NotListed, timeVars
  <2>2. Ready' = Ready
    BY <1>1, <1>7, QuietReady DEF Quiet, ReadyBecomes
  <2>3. Dropped = {}
    <3>1. CASE SuspendAll \/ TickPends
      BY <1>5, <2>1, <3>1 DEF SuspendAll, TickPends
    <3>2. CASE ResumeAll \/ vTaskDelay \/ xTaskCatchUpTicks \/ prvIdleTask
      <4>1. /\ Resuming(App, App).op = "resume" /\ Yielding.op = "yield"
            /\ \A n : [op |-> "delay", ticks |-> n].op = "delay" /\ [op |-> "catchup", ticks |-> n].op = "catchup"
        BY DEF Resuming, Yielding, YieldingTo
      <4>2. \/ Goto(Resuming(App, App)) \/ Goto(Yielding)
            \/ \E n : Goto([op |-> "delay", ticks |-> n]) \/ Goto([op |-> "catchup", ticks |-> n])
        BY <3>2 DEF ResumeAll, vTaskDelay, xTaskCatchUpTicks, prvIdleTask
      <4> QED
        BY <1>4, <2>1, <4>1, <4>2
    <3>3. CASE CatchUpPends \/ xTaskResumeAll \/ CreateReturns \/ ResumeDrained \/ SuspendReturns
      BY <1>6, <2>1, <3>3 DEF CatchUpPends, xTaskResumeAll, CreateReturns, ResumeDrained, SuspendReturns, At
    <3> QED
      BY <1>7, <3>1, <3>2, <3>3
  <2> QED
    BY <2>1, <2>2, <2>3
<1>8. ASSUME DelaySleeps PROVE Keeps
  <2>1. Ready' = Ready \ {pxCurrentTCB}
    BY <1>1, <1>8, LeaveReady DEF ReadyBecomes
  <2>2. Dropped = {}
    BY <1>6, <1>8 DEF DelaySleeps, At
  <2>3. At("delay") /\ UNCHANGED <<lifeVars, xPendingReadyList, uxPriority, xSuspendedTaskList>>
    BY <1>8 DEF DelaySleeps, prvAddCurrentTaskToDelayedList
  <2> QED
    BY <2>1, <2>2, <2>3
<1>9. ASSUME TickCounts \/ ResumeTicks PROVE Keeps
  <2>1. Dropped = Woken
    BY <1>1, <1>9, TickOrNot DEF Dropped
  <2>2. Woken \subseteq Sleeping /\ Ready' = Ready \cup Woken
    BY <1>1, <1>9, TickCountsReady, ResumeTicksReady DEF Switches, ReadyBecomes
  <2>3. /\ UNCHANGED <<lifeVars, uxPriority, xSuspendedTaskList>>
        /\ xPendingReadyList' = xPendingReadyList \ Woken
    BY <1>9 DEF TickCounts, ResumeTicks, TickLists
  <2>4. Sleeping \cap xSuspendedTaskList = {}
    BY <1>1 DEF IInv, Homes
  <2> QED
    BY <2>1, <2>2, <2>3, <2>4
<1>10. ASSUME NEW t \in Task, ResumeDrains(t) PROVE Keeps
  <2>1. Ready' = Ready \cup {t}
    BY <1>1, <1>10, ResumeDrainsReady DEF ReadyBecomes
  <2>2. Dropped = {}
    BY <1>6, <1>10 DEF ResumeDrains, At, timeVars
  <2>3. /\ UNCHANGED <<lifeVars, uxPriority>>
        /\ xPendingReadyList' = xPendingReadyList \ {t} /\ xSuspendedTaskList' = xSuspendedTaskList \ {t}
    BY <1>10 DEF ResumeDrains
  <2> QED
    BY <2>1, <2>2, <2>3
<1>11. ASSUME ResumeReturns \/ vPortYield PROVE Keeps
  <2>1. Ready' = Ready
    BY <1>1, <1>11, YieldReady DEF Switches, ReadyBecomes
  <2>2. Dropped = {}
    BY <1>6, <1>11 DEF ResumeReturns, vPortYield, At, timeVars
  <2>3. UNCHANGED <<lifeVars, xPendingReadyList, uxPriority, xSuspendedTaskList>>
    BY <1>11 DEF ResumeReturns, vPortYield
  <2> QED
    BY <2>1, <2>2, <2>3
<1>12. Still \/ DelaySleeps \/ TickCounts \/ ResumeTicks \/ ResumeReturns \/ vPortYield \/ \E t \in Task : ResumeDrains(t)
  BY DEF Calm
<1> HIDE DEF Still, Keeps
<1>13. Keeps
  BY <1>7, <1>8, <1>9, <1>10, <1>11, <1>12
<1> QED
  BY <1>2, <1>13 DEF Keeps

(* The yield that became due while the scheduler was suspended is made, or *)
(* made by a switch before.                                                *)
LEMMA CalmYields ==
    ASSUME QueueInv, NoYieldLeft, SchedulerSteps, Calm
    PROVE  NoYieldLeft'
<1> SUFFICES ASSUME uxSchedulerSuspended' = 0, ~Masked' PROVE ~xYieldPendings'
  BY CalmFacts DEF NoYieldLeft
<1>1. IInv /\ Next /\ uxSchedulerSuspended \in Nat
  BY DEF QueueInv, SchedulerSteps, IInv, Typed
<1>2. xSchedulerRunning /\ pc \in [Task -> Place] /\ pxCurrentTCB \in Task
  BY <1>1, CalmFacts, Here
<1>3. ASSUME ~Masked, UNCHANGED <<uxSchedulerSuspended, xYieldPendings>> PROVE ~xYieldPendings'
  BY <1>2, <1>3 DEF NoYieldLeft
<1>4. ASSUME UNCHANGED pxCurrentTCB, NEW place, Goto(place), place.op \in {"drain", "ticks"} PROVE FALSE
  BY <1>2, <1>4 DEF Goto, Masked
<1>5. CASE SuspendAll \/ vTaskDelay \/ xTaskCatchUpTicks
  <2>1. vTaskSuspendAll \/ UNCHANGED <<uxSchedulerSuspended, xYieldPendings>>
    BY <1>5 DEF SuspendAll, vTaskDelay, xTaskCatchUpTicks, switchVars
  <2>2. ~vTaskSuspendAll
    BY <1>1 DEF vTaskSuspendAll
  <2>3. ~Masked
    BY <1>5 DEF SuspendAll, vTaskDelay, xTaskCatchUpTicks, Calling, At, Masked
  <2> QED
    BY <1>3, <2>1, <2>2, <2>3
<1>6. CASE ResumeAll \/ CatchUpPends \/ CreateReturns \/ prvIdleTask \/ SuspendReturns \/ DelaySleeps \/ TickPends
  <2>1. UNCHANGED <<uxSchedulerSuspended, xYieldPendings>>
    BY <1>6 DEF ResumeAll, CatchUpPends, CreateReturns, prvIdleTask, SuspendReturns, DelaySleeps, TickPends, switchVars
  <2>2. ~Masked
    BY <1>6 DEF ResumeAll, CatchUpPends, CreateReturns, prvIdleTask, SuspendReturns, DelaySleeps, TickPends,
       Calling, At, Masked
  <2> QED
    BY <1>3, <2>1, <2>2
<1>7. CASE xTaskResumeAll
  <2>1. uxSchedulerSuspended = 1
    BY <1>1, <1>7 DEF xTaskResumeAll
  <2> DEFINE back == pc[pxCurrentTCB]
             place == [op |-> "drain", moved |-> FALSE, yielded |-> back.yielded, not |-> back.not]
  <2>2. Goto(place) /\ place.op = "drain" /\ UNCHANGED pxCurrentTCB
    BY <1>7, <2>1 DEF xTaskResumeAll, switchVars
  <2> HIDE DEF place
  <2> QED
    BY <1>4, <2>2
<1>8. CASE ResumeDrained
  <2> DEFINE back == pc[pxCurrentTCB]
             place == [op |-> "ticks", count |-> xPendedTicks, yielded |-> back.yielded, not |-> back.not]
  <2>1. Goto(place) /\ place.op = "ticks" /\ UNCHANGED pxCurrentTCB
    BY <1>8 DEF ResumeDrained, switchVars
  <2> HIDE DEF place
  <2> QED
    BY <1>4, <2>1
<1>9. CASE ResumeTicks \/ \E t \in Task : ResumeDrains(t)
  <2> DEFINE me == pxCurrentTCB
  <2>1. /\ pc[me].op = "drain" => pc[me] \in [op : {"drain"}, moved : BOOLEAN, yielded : Ends, not : Ends]
        /\ pc[me].op = "ticks" => pc[me] \in [op : {"ticks"}, count : Nat, yielded : Ends, not : Ends]
    BY <1>2, PlaceShape
  <2>2. UNCHANGED pxCurrentTCB
    BY <1>9 DEF ResumeTicks, ResumeDrains
  <2>3. CASE ResumeTicks
    <3>1. pc[me].op = "ticks" /\ pc' = [pc EXCEPT ![me].count = @ - 1]
      BY <2>3 DEF ResumeTicks, At
    <3>2. pc'[me].op = "ticks"
      BY <1>2, <2>1, <3>1
    <3> QED
      BY <2>2, <3>2 DEF Masked
  <2>4. CASE \E t \in Task : ResumeDrains(t)
    <3>1. pc[me].op = "drain" /\ pc' = [pc EXCEPT ![me].moved = TRUE]
      BY <2>4 DEF ResumeDrains, At
    <3>2. pc'[me].op = "drain"
      BY <1>2, <2>1, <3>1
    <3> QED
      BY <2>2, <3>2 DEF Masked
  <2> QED
    BY <1>9, <2>3, <2>4
<1>10. CASE ResumeReturns \/ vPortYield
  <2>1. uxSchedulerSuspended = 0
    BY <1>10 DEF ResumeReturns, vPortYield
  <2> QED
    BY <1>10, <2>1 DEF ResumeReturns, vPortYield, vTaskSwitchContext, Keep, switchVars
<1>11. CASE TickCounts
  <2>1. uxSchedulerSuspended = 0 /\ ~Masked
    BY <1>11 DEF TickCounts
  <2>2. \/ UNCHANGED xYieldPendings
        \/ ~xYieldPendings'
    BY <1>11, <2>1 DEF TickCounts, vTaskSwitchContext, Keep, switchVars
  <2> QED
    BY <1>2, <2>1, <2>2 DEF NoYieldLeft
<1> QED
  BY <1>5, <1>6, <1>7, <1>8, <1>9, <1>10, <1>11 DEF Calm

LEMMA SchedulerOrders ==
    ASSUME Steady, Orderly, MutexInv', SchedulerSteps, UNCHANGED xMutexHolder
    PROVE  Orderly'
<1>1. QueueInv /\ IInv /\ Immortal /\ MutexInv /\ Next
  BY DEF Orderly, MutexInv, QueueInv, SchedulerSteps
<1>2. Immortal'
  BY <1>1, ImmortalEndure DEF Endures
<1>3. Leave(Dropped) /\ Departs(Dropped) /\ UNCHANGED lock
  BY <1>1, SchedulerSleepers DEF SchedulerSteps
<1>4. NothingCounted'
  BY <1>3 DEF Orderly, NothingCounted
<1>5. Waiting' = Waiting \ Dropped
  BY <1>3 DEF Departs, Waiting
<1>6. CASE Calm
  <2>1. InOrder'
    BY <1>1, <1>3, <1>6, CalmFacts, OrderStands DEF Orderly
  <2>2. StoppedWait'
    <3>1. Sleeping \cap xSuspendedTaskList = {}
      BY <1>1 DEF IInv, Homes
    <3> QED
      BY <1>1, <1>5, <1>6, <3>1, CalmFacts DEF Orderly, StoppedWait
  <2>3. NoYieldLeft'
    BY <1>1, <1>6, CalmYields DEF Orderly
  <2>4. FreeAtFirst'
    BY <1>1, <1>6, CalmFacts DEF FreeAtFirst
  <2> QED
    BY <1>2, <1>4, <2>1, <2>2, <2>3, <2>4 DEF Orderly
<1>7. CASE xTaskCreateInMain \/ vTaskStartScheduler
  <2>1. ~xSchedulerRunning /\ UNCHANGED <<uxSchedulerSuspended, xYieldPendings, xSuspendedTaskList>>
    BY <1>7 DEF xTaskCreateInMain, CreateBeforeStart, vTaskStartScheduler, NotListed
  <2>2. Waiting = {} /\ xSuspendedTaskList = {}
    BY <1>1, <2>1, NobodyYet DEF IInv, Alive, NotStarted
  <2>3. InOrder'
    BY <1>1, <1>3, <2>2, OrderStands DEF Orderly
  <2>4. StoppedWait' /\ NoYieldLeft' /\ FreeAtFirst'
    BY <2>1, <2>2 DEF Orderly, StoppedWait, NoYieldLeft, FreeAtFirst
  <2> QED
    BY <1>2, <1>4, <2>3, <2>4 DEF Orderly
<1> QED
  BY <1>6, <1>7, SteadySteps

LEMMA OrderlyInit == Steady /\ MutexInit => Orderly
<1> SUFFICES ASSUME MutexInit PROVE Orderly
  OBVIOUS
<1>1. MutexInv
  BY MutexInitHolds
<1>2. Immortal
  BY DEF MutexInit, Init, Immortal
<1>3. InOrder
  <2>1. waiting["receive"] = <<>>
    BY DEF MutexInit, Side
  <2> QED
    BY <2>1 DEF InOrder, Sorted
<1>4. NothingCounted /\ NoYieldLeft /\ StoppedWait /\ FreeAtFirst
  BY DEF MutexInit, Init, NothingCounted, NoYieldLeft, StoppedWait, FreeAtFirst
<1> QED
  BY <1>1, <1>2, <1>3, <1>4 DEF Orderly

LEMMA OrderlyStep ==
    ASSUME Steady, HolderStands, HolderStands'
    PROVE  Orderly /\ MutexNext => Orderly'
<1> SUFFICES ASSUME Orderly, MutexNext PROVE Orderly'
  OBVIOUS
<1>1. MutexInv'
  BY MutexStepKeeps DEF Orderly
<1>2. CASE Takes \/ TakesAgain \/ TakesAtLast \/ MustWait \/ GivesOnce
  BY <1>1, <1>2, TakeOrders
<1>3. CASE Inherits \/ GivesUp
  BY <1>1, <1>3, LendOrders
<1>4. CASE Gives
  BY <1>1, <1>4, GiveOrders
<1>5. CASE WaitSteps \/ TakeFails
  BY <1>1, <1>5, WaitOrders, UnlockOrders, PlaceOrders DEF WaitSteps
<1>6. CASE SchedulerSteps /\ Anew
  BY <1>1, <1>6, SchedulerOrders DEF Anew
<1> QED
  BY <1>2, <1>3, <1>4, <1>5, <1>6 DEF MutexNext
-----------------------------------------------------------------------------
(* What the calls that wait know of the holder.  Who goes into the event   *)
(* list found the mutex taken, and lent its priority before.               *)
Found == In({"inherit", "place"}) => xMutexHolder # NULL
Offered ==
    In({"place"}) =>
        /\ uxPriority[pxCurrentTCB] <= uxPriority[xMutexHolder]
        /\ uxPriority[pxCurrentTCB] > uxBasePriority[xMutexHolder] => pxCurrentTCB \in xInheritanceOccurred

(* Who goes to sleep, or back to try, for another reason than that its     *)
(* time is over has time left, and so has who sleeps.                      *)
TimeLeft ==
    \A t \in Task :
        LET p == Onward(pc[t])
        IN  t \in Waiting \/ (p.op \in Unlocks /\ p.then # "timesOut") => p.time.ticks # 0

(* Whoever waits and is above the base priority of the holder will take    *)
(* its priority back; what the holder borrowed is from such a task; and if *)
(* the holder is below one that waits, such a task is awake.               *)
Owed ==
    xMutexHolder # NULL =>
        \A t \in Waiting : uxPriority[t] > uxBasePriority[xMutexHolder] => t \in xInheritanceOccurred
Borrowed ==
    xMutexHolder # NULL /\ uxPriority[xMutexHolder] > uxBasePriority[xMutexHolder] =>
        \E u \in xInheritanceOccurred : WillSee(u) /\ uxPriority[u] = uxPriority[xMutexHolder]
Carried ==
    xMutexHolder # NULL =>
        \A t \in Waiting :
            \/ uxPriority[t] <= uxPriority[xMutexHolder]
            \/ \E u \in xInheritanceOccurred \ Waiting : WillSee(u) /\ uxPriority[t] <= uxPriority[u]
Loans == Owed /\ Borrowed /\ Carried

(* While the mutex is free and tasks wait, one that was woken is on its    *)
(* way to take it: none that waits is above it, and nobody it is above     *)
(* goes on to run.  The running task may take the mutex first, but only    *)
(* while the scheduler is suspended before those above it lent something.  *)
NextUp(w) ==
    /\ Onward(pc[w]).op = "retry" /\ Onward(pc[w]).time.ticks # 0 /\ w \in Ready \cup xPendingReadyList
    /\ \A t \in Waiting : uxPriority[t] <= uxPriority[w]
    /\ Preempts({w})
    /\ uxSchedulerSuspended > 0 =>
          \A t \in Waiting \cup {w} : uxPriority[t] > uxBasePriority[pxCurrentTCB] => t \in xInheritanceOccurred
Succession == xMutexHolder = NULL /\ Waiting # {} => \E w \in Task \ Waiting : NextUp(w)

LendInv == Orderly /\ TimeLeft /\ Found /\ Offered /\ Loans /\ Succession
-----------------------------------------------------------------------------
(* Nothing is lent or taken back.                                          *)
LEMMA LoansStand ==
    ASSUME Loans, UNCHANGED <<xMutexHolder, uxPriority, uxBasePriority, xInheritanceOccurred>>,
           Waiting' \subseteq Waiting, \A u \in xInheritanceOccurred : WillSee(u) => WillSee(u)'
    PROVE  Loans'
<1>1. Owed'
  BY DEF Loans, Owed
<1>2. Borrowed'
  BY DEF Loans, Borrowed
<1>3. Carried'
  BY DEF Loans, Carried
<1> QED
  BY <1>1, <1>2, <1>3 DEF Loans

(* The running task goes on in its call, or it lent nothing.               *)
LEMMA StaysInCall ==
    ASSUME MutexInv, NEW place, Goto(place),
           pxCurrentTCB \in xInheritanceOccurred =>
              /\ Onward(place).op \in HasTime \cup {"giveUp"}
              /\ Onward(place).op = "retry" => Onward(place).time.ticks # 0
    PROVE  \A u \in xInheritanceOccurred : WillSee(u) => WillSee(u)'
<1>1. pc \in [Task -> Place] /\ xInheritanceOccurred \subseteq Task
  BY DEF MutexInv, MutexTyped, QueueInv, IInv, Typed
<1>2. \A u \in xInheritanceOccurred : pc'[u] = IF u = pxCurrentTCB THEN place ELSE pc[u]
  BY <1>1 DEF Goto
<1> QED
  BY <1>2, CallPlaces DEF WillSee, InCall

(* While tasks may be switched, none of those that wait or are next is     *)
(* above the running task.                                                 *)
LEMMA NoneAbove ==
    ASSUME Orderly, NEW w \in Task, NextUp(w), xSchedulerRunning, uxSchedulerSuspended = 0,
           pc[pxCurrentTCB].op \notin {"yield", "suspended", "created", "resume", "drain", "ticks"}
    PROVE  w \in Ready /\ \A t \in Waiting \cup {w} : uxPriority[t] <= uxPriority[pxCurrentTCB]
<1>1. /\ IInv /\ ~Masked /\ ~WillYield /\ NewOne = {} /\ ~xYieldPendings
  BY NotYielding DEF Orderly, MutexInv, QueueInv, NoYieldLeft, Masked
<1>2. w \in Ready
  BY <1>1 DEF NextUp, IInv, Suspension, NothingLeftPending
<1>3. uxPriority[w] <= uxPriority[pxCurrentTCB]
  BY <1>1, <1>2 DEF NextUp, Preempts
<1>4. ASSUME NEW t \in Waiting PROVE uxPriority[t] <= uxPriority[pxCurrentTCB]
  <2>1. t \in Task /\ \A u \in Task : uxPriority[u] \in Nat
    BY <1>1, WaitersAreNotReady, Comparable DEF Orderly, MutexInv, Live
  <2>2. uxPriority[t] <= uxPriority[w] /\ pxCurrentTCB \in Task
    BY <1>1, Here DEF NextUp
  <2> QED
    BY <1>3, <2>1, <2>2
<1> QED
  BY <1>2, <1>3, <1>4

(* The task that is next stays so in a step of the running task that makes *)
(* nobody ready.                                                           *)
LEMMA NextStays ==
    ASSUME Orderly, xSchedulerRunning, xSchedulerRunning', NEW w \in Task, NextUp(w), w # pxCurrentTCB,
           pc[pxCurrentTCB].op \notin {"yield", "suspended", "created", "resume", "drain", "ticks"},
           NEW place, Goto(place), place.op # "created",
           UNCHANGED <<switchVars, uxPriority, uxBasePriority>>, Waiting' = Waiting, Ready' = Ready,
           xPendingReadyList' = xPendingReadyList,
           \A t \in Waiting \cup {w} : t \in xInheritanceOccurred => t \in xInheritanceOccurred',
           \/ uxSchedulerSuspended' > 0 => uxSchedulerSuspended > 0
           \/ \A t \in Waiting \cup {w} : ~(uxPriority[t] > uxBasePriority[pxCurrentTCB])
    PROVE  NextUp(w)'
<1>1. IInv /\ ~WillYield /\ NewOne = {} /\ pxCurrentTCB \in Task /\ pc \in [Task -> Place]
  BY NotYielding, Here DEF Orderly, MutexInv, QueueInv
<1>2. pc'[w] = pc[w] /\ pc'[pxCurrentTCB] = place
  BY <1>1 DEF Goto
<1>3. pxCurrentTCB' = pxCurrentTCB /\ xYieldPendings' = xYieldPendings
  BY DEF switchVars
<1>4. NewOne' = {}
  BY <1>2, <1>3 DEF NewOne, At
<1>5. Preempts({w})'
  BY <1>1, <1>3, <1>4, NoneRaised DEF NextUp
<1> QED
  BY <1>2, <1>3, <1>5 DEF NextUp

(* A step that leads to no event list; to lend, only if somebody holds it. *)
LEMMA LeadsElsewhere ==
    ASSUME MutexInv, xSchedulerRunning, NEW place, Goto(place), pxCurrentTCB' = pxCurrentTCB,
           place.op # "place", place.op = "inherit" => xMutexHolder' # NULL
    PROVE  Found' /\ Offered'
<1>1. pc \in [Task -> Place] /\ pxCurrentTCB \in Task
  BY Here DEF MutexInv, QueueInv
<1>2. pc'[pxCurrentTCB'] = place
  BY <1>1 DEF Goto
<1> QED
  BY <1>2 DEF Found, Offered, In

(* A reader finds nothing: the mutex is taken.                             *)
LEMMA NotPossible == MutexInv /\ ~Possible("receive") => xMutexHolder # NULL
<1> SUFFICES ASSUME MutexInv, ~(uxMessagesWaiting > 0) PROVE xMutexHolder # NULL
  BY DEF Possible
<1> QED
  BY DEF MutexInv, Agreed, QueueInv, QueueTyped

(* The steps of the wait, but for the one into the event list, move nobody.*)
LEMMA WaitsQuietly ==
    ASSUME Orderly, (WaitSteps /\ ~vTaskPlaceOnEventList) \/ TakeFails
    PROVE  /\ xSchedulerRunning /\ xSchedulerRunning'
           /\ UNCHANGED <<uxPriority, switchVars, xPendingReadyList>> /\ Ready' = Ready /\ Waiting' = Waiting
           /\ pc[pxCurrentTCB].op \in {"retry", "suspend", "lock", "test", "unlock", "unlocked", "recheck"}
           /\ pc[pxCurrentTCB].op = "retry" => ~Possible("receive")
           /\ pc[pxCurrentTCB].op # "suspend" => UNCHANGED uxSchedulerSuspended
           /\ pc[pxCurrentTCB].op = "suspend" => uxSchedulerSuspended = 0
<1>1. MutexInv /\ NothingCounted /\ QueueInv /\ IInv /\ waiting \in [Side -> Seq(Task)]
  BY DEF Orderly, MutexInv, QueueInv, QueueTyped
<1>2. /\ xSchedulerRunning
      /\ pc[pxCurrentTCB].op \in {"retry", "suspend", "lock", "test", "unlock", "unlocked", "recheck"}
  BY VainTry DEF WaitSteps, TakeFails, SuspendsAll, Locks, Tests, UnlocksReceivers, UnlocksSenders, Rechecks, At
<1>3. pc[pxCurrentTCB].op = "suspend" => uxSchedulerSuspended = 0
  BY <1>1, <1>2, TriesWhenReady DEF At
<1>4. pc[pxCurrentTCB].op = "retry" => (RetryMustWait \/ RetryFails) /\ ~Possible("receive")
  <2> SUFFICES ASSUME pc[pxCurrentTCB].op = "retry" PROVE (RetryMustWait \/ RetryFails) /\ ~Possible("receive")
    OBVIOUS
  <2>1. RetryMustWait \/ RetryFails
    BY DEF WaitSteps, TakeFails, SuspendsAll, Locks, Tests, UnlocksReceivers, UnlocksSenders, Rechecks, At
  <2>2. pxCurrentTCB \in Task /\ Onward(pc[pxCurrentTCB]) = pc[pxCurrentTCB]
    BY <1>1, <1>2, Here DEF Onward
  <2>3. pc[pxCurrentTCB].act = "receive"
    BY <1>1, <2>2 DEF MutexInv, TakesOnly, HasTime
  <2> QED
    BY <2>1, <2>3, VainTry
<1>5. CASE UnlocksReceivers \/ UnlocksSenders
  <2>1. Ready' = Ready
    BY <1>1, <1>5, UnlocksQuietly DEF readyVars, Ready
  <2> QED
    BY <1>1, <1>2, <1>3, <1>4, <1>5, <2>1, UnlocksQuietly DEF lifeVars
<1>6. CASE RetryMustWait \/ TakeFails \/ SuspendsAll \/ Locks \/ Tests("inherit") \/ Rechecks(RecheckEnds)
  <2>1. UNCHANGED <<lifeVars, uxPriority, switchVars, xPendingReadyList, readyVars>>
    BY <1>6, VainTry DEF TakeFails, SuspendsAll, Locks, Tests, Rechecks, Stay, Unconcerned, NotListed
  <2>2. Ready' = Ready
    BY <2>1 DEF readyVars, Ready
  <2>3. Waiting' = Waiting
    <3>1. CASE RetryMustWait \/ TakeFails
      <4>1. FirstWaiters("send", 0) = {}
        BY <1>1, FirstWait DEF Side
      <4>2. Leave({})
        BY <3>1, <4>1, VainTry DEF TakeFails, Pop
      <4> QED
        BY <1>1, <4>2, LeaveDeparts DEF Departs, Waiting
    <3>2. CASE ~(RetryMustWait \/ TakeFails)
      <4>1. UNCHANGED waiting
        BY <1>6, <3>2 DEF SuspendsAll, Locks, Tests, Rechecks, Stay
      <4> QED
        BY <4>1 DEF Waiting
    <3> QED
      BY <3>1, <3>2
  <2>4. pc[pxCurrentTCB].op # "suspend" => UNCHANGED uxSchedulerSuspended
    BY <1>6, VainTry DEF TakeFails, SuspendsAll, Locks, Tests, Rechecks, Stay, At
  <2> QED
    BY <1>2, <1>3, <1>4, <2>1, <2>2, <2>3, <2>4 DEF lifeVars
<1> QED
  BY <1>5, <1>6 DEF WaitSteps

(* Only who is out of time and sees an item comes back to try with no time *)
(* left, and then the mutex is free.                                       *)
LEMMA WaitTimes ==
    ASSUME MutexInv, TimeLeft, WaitSteps
    PROVE  \E place :
              /\ Goto(place)
              /\ Onward(place).op = "retry" =>
                    Onward(place).time.ticks # 0 \/ (pc[pxCurrentTCB].op = "recheck" /\ xMutexHolder = NULL)
              /\ Onward(place).op \in Unlocks => Onward(place).then = "timesOut" \/ Onward(place).time.ticks # 0
<1> DEFINE me == pxCurrentTCB
           here == pc[me]
           Timed(p) ==
              /\ Onward(p).op = "retry" => Onward(p).time.ticks # 0 \/ (here.op = "recheck" /\ xMutexHolder = NULL)
              /\ Onward(p).op \in Unlocks => Onward(p).then = "timesOut" \/ Onward(p).time.ticks # 0
<1>1. /\ QueueInv /\ me \in Task /\ here \in Place /\ here.act = "receive"
  BY WaitGoes DEF MutexInv, QueueInv, IInv, Typed
<1>2. ASSUME NEW p, p.op \notin {"retry", "unlock", "unlocked", "yield", "resume", "drain", "ticks"} PROVE Timed(p)
  BY <1>2 DEF Onward, Unlocks
<1>3. ASSUME NEW p, p.op = "unlock" \/ p.op = "unlocked", p.then = "timesOut" \/ p.time.ticks # 0 PROVE Timed(p)
  BY <1>3 DEF Onward, Unlocks
<1>4. /\ \A h : Unlocking(h).op = "unlock" /\ Unlocking(h).then = h /\ Unlocking(h).time = here.time
      /\ \A x : [Unlocking("timesOut") EXCEPT !.time = x].op = "unlock"
                /\ [Unlocking("timesOut") EXCEPT !.time = x].then = "timesOut"
  BY DEF Unlocking, Call
<1>5. here.op \in HasTime /\ here.op \notin Unlocks => \A o : [here EXCEPT !.op = o].op = o
  <2>1. \A x, y, z, o : [CallAt(x, y, z) EXCEPT !.op = o].op = o
    BY DEF CallAt
  <2>2. here.op \in HasTime /\ here.op \notin Unlocks => here = CallAt(here.op, here.act, here.time)
    BY <1>1, QueueShape
  <2> HIDE DEF here
  <2> QED
    BY <2>1, <2>2
<1>6. CASE RetryMustWait \/ SuspendsAll
  <2>1. PICK o \in {"suspend", "lock"} : Goto([here EXCEPT !.op = o]) /\ here.op \in {"retry", "suspend"}
    BY <1>6 DEF RetryMustWait, TriesInVain, SuspendsAll, At, Call
  <2>2. [here EXCEPT !.op = o].op = o
    BY <1>5, <2>1 DEF HasTime, Unlocks
  <2> HIDE DEF here
  <2> QED
    BY <1>2, <2>1, <2>2
<1>7. CASE Locks
  <2> DEFINE over == [Unlocking("timesOut") EXCEPT !.time = Checked(here.time)]
             test == [op |-> "test", act |-> here.act, time |-> Checked(here.time)]
  <2>1. Goto(over) \/ Goto(test)
    BY <1>7 DEF Locks, Call
  <2>2. test.op = "test" /\ over.op = "unlock" /\ over.then = "timesOut"
    BY <1>4
  <2> HIDE DEF over, test
  <2>3. Timed(over) /\ Timed(test)
    BY <1>2, <1>3, <2>2
  <2> QED
    BY <2>1, <2>3
<1>8. CASE Tests("inherit") \/ vTaskPlaceOnEventList
  <2>1. here.time.ticks # 0 /\ here.op \in {"test", "place"}
    BY <1>1, <1>8, EntersWhenReady DEF Tests, vTaskPlaceOnEventList, At
  <2>2. Goto(Unlocking("retries")) \/ Goto(Unlocking("sleeps")) \/ Goto([here EXCEPT !.op = "inherit"])
    BY <1>8 DEF Tests, vTaskPlaceOnEventList, Call
  <2>3. [here EXCEPT !.op = "inherit"].op = "inherit"
    BY <1>5, <2>1 DEF HasTime, Unlocks
  <2> HIDE DEF Timed, here
  <2>4. Timed(Unlocking("retries")) /\ Timed(Unlocking("sleeps")) /\ Timed([here EXCEPT !.op = "inherit"])
    <3>1. \A h : Timed(Unlocking(h))
      BY <1>3, <1>4, <2>1
    <3>2. Timed([here EXCEPT !.op = "inherit"])
      BY <1>2, <2>3
    <3> QED
      BY <3>1, <3>2
  <2>5. PICK q : Goto(q) /\ Timed(q)
    BY <2>2, <2>4
  <2> QED
    BY <2>5 DEF Timed, here
<1>9. ASSUME here.op \in Unlocks PROVE here.then = "timesOut" \/ here.time.ticks # 0
  <2>1. Onward(here) = here
    BY <1>9 DEF Onward, Unlocks
  <2> QED
    BY <1>1, <1>9, <2>1 DEF TimeLeft
<1>10. CASE UnlocksReceivers
  <2>1. here.op = "unlock" /\ Goto([here EXCEPT !.op = "unlocked"])
    BY <1>10 DEF UnlocksReceivers, At, Call
  <2> DEFINE p == UnlockAt("unlocked", here.act, here.time, here.then)
  <2>2. [here EXCEPT !.op = "unlocked"] = p
    <3>1. \A x, y, z : [UnlockAt("unlock", x, y, z) EXCEPT !.op = "unlocked"] = UnlockAt("unlocked", x, y, z)
      BY DEF UnlockAt
    <3>2. here = UnlockAt("unlock", here.act, here.time, here.then)
      BY <1>1, <2>1, QueueShape DEF Unlocks, HasTime
    <3> HIDE DEF here
    <3> QED
      BY <3>1, <3>2
  <2>3. p.op = "unlocked" /\ p.then = here.then /\ p.time = here.time
    BY DEF UnlockAt
  <2>4. here.then = "timesOut" \/ here.time.ticks # 0
    BY <1>9, <2>1 DEF Unlocks
  <2> HIDE DEF p
  <2>5. Timed(p)
    BY <1>3, <2>3, <2>4
  <2> QED
    BY <2>1, <2>2, <2>5
<1>11. CASE UnlocksSenders
  <2> DEFINE again == Back(Call)
             over  == [again EXCEPT !.op = "recheck"]
  <2>1. /\ here.op = "unlocked"
        /\ \/ here.then = "timesOut" /\ Goto(Resuming(over, over))
           \/ here.then # "timesOut" /\ \E y \in {again, YieldingTo(again)} : Goto(Resuming(again, y))
    <3>1. here.then \in {"sleeps", "retries", "timesOut"} /\ Call.act = "receive" /\ Call.then = here.then
      <4>1. here.op = "unlocked"
        BY <1>11 DEF UnlocksSenders, At
      <4> QED
        BY <1>1, <4>1, QueueShape DEF Unlocks, HasTime, Call
    <3> QED
      BY <1>11, <3>1 DEF UnlocksSenders, At
  <2>2. again.op = "retry" /\ again.time = here.time /\ over.op = "recheck"
    BY DEF Back, Call
  <2>3. here.then # "timesOut" => again.time.ticks # 0
    BY <1>9, <2>1, <2>2 DEF Unlocks
  <2> HIDE DEF again, over, here
  <2>4. Onward(Resuming(over, over)) = over /\ \A y \in {again, YieldingTo(again)} : Onward(Resuming(again, y)) = again
    BY <2>2, QueueOnward
  <2>5. Timed(Resuming(over, over))
    BY <2>2, <2>4 DEF Unlocks
  <2>6. here.then # "timesOut" => \A y \in {again, YieldingTo(again)} : Timed(Resuming(again, y))
    BY <2>2, <2>3, <2>4 DEF Unlocks
  <2> HIDE DEF Timed
  <2>7. PICK q : Goto(q) /\ Timed(q)
    BY <2>1, <2>5, <2>6
  <2> QED
    BY <2>7 DEF Timed, here
<1>12. CASE Rechecks(RecheckEnds)
  <2>1. here.op = "recheck" /\ Call.act = "receive"
    BY <1>1, <1>12 DEF Rechecks, At, Call
  <2>2. CASE Possible("receive")
    <3>1. xMutexHolder = NULL
      BY <2>2, MutexAssumption DEF Possible, MutexInv, Agreed, QueueInv, QueueTyped
    <3>2. Goto(Back(Call)) /\ Back(Call).op = "retry"
      BY <1>12, <2>1, <2>2 DEF Rechecks, Back
    <3>3. Onward(Back(Call)) = Back(Call)
      BY <3>2 DEF Onward
    <3> QED
      BY <2>1, <3>1, <3>2, <3>3 DEF Unlocks
  <2>3. CASE ~Possible("receive")
    <3>1. Goto(RecheckEnds) /\ RecheckEnds.op \in {"giveUp", "app"}
      BY <1>12, <2>1, <2>3 DEF Rechecks, RecheckEnds, App
    <3>2. Timed(RecheckEnds)
      BY <1>2, <3>1
    <3> QED
      BY <3>1, <3>2
  <2> QED
    BY <2>2, <2>3
<1> QED
  BY <1>6, <1>7, <1>8, <1>10, <1>11, <1>12 DEF WaitSteps

(* Who sleeps has time left, and so has the running task if it goes on     *)
(* with time left.                                                         *)
LEMMA TimeLeftStands ==
    ASSUME MutexInv, TimeLeft, NEW place, Goto(place), Waiting' \subseteq Waiting \cup {pxCurrentTCB},
           pxCurrentTCB \in Waiting' => Onward(place).time.ticks # 0,
           Onward(place).op \in Unlocks => Onward(place).then = "timesOut" \/ Onward(place).time.ticks # 0
    PROVE  TimeLeft'
<1>1. pc \in [Task -> Place]
  BY DEF MutexInv, QueueInv, IInv, Typed
<1>2. \A t \in Task : pc'[t] = IF t = pxCurrentTCB THEN place ELSE pc[t]
  BY <1>1 DEF Goto
<1> QED
  BY <1>2 DEF TimeLeft

LEMMA TimeLeftStep ==
    ASSUME Orderly, MutexInv', TimeLeft, MutexNext
    PROVE  TimeLeft'
<1> DEFINE me == pxCurrentTCB
<1>1. MutexInv /\ QueueInv /\ IInv
  BY DEF Orderly, MutexInv, QueueInv
<1>2. Onward(App) = App /\ App.op \notin Unlocks
  BY DEF Onward, App, Unlocks
<1>3. ASSUME me \in Ready, Waiting' \subseteq Waiting, NEW place, Goto(place), Onward(place).op \notin Unlocks
      PROVE  TimeLeft'
  BY <1>1, <1>3, WaitersAreNotReady, TimeLeftStands
<1>4. CASE Takes \/ TakesAtLast
  <2>1. me \in Task /\ me \in Ready
    BY <1>1, <1>4, InApp, TriesWhenReady DEF Takes, TakesAtLast, RetrySucceeds, Calling
  <2>2. Perform("receive")
    <3>1. CASE TakesAtLast
      <4>1. At("retry") /\ Perform(pc[me].act) /\ Onward(pc[me]) = pc[me]
        BY <3>1 DEF TakesAtLast, RetrySucceeds, Call, At, Onward
      <4> QED
        BY <1>1, <2>1, <4>1 DEF MutexInv, TakesOnly, HasTime, At
    <3> QED
      BY <1>4, <3>1 DEF Takes
  <2> QED
    BY <1>1, <1>2, <1>3, <2>1, <2>2, TakesQuietly
<1>5. CASE TakeFails
  <2>1. Goto(App) /\ Waiting' = Waiting /\ me \in Ready
    BY <1>1, <1>5, WaitsQuietly, VainTry, TriesWhenReady DEF TakeFails, RetryFails, TriesInVain
  <2> QED
    BY <1>2, <1>3, <2>1
<1>6. CASE GivesUp
  <2>1. /\ pc[me].op = "giveUp" /\ me \in Task /\ Goto(App) /\ UNCHANGED waiting
    BY <1>1, <1>6, Here DEF GivesUp, At, Unmoved
  <2>2. me \in Ready
    BY <1>1, <1>6, <2>1 DEF GivesUp, At, IInv, Away, Leaving, In, Unlocks
  <2>3. Waiting' = Waiting
    BY <2>1 DEF Waiting
  <2> QED
    BY <1>2, <1>3, <2>1, <2>2, <2>3
<1>7. CASE TakesAgain \/ GivesOnce
  <2>1. UNCHANGED <<pc, waiting>>
    BY <1>7 DEF TakesAgain, GivesOnce, queueAll, vars, queueVars
  <2> QED
    BY <2>1 DEF TimeLeft, Waiting
<1>8. CASE MustWait
  <2>1. PICK place : Goto(place) /\ place.op = "suspend"
    BY <1>8 DEF MustWait, CallMustWait
  <2>2. me \in Ready /\ UNCHANGED waiting
    BY <1>1, <1>8, InApp DEF MustWait, CallMustWait, Calling
  <2>3. Waiting' = Waiting /\ Onward(place).op \notin Unlocks
    BY <2>1, <2>2 DEF Waiting, Onward, Unlocks
  <2> QED
    BY <1>3, <2>1, <2>2, <2>3
<1>9. CASE Inherits
  <2>1. me \in Ready /\ pc[me] = CallAt("inherit", pc[me].act, pc[me].time) /\ UNCHANGED waiting
    BY <1>1, <1>9, EntersWhenReady DEF Inherits, Unmoved
  <2> DEFINE place == [pc[me] EXCEPT !.op = "place"]
  <2>2. Goto(place)
    BY <1>9 DEF Inherits, Call
  <2>3. place.op = "place"
    BY <2>1 DEF CallAt
  <2> HIDE DEF place
  <2>4. Waiting' = Waiting /\ Onward(place).op \notin Unlocks
    BY <2>1, <2>3 DEF Waiting, Onward, Unlocks
  <2> QED
    BY <1>3, <2>1, <2>2, <2>4
<1>10. CASE Gives
  <2>1. Departs(FirstWaiters("receive", 1))
    <3>1. WakeFirst("receive", {}) /\ "receive" \in Side /\ xSchedulerRunning
      BY <1>1, <1>10, InApp DEF Gives, Side, Calling
    <3>2. MadeReady("receive") \cup MadePending("receive") = FirstWaiters("receive", 1)
      BY DEF MadeReady, MadePending
    <3> QED
      BY <1>1, <3>1, <3>2, WakesFirst
  <2>2. Waiting' \subseteq Waiting /\ UNCHANGED pc
    BY <1>10, <2>1 DEF Departs, Waiting, Gives
  <2> QED
    BY <2>2 DEF TimeLeft
<1>11. CASE WaitSteps
  <2>1. PICK place :
           /\ Goto(place)
           /\ Onward(place).op = "retry" =>
                 Onward(place).time.ticks # 0 \/ (pc[me].op = "recheck" /\ xMutexHolder = NULL)
           /\ Onward(place).op \in Unlocks => Onward(place).then = "timesOut" \/ Onward(place).time.ticks # 0
    BY <1>1, <1>11, WaitTimes
  <2>2. Waiting' \subseteq Waiting \cup {me} /\ me \in Task /\ (~vTaskPlaceOnEventList => Waiting' = Waiting)
    BY <1>1, <1>11, WaitsQuietly, PlacesLast, WaitGoes
  <2>3. ASSUME me \in Waiting' PROVE Onward(place).time.ticks # 0
    <3>1. PICK side \in Side : me \in ToSet(waiting'[side])
      BY <2>3 DEF Waiting
    <3>2. pc'[me] = place
      BY <1>1, <2>1, <2>2 DEF Goto, IInv, Typed
    <3>3. Onward(place).op = "retry" \/ (Onward(place).op \in Unlocks /\ Onward(place).then = "sleeps")
      BY <3>1, <3>2 DEF MutexInv, QueueInv, WaitersInCall, Entered
    <3>4. pc[me].op # "recheck"
      <4> SUFFICES ASSUME pc[me].op = "recheck" PROVE FALSE
        OBVIOUS
      <4>1. At("recheck") /\ ~vTaskPlaceOnEventList
        BY <1>11 DEF WaitSteps, RetryMustWait, SuspendsAll, Locks, Tests, vTaskPlaceOnEventList, UnlocksReceivers,
           UnlocksSenders, Rechecks, At
      <4>2. me \in Ready /\ me \in Waiting
        BY <1>1, <2>2, <2>3, <4>1, TriesWhenReady
      <4> QED
        BY <1>1, <4>2, WaitersAreNotReady
    <3> QED
      BY <2>1, <3>3, <3>4
  <2> QED
    BY <1>1, <2>1, <2>2, <2>3, TimeLeftStands
<1>12. CASE SchedulerSteps
  <2>1. Waiting' \subseteq Waiting
    <3>1. Departs(Dropped)
      BY <1>1, <1>12, SchedulerSleepers
    <3> QED
      BY <3>1 DEF Departs, Waiting
  <2>2. \A t \in Task : Onward(pc'[t]).op \in HasTime => Onward(pc'[t]) = Onward(pc[t])
    BY <1>1, <1>12, SchedulerLeavesCalls
  <2>3. \A t \in Waiting' : Onward(pc'[t]).op \in HasTime
    BY DEF MutexInv, QueueInv, WaitersInCall, Entered, Waiting, HasTime, Unlocks
  <2>4. Unlocks \subseteq HasTime
    BY DEF Unlocks, HasTime
  <2> QED
    BY <2>1, <2>2, <2>3, <2>4 DEF TimeLeft
<1> QED
  BY <1>4, <1>5, <1>6, <1>7, <1>8, <1>9, <1>10, <1>11, <1>12 DEF MutexNext

LEMMA WaitLends ==
    ASSUME LendInv, Orderly', TimeLeft', WaitSteps, ~vTaskPlaceOnEventList, UNCHANGED mutexVars
    PROVE  LendInv'
<1>1. Orderly /\ MutexInv /\ IInv /\ Loans
  BY DEF LendInv, Orderly, MutexInv, QueueInv
<1>2. PICK place : Goto(place) /\ Follows(place)
  BY <1>1, WaitGoes
<1>3. /\ xSchedulerRunning /\ xSchedulerRunning'
      /\ UNCHANGED <<uxPriority, switchVars, xPendingReadyList>> /\ Ready' = Ready /\ Waiting' = Waiting
      /\ pc[pxCurrentTCB].op \in {"retry", "suspend", "lock", "test", "unlock", "unlocked", "recheck"}
      /\ pc[pxCurrentTCB].op = "retry" => ~Possible("receive")
      /\ pc[pxCurrentTCB].op # "suspend" => UNCHANGED uxSchedulerSuspended
      /\ pc[pxCurrentTCB].op = "suspend" => uxSchedulerSuspended = 0
  BY <1>1, WaitsQuietly
<1>4. pxCurrentTCB' = pxCurrentTCB /\ UNCHANGED <<xMutexHolder, uxBasePriority, xInheritanceOccurred>>
  BY <1>3 DEF switchVars, mutexVars
<1>5. Found' /\ Offered'
  BY <1>1, <1>2, <1>3, <1>4, NotPossible, LeadsElsewhere DEF Follows
<1>6. Loans'
  <2>1. CASE xMutexHolder = NULL
    BY <1>4, <2>1 DEF Loans, Owed, Borrowed, Carried
  <2>2. CASE xMutexHolder # NULL
    <3>1. Onward(place).op = "retry" => Onward(place).time.ticks # 0
      <4>1. PICK p : Goto(p) /\ (Onward(p).op = "retry" => Onward(p).time.ticks # 0)
        BY <1>1, <2>2, WaitTimes DEF LendInv
      <4>2. p = place
        <5>1. pc \in [Task -> Place] /\ pxCurrentTCB \in Task
          BY <1>1, <1>3, Here DEF IInv, Typed
        <5> QED
          BY <1>2, <4>1, <5>1 DEF Goto
      <4> QED
        BY <4>1, <4>2
    <3>2. \A u \in xInheritanceOccurred : WillSee(u) => WillSee(u)'
      BY <1>1, <1>2, <3>1, StaysInCall DEF Follows
    <3> QED
      BY <1>1, <1>3, <1>4, <3>2, LoansStand
  <2> QED
    BY <2>1, <2>2
<1>7. Succession'
  <2> SUFFICES ASSUME xMutexHolder = NULL, Waiting # {} PROVE \E w \in Task \ Waiting : NextUp(w)'
    BY <1>3, <1>4 DEF Succession
  <2>1. PICK w \in Task \ Waiting : NextUp(w)
    BY DEF LendInv, Succession
  <2>2. pc[pxCurrentTCB].op # "retry"
    BY <1>1, <1>3, NotPossible
  <2>3. w # pxCurrentTCB
    BY <1>3, <2>1, <2>2 DEF NextUp, Onward
  <2>4. \/ uxSchedulerSuspended' > 0 => uxSchedulerSuspended > 0
        \/ \A t \in Waiting \cup {w} : ~(uxPriority[t] > uxBasePriority[pxCurrentTCB])
    <3>1. CASE pc[pxCurrentTCB].op # "suspend"
      BY <1>3, <3>1
    <3>2. CASE pc[pxCurrentTCB].op = "suspend"
      <4>1. \A t \in Waiting \cup {w} : uxPriority[t] <= uxPriority[pxCurrentTCB]
        BY <1>1, <1>3, <2>1, <3>2, NoneAbove
      <4>2. pxCurrentTCB \in Task /\ uxPriority[pxCurrentTCB] = uxBasePriority[pxCurrentTCB]
        BY <1>1, <1>3, Here, TaskAssumption DEF MutexInv, Lent
      <4>3. Waiting \cup {w} \subseteq Task /\ \A t \in Task : uxPriority[t] \in Nat
        BY <1>1, <1>3, WaitersAreNotReady, Comparable DEF MutexInv, Live
      <4> QED
        BY <4>1, <4>2, <4>3
    <3> QED
      BY <3>1, <3>2
  <2>5. NextUp(w)'
    BY <1>1, <1>2, <1>3, <1>4, <2>1, <2>3, <2>4, NextStays DEF Follows
  <2> QED
    BY <2>5
<1> QED
  BY <1>5, <1>6, <1>7 DEF LendInv

(* Who goes into the event list lent its priority.                         *)
LEMMA PlaceLends ==
    ASSUME LendInv, Orderly', TimeLeft', vTaskPlaceOnEventList, UNCHANGED mutexVars
    PROVE  LendInv'
<1> DEFINE me == pxCurrentTCB
           place == Unlocking("sleeps")
<1>1. Orderly /\ MutexInv /\ IInv /\ Loans
  BY DEF LendInv, Orderly, MutexInv, QueueInv
<1>2. /\ xSchedulerRunning /\ me \in Task /\ me \notin Waiting
      /\ Waiting' = Waiting \cup {me}
      /\ UNCHANGED <<switchVars, uxPriority>>
  BY <1>1, PlacesLast
<1>3. /\ UNCHANGED <<xMutexHolder, uxBasePriority, xInheritanceOccurred>> /\ pxCurrentTCB' = me
  BY <1>2 DEF mutexVars, switchVars
<1>4. Goto(place) /\ place.op = "unlock" /\ Onward(place) = place
  BY DEF vTaskPlaceOnEventList, Unlocking, Onward
<1>5. In({"place"}) /\ In({"inherit", "place"})
  BY DEF vTaskPlaceOnEventList, At, In
<1>6. /\ xMutexHolder # NULL /\ uxPriority[me] <= uxPriority[xMutexHolder]
      /\ uxPriority[me] > uxBasePriority[xMutexHolder] => me \in xInheritanceOccurred
  BY <1>5 DEF LendInv, Found, Offered
<1> HIDE DEF place
<1>7. Found' /\ Offered'
  BY <1>1, <1>2, <1>3, <1>4, LeadsElsewhere
<1>8. \A u \in xInheritanceOccurred : WillSee(u) => WillSee(u)'
  BY <1>1, <1>4, StaysInCall DEF HasTime
<1>9. Owed' /\ Borrowed'
  BY <1>1, <1>2, <1>3, <1>6, <1>8 DEF Loans, Owed, Borrowed
<1>10. Carried'
  <2> SUFFICES ASSUME NEW t \in Waiting'
               PROVE  \/ uxPriority[t] <= uxPriority[xMutexHolder]
                      \/ \E u \in xInheritanceOccurred \ Waiting' : WillSee(u)' /\ uxPriority[t] <= uxPriority[u]
    BY <1>2, <1>3 DEF Carried
  <2>1. Waiting \subseteq Task /\ xMutexHolder \in Task /\ \A u \in Task : uxPriority[u] \in Nat
    BY <1>1, <1>2, <1>6, WaitersAreNotReady, Comparable DEF MutexInv, MutexTyped, Live
  <2>2. CASE t = me
    BY <1>6, <2>2
  <2>3. CASE t # me
    <3>1. \/ uxPriority[t] <= uxPriority[xMutexHolder]
          \/ \E u \in xInheritanceOccurred \ Waiting : WillSee(u) /\ uxPriority[t] <= uxPriority[u]
      BY <1>1, <1>2, <1>6, <2>3 DEF Loans, Carried
    <3>2. ASSUME uxPriority[t] <= uxPriority[me] PROVE uxPriority[t] <= uxPriority[xMutexHolder]
      BY <1>2, <1>6, <2>1, <2>3, <3>2
    <3> QED
      BY <1>2, <1>8, <3>1, <3>2
  <2> QED
    BY <2>2, <2>3
<1>11. Succession'
  BY <1>3, <1>6 DEF Succession
<1> QED
  BY <1>7, <1>9, <1>10, <1>11 DEF LendInv, Loans

(* The holder counts, or a caller finds the mutex taken.                   *)
LEMMA CountLends ==
    ASSUME LendInv, Orderly', TimeLeft', TakesAgain \/ GivesOnce
    PROVE  LendInv'
<1>1. /\ UNCHANGED <<queueAll, xMutexHolder, uxMutexesHeld, uxBasePriority, xInheritanceOccurred>>
      /\ At("app") /\ xMutexHolder = pxCurrentTCB
  BY DEF TakesAgain, GivesOnce, Calling
<1>2. pxCurrentTCB \in Task /\ pxCurrentTCB # NULL
  BY <1>1, InApp, TaskAssumption DEF LendInv, Orderly, MutexInv, QueueInv
<1>3. UNCHANGED <<pc, pxCurrentTCB, xSchedulerRunning, uxPriority, waiting>>
  BY <1>1 DEF queueAll, queueVars, vars, switchVars, lifeVars
<1>4. Found' /\ Offered'
  BY <1>1, <1>2, <1>3 DEF Found, Offered, In, At
<1>5. Loans'
  BY <1>1, <1>3, LoansStand DEF LendInv, WillSee, InCall, Waiting
<1>6. Succession'
  BY <1>1, <1>2 DEF Succession
<1> QED
  BY <1>4, <1>5, <1>6 DEF LendInv

LEMMA MustWaitLends ==
    ASSUME LendInv, Orderly', TimeLeft', MustWait
    PROVE  LendInv'
<1>1. MutexInv /\ IInv /\ Loans
  BY DEF LendInv, Orderly, MutexInv, QueueInv
<1>2. PICK act \in {"send", "receive", "peek"}, n \in Tick \ {0} :
         /\ <<pxCurrentTCB, act, n>> \in Waits /\ ~Possible(act)
         /\ Goto([op |-> "suspend", act |-> act, time |-> vTaskInternalSetTimeOutState(n)])
  BY DEF MustWait, CallMustWait
<1>3. ~Possible("receive")
  BY <1>2, MutexAssumption
<1> DEFINE place == [op |-> "suspend", act |-> act, time |-> vTaskInternalSetTimeOutState(n)]
<1>4. Goto(place) /\ place.op = "suspend" /\ Onward(place) = place
  BY <1>2 DEF Onward
<1> HIDE DEF place
<1>5. /\ At("app") /\ UNCHANGED mutexVars
      /\ UNCHANGED <<switchVars, waiting, uxPriority>>
  BY DEF MustWait, CallMustWait, Calling, Unconcerned
<1>6. UNCHANGED <<xMutexHolder, uxBasePriority, xInheritanceOccurred, pxCurrentTCB>>
  BY <1>5 DEF mutexVars, switchVars
<1>7. xMutexHolder # NULL
  BY <1>1, <1>3, NotPossible
<1>8. Found' /\ Offered'
  BY <1>1, <1>4, <1>5, <1>6, LeadsElsewhere DEF At
<1>9. Loans'
  <2>1. \A u \in xInheritanceOccurred : WillSee(u) => WillSee(u)'
    BY <1>1, <1>4, StaysInCall DEF HasTime
  <2> QED
    BY <1>1, <1>5, <1>6, <2>1, LoansStand DEF Waiting
<1>10. Succession'
  BY <1>6, <1>7 DEF Succession
<1> QED
  BY <1>8, <1>9, <1>10 DEF LendInv

(* Who tries a last time in vain had nothing to see to any more.           *)
LEMMA TakeFailsLends ==
    ASSUME LendInv, Orderly', TimeLeft', TakeFails
    PROVE  LendInv'
<1> DEFINE me == pxCurrentTCB
<1>1. Orderly /\ MutexInv /\ QueueInv /\ IInv /\ Loans
  BY DEF LendInv, Orderly, MutexInv, QueueInv
<1>2. /\ pc[me].op = "retry" /\ pc[me].time.ticks = 0 /\ Goto(App)
      /\ UNCHANGED <<xMutexHolder, uxBasePriority>> /\ xInheritanceOccurred' = xInheritanceOccurred \ {me}
  BY DEF TakeFails, RetryFails, TriesInVain, At, Call
<1>3. /\ xSchedulerRunning /\ UNCHANGED <<uxPriority, switchVars>> /\ Waiting' = Waiting /\ ~Possible("receive")
  BY <1>1, <1>2, WaitsQuietly
<1>4. me \in Task /\ me \notin Waiting
  <2>1. me \in Task /\ me \in Ready
    BY <1>1, TriesWhenReady DEF TakeFails, RetryFails
  <2> QED
    BY <1>1, <2>1, WaitersAreNotReady
<1>5. xMutexHolder # NULL
  BY <1>1, <1>3, NotPossible
<1>6. pxCurrentTCB' = me
  BY <1>3 DEF switchVars
<1>7. Found' /\ Offered'
  BY <1>1, <1>2, <1>3, <1>6, LeadsElsewhere DEF App
<1>8. ASSUME NEW u \in Task, WillSee(u) PROVE u # me /\ WillSee(u)'
  <2>1. u # me
    BY <1>2, <1>8 DEF WillSee, Onward
  <2>2. pc'[u] = pc[u]
    BY <1>1, <1>2, <2>1 DEF Goto, IInv, Typed
  <2> QED
    BY <1>8, <2>1, <2>2 DEF WillSee, InCall
<1>9. xInheritanceOccurred \subseteq Task
  BY <1>1 DEF MutexInv, MutexTyped
<1> HIDE DEF me
<1>10. Owed'
  BY <1>1, <1>2, <1>3, <1>4 DEF Loans, Owed
<1>11. Borrowed'
  BY <1>1, <1>2, <1>3, <1>8, <1>9 DEF Loans, Borrowed
<1>12. Carried'
  BY <1>1, <1>2, <1>3, <1>8, <1>9 DEF Loans, Carried
<1>13. Succession'
  BY <1>2, <1>5 DEF Succession
<1> QED
  BY <1>7, <1>10, <1>11, <1>12, <1>13 DEF LendInv, Loans

(* Who takes the mutex is not below those that wait, or those above it     *)
(* lent something to the one before, and one of them is awake.             *)
LEMMA TakingLends ==
    ASSUME LendInv, Orderly', TimeLeft', xSchedulerRunning, pc[pxCurrentTCB].op \in {"app", "retry"}, pxCurrentTCB \in Ready,
           Perform("receive"), Taken
    PROVE  LendInv'
<1> DEFINE me == pxCurrentTCB
<1>1. Orderly /\ MutexInv /\ QueueInv /\ IInv
  BY DEF LendInv, Orderly, MutexInv, QueueInv
<1>2. me \in Task /\ pc \in [Task -> Place] /\ me \notin Waiting
  BY <1>1, Here, WaitersAreNotReady
<1>3. /\ Waiting' = Waiting /\ Goto(App) /\ UNCHANGED <<switchVars, uxPriority>>
  BY <1>1, TakesQuietly
<1>4. xMutexHolder = NULL
  BY <1>1, MutexAssumption DEF Perform, Possible, MutexInv, Agreed, QueueInv, QueueTyped
<1>5. /\ xMutexHolder' = me /\ me # NULL /\ xInheritanceOccurred' = xInheritanceOccurred \ {me}
      /\ uxBasePriority' = uxBasePriority /\ pxCurrentTCB' = me
  BY <1>2, <1>3, TaskAssumption DEF Taken, switchVars
<1>6. /\ uxPriority[me] = uxBasePriority[me] /\ Waiting \subseteq Task /\ \A u \in Task : uxPriority[u] \in Nat
  BY <1>1, <1>2, <1>4, <1>5, WaitersAreNotReady, Comparable DEF MutexInv, Lent, Live
<1>7. Found' /\ Offered'
  BY <1>1, <1>3, <1>5, LeadsElsewhere DEF App
<1>8. ASSUME NEW t \in Waiting, uxPriority[t] > uxPriority[me]
      PROVE  /\ t \in xInheritanceOccurred'
             /\ \E u \in xInheritanceOccurred' \ Waiting : WillSee(u)' /\ uxPriority[t] <= uxPriority[u]
  <2>1. PICK w \in Task \ Waiting : NextUp(w)
    BY <1>4, <1>8 DEF LendInv, Succession
  <2>2. /\ uxPriority[t] \in Nat /\ uxPriority[w] \in Nat /\ uxPriority[me] \in Nat
        /\ uxPriority[t] <= uxPriority[w]
    BY <1>2, <1>6, <2>1 DEF NextUp
  <2>3. uxPriority[w] > uxPriority[me] /\ ~(uxPriority[t] <= uxPriority[me])
    BY <1>8, <2>2
  <2>4. uxSchedulerSuspended > 0
    <3>1. uxSchedulerSuspended # 0
      BY <1>1, <2>1, <2>3, NoneAbove
    <3> QED
      BY <1>1, <3>1 DEF IInv, Typed
  <2>5. t \in xInheritanceOccurred /\ w \in xInheritanceOccurred
    BY <1>6, <1>8, <2>1, <2>3, <2>4 DEF NextUp
  <2>6. w # me /\ t # me
    BY <1>2, <2>2, <2>3
  <2>7. WillSee(w)'
    <3>1. pc'[w] = pc[w]
      BY <1>2, <1>3, <2>6 DEF Goto
    <3> QED
      BY <2>1, <3>1 DEF NextUp, WillSee, InCall
  <2> QED
    BY <1>5, <2>1, <2>2, <2>5, <2>6, <2>7
<1>9. Owed'
  BY <1>3, <1>5, <1>6, <1>8 DEF Owed
<1>10. Borrowed'
  BY <1>2, <1>3, <1>5, <1>6 DEF Borrowed
<1>11. Carried'
  <2> SUFFICES ASSUME NEW t \in Waiting
               PROVE  \/ uxPriority[t] <= uxPriority[me]
                      \/ \E u \in xInheritanceOccurred' \ Waiting : WillSee(u)' /\ uxPriority[t] <= uxPriority[u]
    BY <1>3, <1>5 DEF Carried
  <2>1. uxPriority[t] \in Nat /\ uxPriority[me] \in Nat
    BY <1>2, <1>6
  <2> QED
    BY <1>8, <2>1
<1>12. Succession'
  BY <1>5 DEF Succession
<1> QED
  BY <1>7, <1>9, <1>10, <1>11, <1>12 DEF LendInv, Loans

LEMMA TakeLends ==
    ASSUME LendInv, Orderly', TimeLeft', Takes \/ TakesAtLast
    PROVE  LendInv'
<1>1. MutexInv /\ QueueInv /\ IInv
  BY DEF LendInv, Orderly, MutexInv, QueueInv
<1>2. CASE Takes
  <2>1. At("app") /\ Perform("receive") /\ Taken
    BY <1>2 DEF Takes, Calling
  <2>2. pxCurrentTCB \in Ready
    BY <1>1, <2>1, InApp
  <2> QED
    BY <2>1, <2>2, TakingLends DEF At
<1>3. CASE TakesAtLast
  <2>1. At("retry") /\ Perform(pc[pxCurrentTCB].act) /\ Taken
    BY <1>3 DEF TakesAtLast, RetrySucceeds, Call
  <2>2. pxCurrentTCB \in Task /\ pxCurrentTCB \in Ready
    BY <1>1, <2>1, TriesWhenReady
  <2>3. pc[pxCurrentTCB].act = "receive"
    <3>1. Onward(pc[pxCurrentTCB]) = pc[pxCurrentTCB] /\ pc[pxCurrentTCB].op \in HasTime
      BY <2>1 DEF At, Onward, HasTime
    <3> QED
      BY <1>1, <2>2, <3>1 DEF MutexInv, TakesOnly
  <2> QED
    BY <2>1, <2>2, <2>3, TakingLends DEF At
<1> QED
  BY <1>2, <1>3

(* A waiter lends its priority before it sleeps.                           *)
LEMMA InheritsLends ==
    ASSUME LendInv, Orderly', TimeLeft', Inherits
    PROVE  LendInv'
<1> DEFINE me == pxCurrentTCB
           h == xMutexHolder
           place == [Call EXCEPT !.op = "place"]
<1>1. Orderly /\ MutexInv /\ IInv /\ Loans
  BY DEF LendInv, Orderly, MutexInv, QueueInv
<1>2. /\ xSchedulerRunning /\ me \in Task /\ me \in Ready
      /\ pc[me] = CallAt("inherit", pc[me].act, pc[me].time)
  BY <1>1, EntersWhenReady DEF Inherits, MutexInv
<1>3. Goto(place) /\ place.op = "place" /\ Onward(place) = place
  <2>1. place = CallAt("place", pc[me].act, pc[me].time)
    BY <1>2 DEF Call, CallAt
  <2> QED
    BY <2>1 DEF Inherits, CallAt, Onward
<1>4. h # NULL /\ me # h
  <2>1. In({"inherit", "place"}) /\ InCall(me)
    BY <1>2 DEF Inherits, At, In, InCall, Onward
  <2> QED
    BY <1>1, <2>1 DEF LendInv, Found, MutexInv, HolderIsOut
<1>5. /\ uxPriority \in [Task -> Nat] /\ uxBasePriority \in [Task -> Nat] /\ h \in Task /\ xInheritanceOccurred \subseteq Task
      /\ Waiting \subseteq Task /\ me \notin Waiting
  BY <1>1, <1>2, <1>4, PriorityIsNat, WaitersAreNotReady DEF MutexInv, MutexTyped, QueueInv, IInv, Typed, Live
<1>6. /\ xMutexHolder' = h /\ uxBasePriority' = uxBasePriority /\ pxCurrentTCB' = me /\ Waiting' = Waiting
      /\ xSchedulerRunning'
  BY <1>2 DEF Inherits, Unmoved, Undisturbed, switchVars, lifeVars, Waiting
<1>7. \A t \in Task : uxPriority'[t] = IF t = h /\ uxPriority[h] < uxPriority[me] THEN uxPriority[me] ELSE uxPriority[t]
  <2>1. /\ uxPriority[h] < uxPriority[me] => uxPriority' = [uxPriority EXCEPT ![h] = uxPriority[me]]
        /\ ~(uxPriority[h] < uxPriority[me]) => uxPriority' = uxPriority
    BY <1>4 DEF Inherits, Reprioritise
  <2> HIDE DEF me, h
  <2> QED
    BY <1>5, <2>1
<1>8. /\ uxPriority[me] > uxBasePriority[h] => xInheritanceOccurred' = xInheritanceOccurred \cup {me}
      /\ ~(uxPriority[me] > uxBasePriority[h]) => xInheritanceOccurred' = xInheritanceOccurred \ {me}
  BY <1>4 DEF Inherits
<1> HIDE DEF place
<1>9. \A u \in Task : WillSee(u) => WillSee(u)'
  <2>1. pc \in [Task -> Place] /\ \A u \in Task : pc'[u] = IF u = me THEN place ELSE pc[u]
    BY <1>1, <1>3 DEF Goto, IInv, Typed
  <2> QED
    BY <1>3, <2>1 DEF WillSee, InCall
<1>10. \E u \in Task : u = me /\ WillSee(u)'
  <2>1. WillSee(me)
    BY DEF Inherits, At, WillSee, InCall, Onward
  <2> QED
    BY <1>2, <1>9, <2>1
<1>11. \A t \in Task : uxPriority[t] \in Nat /\ uxBasePriority[t] \in Nat
  BY <1>5
<1>12. uxPriority'[h] \in Nat /\ uxPriority[me] <= uxPriority'[h] /\ uxPriority[h] <= uxPriority'[h]
  BY <1>2, <1>5, <1>7, <1>11
<1> HIDE DEF me, h
<1>13. Found'
  BY <1>4, <1>6 DEF Found, h
<1>14. Offered'
  BY <1>2, <1>4, <1>6, <1>7, <1>8, <1>12 DEF Offered, h
<1>15. Owed'
  <2> SUFFICES ASSUME NEW t \in Waiting, uxPriority'[t] > uxBasePriority[h] PROVE t \in xInheritanceOccurred'
    BY <1>6 DEF Owed, h
  <2>1. t # h
    BY <1>1, HolderIsAwake DEF MutexInv, h
  <2>2. uxPriority[t] > uxBasePriority[h] /\ t # me
    BY <1>5, <1>7, <2>1
  <2>3. t \in xInheritanceOccurred
    BY <1>1, <1>4, <2>2 DEF Loans, Owed, h
  <2> QED
    BY <1>8, <2>2, <2>3
<1>16. Borrowed'
  <2> SUFFICES ASSUME uxPriority'[h] > uxBasePriority[h]
               PROVE  \E u \in xInheritanceOccurred' : WillSee(u)' /\ uxPriority'[u] = uxPriority'[h]
    BY <1>6 DEF Borrowed, h
  <2>1. CASE uxPriority[h] < uxPriority[me]
    <3>1. uxPriority'[h] = uxPriority[me] /\ uxPriority'[me] = uxPriority[me]
      BY <1>2, <1>4, <1>5, <1>7, <2>1
    <3> QED
      BY <1>8, <1>10, <3>1
  <2>2. CASE ~(uxPriority[h] < uxPriority[me])
    <3>1. \A t \in Task : uxPriority'[t] = uxPriority[t]
      BY <1>7, <2>2
    <3>2. PICK u \in xInheritanceOccurred : WillSee(u) /\ uxPriority[u] = uxPriority[h]
      BY <1>1, <1>4, <1>5, <3>1 DEF Loans, Borrowed, h
    <3>3. u \in xInheritanceOccurred'
      BY <1>5, <1>8, <3>1, <3>2
    <3> QED
      BY <1>5, <1>9, <3>1, <3>2, <3>3
  <2> QED
    BY <2>1, <2>2
<1>17. Carried'
  <2> SUFFICES ASSUME NEW t \in Waiting
               PROVE  \/ uxPriority'[t] <= uxPriority'[h]
                      \/ \E u \in xInheritanceOccurred' \ Waiting : WillSee(u)' /\ uxPriority'[t] <= uxPriority'[u]
    BY <1>6 DEF Carried, h
  <2>1. t # h /\ t \in Task
    BY <1>1, <1>5, HolderIsAwake DEF MutexInv, h
  <2>2. uxPriority'[t] = uxPriority[t]
    BY <1>7, <2>1
  <2>3. CASE uxPriority[t] <= uxPriority[h]
    BY <1>5, <1>11, <1>12, <2>1, <2>2, <2>3
  <2>4. ASSUME NEW u \in xInheritanceOccurred \ Waiting, WillSee(u), uxPriority[t] <= uxPriority[u]
        PROVE  \/ uxPriority'[t] <= uxPriority'[h]
               \/ u \in xInheritanceOccurred' /\ WillSee(u)' /\ uxPriority'[t] <= uxPriority'[u]
    <3>1. CASE u = me
      BY <1>2, <1>11, <1>12, <2>1, <2>2, <2>4, <3>1
    <3>2. CASE u # me
      <4>1. u # h
        BY <1>1, <1>4, <2>4 DEF MutexInv, HolderIsOut, WillSee, h
      <4> QED
        BY <1>5, <1>7, <1>8, <1>9, <2>2, <2>4, <3>2, <4>1
    <3> QED
      BY <3>1, <3>2
  <2>5. \/ uxPriority[t] <= uxPriority[h]
        \/ \E u \in xInheritanceOccurred \ Waiting : WillSee(u) /\ uxPriority[t] <= uxPriority[u]
    BY <1>1, <1>4 DEF Loans, Carried, h
  <2> QED
    BY <2>3, <2>4, <2>5
<1>18. Succession'
  BY <1>4, <1>6 DEF Succession, h
<1> QED
  BY <1>13, <1>14, <1>15, <1>16, <1>17, <1>18 DEF LendInv, Loans

(* The first that waits is in its call, and none that waits is above it.   *)
LEMMA FirstIsHighest ==
    ASSUME Orderly, TimeLeft, waiting["receive"] # <<>>, NEW w, w = Head(waiting["receive"])
    PROVE  /\ w = waiting["receive"][1] /\ w \in Waiting /\ Onward(pc[w]) \in Entered("receive") /\ WillSee(w)
           /\ Onward(pc[w]).time.ticks # 0
           /\ \A t \in Waiting : uxPriority[t] <= uxPriority[w]
<1>1. MutexInv /\ QueueInv /\ IInv
  BY DEF Orderly, MutexInv, QueueInv
<1>2. waiting["receive"] \in Seq(Task) /\ Waiting = ToSet(waiting["receive"]) /\ Sorted(waiting["receive"], uxPriority)
  BY <1>1, NobodySends DEF QueueInv, QueueTyped, Side, Orderly, InOrder
<1>3. /\ w = waiting["receive"][1] /\ w \in Waiting
      /\ DOMAIN waiting["receive"] = 1 .. Len(waiting["receive"]) /\ Len(waiting["receive"]) \in Nat
  BY <1>2, FirstOf, LenProperties
<1>4. Onward(pc[w]) \in Entered("receive")
  BY <1>1, <1>2, <1>3 DEF QueueInv, WaitersInCall, Side
<1>5. WillSee(w) /\ Onward(pc[w]).time.ticks # 0
  <2>1. w \in Task
    BY <1>1, <1>3, WaitersAreNotReady DEF Live
  <2> QED
    BY <1>3, <1>4, <2>1 DEF TimeLeft, WillSee, InCall, Entered, Unlocks
<1>6. ASSUME NEW t \in Waiting PROVE uxPriority[t] <= uxPriority[w]
  <2>1. PICK i \in DOMAIN waiting["receive"] : waiting["receive"][i] = t
    BY <1>2 DEF ToSet
  <2>2. i \in Nat /\ i >= 1 /\ 1 \in DOMAIN waiting["receive"]
    BY <1>3, <2>1
  <2>3. uxPriority \in [Task -> Nat] /\ w \in Task
    BY <1>1, <1>3, WaitersAreNotReady, PriorityIsNat DEF IInv, Typed, Live
  <2>4. CASE i = 1
    BY <1>3, <2>1, <2>3, <2>4
  <2>5. CASE i # 1
    BY <1>2, <1>3, <2>1, <2>2, <2>5 DEF Sorted
  <2> QED
    BY <2>4, <2>5
<1> QED
  BY <1>3, <1>4, <1>5, <1>6

(* A waiter takes back what it lent, but for what the others ask.          *)
LEMMA GivesUpLends ==
    ASSUME LendInv, Orderly', TimeLeft', GivesUp
    PROVE  LendInv'
<1> DEFINE me == pxCurrentTCB
           h == xMutexHolder
<1>1. Orderly /\ MutexInv /\ QueueInv /\ IInv /\ Loans
  BY DEF LendInv, Orderly, MutexInv, QueueInv
<1>2. /\ xSchedulerRunning /\ pc[me].op = "giveUp" /\ me \in Task /\ Onward(pc[me]) = pc[me]
  BY <1>1, Here DEF GivesUp, At, Onward
<1>3. me \in Ready /\ me \notin Waiting
  <2>1. me \in Ready
    BY <1>1, <1>2 DEF IInv, Away, Leaving, In, Unlocks, At
  <2> QED
    BY <1>1, <2>1, WaitersAreNotReady
<1>4. h = NULL \/ h # me
  BY <1>1, <1>2 DEF MutexInv, HolderIsOut, InCall
<1>5. /\ xMutexHolder' = h /\ uxBasePriority' = uxBasePriority /\ pxCurrentTCB' = me /\ Waiting' = Waiting
      /\ xSchedulerRunning' /\ UNCHANGED <<switchVars, uxSchedulerSuspended, xPendingReadyList>>
  BY <1>2 DEF GivesUp, Unmoved, Undisturbed, NotListed, switchVars, lifeVars, Waiting
<1>6. Goto(App) /\ App.op = "app" /\ xInheritanceOccurred' = xInheritanceOccurred \ {me}
  BY DEF GivesUp, App
<1>7. Found' /\ Offered'
  BY <1>1, <1>2, <1>5, <1>6, LeadsElsewhere
<1>8. CASE h = NULL
  <2>1. UNCHANGED <<uxPriority, readyVars>>
    BY <1>8 DEF GivesUp
  <2>2. Loans'
    BY <1>5, <1>8 DEF Loans, Owed, Borrowed, Carried
  <2>3. Succession'
    <3> SUFFICES ASSUME Waiting # {} PROVE \E w \in Task \ Waiting : NextUp(w)'
      BY <1>5 DEF Succession
    <3>1. PICK w \in Task \ Waiting : NextUp(w)
      BY <1>8 DEF LendInv, Succession
    <3>2. w # me
      BY <1>2, <3>1 DEF NextUp
    <3>3. Ready' = Ready
      BY <2>1 DEF readyVars, Ready
    <3>4. NextUp(w)'
      BY <1>1, <1>2, <1>3, <1>5, <1>6, <2>1, <3>1, <3>2, <3>3, NextStays
    <3> QED
      BY <3>4
  <2> QED
    BY <1>7, <2>2, <2>3 DEF LendInv
<1>9. CASE h # NULL
  <2>1. /\ uxPriority \in [Task -> Nat] /\ uxBasePriority \in [Task -> Nat] /\ h \in Task
        /\ Waiting \subseteq Task /\ h \notin Waiting
    BY <1>1, <1>9, PriorityIsNat, WaitersAreNotReady, HolderIsAwake
       DEF MutexInv, MutexTyped, QueueInv, IInv, Typed, Live
  <2>2. \A t \in Task : uxPriority'[t] = IF t = h THEN PriorityToUse ELSE uxPriority[t]
    <3>1. uxMutexesHeld[h] = 1
      BY <1>1, <2>1 DEF MutexInv, Agreed
    <3>2. \/ Reprioritise(h, PriorityToUse)
          \/ uxPriority' = uxPriority /\ uxPriority[h] = PriorityToUse
      <4>1. IF h # NULL /\ uxPriority[h] # PriorityToUse /\ uxMutexesHeld[h] = 1
            THEN Reprioritise(h, PriorityToUse)
            ELSE UNCHANGED <<uxPriority, readyVars>>
        BY DEF GivesUp
      <4> QED
        BY <1>9, <3>1, <4>1
    <3>3. \/ uxPriority' = [uxPriority EXCEPT ![h] = PriorityToUse]
          \/ uxPriority' = uxPriority /\ uxPriority[h] = PriorityToUse
      BY <3>2 DEF Reprioritise
    <3> HIDE DEF h
    <3> QED
      BY <2>1, <3>3
  <2>3. /\ PriorityToUse \in Nat /\ HighestWaiting \in Nat
        /\ PriorityToUse = IF uxBasePriority[h] >= HighestWaiting THEN uxBasePriority[h] ELSE HighestWaiting
    BY <1>1, <1>9, UseIsPriority, PriorityIsNat
  <2>4. \A t \in Waiting : uxPriority[t] <= HighestWaiting
    <3>1. waiting["receive"] # <<>> => HighestWaiting = uxPriority[Head(waiting["receive"])]
      BY DEF HighestWaiting
    <3>2. waiting["receive"] = <<>> => Waiting = {}
      BY <1>1, NobodySends DEF ToSet
    <3> QED
      BY <1>1, <3>1, <3>2, FirstIsHighest DEF LendInv
  <2> HIDE DEF h, me
  <2>5. Owed'
    <3> SUFFICES ASSUME NEW t \in Waiting, uxPriority'[t] > uxBasePriority[h] PROVE t \in xInheritanceOccurred \ {me}
      BY <1>5, <1>6 DEF Owed, h
    <3>1. uxPriority[t] > uxBasePriority[h] /\ t # me
      BY <1>3, <2>1, <2>2
    <3> QED
      BY <1>1, <1>9, <3>1 DEF Loans, Owed, h
  <2>6. Borrowed'
    <3> SUFFICES ASSUME uxPriority'[h] > uxBasePriority[h]
                 PROVE  \E u \in xInheritanceOccurred \ {me} : WillSee(u)' /\ uxPriority'[u] = uxPriority'[h]
      BY <1>5, <1>6 DEF Borrowed, h
    <3>1. uxPriority'[h] = HighestWaiting /\ HighestWaiting > uxBasePriority[h]
      BY <2>1, <2>2, <2>3
    <3>2. waiting["receive"] # <<>>
      BY <2>1, <3>1 DEF HighestWaiting
    <3>3. PICK u : u = Head(waiting["receive"])
      OBVIOUS
    <3>4. u \in Waiting /\ WillSee(u) /\ uxPriority[u] = HighestWaiting
      BY <1>1, <3>2, <3>3, FirstIsHighest DEF LendInv, HighestWaiting
    <3>5. u \in xInheritanceOccurred
      BY <1>1, <1>9, <3>1, <3>4 DEF Loans, Owed, h
    <3>6. u \in Task /\ u # me /\ u # h
      BY <1>3, <2>1, <3>4
    <3>7. pc'[u] = pc[u]
      BY <1>1, <1>6, <3>6 DEF Goto, IInv, Typed, me
    <3>8. WillSee(u)'
      BY <3>4, <3>7 DEF WillSee, InCall
    <3> QED
      BY <2>2, <3>1, <3>4, <3>5, <3>6, <3>8
  <2>7. Carried'
    <3> SUFFICES ASSUME NEW t \in Waiting PROVE uxPriority'[t] <= uxPriority'[h]
      BY <1>5 DEF Carried, h
    <3>1. uxPriority'[t] = uxPriority[t] /\ uxPriority'[h] = PriorityToUse /\ uxPriority[t] \in Nat /\ uxBasePriority[h] \in Nat
      BY <2>1, <2>2
    <3> QED
      BY <2>3, <2>4, <3>1
  <2>8. Succession'
    BY <1>5, <1>9 DEF Succession, h
  <2> QED
    BY <1>7, <2>5, <2>6, <2>7, <2>8 DEF LendInv, Loans
<1> QED
  BY <1>8, <1>9

(* The mutex becomes free, and who waits first is woken to take it.        *)
LEMMA GivesLends ==
    ASSUME LendInv, Orderly', TimeLeft', Gives
    PROVE  LendInv'
<1> DEFINE me == pxCurrentTCB
           S == MadeReady("receive")
           lists == Moved("receive", AfterFall)
           top == MovedTop("receive")
<1>1. Orderly /\ MutexInv /\ QueueInv /\ IInv /\ Loans
  BY DEF LendInv, Orderly, MutexInv, QueueInv
<1>2. /\ xSchedulerRunning /\ At("app") /\ me \in Ready /\ me \in Task /\ me # Idle /\ xMutexHolder = me
      /\ me \notin Waiting /\ me # NULL
  BY <1>1, InApp, WaitersAreNotReady, TaskAssumption DEF Gives, Calling
<1>3. /\ WakeFirst("receive", {}) /\ "receive" \in Side /\ uxMutexesHeld[me] = 1
      /\ vTaskSwitchContext(lists, top) \/ (Keep(lists, top) /\ ~YieldRequired)
      /\ uxPriority' = Disinherited /\ xMutexHolder' = NULL
      /\ UNCHANGED <<uxSchedulerSuspended, pc, xInheritanceOccurred, uxBasePriority, lifeVars>>
  BY <1>1, <1>2 DEF Gives, Undisturbed, Side, MutexInv, Agreed
<1>4. /\ Disinherited \in [Task -> Priority]
      /\ \A t \in Task : Disinherited[t] = IF t = me THEN uxBasePriority[t] ELSE uxPriority[t]
      /\ Holds(lists, Ready \cup S, Disinherited) /\ Covers(Ready \cup S, Disinherited, top)
  BY <1>1, <1>2, <1>3, GivesReady
<1>5. /\ S \cup MadePending("receive") \subseteq Task
      /\ S \cup MadePending("receive") = FirstWaiters("receive", 1)
      /\ Departs(FirstWaiters("receive", 1))
      /\ xPendingReadyList' = xPendingReadyList \cup MadePending("receive")
  <2>1. S \cup MadePending("receive") = FirstWaiters("receive", 1)
    BY DEF MadeReady, MadePending
  <2> QED
    BY <1>1, <1>2, <1>3, <2>1, WakesFirst DEF Live
<1> HIDE DEF S, lists, top, me
<1>6. /\ Switches(Ready \cup S) /\ (vTaskSwitchContext(lists, top) => Served)
      /\ Ready' = Ready \cup S
  <2>1. Ready \cup S \in SUBSET Task /\ Ready \cup S # {}
    BY <1>1, <1>2, <1>5, ReadyFacts
  <2>2. Switches(Ready \cup S) /\ (vTaskSwitchContext(lists, top) => Served)
    BY <1>1, <1>3, <1>4, <2>1, SwitchReady
  <2> QED
    BY <2>2 DEF Switches, ReadyBecomes
<1>7. Found' /\ Offered'
  <2>1. pc'[pxCurrentTCB'].op \notin {"inherit", "place"}
    <3>1. pxCurrentTCB' \in Task
      BY <1>1, <1>2, <1>5, <1>6, ReadyFacts DEF Switches, me
    <3>2. pc[pxCurrentTCB'].op \notin {"inherit", "place"}
      BY <1>1, <1>2, <3>1 DEF IInv, Suspension, Urgent, AboutToSleep, At
    <3> QED
      BY <1>3, <3>2
  <2> QED
    BY <2>1 DEF Found, Offered, In
<1>8. Loans'
  BY <1>3 DEF Loans, Owed, Borrowed, Carried
<1>9. Waiting' = Waiting \ FirstWaiters("receive", 1)
  BY <1>5 DEF Departs, Waiting
<1>10. Succession'
  <2> SUFFICES ASSUME Waiting' # {} PROVE \E w \in Task \ Waiting' : NextUp(w)'
    BY <1>3 DEF Succession
  <2>1. waiting["receive"] # <<>>
    <3>1. waiting["receive"] = <<>> => Waiting = {}
      BY <1>1, NobodySends DEF ToSet
    <3> QED
      BY <1>9, <3>1
  <2>2. PICK w : w = Head(waiting["receive"])
    OBVIOUS
  <2>3. /\ w = waiting["receive"][1] /\ w \in Waiting /\ Onward(pc[w]) \in Entered("receive")
        /\ Onward(pc[w]).time.ticks # 0 /\ \A t \in Waiting : uxPriority[t] <= uxPriority[w]
    BY <1>1, <2>1, <2>2, FirstIsHighest DEF LendInv
  <2>4. FirstWaiters("receive", 1) = {w}
    BY <1>1, <1>3, <2>1, <2>3, FirstWait DEF QueueInv, QueueTyped
  <2>5. w \in Task /\ w # me /\ w \notin Waiting' /\ Waiting' \cup {w} \subseteq Waiting /\ Waiting \subseteq Task
    BY <1>1, <1>2, <1>9, <2>3, <2>4, WaitersAreNotReady DEF Live
  <2>6. Onward(pc[w]).op = "retry"
    <3>1. CASE Onward(pc[w]).op \in Unlocks
      <4>1. pc[w] \in Place
        BY <1>1, <2>5 DEF IInv, Typed
      <4>2. pc[w].op \in Urgent
        BY <3>1, <4>1, LeadsToItself DEF Unlocks, CallOps, Urgent
      <4> QED
        BY <1>1, <2>5, <4>2 DEF IInv, Suspension, me
    <3> QED
      BY <2>3, <3>1 DEF Entered
  <2>7. w \in Ready' \cup xPendingReadyList'
    BY <1>5, <1>6, <2>4
  <2>8. \A t \in Waiting : uxPriority'[t] = uxPriority[t]
    BY <1>2, <1>3, <1>4, <2>5
  <2>9. Preempts({w})'
    <3>1. xSchedulerRunning'
      BY <1>2, <1>3 DEF lifeVars
    <3>2. CASE vTaskSwitchContext(lists, top)
      BY <1>6, <3>1, <3>2, AfterSwitch
    <3>3. CASE Keep(lists, top) /\ ~YieldRequired
      <4>1. pxCurrentTCB' = me
        BY <3>3 DEF Keep, switchVars, me
      <4>2. uxPriority'[w] <= uxPriority'[me]
        <5>1. ~(uxPriority[w] > Disinherited[me])
          BY <2>1, <2>2, <3>3 DEF YieldRequired, me
        <5>2. uxPriority'[w] = uxPriority[w] /\ uxPriority' \in [Task -> Nat]
          BY <1>3, <1>4, <2>3, <2>8, PriorityIsNat
        <5> QED
          BY <1>2, <1>3, <2>5, <5>1, <5>2
      <4> QED
        BY <3>1, <4>1, <4>2 DEF Preempts
    <3> QED
      BY <1>3, <3>2, <3>3
  <2>10. uxSchedulerSuspended' > 0 =>
            \A t \in Waiting' \cup {w} : uxPriority'[t] > uxBasePriority'[pxCurrentTCB'] => t \in xInheritanceOccurred'
    <3> SUFFICES ASSUME uxSchedulerSuspended > 0, NEW t \in Waiting, uxPriority[t] > uxBasePriority[pxCurrentTCB']
                 PROVE  t \in xInheritanceOccurred
      BY <1>3, <2>5, <2>8
    <3>1. pxCurrentTCB' = me
      <4>1. uxSchedulerSuspended # 0
        BY <1>1 DEF IInv, Typed
      <4> QED
        BY <1>6, <4>1 DEF Switches, me
    <3> QED
      BY <1>1, <1>2, <3>1 DEF Loans, Owed
  <2>11. \A t \in Waiting' : uxPriority'[t] <= uxPriority'[w]
    BY <2>3, <2>5, <2>8
  <2>12. NextUp(w)'
    BY <1>3, <2>6, <2>7, <2>9, <2>10, <2>11, <2>3 DEF NextUp
  <2> QED
    BY <2>5, <2>12
<1> QED
  BY <1>7, <1>8, <1>10 DEF LendInv

(* The scheduler becomes suspended by a call of a task.                    *)
LEMMA CalmSuspends ==
    ASSUME Calm, uxSchedulerSuspended = 0, uxSchedulerSuspended' > 0
    PROVE  At("app")
<1>1. CASE SuspendAll \/ vTaskDelay \/ xTaskCatchUpTicks
  BY <1>1 DEF SuspendAll, vTaskDelay, xTaskCatchUpTicks, Calling
<1>2. CASE xTaskResumeAll
  BY <1>2 DEF xTaskResumeAll
<1>3. CASE \/ ResumeAll \/ CatchUpPends \/ CreateReturns \/ prvIdleTask \/ SuspendReturns \/ DelaySleeps \/ TickPends
           \/ ResumeDrained \/ ResumeTicks \/ ResumeReturns \/ vPortYield \/ TickCounts \/ \E t \in Task : ResumeDrains(t)
  <2>1. UNCHANGED uxSchedulerSuspended
    BY <1>3 DEF ResumeAll, CatchUpPends, CreateReturns, prvIdleTask, SuspendReturns, DelaySleeps, TickPends,
       ResumeDrained, ResumeTicks, ResumeReturns, vPortYield, TickCounts, ResumeDrains
  <2> QED
    BY <2>1
<1> QED
  BY <1>1, <1>2, <1>3 DEF Calm

(* No step moves another task in its call.                                 *)
LEMMA CalmGoes ==
    ASSUME QueueInv, SchedulerSteps, Calm, NEW t \in Task, t # pxCurrentTCB
    PROVE  pc'[t] = pc[t]
<1>1. pc \in [Task -> Place] /\ pxCurrentTCB \in Task
  BY CalmFacts, Here DEF QueueInv
<1>2. ASSUME NEW place, Goto(place) PROVE pc'[t] = pc[t]
  BY <1>1, <1>2 DEF Goto
<1>3. CASE SuspendAll \/ ResumeAll \/ vTaskDelay \/ xTaskCatchUpTicks \/ CatchUpPends \/ prvIdleTask
  BY <1>2, <1>3 DEF SuspendAll, ResumeAll, vTaskDelay, xTaskCatchUpTicks, CatchUpPends, prvIdleTask
<1>4. CASE CreateReturns \/ SuspendReturns \/ DelaySleeps \/ TickPends \/ ResumeDrained \/ xTaskResumeAll
  BY <1>2, <1>4 DEF CreateReturns, SuspendReturns, DelaySleeps, TickPends, ResumeDrained, xTaskResumeAll
<1>5. CASE ResumeReturns \/ vPortYield \/ TickCounts
  BY <1>2, <1>5 DEF ResumeReturns, vPortYield, TickCounts
<1>6. CASE ResumeTicks \/ \E u \in Task : ResumeDrains(u)
  <2>1. \/ pc' = [pc EXCEPT ![pxCurrentTCB].count = @ - 1]
        \/ pc' = [pc EXCEPT ![pxCurrentTCB].moved = TRUE]
    BY <1>6 DEF ResumeTicks, ResumeDrains
  <2> QED
    BY <1>1, <2>1
<1> QED
  BY <1>3, <1>4, <1>5, <1>6 DEF Calm

(* While the scheduler runs calmly, what was lent stays, and who is next.  *)
LEMMA CalmLends ==
    ASSUME LendInv, SchedulerSteps, Calm, UNCHANGED <<xMutexHolder, uxBasePriority, xInheritanceOccurred>>
    PROVE  Loans' /\ Succession'
<1>1. /\ Orderly /\ MutexInv /\ QueueInv /\ IInv /\ Loans /\ Next
      /\ uxSchedulerSuspended \in Nat /\ xInheritanceOccurred \subseteq Task
  BY DEF LendInv, Orderly, MutexInv, MutexTyped, QueueInv, SchedulerSteps, IInv, Typed
<1>2. /\ xSchedulerRunning /\ xSchedulerRunning' /\ UNCHANGED <<uxPriority, lifeVars>>
      /\ \A t \in Ready \cup xPendingReadyList :
            t \in Ready' \cup xPendingReadyList' \/ (t = pxCurrentTCB /\ At("delay"))
  BY <1>1, CalmFacts
<1>3. Waiting' \subseteq Waiting /\ Waiting \subseteq Task /\ \A t \in Task : uxPriority[t] \in Nat
  <2>1. Departs(Dropped)
    BY <1>1, SchedulerSleepers
  <2> QED
    BY <1>1, <1>2, <2>1, WaitersAreNotReady, Comparable DEF Departs, Waiting, Live
<1>4. ASSUME NEW t \in Task, Onward(pc[t]).op \notin Own PROVE Onward(pc'[t]) = Onward(pc[t])
  <2>1. GoesOn(t)
    BY <1>1, OneWayKept
  <2>2. t # pxCurrentTCB => pc'[t] = pc[t]
    BY <1>1, CalmGoes
  <2> QED
    BY <1>4, <2>1, <2>2 DEF GoesOn, Ahead
<1>5. Loans'
  <2>1. \A u \in xInheritanceOccurred : WillSee(u) => WillSee(u)'
    BY <1>1, <1>4 DEF WillSee, InCall, Own
  <2> QED
    BY <1>1, <1>2, <1>3, <2>1, LoansStand
<1>6. Succession'
  <2> SUFFICES ASSUME xMutexHolder = NULL, Waiting' # {} PROVE \E w \in Task \ Waiting' : NextUp(w)'
    BY DEF Succession
  <2>1. PICK w \in Task \ Waiting : NextUp(w)
    BY <1>3 DEF LendInv, Succession
  <2>2. Onward(pc'[w]).op = "retry" /\ Onward(pc'[w]).time.ticks # 0
    BY <1>4, <2>1 DEF NextUp, Own
  <2>3. w \in Ready' \cup xPendingReadyList'
    <3>1. ~(w = pxCurrentTCB /\ At("delay"))
      BY <2>1 DEF NextUp, At, Onward
    <3> QED
      BY <1>2, <2>1, <3>1 DEF NextUp
  <2>4. \A t \in Waiting' : uxPriority'[t] <= uxPriority'[w]
    BY <1>2, <1>3, <2>1 DEF NextUp
  <2>5. Preempts({w})'
    BY <1>1, <2>1, PreemptsKept DEF NextUp
  <2>6. ASSUME uxSchedulerSuspended' > 0, NEW t \in Waiting \cup {w}, uxPriority[t] > uxBasePriority[pxCurrentTCB']
        PROVE  t \in xInheritanceOccurred
    <3>1. pxCurrentTCB' = pxCurrentTCB
      BY <1>1, <2>6, SwitchesUnsuspended
    <3>2. CASE uxSchedulerSuspended > 0
      BY <2>1, <2>6, <3>1, <3>2 DEF NextUp
    <3>3. CASE uxSchedulerSuspended = 0
      <4>1. At("app")
        BY <2>6, <3>3, CalmSuspends
      <4>2. uxPriority[t] <= uxPriority[pxCurrentTCB]
        BY <1>1, <1>2, <2>1, <3>3, <4>1, NoneAbove DEF At
      <4>3. pxCurrentTCB \in Task /\ uxPriority[pxCurrentTCB] = uxBasePriority[pxCurrentTCB]
        BY <1>1, <1>2, Here, TaskAssumption DEF MutexInv, Lent
      <4>4. uxPriority[t] \in Nat /\ uxPriority[pxCurrentTCB] \in Nat
        BY <1>3, <4>3
      <4> QED
        BY <2>6, <3>1, <4>2, <4>3, <4>4
    <3> QED
      BY <1>1, <3>2, <3>3
  <2>7. uxSchedulerSuspended' > 0 =>
           \A t \in Waiting' \cup {w} : uxPriority'[t] > uxBasePriority'[pxCurrentTCB'] => t \in xInheritanceOccurred'
    BY <1>2, <1>3, <2>6
  <2>8. NextUp(w)'
    BY <2>2, <2>3, <2>4, <2>5, <2>7 DEF NextUp
  <2> QED
    BY <1>3, <2>1, <2>8
<1> QED
  BY <1>5, <1>6

LEMMA SchedulerLends ==
    ASSUME Steady, LendInv, Orderly', TimeLeft', SchedulerSteps, Anew
    PROVE  LendInv'
<1>1. Orderly /\ MutexInv /\ QueueInv /\ IInv /\ Next
  BY DEF LendInv, Orderly, MutexInv, QueueInv, SchedulerSteps
<1>2. CASE xTaskCreateInMain \/ vTaskStartScheduler
  <2>1. ~xSchedulerRunning
    BY <1>2 DEF xTaskCreateInMain, CreateBeforeStart, vTaskStartScheduler
  <2>2. Waiting' = {}
    <3>1. Waiting = {}
      BY <1>1, <2>1, NobodyYet
    <3>2. Departs(Dropped)
      BY <1>1, SchedulerSleepers
    <3>3. Waiting' = Waiting \ Dropped
      BY <3>2 DEF Departs, Waiting
    <3> QED
      BY <3>1, <3>3
  <2>3. xMutexHolder' = NULL
    BY <1>1, <2>1 DEF Orderly, FreeAtFirst, Anew
  <2>4. ASSUME NEW ops \in SUBSET {"inherit", "place"}, In(ops)' PROVE FALSE
    <3>1. ops \in SUBSET (CallOps \cap Urgent)
      BY DEF CallOps, Urgent, AboutToSleep
    <3>2. pxCurrentTCB' = pxCurrentTCB /\ In(ops) /\ pc'[pxCurrentTCB'] = pc[pxCurrentTCB]
      BY <1>1, <2>4, <3>1, OneUrgent
    <3> QED
      BY <2>1, <3>2 DEF In
  <2>5. Found' /\ Offered'
    BY <2>4 DEF Found, Offered
  <2>6. Loans' /\ Succession'
    BY <2>2, <2>3 DEF Loans, Owed, Borrowed, Carried, Succession
  <2> QED
    BY <2>5, <2>6 DEF LendInv
<1>3. CASE Calm
  <2>1. UNCHANGED <<xMutexHolder, uxPriority, uxBasePriority, xInheritanceOccurred>>
    <3>1. UNCHANGED uxPriority /\ MadeOrFreed = {}
      BY <1>1, <1>3, CalmFacts DEF lifeVars, MadeOrFreed
    <3>2. uxBasePriority \in [Task -> Priority]
      BY <1>1 DEF MutexInv, MutexTyped
    <3> QED
      BY <3>1, <3>2 DEF Anew
  <2>2. Loans' /\ Succession'
    BY <1>1, <1>3, <2>1, CalmLends
  <2>3. ASSUME NEW ops \in SUBSET {"inherit", "place"}, In(ops)' PROVE pxCurrentTCB' = pxCurrentTCB /\ In(ops)
    <3>1. ops \in SUBSET (CallOps \cap Urgent)
      BY DEF CallOps, Urgent, AboutToSleep
    <3> QED
      BY <1>1, <2>3, <3>1, OneUrgent
  <2>4. Found'
    BY <2>1, <2>3 DEF LendInv, Found
  <2>5. Offered'
    BY <2>1, <2>3 DEF LendInv, Offered
  <2> QED
    BY <2>2, <2>4, <2>5 DEF LendInv
<1> QED
  BY <1>1, <1>2, <1>3, SteadySteps

LEMMA LendInit ==
    ASSUME Steady
    PROVE  MutexInit => LendInv
<1> SUFFICES ASSUME MutexInit PROVE LendInv
  OBVIOUS
<1>1. Orderly
  BY OrderlyInit
<1>2. ~xSchedulerRunning /\ xMutexHolder = NULL /\ QueueInv
  BY <1>1 DEF MutexInit, Init, Orderly, MutexInv
<1>3. Waiting = {}
  BY <1>2, NobodyYet
<1>4. TimeLeft
  <2>1. Onward(App).op \notin Unlocks
    BY DEF Onward, App, Unlocks
  <2>2. \A t \in Task : pc[t] = App
    BY <1>2, NobodyYet
  <2> QED
    BY <1>3, <2>1, <2>2 DEF TimeLeft
<1> QED
  BY <1>1, <1>2, <1>3, <1>4 DEF LendInv, Found, Offered, Loans, Owed, Borrowed, Carried, Succession, In

LEMMA LendStep ==
    ASSUME Steady, HolderStands, HolderStands'
    PROVE  LendInv /\ [MutexNext]_mutexAll => LendInv'
<1>1. ASSUME LendInv, MutexNext PROVE LendInv'
  <2>1. Orderly' /\ TimeLeft'
    BY <1>1, OrderlyStep, TimeLeftStep DEF LendInv, Orderly
  <2>2. CASE Takes \/ TakesAtLast
    BY <1>1, <2>1, <2>2, TakeLends
  <2>3. CASE TakesAgain \/ GivesOnce
    BY <1>1, <2>1, <2>3, CountLends
  <2>4. CASE MustWait
    BY <1>1, <2>1, <2>4, MustWaitLends
  <2>5. CASE Inherits
    BY <1>1, <2>1, <2>5, InheritsLends
  <2>6. CASE GivesUp
    BY <1>1, <2>1, <2>6, GivesUpLends
  <2>7. CASE Gives
    BY <1>1, <2>1, <2>7, GivesLends
  <2>8. CASE WaitSteps /\ UNCHANGED mutexVars
    BY <1>1, <2>1, <2>8, WaitLends, PlaceLends
  <2>9. CASE SchedulerSteps /\ Anew
    BY <1>1, <2>1, <2>9, SchedulerLends
  <2>10. CASE TakeFails
    BY <1>1, <2>1, <2>10, TakeFailsLends
  <2> QED
    BY <1>1, <2>2, <2>3, <2>4, <2>5, <2>6, <2>7, <2>8, <2>9, <2>10 DEF MutexNext
<1>2. ASSUME LendInv, UNCHANGED mutexAll PROVE LendInv'
  <2>1. Orderly'
    <3>1. MutexInv'
      BY <1>2, MutexStutter DEF LendInv, Orderly
    <3> QED
      BY <1>2, <3>1 DEF LendInv, mutexAll, mutexVars, queueAll, queueVars, vars, lifeVars, switchVars, Orderly,
         InOrder, NothingCounted, NoYieldLeft, StoppedWait, FreeAtFirst, Immortal, Waiting, Masked
  <2>2. UNCHANGED <<pc, waiting, pxReadyTasksLists, xPendingReadyList, uxPriority, pxCurrentTCB, xYieldPendings,
                    xSchedulerRunning, uxSchedulerSuspended, xMutexHolder, uxBasePriority, xInheritanceOccurred>>
    BY <1>2 DEF mutexAll, mutexVars, queueAll, queueVars, vars, readyVars, lifeVars, switchVars
  <2>3. Found' /\ Offered'
    BY <1>2, <2>2 DEF LendInv, Found, Offered, In
  <2>4. Loans'
    BY <1>2, <2>2, LoansStand DEF LendInv, WillSee, InCall, Waiting
  <2>5. Succession'
    <3>1. Waiting' = Waiting /\ Ready' = Ready
      BY <2>2 DEF Waiting, Ready
    <3>2. \A w \in Task : NextUp(w) => NextUp(w)'
      BY <2>2, <3>1 DEF NextUp, Preempts, WillYield, NewOne, At
    <3> QED
      BY <1>2, <2>2, <3>1, <3>2 DEF LendInv, Succession
  <2>6. TimeLeft'
    BY <1>2, <2>2 DEF LendInv, TimeLeft, Waiting
  <2> QED
    BY <2>1, <2>3, <2>4, <2>5, <2>6 DEF LendInv
<1> QED
  BY <1>1, <1>2

(* While the scheduler runs the tasks it has, without stopping or deleting *)
(* one of them, what is lent is known to who lent it, and who is to take   *)
(* the mutex next is known to the scheduler, for every number of tasks,    *)
(* priorities and time-outs (xTaskPriorityInherit, xTaskPriorityDisinherit,*)
(* vTaskPriorityDisinheritAfterTimeout).                                   *)
THEOREM MutexLends ==
    ASSUME Steady
    PROVE  MutexSpec => []LendInv
<1>1. MutexInit => LendInv
  BY LendInit
<1>2. HolderStands /\ HolderStands' /\ LendInv /\ [MutexNext]_mutexAll => LendInv'
  BY LendStep
<1>3. MutexSpec => [](MutexInv /\ Immortal /\ HolderStands)
  BY HoldersStand DEF Steady
<1> QED
  BY <1>1, <1>2, <1>3, PTL DEF MutexSpec

(* There is no inversion that lasts: the holder has at least the priority  *)
(* of whoever sleeps for the mutex, or one that lent as much is awake in   *)
(* its call and sees to it (vTaskPriorityDisinheritAfterTimeout).          *)
THEOREM MutexHolderCarriesWaiters ==
    ASSUME Steady
    PROVE  MutexSpec => []HolderCarriesWaiters
<1>1. LendInv => HolderCarriesWaiters
  <2> SUFFICES ASSUME LendInv, xMutexHolder # NULL, NEW t \in Waiting
               PROVE  \/ uxPriority[xMutexHolder] >= uxPriority[t]
                      \/ \E u \in Task \ Waiting : WillSee(u) /\ uxPriority[u] >= uxPriority[t]
    BY DEF HolderCarriesWaiters
  <2>1. /\ xMutexHolder \in Task /\ xInheritanceOccurred \subseteq Task /\ Waiting \subseteq Task
        /\ \A u \in Task : uxPriority[u] \in Nat
    BY PriorityIsNat, WaitersAreNotReady DEF LendInv, Orderly, MutexInv, MutexTyped, QueueInv, IInv, Typed, Live
  <2>2. \/ uxPriority[t] <= uxPriority[xMutexHolder]
        \/ \E u \in xInheritanceOccurred \ Waiting : WillSee(u) /\ uxPriority[t] <= uxPriority[u]
    BY DEF LendInv, Loans, Carried
  <2> QED
    BY <2>1, <2>2
<1>2. MutexSpec => []LendInv
  BY MutexLends
<1> QED
  BY <1>1, <1>2, PTL

(* What was lent comes back: who is above its base priority holds the      *)
(* mutex, and one that lent so much is still in its call                   *)
(* (xTaskPriorityDisinherit, vTaskPriorityDisinheritAfterTimeout).         *)
THEOREM MutexNoStrayPriority ==
    ASSUME Steady
    PROVE  MutexSpec => []NoStrayPriority
<1>1. LendInv => NoStrayPriority
  <2> SUFFICES ASSUME LendInv, NEW t \in Task, uxPriority[t] # uxBasePriority[t]
               PROVE  t = xMutexHolder /\ \E u \in Task : WillSee(u) /\ uxPriority[u] = uxPriority[t]
    BY DEF NoStrayPriority
  <2>1. /\ t = xMutexHolder /\ uxBasePriority[t] <= uxPriority[t] /\ xInheritanceOccurred \subseteq Task
        /\ t # NULL /\ uxPriority[t] \in Nat /\ uxBasePriority[t] \in Nat
    BY PriorityIsNat, TaskAssumption DEF LendInv, Orderly, MutexInv, MutexTyped, Lent, QueueInv, IInv, Typed
  <2>2. uxPriority[t] > uxBasePriority[t]
    BY <2>1
  <2> QED
    BY <2>1, <2>2 DEF LendInv, Loans, Borrowed
<1>2. MutexSpec => []LendInv
  BY MutexLends
<1> QED
  BY <1>1, <1>2, PTL
=============================================================================
