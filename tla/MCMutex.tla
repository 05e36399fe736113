------------------------------ MODULE MCMutex ------------------------------
(* Three application tasks that share a mutex.                              *)
EXTENDS Mutex, TLC

CONSTANTS t1, t2, t3

(* The time of t2 and of t3 may run out, so that either gives up while the *)
(* other waits, and t3 may overtake t2 when it tries a last time.           *)
MCWaits == {<<t1, "receive", 2>>, <<t2, "receive", 1>>, <<t3, "receive", 1>>}

(* What main creates: three tasks of three priorities.                      *)
MCThree == xSchedulerRunning =>
    Live = Task /\ uxBasePriority[t1] = 0 /\ uxBasePriority[t2] = 1 /\ uxBasePriority[t3] = 2

(* One of them takes the mutex again while it has it.                       *)
MCNests == uxRecursiveCallCount > 1 => xMutexHolder = t2

(* What is never read again is left out: the wake time of a task that is    *)
(* awake, and the time of day when no task sleeps or has a time-out.  Of    *)
(* two values of xNumOfOverflows, a time-out asks only whether it has       *)
(* changed.                                                                 *)
Timed(place) == "time" \in DOMAIN place /\ place.time.ticks \notin {0, portMAX_DELAY}
Changed(place) ==
    IF Timed(place) THEN [place EXCEPT !.time.xOverflowCount = (@ # xNumOfOverflows)] ELSE place
Then(place) ==
    IF place.op = "yield" THEN [place EXCEPT !.next = Changed(@)] ELSE Changed(place)
Seen(place) ==
    IF place.op \in {"resume", "drain", "ticks"}
    THEN [place EXCEPT !.yielded = Then(@), !.not = Then(@)] ELSE Then(place)
MCView == <<pxCurrentTCB, readyVars, pxDelayedTaskList, pxOverflowDelayedTaskList,
            [t \in Sleeping |-> xItemValue[t]],
            IF Sleeping = {} /\ \A t \in Task : ~Timed(Onward(pc[t]))
            THEN xPendedTicks ELSE timeVars,
            xYieldPendings, lifeVars, notifyVars, xSuspendedTaskList, xPendingReadyList, uxPriority,
            uxSchedulerSuspended, [t \in Task |-> Seen(pc[t])], uxMessagesWaiting, waiting, lock,
            served, mutexVars>>
=============================================================================
