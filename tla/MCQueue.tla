------------------------------ MODULE MCQueue ------------------------------
(* Two application tasks that send to, receive from and wait for each other *)
(* and for interrupts.                                                      *)
EXTENDS Queue, TLC

CONSTANTS t1, t2

MCWaits == {<<t1, "receive", 2>>, <<t2, "peek", 3>>, <<t1, "send", 3>>}

(* What is never read again is left out: the wake time of a task that is    *)
(* awake, and the time of day when no task sleeps or has a time-out.        *)
Timed(place) == "time" \in DOMAIN place /\ place.time.ticks \notin {0, portMAX_DELAY}
MCView == <<pxCurrentTCB, readyVars, pxDelayedTaskList, pxOverflowDelayedTaskList,
            [t \in Sleeping |-> xItemValue[t]],
            IF Sleeping = {} /\ \A t \in Task : ~Timed(Onward(pc[t]))
            THEN xPendedTicks ELSE <<timeVars, xNumOfOverflows>>,
            xYieldPendings, lifeVars, notifyVars, xSuspendedTaskList, xPendingReadyList, uxPriority,
            uxSchedulerSuspended, pc, uxMessagesWaiting, waiting, lock, served, left>>

(* The two tasks main creates: both are above the idle task.                *)
MCPriorities == xSchedulerRunning => Live = Task /\ uxPriority[t1] = 1 /\ uxPriority[t2] = 1
=============================================================================
