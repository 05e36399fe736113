------------------------------ MODULE Periodic ------------------------------
(***************************************************************************)
(* Periodic tasks of tasks.c, over the scheduler: a task keeps the tick    *)
(* count of its last wake-up and asks to be woken a period after it,       *)
(* whatever it did in between.  Both calls compare tick counts that wrap.  *)
(*                                                                         *)
(* A task calls again when the time it keeps has come, and before the tick *)
(* count has gone round since; otherwise it starts anew from the present.  *)
(***************************************************************************)
EXTENDS Scheduler

CONSTANT Periods   \* bound: the periods each task asks for

ASSUME PeriodAssumption == Periods \in [Task -> SUBSET (Tick \ {0})]

VARIABLES
    pxPreviousWakeTime,
    since,   \* history: ticks from the time a task keeps to now, without wrap
    due      \* history: ticks until the call a task is in should return

periodVars == <<pxPreviousWakeTime, since, due>>
periodAll  == <<vars, periodVars>>

PeriodicTask == {t \in Task : Periods[t] # {}}

(* xTaskDelayUntil: is the time to wake still to come?                     *)
FaultyShouldDelay(previous, toWake) == toWake > xTickCount
xShouldDelay(previous, toWake) ==
    IF xTickCount < previous THEN toWake < previous /\ toWake > xTickCount
    ELSE toWake < previous \/ toWake > xTickCount

(* A call suspends the scheduler, so that the tick count stands still,     *)
(* and the task sleeps for n ticks, or yields if it is 0.                  *)
DelayFor(n, previous) ==
    /\ vTaskSuspendAll
    /\ pxPreviousWakeTime' = [pxPreviousWakeTime EXCEPT ![pxCurrentTCB] = previous]
    /\ Goto(IF n > 0 THEN [op |-> "delay", ticks |-> n] ELSE Resuming(App, Yielding))
    /\ UNCHANGED <<NotListed, readyVars, xTickCount, xPendedTicks, switchVars, lifeVars, notifyVars, uxPriority>>

xTaskDelayUntil ==
    /\ Calling /\ MayBlock /\ since[pxCurrentTCB] \in Tick
    /\ \E xTimeIncrement \in Periods[pxCurrentTCB] :
          LET previous == pxPreviousWakeTime[pxCurrentTCB]
              toWake   == (previous + xTimeIncrement) % TickRange
          IN  /\ DelayFor(IF xShouldDelay(previous, toWake) THEN (toWake - xTickCount) % TickRange ELSE 0,
                          toWake)
              /\ since' = [since EXCEPT ![pxCurrentTCB] = @ - xTimeIncrement]
              /\ due' = [due EXCEPT ![pxCurrentTCB] = Max({0, xTimeIncrement - since[pxCurrentTCB]})]

xTaskPeriodicDelay ==
    /\ Calling /\ MayBlock /\ since[pxCurrentTCB] \in Tick
    /\ \E xTimeIncrement \in Periods[pxCurrentTCB] :
          LET previous         == pxPreviousWakeTime[pxCurrentTCB]
              xTicksElapsed    == (xTickCount - previous) % TickRange
              xTicksIncrements == (xTicksElapsed \div xTimeIncrement) * xTimeIncrement
          IN  /\ DelayFor(xTimeIncrement - (xTicksElapsed - xTicksIncrements),
                          (previous + xTicksIncrements) % TickRange)
              /\ since' = [since EXCEPT ![pxCurrentTCB] = @ % xTimeIncrement]
              /\ due' = [due EXCEPT ![pxCurrentTCB] = xTimeIncrement - (since[pxCurrentTCB] % xTimeIncrement)]

(* The application takes the time with xTaskGetTickCount.                  *)
StartsPeriod ==
    /\ Calling /\ pxCurrentTCB \in PeriodicTask
    /\ pxPreviousWakeTime' = [pxPreviousWakeTime EXCEPT ![pxCurrentTCB] = xTickCount]
    /\ since' = [since EXCEPT ![pxCurrentTCB] = 0]
    /\ UNCHANGED <<vars, due>>

(* A step of Scheduler: one that calls vTaskDelay is due after that delay, *)
(* and one that is stopped, resumed or deleted at once.                    *)
Ticks == xTickCount' # xTickCount
SchedulerSteps ==
    /\ Next
    /\ since' = [t \in Task |-> IF Ticks /\ t \in PeriodicTask /\ since[t] < TickRange
                                THEN since[t] + 1 ELSE since[t]]
    /\ due' = [t \in Task |->
          IF Ticks THEN Max({0, due[t] - 1})
          ELSE IF pc[t] = App /\ pc'[t].op = "delay" THEN pc'[t].ticks
          ELSE IF t \in Sleeping \ Sleeping' THEN 0
          ELSE due[t]]
    /\ UNCHANGED pxPreviousWakeTime

PeriodicInit ==
    /\ Init
    /\ pxPreviousWakeTime = [t \in Task |-> 0]
    /\ since = [t \in Task |-> 0] /\ due = [t \in Task |-> 0]

PeriodicNext == xTaskDelayUntil \/ xTaskPeriodicDelay \/ StartsPeriod \/ SchedulerSteps

PeriodicSpec == PeriodicInit /\ [][PeriodicNext]_periodAll
-----------------------------------------------------------------------------
(* A call that delays returns at the tick it asked for, neither before nor *)
(* after: xTaskDelayUntil a period after the time the task kept, or at     *)
(* once if that is past; xTaskPeriodicDelay at the end of the period it is *)
(* in.  So the calls of a periodic task do not drift, however late it is   *)
(* and wherever the tick count wraps.                                      *)
OnTime ==
    \A t \in Task :
        /\ t \in Sleeping => TicksLeft[t] = due[t]
        /\ pc[t] = App /\ t \notin Sleeping => due[t] = 0
=============================================================================
