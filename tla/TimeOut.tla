------------------------------- MODULE TimeOut -------------------------------
(***************************************************************************)
(* Time-outs of tasks.c: how a call that blocks several times knows how    *)
(* long it may still wait.  It notes the tick count and the number of its  *)
(* overflows when it starts, and later compares both.                      *)
(***************************************************************************)
EXTENDS Scheduler

CONSTANT OverflowRange   \* values of xNumOfOverflows, 2^16 in the build

ASSUME OverflowAssumption == OverflowRange \in Nat /\ OverflowRange > 1

VARIABLE xNumOfOverflows

(* taskSWITCH_DELAYED_LISTS, when the tick count returns to zero.          *)
CountOverflows ==
    xNumOfOverflows' = IF xTickCount' < xTickCount THEN (xNumOfOverflows + 1) % OverflowRange
                       ELSE xNumOfOverflows

(* A time-out: what is left to wait, from when on.  For a wait without end *)
(* and for one that is over, from when on is never read: it is zero.       *)
vTaskInternalSetTimeOutState(ticks) ==
    LET read == ticks \notin {0, portMAX_DELAY}
    IN  [ticks |-> ticks, xTimeOnEntering |-> IF read THEN xTickCount ELSE 0,
         xOverflowCount |-> IF read THEN xNumOfOverflows ELSE 0]

xElapsedTime(c) == (xTickCount - c.xTimeOnEntering) % TickRange

FaultyTimedOut(c) ==
    /\ c.ticks # portMAX_DELAY
    /\ xElapsedTime(c) >= c.ticks \/ xNumOfOverflows # c.xOverflowCount
TimedOut(c) ==
    /\ c.ticks # portMAX_DELAY
    /\ \/ xNumOfOverflows # c.xOverflowCount /\ xTickCount >= c.xTimeOnEntering
       \/ xElapsedTime(c) >= c.ticks

(* The time-out as xTaskCheckForTimeOut leaves it.                         *)
Checked(c) ==
    IF c.ticks = portMAX_DELAY THEN c
    ELSE IF TimedOut(c) THEN vTaskInternalSetTimeOutState(0)
    ELSE vTaskInternalSetTimeOutState(c.ticks - xElapsedTime(c))
=============================================================================
