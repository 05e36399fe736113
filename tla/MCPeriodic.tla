----------------------------- MODULE MCPeriodic -----------------------------
(* Two application tasks and the idle task, on a tick count that wraps.     *)
EXTENDS Periodic, TLC

CONSTANTS t1, t2

MCPeriods == [t \in Task |-> IF t = t1 THEN {2, 3} ELSE {}]

(* The two tasks main creates: the second is above the first, or beside it. *)
MCPriorities == xSchedulerRunning => Live = Task /\ uxPriority[t2] = 1
=============================================================================
