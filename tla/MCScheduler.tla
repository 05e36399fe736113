---------------------------- MODULE MCScheduler ----------------------------
(* Two application tasks and the idle task, on a tick count that wraps.    *)
EXTENDS SchedulerProofs, TLC

CONSTANTS t1, t2

MCSymmetry == Permutations({t1, t2})
=============================================================================
