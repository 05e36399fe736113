------------------------------- MODULE Sleep -------------------------------
(***************************************************************************)
(* What the kernel's clock promises to tasks that sleep: a task told to    *)
(* sleep for n ticks wakes at the n-th tick that is counted, unless it is  *)
(* roused before, and no tick that came is lost.  How the kernel keeps     *)
(* time, with a count that wraps, two lists and a recorded wake time, is   *)
(* in Kernel.                                                              *)
(***************************************************************************)
EXTENDS Integers

CONSTANTS Task, Longest   \* the longest sleep

VARIABLES
    left,      \* ticks each task still has to sleep, 0: awake
    backlog    \* ticks that came and are not counted yet

Init ==
    /\ left = [t \in Task |-> 0]
    /\ backlog = 0

Asleep == {t \in Task : left[t] > 0}

Sleep(t, n) == left' = [left EXCEPT ![t] = n] /\ UNCHANGED backlog

Rouse(S) ==
    /\ left' = [t \in Task |-> IF t \in S THEN 0 ELSE left[t]]
    /\ UNCHANGED backlog

Count == left' = [t \in Task |-> IF left[t] > 0 THEN left[t] - 1 ELSE 0]

Tick == backlog = 0 /\ Count /\ UNCHANGED backlog
Defer == backlog' > backlog /\ UNCHANGED left
CatchUp == backlog > 0 /\ Count /\ backlog' = backlog - 1

Next ==
    \/ \E t \in Task, n \in 1 .. Longest : left[t] = 0 /\ Sleep(t, n)
    \/ \E S \in SUBSET Asleep : Rouse(S)
    \/ Tick \/ CatchUp
    \/ Defer

Spec == Init /\ [][Next]_<<left, backlog>>
=============================================================================
