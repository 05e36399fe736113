------------------------------ MODULE MCNotify ------------------------------
(* Two application tasks that wait for and notify each other.              *)
EXTENDS Notify, TLC

CONSTANTS t1, t2
=============================================================================
