----------------------------- MODULE MCHeapStack -----------------------------
(* The stack heap at its real place and size, with requests large enough to *)
(* fill it with a few blocks.                                               *)
EXTENDS HeapStack
=============================================================================
