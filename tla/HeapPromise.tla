----------------------------- MODULE HeapPromise -----------------------------
(***************************************************************************)
(* What an application may rely on from a heap, without a free list: the   *)
(* blocks that are lent out never overlap and stay inside the usable part  *)
(* of one region, and a block is at most Slack bytes larger than needed.   *)
(***************************************************************************)
EXTENDS Naturals

CONSTANTS
    Usable,    \* the address ranges that can be lent: a set of [first, limit]
    H, Slack,
    Requests

VARIABLES lent, open   \* the blocks lent out; whether the heap is set up

Init == lent = {} /\ open = FALSE

Open == ~open /\ open' = TRUE /\ UNCHANGED lent

Apart(b, c) == b.addr + b.size <= c.addr \/ c.addr + c.size <= b.addr

Lend(n) ==
    /\ open
    /\ \E u \in Usable : \E a \in u.first..u.limit : \E extra \in 0..Slack :
          LET b == [addr |-> a, size |-> n + H + extra]
          IN  /\ b.addr + b.size <= u.limit
              /\ \A c \in lent : Apart(b, c)
              /\ lent' = lent \union {b}
    /\ UNCHANGED open

TakeBack(b) == lent' = lent \ {b} /\ UNCHANGED open

\* Starting over is only allowed to forget everything.
Close == open' = FALSE /\ lent' = {}

Next ==
    \/ Open \/ Close
    \/ \E n \in Requests : Lend(n)
    \/ \E b \in lent : TakeBack(b)

Spec == Init /\ [][Next]_<<lent, open>>
=============================================================================
