-------------------------------- MODULE Fifo --------------------------------
(***************************************************************************)
(* What a queue promises about its items: what was sent to the back comes  *)
(* out in the order it was sent, what was sent to the front comes out      *)
(* next, and nothing is lost, doubled or invented.  How the items lie in   *)
(* memory is in Ring.                                                      *)
(***************************************************************************)
EXTENDS Integers, Sequences

CONSTANTS Item, NoItem   \* NoItem: nothing was received yet

VARIABLES
    items,   \* from the oldest on
    room,    \* how many items the queue holds
    got      \* what the last reader received

Init ==
    /\ items = <<>>
    /\ room \in Nat \ {0}
    /\ got = NoItem

SendToBack(x) == Len(items) < room /\ items' = Append(items, x)
SendToFront(x) == Len(items) < room /\ items' = <<x>> \o items
Overwrite(x) == room = 1 /\ items' = <<x>>
Peek == items # <<>> /\ got' = items[1] /\ UNCHANGED items
Receive == items # <<>> /\ got' = items[1] /\ items' = Tail(items)
Reset == items' = <<>> /\ UNCHANGED got

Next ==
    /\ UNCHANGED room
    /\ \/ \E x \in Item : (SendToBack(x) \/ SendToFront(x) \/ Overwrite(x)) /\ UNCHANGED got
       \/ Peek \/ Receive \/ Reset

Spec == Init /\ [][Next]_<<items, room, got>>
=============================================================================
