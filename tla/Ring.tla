-------------------------------- MODULE Ring --------------------------------
(***************************************************************************)
(* Where queue.c keeps the items of a queue: a ring of uxLength places,    *)
(* with one pointer to the place to write next and one to the place that   *)
(* was read last.  Sending to the front moves the read pointer back.  The  *)
(* pointers are counted in items.  All of this happens in critical         *)
(* sections; which of the calls may go on is in Queue.                     *)
(***************************************************************************)
EXTENDS Integers, Sequences

CONSTANTS Item, NoItem, Lengths   \* Lengths: bound on uxLength

ASSUME RingAssumption == Lengths \subseteq Nat \ {0} /\ NoItem \notin Item

VARIABLES
    uxLength,
    uxMessagesWaiting,
    pcWriteTo, pcReadFrom,
    storage,     \* the memory from pcHead to pcTail
    pvBuffer     \* what the last reader received

ringVars == <<uxLength, uxMessagesWaiting, pcWriteTo, pcReadFrom, storage, pvBuffer>>

Place == 0 .. uxLength - 1
After(place) == IF place + 1 >= uxLength THEN 0 ELSE place + 1
FaultyBefore(place) == IF place = 0 THEN 0 ELSE place - 1
Before(place) == IF place - 1 < 0 THEN uxLength - 1 ELSE place - 1

(* prvInitialiseNewQueue; the memory holds anything.                       *)
Init ==
    /\ uxLength \in Lengths
    /\ uxMessagesWaiting = 0
    /\ pcWriteTo = 0
    /\ pcReadFrom = uxLength - 1
    /\ storage \in [Place -> Item]
    /\ pvBuffer = NoItem

(* prvCopyDataToQueue.                                                     *)
SendToBack(item) ==
    /\ uxMessagesWaiting < uxLength
    /\ storage' = [storage EXCEPT ![pcWriteTo] = item]
    /\ pcWriteTo' = After(pcWriteTo)
    /\ uxMessagesWaiting' = uxMessagesWaiting + 1
    /\ UNCHANGED <<uxLength, pcReadFrom, pvBuffer>>
ToReadFrom(item) ==
    /\ storage' = [storage EXCEPT ![pcReadFrom] = item]
    /\ pcReadFrom' = Before(pcReadFrom)
    /\ UNCHANGED <<uxLength, pcWriteTo, pvBuffer>>
SendToFront(item) ==
    /\ uxMessagesWaiting < uxLength
    /\ ToReadFrom(item)
    /\ uxMessagesWaiting' = uxMessagesWaiting + 1
Overwrite(item) ==
    /\ uxLength = 1
    /\ ToReadFrom(item)
    /\ uxMessagesWaiting' = (IF uxMessagesWaiting > 0 THEN uxMessagesWaiting - 1 ELSE 0) + 1

(* prvCopyDataFromQueue; a peek puts the read pointer back.                *)
Peek ==
    /\ uxMessagesWaiting > 0
    /\ pvBuffer' = storage[After(pcReadFrom)]
    /\ UNCHANGED <<uxLength, uxMessagesWaiting, pcWriteTo, pcReadFrom, storage>>
Receive ==
    /\ uxMessagesWaiting > 0
    /\ pcReadFrom' = After(pcReadFrom)
    /\ pvBuffer' = storage[After(pcReadFrom)]
    /\ uxMessagesWaiting' = uxMessagesWaiting - 1
    /\ UNCHANGED <<uxLength, pcWriteTo, storage>>

xQueueGenericReset ==
    /\ uxMessagesWaiting' = 0
    /\ pcWriteTo' = 0
    /\ pcReadFrom' = uxLength - 1
    /\ UNCHANGED <<uxLength, storage, pvBuffer>>

Next ==
    \/ \E item \in Item : SendToBack(item) \/ SendToFront(item) \/ Overwrite(item)
    \/ Peek \/ Receive \/ xQueueGenericReset

Spec == Init /\ [][Next]_ringVars
-----------------------------------------------------------------------------
(* The place of the i-th item: the items lie behind the read pointer, and  *)
(* the place to write is behind them, also where the ring closes and       *)
(* whichever end the items came in at (prvCopyDataToQueue,                 *)
(* prvCopyDataFromQueue).                                                  *)
PlaceOf(i) == IF pcReadFrom + i < uxLength THEN pcReadFrom + i ELSE pcReadFrom + i - uxLength
PointersMeet ==
    /\ uxMessagesWaiting \in 0 .. uxLength
    /\ pcReadFrom \in Place
    /\ pcWriteTo = IF uxMessagesWaiting = uxLength THEN After(pcReadFrom)
                   ELSE PlaceOf(uxMessagesWaiting + 1)

(* The ring implements the queue of Fifo: items come out in the order of   *)
(* their sending, those sent to the front first, and nothing is lost,      *)
(* doubled or overwritten (xQueueGenericSend, xQueueReceive, xQueuePeek).  *)
Items == [i \in 1 .. uxMessagesWaiting |-> storage[PlaceOf(i)]]
InOrder == INSTANCE Fifo WITH items <- Items, room <- uxLength, got <- pvBuffer
KeepsOrder == InOrder!Spec
=============================================================================
