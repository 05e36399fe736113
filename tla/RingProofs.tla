----------------------------- MODULE RingProofs -----------------------------
(***************************************************************************)
(* Theorems about Ring, for every set of items and every length of the     *)
(* queue: the pointers agree with the count, and the ring is a queue.      *)
(***************************************************************************)
EXTENDS Ring, SequenceTheorems, TLAPS

(* The types of the ring; the pointers' are in PointersMeet.               *)
RingType == uxLength \in Nat \ {0} /\ storage \in [Place -> Item]
IInv == RingType /\ PointersMeet

-----------------------------------------------------------------------------
(* The arithmetic of places.                                               *)

(* Items that are numbered apart, up to the length, lie apart; the last    *)
(* place of all is the one the read pointer shows.                         *)
LEMMA PlacesApart ==
    ASSUME RingType, PointersMeet
    PROVE  /\ \A i \in 1 .. uxLength : PlaceOf(i) \in Place
           /\ \A i, j \in 1 .. uxLength : PlaceOf(i) = PlaceOf(j) => i = j
           /\ PlaceOf(uxLength) = pcReadFrom
           /\ PlaceOf(1) = After(pcReadFrom)
           /\ \A i \in 1 .. uxLength - 1 : PlaceOf(i + 1) = After(PlaceOf(i))
           /\ uxMessagesWaiting < uxLength => pcWriteTo = PlaceOf(uxMessagesWaiting + 1)
  BY SMTT(30) DEF RingType, PointersMeet, PlaceOf, Place, After

(* When the read pointer moves on, every item is one place nearer to it;   *)
(* when it moves back, one place farther.                                  *)
LEMMA PlacesMove ==
    ASSUME RingType, pcReadFrom \in Place, UNCHANGED uxLength
    PROVE  /\ pcReadFrom' = After(pcReadFrom) =>
                 pcReadFrom' \in Place /\ \A i \in 1 .. uxLength - 1 : PlaceOf(i)' = PlaceOf(i + 1)
           /\ pcReadFrom' = Before(pcReadFrom) =>
                 /\ pcReadFrom' \in Place
                 /\ After(pcReadFrom)' = pcReadFrom
                 /\ PlaceOf(1)' = pcReadFrom
                 /\ \A i \in 1 .. uxLength - 1 : PlaceOf(i + 1)' = PlaceOf(i)
  BY SMTT(30) DEF RingType, PlaceOf, Place, After, Before

-----------------------------------------------------------------------------
(* The pointers agree with the count.                                      *)

LEMMA RingIsEmpty == Init => IInv
  BY RingAssumption DEF Init, IInv, RingType, PointersMeet, Place, PlaceOf, After

LEMMA RingStep == ASSUME IInv, [Next]_ringVars PROVE IInv'
<1> USE DEF IInv
<1>1. ASSUME NEW item \in Item, SendToBack(item) PROVE IInv'
  BY <1>1, PlacesApart DEF SendToBack, RingType, PointersMeet, Place, PlaceOf, After
<1>2. ASSUME NEW item \in Item, SendToFront(item) PROVE IInv'
  BY <1>2, PlacesApart, PlacesMove
  DEF SendToFront, ToReadFrom, RingType, PointersMeet, Place, PlaceOf, After, Before
<1>3. ASSUME NEW item \in Item, Overwrite(item) PROVE IInv'
  BY <1>3 DEF Overwrite, ToReadFrom, RingType, PointersMeet, Place, PlaceOf, After, Before
<1>4. ASSUME Peek PROVE IInv'
  BY <1>4 DEF Peek, RingType, PointersMeet, Place, PlaceOf, After
<1>5. ASSUME Receive PROVE IInv'
  BY <1>5 DEF Receive, RingType, PointersMeet, Place, PlaceOf, After
<1>6. ASSUME xQueueGenericReset PROVE IInv'
  BY <1>6 DEF xQueueGenericReset, RingType, PointersMeet, Place, PlaceOf, After
<1>7. ASSUME UNCHANGED ringVars PROVE IInv'
  BY <1>7 DEF ringVars, RingType, PointersMeet, Place, PlaceOf, After
<1> QED
  BY <1>1, <1>2, <1>3, <1>4, <1>5, <1>6, <1>7 DEF Next

LEMMA RingInductive == Spec => []IInv
  BY RingIsEmpty, RingStep, PTL DEF Spec

(* The count of items tells where the pointers are, however the calls that *)
(* send to the back, send to the front, receive, peek, overwrite and reset *)
(* are mixed and wherever the ring closes (prvCopyDataToQueue,             *)
(* prvCopyDataFromQueue, xQueueGenericReset).                              *)
THEOREM PointersAlwaysMeet == Spec => []PointersMeet
  BY RingInductive, PTL DEF IInv

-----------------------------------------------------------------------------
(* The ring is a queue: what each call does to the sequence of items.      *)

ItemsLieInOrder ==
    /\ Items \in Seq(Item) /\ Len(Items) = uxMessagesWaiting
    /\ \A i \in 1 .. uxMessagesWaiting : Items[i] = storage[PlaceOf(i)]
LEMMA ItemsAreASequence == IInv => ItemsLieInOrder
<1> SUFFICES ASSUME IInv PROVE ItemsLieInOrder
  OBVIOUS
<1>1. uxMessagesWaiting \in Nat /\ uxMessagesWaiting <= uxLength
  BY DEF IInv, RingType, PointersMeet
<1>2. \A i \in 1 .. uxMessagesWaiting : storage[PlaceOf(i)] \in Item
  BY <1>1, PlacesApart DEF IInv, RingType
<1>3. Items \in [1 .. uxMessagesWaiting -> Item]
  BY <1>2 DEF Items
<1>4. Items \in Seq(Item)
  BY <1>1, <1>3, SeqDef
<1>5. DOMAIN Items = 1 .. uxMessagesWaiting
  BY DEF Items
<1> QED
  BY <1>1, <1>4, <1>5, LenProperties DEF Items, ItemsLieInOrder
LEMMA ItemsStayASequence == IInv' => ItemsLieInOrder'
  BY ItemsAreASequence, PTL

LEMMA SentToBack ==
    ASSUME IInv, IInv', NEW item \in Item, SendToBack(item)
    PROVE  Items' = Append(Items, item)
<1>1. /\ uxMessagesWaiting \in Nat /\ uxMessagesWaiting < uxLength /\ uxLength \in Nat
      /\ pcWriteTo = PlaceOf(uxMessagesWaiting + 1)
  BY PlacesApart DEF SendToBack, IInv, RingType, PointersMeet
<1>2. \A i \in 1 .. uxMessagesWaiting + 1 : PlaceOf(i)' = PlaceOf(i)
  BY DEF SendToBack, PlaceOf
<1>3. \A i \in 1 .. uxMessagesWaiting :
         storage'[PlaceOf(i)'] = storage[PlaceOf(i)]
  BY <1>1, <1>2, PlacesApart DEF SendToBack, IInv, RingType
<1>4. \A i \in 1 .. uxLength : i = uxMessagesWaiting + 1 => storage'[PlaceOf(i)'] = item
  BY <1>1, <1>2, PlacesApart DEF SendToBack, IInv, RingType
<1>5. /\ Items' \in Seq(Item) /\ Len(Items') = uxMessagesWaiting + 1
      /\ \A i \in 1 .. uxMessagesWaiting + 1 : Items'[i] = storage'[PlaceOf(i)']
  BY ItemsStayASequence DEF ItemsLieInOrder, SendToBack
<1>6. /\ Items \in Seq(Item) /\ Len(Items) = uxMessagesWaiting
      /\ \A i \in 1 .. uxMessagesWaiting : Items[i] = storage[PlaceOf(i)]
  BY ItemsAreASequence DEF ItemsLieInOrder
<1>7. \A i \in 1 .. uxMessagesWaiting + 1 : Items'[i] = Append(Items, item)[i]
  <2> SUFFICES ASSUME NEW i \in 1 .. uxMessagesWaiting + 1
               PROVE  Items'[i] = Append(Items, item)[i]
    OBVIOUS
  <2>0. i \in 1 .. uxMessagesWaiting \/ i = uxMessagesWaiting + 1
    BY <1>1
  <2>1. CASE i \in 1 .. uxMessagesWaiting
    BY <2>1, <1>1, <1>3, <1>5, <1>6, AppendProperties
  <2>2. CASE i = uxMessagesWaiting + 1
    BY <2>2, <1>1, <1>4, <1>5, <1>6, AppendProperties
  <2> QED
    BY <2>0, <2>1, <2>2
<1> QED
  BY <1>5, <1>6, <1>7, SeqEqual, AppendProperties

LEMMA SentToFront ==
    ASSUME IInv, IInv', NEW item \in Item, SendToFront(item)
    PROVE  Items' = <<item>> \o Items
<1>1. /\ uxMessagesWaiting \in Nat /\ uxMessagesWaiting < uxLength /\ uxLength \in Nat
      /\ uxLength' = uxLength /\ pcReadFrom \in Place
  BY DEF SendToFront, ToReadFrom, IInv, RingType, PointersMeet
<1>2. /\ PlaceOf(1)' = pcReadFrom
      /\ \A i \in 1 .. uxMessagesWaiting : PlaceOf(i + 1)' = PlaceOf(i)
  BY <1>1, PlacesMove DEF SendToFront, ToReadFrom, IInv
<1>3. \A i \in 1 .. uxMessagesWaiting : PlaceOf(i) \in Place /\ PlaceOf(i) # pcReadFrom
  BY <1>1, PlacesApart DEF IInv
<1>4. /\ storage'[PlaceOf(1)'] = item
      /\ \A i \in 1 .. uxMessagesWaiting : storage'[PlaceOf(i + 1)'] = storage[PlaceOf(i)]
  BY <1>1, <1>2, <1>3 DEF SendToFront, ToReadFrom, IInv, RingType
<1>5. /\ Items' \in Seq(Item) /\ Len(Items') = uxMessagesWaiting + 1
      /\ \A i \in 1 .. uxMessagesWaiting + 1 : Items'[i] = storage'[PlaceOf(i)']
  BY ItemsStayASequence DEF ItemsLieInOrder, SendToFront
<1>6. /\ Items \in Seq(Item) /\ Len(Items) = uxMessagesWaiting
      /\ \A i \in 1 .. uxMessagesWaiting : Items[i] = storage[PlaceOf(i)]
  BY ItemsAreASequence DEF ItemsLieInOrder
<1>7. /\ <<item>> \o Items \in Seq(Item) /\ Len(<<item>> \o Items) = uxMessagesWaiting + 1
      /\ (<<item>> \o Items)[1] = item
      /\ \A i \in 1 .. uxMessagesWaiting : (<<item>> \o Items)[i + 1] = Items[i]
  BY <1>1, <1>6
<1>8. Items'[1] = item /\ \A i \in 1 .. uxMessagesWaiting : Items'[i + 1] = Items[i]
  BY <1>1, <1>4, <1>5, <1>6
<1>9. \A i \in 1 .. uxMessagesWaiting + 1 : Items'[i] = (<<item>> \o Items)[i]
  <2> SUFFICES ASSUME NEW i \in 1 .. uxMessagesWaiting + 1
               PROVE  Items'[i] = (<<item>> \o Items)[i]
    OBVIOUS
  <2>1. CASE i = 1
    BY <2>1, <1>7, <1>8
  <2>2. CASE i # 1
    <3>1. i - 1 \in 1 .. uxMessagesWaiting /\ i = (i - 1) + 1
      BY <1>1, <2>2
    <3> QED
      BY <3>1, <1>7, <1>8
  <2> QED
    BY <2>1, <2>2
<1> QED
  BY <1>5, <1>7, <1>9, SeqEqual

LEMMA Received ==
    ASSUME IInv, IInv', Receive
    PROVE  Items' = Tail(Items) /\ Items # <<>> /\ pvBuffer' = Items[1]
<1>1. /\ uxMessagesWaiting \in Nat /\ uxMessagesWaiting > 0 /\ uxMessagesWaiting <= uxLength
      /\ uxLength \in Nat /\ uxLength' = uxLength /\ pcReadFrom \in Place
  BY DEF Receive, IInv, RingType, PointersMeet
<1>2. /\ PlaceOf(1) = After(pcReadFrom)
      /\ \A i \in 1 .. uxMessagesWaiting - 1 : PlaceOf(i)' = PlaceOf(i + 1)
  BY <1>1, PlacesApart, PlacesMove DEF Receive, IInv
<1>3. /\ Items' \in Seq(Item) /\ Len(Items') = uxMessagesWaiting - 1
      /\ \A i \in 1 .. uxMessagesWaiting - 1 : Items'[i] = storage'[PlaceOf(i)']
  BY ItemsStayASequence DEF ItemsLieInOrder, Receive
<1>4. /\ Items \in Seq(Item) /\ Len(Items) = uxMessagesWaiting
      /\ \A i \in 1 .. uxMessagesWaiting : Items[i] = storage[PlaceOf(i)]
  BY ItemsAreASequence DEF ItemsLieInOrder
<1>5. \A i \in 1 .. uxMessagesWaiting - 1 : Items'[i] = Items[i + 1]
  BY <1>1, <1>2, <1>3, <1>4 DEF Receive
<1>6. Items # <<>>
  BY <1>1, <1>4, EmptySeq
<1> QED
  BY <1>1, <1>2, <1>3, <1>4, <1>5, <1>6, SeqEqual, HeadTailProperties DEF Receive

LEMMA Overwritten ==
    ASSUME IInv, IInv', NEW item \in Item, Overwrite(item)
    PROVE  Items' = <<item>>
<1>1. uxLength = 1 /\ uxLength' = 1 /\ uxMessagesWaiting' = 1 /\ pcReadFrom = 0 /\ Place = {0}
  BY DEF Overwrite, ToReadFrom, IInv, RingType, PointersMeet, Place
<1>2. PlaceOf(1)' = pcReadFrom
  BY <1>1, PlacesMove DEF Overwrite, ToReadFrom, IInv, PointersMeet
<1>3. Items' \in Seq(Item) /\ Len(Items') = 1 /\ Items'[1] = storage'[PlaceOf(1)']
  BY <1>1, ItemsStayASequence DEF ItemsLieInOrder
<1>4. storage'[PlaceOf(1)'] = item
  BY <1>1, <1>2 DEF Overwrite, ToReadFrom, IInv, RingType
<1> QED
  BY <1>3, <1>4, SeqEqual

(* Peek and reset, and what an empty queue is.                             *)
LEMMA EmptyOrNot ==
    ASSUME IInv
    PROVE  (uxMessagesWaiting = 0 => Items = <<>>) /\ (uxMessagesWaiting > 0 => Items # <<>>)
  BY ItemsAreASequence, EmptySeq DEF ItemsLieInOrder
LEMMA Emptied ==
    ASSUME IInv', xQueueGenericReset
    PROVE  Items' = <<>>
<1>1. Items' \in Seq(Item) /\ Len(Items') = 0
  BY ItemsStayASequence DEF ItemsLieInOrder, xQueueGenericReset
<1> QED
  BY <1>1, EmptySeq

-----------------------------------------------------------------------------
(* The refinement.                                                         *)

LEMMA FifoFromTheStart == Init => InOrder!Init
<1> SUFFICES ASSUME Init PROVE InOrder!Init
  OBVIOUS
<1>1. IInv
  BY RingIsEmpty
<1>2. Items = <<>>
  BY <1>1, EmptyOrNot DEF Init
<1> QED
  BY <1>1, <1>2 DEF Init, InOrder!Init, IInv, RingType

LEMMA FifoStep ==
    ASSUME IInv, IInv', [Next]_ringVars
    PROVE  [InOrder!Next]_<<Items, uxLength, pvBuffer>>
<1>0. Len(Items) = uxMessagesWaiting /\ uxMessagesWaiting \in Nat
  BY ItemsAreASequence DEF ItemsLieInOrder, IInv, PointersMeet, RingType
<1>1. ASSUME NEW item \in Item, SendToBack(item) PROVE InOrder!Next
  BY <1>0, <1>1, SentToBack DEF SendToBack, InOrder!Next, InOrder!SendToBack
<1>2. ASSUME NEW item \in Item, SendToFront(item) PROVE InOrder!Next
  BY <1>0, <1>2, SentToFront DEF SendToFront, ToReadFrom, InOrder!Next, InOrder!SendToFront
<1>3. ASSUME NEW item \in Item, Overwrite(item) PROVE InOrder!Next
  BY <1>3, Overwritten DEF Overwrite, ToReadFrom, InOrder!Next, InOrder!Overwrite
<1>4. ASSUME Peek PROVE InOrder!Next
  <2>1. Items[1] = storage[After(pcReadFrom)]
    BY <1>4, PlacesApart, ItemsAreASequence DEF Peek, ItemsLieInOrder, IInv, RingType, PointersMeet
  <2>2. UNCHANGED Items
    BY <1>4 DEF Peek, Items, PlaceOf
  <2> QED
    BY <1>4, <2>1, <2>2, EmptyOrNot DEF Peek, InOrder!Next, InOrder!Peek
<1>5. ASSUME Receive PROVE InOrder!Next
  BY <1>5, Received DEF Receive, InOrder!Next, InOrder!Receive
<1>6. ASSUME xQueueGenericReset PROVE InOrder!Next
  BY <1>6, Emptied DEF xQueueGenericReset, InOrder!Next, InOrder!Reset
<1>7. ASSUME UNCHANGED ringVars PROVE UNCHANGED <<Items, uxLength, pvBuffer>>
  BY <1>7 DEF ringVars, Items, PlaceOf
<1> QED
  BY <1>1, <1>2, <1>3, <1>4, <1>5, <1>6, <1>7 DEF Next

(* The ring keeps the order of its items: what is received was sent, each  *)
(* item once, from the back in the order of sending and from the front     *)
(* before all others, for every set of items and every length of the queue *)
(* (xQueueGenericSend, xQueueReceive, xQueuePeek and their ISR forms).     *)
THEOREM OrderIsKept == Spec => KeepsOrder
  BY RingInductive, FifoFromTheStart, FifoStep, PTL DEF Spec, KeepsOrder, InOrder!Spec
=============================================================================
