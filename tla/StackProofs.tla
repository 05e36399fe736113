----------------------------- MODULE StackProofs -----------------------------
(***************************************************************************)
(* The stack heap: what HeapProofs proves of a heap whose one region is    *)
(* the memory of heapStack.c, said of heapStack.c itself.                  *)
(***************************************************************************)
EXTENDS HeapStack, TLAPS

Place == [addr |-> HeapStart, size |-> HeapSize]

(* The region heap with that region, and without what only heap_5.c keeps: *)
(* call counters, and the data in the blocks.                              *)
Region == INSTANCE HeapProofs WITH
    Regions <- <<Place>>, SizeMax <- 2 * TopBit - 1, Word <- 1, Arrays <- {},
    xNumberOfSuccessfulAllocations <- 0, xNumberOfSuccessfulFrees <- 0, data <- {}

(* No request is so near the mark that the block it gets would reach it.   *)
OffTheMark == \A n \in Requests : n + 3 * H < TopBit \/ n + H >= TopBit

-----------------------------------------------------------------------------
(* The stack heap that HeapProofs speaks of is this one.                   *)

LEMMA SamePlace ==
    /\ <<Place>>[1].addr = HeapStart /\ <<Place>>[1].size = HeapSize
    /\ Region!Stack!EndMarker = EndMarker /\ Region!Stack!Total = Total
<1>1. <<Place>>[1] = Place
  OBVIOUS
<1>2. <<Place>>[1].addr = HeapStart /\ <<Place>>[1].size = HeapSize
  BY <1>1 DEF Place
<1> QED
  BY <1>2 DEF Region!Stack!EndMarker, EndMarker, Region!Stack!Total, Total

LEMMA SameBlocks ==
    /\ \A a, n : Region!Stack!Block(a, n) = Block(a, n)
    /\ \A b : Region!Stack!EndOf(b) = EndOf(b)
    /\ \A b : Region!Stack!Mark(b) = Mark(b) /\ Region!Stack!Unmark(b) = Unmark(b)
    /\ \A b : Region!Stack!IsMarked(b) <=> IsMarked(b)
    /\ \A s : Region!Stack!ToSet(s) = ToSet(s)
  BY DEF Region!Stack!Block, Block, Region!Stack!EndOf, EndOf, Region!Stack!Mark, Mark,
         Region!Stack!Unmark, Unmark, Region!Stack!IsMarked, IsMarked, Region!Stack!ToSet, ToSet

LEMMA SameList ==
    /\ \A s, i, w : Region!Stack!Granted(s, i, w) = Granted(s, i, w)
    /\ \A s, i, w : Region!Stack!ListAfterGrant(s, i, w) = ListAfterGrant(s, i, w)
    /\ \A s, w : Region!Stack!FirstFit(s, w) = FirstFit(s, w)
    /\ \A s, b, end : Region!Stack!Insert(s, b, end) = Insert(s, b, end)
<1>1. \A b, w : Region!Stack!Splits(b, w) = Splits(b, w)
  BY DEF Region!Stack!Splits, Splits, Region!Stack!heapMINIMUM_BLOCK_SIZE, heapMINIMUM_BLOCK_SIZE
<1>2. \A s, i, w : Region!Stack!Granted(s, i, w) = Granted(s, i, w)
  BY <1>1, SameBlocks DEF Region!Stack!Granted, Granted
<1>3. \A s, i, w : Region!Stack!ListAfterGrant(s, i, w) = ListAfterGrant(s, i, w)
  BY <1>1, SameBlocks DEF Region!Stack!ListAfterGrant, ListAfterGrant, Region!Stack!ReplaceAt,
                          ReplaceAt, Region!Stack!RemoveAt, RemoveAt
<1>4. \A s, w : Region!Stack!FirstFit(s, w) = FirstFit(s, w)
  BY DEF Region!Stack!FirstFit, FirstFit, Region!Stack!SelectInSeq, SelectInSeq, Region!Stack!Min, Min
<1>5. ASSUME NEW s, NEW b, NEW end PROVE Region!Stack!Insert(s, b, end) = Insert(s, b, end)
  <2> DEFINE I == {i \in 1 .. Len(s) : s[i].addr < b.addr}
             p == IF I # {} THEN Max(I) ELSE 0
             join(q) ==
                LET joinsPrev == q # 0 /\ EndOf(s[q]) = b.addr
                    before == SubSeq(s, 1, IF joinsPrev THEN q - 1 ELSE q)
                    front  == IF joinsPrev THEN Block(s[q].addr, s[q].size + b.size) ELSE b
                    next   == s[q + 1]
                IN  IF JoinsNext(front, next, end)
                    THEN before \o <<Block(front.addr, front.size + next.size)>>
                                \o SubSeq(s, q + 2, Len(s))
                    ELSE before \o <<front>> \o SubSeq(s, q + 1, Len(s))
  <2>1. /\ SelectLastInSeq(s, LAMBDA x : x.addr < b.addr) = p
        /\ Region!Stack!SelectLastInSeq(s, LAMBDA x : x.addr < b.addr) = p
    BY DEF SelectLastInSeq, Region!Stack!SelectLastInSeq, Max, Region!Stack!Max
  <2>2. Insert(s, b, end) = join(SelectLastInSeq(s, LAMBDA x : x.addr < b.addr))
    BY DEF Insert
  <2>3. \A f, n : Region!Stack!JoinsNext(f, n, end) = JoinsNext(f, n, end)
    BY SameBlocks DEF Region!Stack!JoinsNext, JoinsNext
  <2>4. Region!Stack!Insert(s, b, end) = join(Region!Stack!SelectLastInSeq(s, LAMBDA x : x.addr < b.addr))
    BY <2>3, SameBlocks DEF Region!Stack!Insert
  <2> HIDE DEF p, join
  <2> QED
    BY <2>1, <2>2, <2>4
<1> QED
  BY <1>2, <1>3, <1>4, <1>5

LEMMA SameRequest ==
    /\ Region!Stack!List = List /\ Region!Stack!Bytes = Bytes /\ Region!Stack!Minimum = Minimum
    /\ \A n : Region!Stack!WantedSize(n) = WantedSize(n)
    /\ \A w : Region!Stack!Fit(w) = Fit(w)
<1>1. Region!Stack!FirstCall <=> FirstCall
  BY DEF Region!Stack!FirstCall, FirstCall
<1>2. /\ Region!Stack!List = List /\ Region!Stack!Bytes = Bytes /\ Region!Stack!Minimum = Minimum
  BY <1>1, SamePlace, SameBlocks
  DEF Region!Stack!List, List, Region!Stack!Bytes, Bytes, Region!Stack!Minimum, Minimum
<1>3. \A n : Region!Stack!WantedSize(n) = WantedSize(n)
  BY DEF Region!Stack!WantedSize, WantedSize
<1>4. \A w : Region!Stack!Fit(w) = Fit(w)
  BY <1>2, SameList DEF Region!Stack!Fit, Fit
<1> QED
  BY <1>2, <1>3, <1>4

LEMMA SameNext == Next => Region!Stack!Next
<1>0. \A S : Region!Stack!Cardinality(S) = Cardinality(S)
  BY DEF Region!Stack!Cardinality, Cardinality
<1>1. ASSUME NEW n \in Requests, pvPortMallocStack(n) PROVE Region!Stack!pvPortMallocStack(n)
  BY <1>0, <1>1, SameRequest, SameList, SamePlace, SameBlocks
  DEF pvPortMallocStack, Region!Stack!pvPortMallocStack
<1>2. ASSUME NEW b \in allocated, Release(b) PROVE Region!Stack!Release(b)
  BY <1>2, SameBlocks DEF Release, Region!Stack!Release
<1>3. ASSUME NEW b \in freeing, vPortFreeStack(b) PROVE Region!Stack!vPortFreeStack(b)
  BY <1>3, SameList DEF vPortFreeStack, Region!Stack!vPortFreeStack
<1>4. xPortResetHeapMinimumEverFreeHeapSizeStack =>
         Region!Stack!xPortResetHeapMinimumEverFreeHeapSizeStack
  BY DEF xPortResetHeapMinimumEverFreeHeapSizeStack,
         Region!Stack!xPortResetHeapMinimumEverFreeHeapSizeStack
<1>5. vPortHeapResetStateStack => Region!Stack!vPortHeapResetStateStack
  BY DEF vPortHeapResetStateStack, Region!Stack!vPortHeapResetStateStack
<1> QED
  BY <1>1, <1>2, <1>3, <1>4, <1>5 DEF Next, Region!Stack!Next

LEMMA SameSpec == Spec => Region!Stack!Spec
<1>1. Init => Region!Stack!Init
  BY DEF Init, Region!Stack!Init
<1>2. [Next]_vars => [Region!Stack!Next]_(Region!Stack!vars)
  BY SameNext DEF vars, Region!Stack!vars
<1> QED
  BY <1>1, <1>2, PTL DEF Spec, Region!Stack!Spec

(* The memory of the stack heap is a region as HeapProofs wants it.        *)
LEMMA PlaceIsRegion ==
    ASSUME OffTheMark
    PROVE  /\ Requests \subseteq Nat /\ {} \subseteq Nat \X Nat
           /\ 2 * TopBit - 1 \in Nat /\ 2 * TopBit - 1 > H /\ 1 \in Nat \ {0}
           /\ <<Place>> \in Seq([addr : Nat \ {0}, size : Nat]) /\ <<Place>> # <<>>
           /\ \A i \in DOMAIN <<Place>> : <<Place>>[i].size > H
           /\ \A i, j \in DOMAIN <<Place>> :
                 i < j => <<Place>>[i].addr + <<Place>>[i].size <= <<Place>>[j].addr
           /\ Region!StackPlace /\ Region!OffTheMark
<1>1. Place \in [addr : Nat \ {0}, size : Nat] /\ Place.size > H
  BY StackHeapAssumption, HeaderAssumption DEF Place
<1>2. <<Place>> \in Seq([addr : Nat \ {0}, size : Nat]) /\ <<Place>> # <<>>
  BY <1>1
<1>3. DOMAIN <<Place>> = {1} /\ <<Place>>[1] = Place /\ Len(<<Place>>) = 1
  OBVIOUS
<1>4. Region!StackPlace
  BY <1>3, StackHeapAssumption DEF Region!StackPlace, Place
<1>5. Region!OffTheMark
  BY DEF Region!OffTheMark, OffTheMark
<1> QED
  BY <1>1, <1>2, <1>3, <1>4, <1>5, StackHeapAssumption, HeaderAssumption

-----------------------------------------------------------------------------
(* No two blocks in use overlap, and none overlaps a free block, however   *)
(* calls of pvPortMallocStack and vPortFreeStack interleave: task stacks   *)
(* are apart.                                                              *)
THEOREM TaskStacksApart ==
    ASSUME OffTheMark
    PROVE  Spec => []StacksApart
<1>1. /\ Requests \subseteq Nat /\ {} \subseteq Nat \X Nat
  BY PlaceIsRegion
<1>2. NULL \notin Nat
  BY StackHeapAssumption
<1>3. 2 * TopBit - 1 \in Nat /\ 2 * TopBit - 1 > H /\ 1 \in Nat \ {0}
  BY PlaceIsRegion
<1>4. /\ <<Place>> \in Seq([addr : Nat \ {0}, size : Nat]) /\ <<Place>> # <<>>
      /\ \A i \in DOMAIN <<Place>> : <<Place>>[i].size > H
      /\ \A i, j \in DOMAIN <<Place>> :
            i < j => <<Place>>[i].addr + <<Place>>[i].size <= <<Place>>[j].addr
  BY PlaceIsRegion
<1>5. H \in Nat \ {0} /\ Region!StackPlace /\ Region!OffTheMark
  BY PlaceIsRegion, HeaderAssumption
<1>6. Region!Stack!Spec => []Region!Stack!StacksApart
  BY <1>1, <1>2, <1>3, <1>4, <1>5, Region!TaskStacksApart, PTL
<1>7. Region!Stack!StacksApart => StacksApart
  BY SameBlocks DEF Region!Stack!StacksApart, StacksApart, Region!Stack!InUse, InUse
<1> QED
  BY <1>6, <1>7, SameSpec, PTL

(* Whatever was asked for and given back in whatever order: when nothing   *)
(* is in use, the memory is one free block again, and counted whole.       *)
THEOREM StackBytesComeBack ==
    ASSUME OffTheMark
    PROVE  Spec => []AllBytesReturned
<1>1. /\ Requests \subseteq Nat /\ {} \subseteq Nat \X Nat
  BY PlaceIsRegion
<1>2. NULL \notin Nat
  BY StackHeapAssumption
<1>3. 2 * TopBit - 1 \in Nat /\ 2 * TopBit - 1 > H /\ 1 \in Nat \ {0}
  BY PlaceIsRegion
<1>4. /\ <<Place>> \in Seq([addr : Nat \ {0}, size : Nat]) /\ <<Place>> # <<>>
      /\ \A i \in DOMAIN <<Place>> : <<Place>>[i].size > H
      /\ \A i, j \in DOMAIN <<Place>> :
            i < j => <<Place>>[i].addr + <<Place>>[i].size <= <<Place>>[j].addr
  BY PlaceIsRegion
<1>5. H \in Nat \ {0} /\ Region!StackPlace /\ Region!OffTheMark
  BY PlaceIsRegion, HeaderAssumption
<1>6. Region!Stack!Spec => []Region!Stack!AllBytesReturned
  BY <1>1, <1>2, <1>3, <1>4, <1>5, Region!StackBytesComeBack, PTL
<1>7. Region!Stack!AllBytesReturned => AllBytesReturned
  BY SameBlocks, SamePlace
  DEF Region!Stack!AllBytesReturned, AllBytesReturned, Region!Stack!InUse, InUse,
      Region!Stack!SetUp, SetUp
<1> QED
  BY <1>6, <1>7, SameSpec, PTL
=============================================================================
