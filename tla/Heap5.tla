-------------------------------- MODULE Heap5 --------------------------------
(***************************************************************************)
(* The region heap of heap_5.c: pvPortMalloc, pvPortCalloc, vPortFree,     *)
(* vPortDefineHeapRegions and vPortHeapResetState.                         *)
(*                                                                         *)
(* The list is only touched between vTaskSuspendAll and xTaskResumeAll and *)
(* no interrupt handler allocates, so such a section is one step.  What    *)
(* the code does outside the section is a step of its own: vPortFree marks *)
(* the block free and clears it before it suspends the scheduler.          *)
(* vPortGetHeapStats and the getters only read.                            *)
(*                                                                         *)
(* A definition called FaultyX is X with a plausible bug (see FreeList).   *)
(***************************************************************************)
EXTENDS FreeList, Integers, FiniteSets

CONSTANTS
    Regions,   \* the array given to vPortDefineHeapRegions: <<[addr, size]>>
    SizeMax,   \* largest size_t
    Word,      \* the call counters wrap at this value
    NULL,
    Requests,  \* bound: the sizes the application asks for
    Arrays     \* bound: the <<xNum, xSize>> it asks pvPortCalloc for

ASSUME RegionsAssumption ==
    /\ Regions \in Seq([addr : Nat \ {0}, size : Nat]) /\ Regions # <<>>
    /\ \A i \in DOMAIN Regions : Regions[i].size > H
    /\ \A i, j \in DOMAIN Regions :
          i < j => Regions[i].addr + Regions[i].size <= Regions[j].addr

ASSUME WidthAssumption == SizeMax \in Nat /\ SizeMax > H /\ Word \in Nat \ {0}

ASSUME AddressAssumption == NULL \notin Nat

ASSUME RequestAssumption == Requests \subseteq Nat /\ Arrays \subseteq Nat \X Nat

VARIABLES
    freeList,   \* the blocks from xStart.pxNextFreeBlock on
    pxEnd,      \* address of the last end marker, NULL before the heap is set up
    allocated,  \* blocks whose header is marked allocated
    freeing,    \* blocks a vPortFree has unmarked and not yet inserted
    xFreeBytesRemaining,
    xMinimumEverFreeBytesRemaining,
    xNumberOfSuccessfulAllocations,
    xNumberOfSuccessfulFrees,
    data        \* addresses that hold what an application wrote

heap == <<freeList, pxEnd, allocated, freeing, data>>
counts == <<xFreeBytesRemaining, xMinimumEverFreeBytesRemaining,
            xNumberOfSuccessfulAllocations, xNumberOfSuccessfulFrees>>
vars == <<heap, counts>>

Bytes(a, n)     == a..(a + n - 1)
Payload(b)      == Bytes(b.addr + H, b.size - H)
BytesOf(blocks) == UNION {Bytes(b.addr, b.size) : b \in blocks}

\* The end marker of a region, and its one free block when it is defined.
MarkerOf(i) == Regions[i].addr + Regions[i].size - H
FirstBlock(i) == Block(Regions[i].addr, Regions[i].size - H)

Init ==
    /\ freeList = <<>>
    /\ pxEnd = NULL
    /\ allocated = {} /\ freeing = {}
    /\ xFreeBytesRemaining = 0
    /\ xMinimumEverFreeBytesRemaining = 0
    /\ xNumberOfSuccessfulAllocations = 0
    /\ xNumberOfSuccessfulFrees = 0
    /\ data = {}

\* The sizes of the first n free blocks together.
SizeUpTo[n \in 0..Len(Regions)] ==
    IF n = 0 THEN 0 ELSE SizeUpTo[n - 1] + FirstBlock(n).size

\* vPortDefineHeapRegions asserts that the heap is not set up yet.  The list
\* holds the free block and then the end marker of each region.
vPortDefineHeapRegions ==
    /\ pxEnd = NULL
    /\ freeList' = [j \in 1..(2 * Len(Regions)) |->
                       IF j % 2 = 1 THEN FirstBlock((j + 1) \div 2)
                       ELSE Block(MarkerOf(j \div 2), 0)]
    /\ pxEnd' = MarkerOf(Len(Regions))
    /\ xFreeBytesRemaining' = SizeUpTo[Len(Regions)]
    /\ xMinimumEverFreeBytesRemaining' = xFreeBytesRemaining'
    /\ UNCHANGED <<allocated, freeing, xNumberOfSuccessfulAllocations,
                   xNumberOfSuccessfulFrees, data>>

\* The request with its header, 0 when that does not fit a size_t.
WantedSize(n) == IF n = 0 \/ n > SizeMax - H THEN 0 ELSE n + H

\* The block a request gets, as a set: empty when pvPortMalloc returns NULL.
Fit(wanted) ==
    IF wanted > 0 /\ wanted <= xFreeBytesRemaining
    THEN {i \in {FirstFit(freeList, wanted)} : i # 0}
    ELSE {}

Bump(count) == (count + 1) % Word

FaultyLowWater(free) == xMinimumEverFreeBytesRemaining
LowWater(free) ==
    IF free < xMinimumEverFreeBytesRemaining THEN free ELSE xMinimumEverFreeBytesRemaining

\* The block is cut out of the list and its first cleared bytes are zeroed.
Take(i, wanted, cleared) ==
    LET b == Granted(freeList, i, wanted)
    IN  /\ freeList' = ListAfterGrant(freeList, i, wanted)
        /\ allocated' = allocated \union {b}
        /\ xFreeBytesRemaining' = xFreeBytesRemaining - b.size
        /\ xMinimumEverFreeBytesRemaining' = LowWater(xFreeBytesRemaining')
        /\ xNumberOfSuccessfulAllocations' = Bump(xNumberOfSuccessfulAllocations)
        /\ data' = data \ Bytes(b.addr + H, cleared)
        /\ UNCHANGED <<pxEnd, freeing, xNumberOfSuccessfulFrees>>

\* configASSERT( pxEnd ): nothing is allocated before the heap is set up.
pvPortMalloc(n) ==
    /\ pxEnd # NULL
    /\ \E i \in Fit(WantedSize(n)) : Take(i, WantedSize(n), 0)

pvPortCalloc(num, size) ==
    /\ pxEnd # NULL
    /\ num * size <= SizeMax
    /\ \E i \in Fit(WantedSize(num * size)) :
          Take(i, WantedSize(num * size), num * size)

\* A request that returns NULL leaves everything as it was.
MallocFails(n) ==
    /\ pxEnd # NULL
    /\ Fit(WantedSize(n)) = {}
    /\ UNCHANGED vars

\* The application writes to a block it owns.
Write(b) ==
    /\ data' = data \union Payload(b)
    /\ UNCHANGED <<freeList, pxEnd, allocated, freeing, counts>>

\* Sizes of blocks are unsigned long; the count of memset is a size_t.
memsetCount(n) == n % (SizeMax + 1)

\* vPortFree up to vTaskSuspendAll: heapFREE_BLOCK, then memset.
FaultyRelease(b) ==
    /\ allocated' = allocated \ {b}
    /\ freeing' = freeing \union {b}
    /\ UNCHANGED <<freeList, pxEnd, data, counts>>

Release(b) ==
    /\ allocated' = allocated \ {b}
    /\ freeing' = freeing \union {b}
    /\ data' = data \ Bytes(b.addr + H, memsetCount(b.size - H))
    /\ UNCHANGED <<freeList, pxEnd, counts>>

\* The section of vPortFree under vTaskSuspendAll.
vPortFree(b) ==
    /\ freeing' = freeing \ {b}
    /\ xFreeBytesRemaining' = xFreeBytesRemaining + b.size
    /\ freeList' = Insert(freeList, b, pxEnd)
    /\ xNumberOfSuccessfulFrees' = Bump(xNumberOfSuccessfulFrees)
    /\ UNCHANGED <<pxEnd, allocated, data, xMinimumEverFreeBytesRemaining,
                   xNumberOfSuccessfulAllocations>>

xPortResetHeapMinimumEverFreeHeapSize ==
    /\ xMinimumEverFreeBytesRemaining' = xFreeBytesRemaining
    /\ UNCHANGED <<heap, xFreeBytesRemaining,
                   xNumberOfSuccessfulAllocations, xNumberOfSuccessfulFrees>>

\* For use before the scheduler is restarted: no block may be in use then.
\* xStart keeps its old pointer, which vPortDefineHeapRegions overwrites; what
\* is left in the memory is no longer anyone's data.
vPortHeapResetState ==
    /\ freeing = {}
    /\ pxEnd' = NULL
    /\ freeList' = <<>>
    /\ allocated' = {}
    /\ xFreeBytesRemaining' = 0
    /\ xMinimumEverFreeBytesRemaining' = 0
    /\ xNumberOfSuccessfulAllocations' = 0
    /\ xNumberOfSuccessfulFrees' = 0
    /\ data' = {}
    /\ UNCHANGED freeing

Next ==
    \/ vPortDefineHeapRegions \/ vPortHeapResetState
    \/ xPortResetHeapMinimumEverFreeHeapSize
    \/ \E n \in Requests : pvPortMalloc(n) \/ MallocFails(n)
    \/ \E a \in Arrays : pvPortCalloc(a[1], a[2])
    \/ \E b \in allocated : Write(b) \/ Release(b)
    \/ \E b \in freeing : vPortFree(b)

Spec == Init /\ [][Next]_vars

-----------------------------------------------------------------------------
(* Properties.                                                             *)

SetUp  == pxEnd # NULL
Free   == ToSet(freeList)
Owned  == allocated \union freeing
InUse  == Free \union Owned

\* Every byte below a region's end marker belongs to exactly one block, free or
\* owned: splitting and joining lose no byte, give none away twice, and never
\* join over the end of a region.
Tiling ==
    SetUp =>
        /\ \A b \in InUse : b.size > 0 =>
              \E i \in DOMAIN Regions :
                  Regions[i].addr <= b.addr /\ EndOf(b) <= MarkerOf(i)
        /\ \A b, c \in InUse :
              b # c => EndOf(b) <= c.addr \/ EndOf(c) <= b.addr
        /\ BytesOf(InUse) = BytesOf({FirstBlock(i) : i \in DOMAIN Regions})

\* The list is in address order and ends with pxEnd; the search of the
\* insertion and the early exit of first fit rest on it.
Ordered ==
    SetUp =>
        /\ Last(freeList) = Block(pxEnd, 0)
        /\ \A i \in 1..(Len(freeList) - 1) : freeList[i].addr < freeList[i + 1].addr

\* Freed neighbours are joined, markers of inner regions out of the way: a
\* request is refused only when no run of bytes that nobody owns is long enough.
Gap(w) ==
    \E i \in DOMAIN Regions : \E a \in Regions[i].addr..(MarkerOf(i) - w) :
        \A b \in Owned : a + w <= b.addr \/ EndOf(b) <= a

RefusesOnlyWhenFull ==
    SetUp => \A n \in Requests \ {0} :
                 n + H <= SizeMax /\ Gap(n + H) => Fit(WantedSize(n)) # {}

\* The byte counter agrees with the list between any two sections, also while
\* another task has unmarked a block and not yet inserted it.
Accounting ==
    /\ SetUp => xFreeBytesRemaining = Cardinality(BytesOf(Free))
    /\ xMinimumEverFreeBytesRemaining <= xFreeBytesRemaining
    /\ SetUp => (xNumberOfSuccessfulAllocations + Word - xNumberOfSuccessfulFrees)
                  % Word = Cardinality(Owned) % Word

\* configHEAP_CLEAR_MEMORY_ON_FREE: what an application wrote is gone once its
\* block is free, slack bytes of an unsplit block included.  It takes regions
\* that a size_t can count, as the 64 KB regions of rtos65816.c.
NoDataLeft ==
    data \subseteq UNION {Payload(b) : b \in allocated}

\* The heap keeps the promise of HeapPromise; a block is lent until vPortFree
\* has inserted it.
Promise ==
    INSTANCE HeapPromise WITH
        lent <- Owned, open <- SetUp, Slack <- heapMINIMUM_BLOCK_SIZE,
        Requests <- Requests \union {a[1] * a[2] : a \in Arrays},
        Usable <- {[first |-> Regions[i].addr, limit |-> MarkerOf(i)] : i \in DOMAIN Regions}

KeepsPromise == Promise!Spec
=============================================================================
