------------------------------ MODULE HeapStack ------------------------------
(***************************************************************************)
(* heapStack.c, the heap in bank 0 from which task stacks come.  It has    *)
(* one region, sets itself up on the first request, and keeps the size of  *)
(* a block in a size_t of 16 bits whose top bit marks the block allocated. *)
(* Sections under vTaskSuspendAll are one step, as in Heap5.               *)
(***************************************************************************)
EXTENDS FreeList, FiniteSets

CONSTANTS
    HeapStart,  \* ucHeapStack
    HeapSize,   \* configTOTAL_HEAP_SIZE_STACK
    TopBit,     \* heapBLOCK_ALLOCATED_BITMASK
    NULL,
    Requests,   \* bound: the sizes asked for
    MaxBlocks   \* bound: blocks in use at a time

ASSUME StackHeapAssumption ==
    /\ HeapStart \in Nat \ {0} /\ TopBit \in Nat
    /\ HeapSize \in (H + 1)..(2 * TopBit - 1)
    /\ NULL \notin Nat /\ Requests \subseteq Nat

VARIABLES
    freeList, pxEnd,
    allocated,   \* blocks in use, size being the header word as stored
    freeing,     \* blocks vPortFreeStack has unmarked and not yet inserted
    xFreeBytesRemaining, xMinimumEverFreeBytesRemaining

vars == <<freeList, pxEnd, allocated, freeing,
          xFreeBytesRemaining, xMinimumEverFreeBytesRemaining>>

EndMarker == HeapStart + HeapSize - H
Total == EndMarker - HeapStart

\* heapALLOCATE_BLOCK and heapFREE_BLOCK on the header word.
IsMarked(b) == b.size >= TopBit
Mark(b)     == [b EXCEPT !.size = IF @ >= TopBit THEN @ ELSE @ + TopBit]
Unmark(b)   == [b EXCEPT !.size = @ % TopBit]

Init ==
    /\ freeList = <<>>
    /\ pxEnd = NULL
    /\ allocated = {} /\ freeing = {}
    /\ xFreeBytesRemaining = 0
    /\ xMinimumEverFreeBytesRemaining = 0

\* What the section of pvPortMallocStack finds: prvHeapInit has run by then.
FirstCall == pxEnd = NULL
List    == IF FirstCall THEN <<Block(HeapStart, Total), Block(EndMarker, 0)>> ELSE freeList
Bytes   == IF FirstCall THEN Total ELSE xFreeBytesRemaining
Minimum == IF FirstCall THEN Total ELSE xMinimumEverFreeBytesRemaining

\* The request with its header; 0 when that overflows a size_t.
WantedSize(n) == IF n = 0 \/ n > 2 * TopBit - 1 - H THEN 0 ELSE n + H

Fit(wanted) ==
    IF wanted < TopBit /\ wanted > 0 /\ wanted <= Bytes
    THEN {i \in {FirstFit(List, wanted)} : i # 0}
    ELSE {}

\* The block granted in position i, or a request that fails: the latter may
\* still have set the heap up.
pvPortMallocStack(n) ==
    /\ pxEnd' = EndMarker
    /\ \/ /\ Cardinality(allocated \union freeing) < MaxBlocks
          /\ \E i \in Fit(WantedSize(n)) :
                LET b == Granted(List, i, WantedSize(n))
                IN  /\ freeList' = ListAfterGrant(List, i, WantedSize(n))
                    /\ allocated' = allocated \union {Mark(b)}
                    /\ xFreeBytesRemaining' = Bytes - b.size
                    /\ xMinimumEverFreeBytesRemaining' =
                          IF xFreeBytesRemaining' < Minimum
                          THEN xFreeBytesRemaining' ELSE Minimum
       \/ /\ Fit(WantedSize(n)) = {}
          /\ freeList' = List
          /\ xFreeBytesRemaining' = Bytes
          /\ xMinimumEverFreeBytesRemaining' = Minimum
          /\ UNCHANGED allocated
    /\ UNCHANGED freeing

\* vPortFreeStack up to vTaskSuspendAll; the asserts are its guard.
Release(b) ==
    /\ IsMarked(b)
    /\ allocated' = allocated \ {b}
    /\ freeing' = freeing \union {Unmark(b)}
    /\ UNCHANGED <<freeList, pxEnd, xFreeBytesRemaining, xMinimumEverFreeBytesRemaining>>

vPortFreeStack(b) ==
    /\ freeing' = freeing \ {b}
    /\ xFreeBytesRemaining' = xFreeBytesRemaining + b.size
    /\ freeList' = Insert(freeList, b, pxEnd)
    /\ UNCHANGED <<pxEnd, allocated, xMinimumEverFreeBytesRemaining>>

xPortResetHeapMinimumEverFreeHeapSizeStack ==
    /\ xMinimumEverFreeBytesRemaining' = xFreeBytesRemaining
    /\ UNCHANGED <<freeList, pxEnd, allocated, freeing, xFreeBytesRemaining>>

vPortHeapResetStateStack ==
    /\ freeing = {}
    /\ pxEnd' = NULL
    /\ freeList' = <<>> /\ allocated' = {}
    /\ xFreeBytesRemaining' = 0
    /\ xMinimumEverFreeBytesRemaining' = 0
    /\ UNCHANGED freeing

Next ==
    \/ \E n \in Requests : pvPortMallocStack(n)
    \/ \E b \in allocated : Release(b)
    \/ \E b \in freeing : vPortFreeStack(b)
    \/ xPortResetHeapMinimumEverFreeHeapSizeStack
    \/ vPortHeapResetStateStack

Spec == Init /\ [][Next]_vars

-----------------------------------------------------------------------------
(* Properties.                                                             *)

SetUp == pxEnd # NULL
InUse == {Unmark(b) : b \in allocated} \union freeing

\* The blocks in use and the free blocks share no byte: no two task stacks
\* overlap, and none overlaps the list.
StacksApart ==
    \A b, c \in InUse \union ToSet(freeList) :
        b # c => EndOf(b) <= c.addr \/ EndOf(c) <= b.addr

\* When nothing is in use every byte is back in the heap.  heapStack.c says of
\* the top bit: when it is set the block belongs to the application, when it is
\* free the block is part of the free heap space; a size that needs the top bit
\* itself breaks that.
AllBytesReturned ==
    SetUp /\ InUse = {} =>
        freeList = <<Block(HeapStart, Total), Block(EndMarker, 0)>>
            /\ xFreeBytesRemaining = Total
=============================================================================
