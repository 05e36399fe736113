------------------------------ MODULE FreeList ------------------------------
(***************************************************************************)
(* The address-ordered list of free blocks that heap_5.c, farheap.c and    *)
(* heapStack.c each keep: the first-fit search with its split, and the     *)
(* insertion that joins a freed block to its neighbours.                   *)
(*                                                                         *)
(* A block is its address and its xBlockSize, which counts its header.     *)
(* The list starts after xStart and ends with the marker pxEnd (size 0);   *)
(* the marker of an earlier region is a block of size 0 inside the list.   *)
(*                                                                         *)
(* A definition called FaultyX is X with a plausible bug.  Nothing uses    *)
(* it; PROJECT.json names the property that finds it when it replaces X.   *)
(***************************************************************************)
EXTENDS Naturals, Sequences, SequencesExt

CONSTANT H  \* xHeapStructSize, the size of a block header

ASSUME HeaderAssumption == H \in Nat \ {0}

heapMINIMUM_BLOCK_SIZE == 2 * H

Block(a, s) == [addr |-> a, size |-> s]
EndOf(b) == b.addr + b.size

\* Position of the first block that can hold wanted bytes; 0 when the search
\* reaches the end marker.
FirstFit(list, wanted) == SelectInSeq(list, LAMBDA b : b.size >= wanted)

\* The block cut out of list[i], and the list that remains.  A remainder too
\* small for a header and as much payload again stays with the block.
Splits(b, wanted) == b.size - wanted > heapMINIMUM_BLOCK_SIZE

FaultyGranted(list, i, wanted) == Block(list[i].addr, wanted)
Granted(list, i, wanted) ==
    IF Splits(list[i], wanted) THEN Block(list[i].addr, wanted) ELSE list[i]

FaultyListAfterGrant(list, i, wanted) ==
    IF Splits(list[i], wanted)
    THEN ReplaceAt(list, i, Block(list[i].addr + wanted - H, list[i].size - wanted + H))
    ELSE RemoveAt(list, i)

ListAfterGrant(list, i, wanted) ==
    IF Splits(list[i], wanted)
    THEN ReplaceAt(list, i, Block(list[i].addr + wanted, list[i].size - wanted))
    ELSE RemoveAt(list, i)

\* prvInsertBlockIntoFreeList: b goes after the last block of lower address,
\* absorbs it when they touch, and absorbs the block behind unless that is
\* pxEnd.  Earlier markers are absorbed like any other block.
FaultyJoinsNext(b, next, end) == EndOf(b) = next.addr
JoinsNext(b, next, end) == EndOf(b) = next.addr /\ next.addr # end

FaultyInsert(list, b, end) ==
    LET p == SelectLastInSeq(list, LAMBDA x : x.addr < b.addr)
    IN  InsertAt(list, p + 1, b)

Insert(list, b, end) ==
    LET p == SelectLastInSeq(list, LAMBDA x : x.addr < b.addr)
        joinsPrev == p # 0 /\ EndOf(list[p]) = b.addr
        before == SubSeq(list, 1, IF joinsPrev THEN p - 1 ELSE p)
        front  == IF joinsPrev THEN Block(list[p].addr, list[p].size + b.size)
                  ELSE b
        next   == list[p + 1]
    IN  IF JoinsNext(front, next, end)
        THEN before \o <<Block(front.addr, front.size + next.size)>>
                    \o SubSeq(list, p + 2, Len(list))
        ELSE before \o <<front>> \o SubSeq(list, p + 1, Len(list))
=============================================================================
