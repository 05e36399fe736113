------------------------------- MODULE FarHeap -------------------------------
(***************************************************************************)
(* farheap.c is heap_5.c once more, with entry points of its own and the   *)
(* same bound on sizes.  Only its calloc differs: the loop that took the   *)
(* place of the memset runs xSize times, not xNum * xSize times.  Here one *)
(* heap serves requests of both kinds of calloc, so what is checked of it  *)
(* holds for either file; NoDataLeft then says that an array of farcalloc, *)
(* though not zeroed, holds nothing that an earlier owner wrote.           *)
(***************************************************************************)
EXTENDS Heap5

farcalloc(num, size) ==
    /\ pxEnd # NULL
    /\ num * size <= SizeMax
    /\ \E i \in Fit(WantedSize(num * size)) : Take(i, WantedSize(num * size), size)

FarNext == Next \/ \E a \in Arrays : farcalloc(a[1], a[2])

FarSpec == Init /\ [][FarNext]_vars
=============================================================================
