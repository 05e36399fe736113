-------------------------------- MODULE List --------------------------------
(***************************************************************************)
(* A list of list.c that is served in turn: the items in link order from   *)
(* the end marker, and the position pxIndex points at (0: the marker).     *)
(* pxNext, pxPrevious and pxContainer are the positions in items.  Lists   *)
(* that are never served in turn are sets in Kernel.                       *)
(***************************************************************************)
EXTENDS Integers, SequencesExt

EmptyList == [items |-> <<>>, index |-> 0]

Members(l) == ToSet(l.items)

(* The new items go before the one pxIndex points at: they are served      *)
(* last.  Inserting several in turn keeps their order.                     *)
vListInsertEnd(l, s) ==
    LET at == IF l.index = 0 THEN Len(l.items) ELSE l.index - 1
    IN  [items |-> SubSeq(l.items, 1, at) \o s \o SubSeq(l.items, at + 1, Len(l.items)),
         index |-> IF l.index = 0 THEN 0 ELSE l.index + Len(s)]

(* pxIndex falls back on the previous item when its own is removed.        *)
uxListRemove(l, x) ==
    IF x \notin Members(l) THEN l
    ELSE LET i == CHOOSE i \in DOMAIN l.items : l.items[i] = x
         IN  [items |-> RemoveAt(l.items, i),
              index |-> IF i <= l.index THEN l.index - 1 ELSE l.index]

(* Serving the next item skips the marker.                                 *)
Advance(l) == [l EXCEPT !.index = IF @ < Len(l.items) THEN @ + 1 ELSE 1]

listGET_OWNER_OF_NEXT_ENTRY(l) == l.items[Advance(l).index]
=============================================================================
