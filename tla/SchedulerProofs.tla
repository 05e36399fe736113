--------------------------- MODULE SchedulerProofs ---------------------------
(***************************************************************************)
(* The scheduler for every number of tasks, priorities and ticks.          *)
(*                                                                         *)
(* What the operations on lists do; the ready lists, seen as the set of    *)
(* tasks they hold; the inductive invariant of the scheduler, which allows *)
(* for the calls of Notify and Queue in progress over it; what each        *)
(* operation does to the ready tasks; that the invariant is kept, and what *)
(* follows; and that no ready task waits for a task of lower priority.     *)
(***************************************************************************)
EXTENDS Scheduler, SequenceTheorems, FiniteSetTheorems, WellFoundedInduction, TLAPS

-----------------------------------------------------------------------------
(* The lists of list.c, and the choice of a largest or least number.       *)

(* The lists of items from S, with the index at an item or at the marker.  *)
ListOf(S) == {l \in [items : Seq(S), index : Nat] : l.index <= Len(l.items)}

(* The items of a list in order, no item twice.                            *)
NoRepeat(l) == IsInjective(l.items)

-----------------------------------------------------------------------------
LEMMA MembersOf ==
    ASSUME NEW S, NEW l \in ListOf(S)
    PROVE  /\ l.items \in Seq(S) /\ Len(l.items) \in Nat
           /\ DOMAIN l.items = 1 .. Len(l.items)
           /\ l.index \in 0 .. Len(l.items)
           /\ \A i \in 1 .. Len(l.items) : l.items[i] \in Members(l)
           /\ Members(l) \subseteq S
           /\ Members(l) = {} <=> l.items = <<>>
<1>1. l.items \in Seq(S) /\ l.index \in Nat /\ l.index <= Len(l.items)
  BY DEF ListOf
<1>2. /\ Len(l.items) \in Nat /\ l.items \in [1 .. Len(l.items) -> S]
      /\ DOMAIN l.items = 1 .. Len(l.items)
  BY <1>1, LenProperties
<1>3. /\ \A i \in 1 .. Len(l.items) : l.items[i] \in Members(l)
      /\ Members(l) \subseteq S
  BY <1>2 DEF Members, ToSet
<1>4. ASSUME l.items = <<>> PROVE Members(l) = {}
  <2>1. DOMAIN l.items = {}
    BY <1>2, <1>4, EmptySeq
  <2> QED
    BY <2>1 DEF Members, ToSet
<1>5. ASSUME l.items # <<>> PROVE Members(l) # {}
  <2>1. 1 \in 1 .. Len(l.items)
    BY <1>1, <1>5, EmptySeq
  <2> QED
    BY <2>1, <1>3
<1>6. l.index \in 0 .. Len(l.items)
  BY <1>1, <1>2
<1> QED
  BY <1>1, <1>2, <1>3, <1>4, <1>5, <1>6

(* A concatenation has the items of both.                                  *)
LEMMA ToSetConcat ==
    ASSUME NEW S, NEW s \in Seq(S), NEW u \in Seq(S)
    PROVE  ToSet(s \o u) = ToSet(s) \cup ToSet(u)
<1> DEFINE c == s \o u
<1>1. /\ c \in Seq(S) /\ Len(c) = Len(s) + Len(u)
      /\ \A i \in 1 .. Len(c) : c[i] = IF i <= Len(s) THEN s[i] ELSE u[i - Len(s)]
  BY ConcatProperties
<1>2. ToSet(c) \subseteq ToSet(s) \cup ToSet(u)
  BY <1>1, LenProperties DEF ToSet
<1>3. ToSet(s) \subseteq ToSet(c)
  BY <1>1, LenProperties DEF ToSet
<1>4. ASSUME NEW x \in ToSet(u) PROVE x \in ToSet(c)
  <2>1. PICK j \in 1 .. Len(u) : x = u[j]
    BY LenProperties DEF ToSet
  <2>2. /\ j + Len(s) \in 1 .. Len(c) /\ ~(j + Len(s) <= Len(s))
        /\ j + Len(s) - Len(s) = j
    BY <1>1, LenProperties
  <2>3. c[j + Len(s)] = x
    BY <2>1, <2>2, <1>1
  <2> QED
    BY <2>2, <2>3, <1>1, LenProperties DEF ToSet
<1> QED
  BY <1>2, <1>3, <1>4

(* A concatenation repeats no item if neither part does and they share     *)
(* none.                                                                   *)
LEMMA InjectiveConcat ==
    ASSUME NEW S, NEW s \in Seq(S), NEW u \in Seq(S),
           IsInjective(s), IsInjective(u), ToSet(s) \cap ToSet(u) = {}
    PROVE  IsInjective(s \o u)
<1> DEFINE c == s \o u
<1>1. /\ c \in Seq(S) /\ Len(c) = Len(s) + Len(u)
      /\ \A i \in 1 .. Len(c) : c[i] = IF i <= Len(s) THEN s[i] ELSE u[i - Len(s)]
  BY ConcatProperties
<1>2. SUFFICES ASSUME NEW i \in 1 .. Len(c), NEW j \in 1 .. Len(c), c[i] = c[j]
               PROVE  i = j
  BY <1>1, LenProperties DEF IsInjective
<1>3. /\ Len(s) \in Nat /\ Len(u) \in Nat /\ DOMAIN s = 1 .. Len(s) /\ DOMAIN u = 1 .. Len(u)
      /\ \A k \in 1 .. Len(s) : s[k] \in ToSet(s)
      /\ \A k \in 1 .. Len(u) : u[k] \in ToSet(u)
  BY LenProperties DEF ToSet
<1>4. CASE i <= Len(s) /\ j <= Len(s)
  BY <1>1, <1>2, <1>3, <1>4 DEF IsInjective
<1>5. CASE i > Len(s) /\ j > Len(s)
  <2>1. i - Len(s) \in 1 .. Len(u) /\ j - Len(s) \in 1 .. Len(u)
    BY <1>1, <1>3, <1>5
  <2>2. u[i - Len(s)] = u[j - Len(s)]
    BY <1>1, <1>2, <1>3, <1>5
  <2>3. i - Len(s) = j - Len(s)
    BY <2>1, <2>2, <1>3 DEF IsInjective
  <2> QED
    BY <2>3, <1>3
<1>6. CASE i <= Len(s) /\ j > Len(s)
  BY <1>1, <1>2, <1>3, <1>6
<1>7. CASE i > Len(s) /\ j <= Len(s)
  BY <1>1, <1>2, <1>3, <1>7
<1> QED
  BY <1>3, <1>4, <1>5, <1>6, <1>7

(* A sequence cut in two.                                                  *)
LEMMA Cut ==
    ASSUME NEW S, NEW s \in Seq(S), NEW at \in 0 .. Len(s)
    PROVE  LET A == SubSeq(s, 1, at)
               B == SubSeq(s, at + 1, Len(s))
           IN  /\ A \in Seq(S) /\ Len(A) = at
               /\ \A i \in 1 .. at : A[i] = s[i]
               /\ B \in Seq(S) /\ Len(B) = Len(s) - at
               /\ \A i \in 1 .. Len(s) - at : B[i] = s[at + i]
               /\ ToSet(A) \cup ToSet(B) = ToSet(s)
               /\ IsInjective(s) => /\ IsInjective(A) /\ IsInjective(B)
                                    /\ ToSet(A) \cap ToSet(B) = {}
<1> DEFINE A == SubSeq(s, 1, at)
           B == SubSeq(s, at + 1, Len(s))
<1>1. /\ Len(s) \in Nat /\ at \in Nat /\ at <= Len(s) /\ DOMAIN s = 1 .. Len(s)
      /\ \A i \in 1 .. Len(s) : s[i] \in S
  BY LenProperties
<1>2. /\ A \in Seq(S) /\ Len(A) = at
      /\ \A i \in 1 .. at : A[i] = s[i]
  <2>1. \A i \in 1 .. at : s[i] \in S
    BY <1>1
  <2>2. /\ A \in Seq(S) /\ Len(A) = IF 1 <= at THEN at - 1 + 1 ELSE 0
        /\ \A i \in 1 .. at - 1 + 1 : A[i] = s[1 + i - 1]
    BY <1>1, <2>1, SubSeqProperties
  <2> QED
    BY <1>1, <2>2
<1>3. /\ B \in Seq(S) /\ Len(B) = Len(s) - at
      /\ \A i \in 1 .. Len(s) - at : B[i] = s[at + i]
  <2>1. \A i \in at + 1 .. Len(s) : s[i] \in S
    BY <1>1
  <2>2. /\ B \in Seq(S) /\ Len(B) = IF at + 1 <= Len(s) THEN Len(s) - (at + 1) + 1 ELSE 0
        /\ \A i \in 1 .. Len(s) - (at + 1) + 1 : B[i] = s[at + 1 + i - 1]
    BY <1>1, <2>1, SubSeqProperties
  <2> HIDE DEF B
  <2>3. Len(B) = Len(s) - at
    <3> DEFINE n == Len(s)
    <3>1. n \in Nat /\ at \in Nat /\ at <= n
      BY <1>1
    <3>2. Len(B) = IF at + 1 <= n THEN n - (at + 1) + 1 ELSE 0
      BY <2>2
    <3> HIDE DEF n
    <3>3. Len(B) = n - at
      BY <3>1, <3>2
    <3> QED
      BY <3>3 DEF n
  <2>4. ASSUME NEW i \in 1 .. Len(s) - at PROVE B[i] = s[at + i]
    <3>1. i \in 1 .. Len(s) - (at + 1) + 1 /\ at + 1 + i - 1 = at + i
      BY <1>1
    <3> QED
      BY <2>2, <3>1
  <2> QED
    BY <2>2, <2>3, <2>4
<1> HIDE DEF A, B
<1>4. DOMAIN A = 1 .. at /\ DOMAIN B = 1 .. Len(s) - at
  BY <1>2, <1>3, LenProperties
<1>5. ToSet(A) \cup ToSet(B) \subseteq ToSet(s)
  <2>1. \A i \in DOMAIN A : i \in DOMAIN s /\ A[i] = s[i]
    BY <1>1, <1>2, <1>4
  <2>2. \A i \in DOMAIN B : at + i \in DOMAIN s /\ B[i] = s[at + i]
    BY <1>1, <1>3, <1>4
  <2> QED
    BY <2>1, <2>2 DEF ToSet
<1>6. ASSUME NEW i \in DOMAIN s PROVE s[i] \in ToSet(A) \cup ToSet(B)
  <2>1. CASE i <= at
    BY <2>1, <1>1, <1>2, <1>4 DEF ToSet
  <2>2. CASE ~(i <= at)
    <3>1. i - at \in DOMAIN B /\ at + (i - at) = i
      BY <2>2, <1>1, <1>4
    <3> QED
      BY <3>1, <1>3, <1>4 DEF ToSet
  <2> QED
    BY <2>1, <2>2
<1>7. ASSUME IsInjective(s)
      PROVE  IsInjective(A) /\ IsInjective(B) /\ ToSet(A) \cap ToSet(B) = {}
  <2>1. IsInjective(A)
    BY <1>1, <1>2, <1>4, <1>7 DEF IsInjective
  <2>2. IsInjective(B)
    <3>1. SUFFICES ASSUME NEW i \in 1 .. Len(s) - at, NEW j \in 1 .. Len(s) - at, B[i] = B[j]
                   PROVE  i = j
      BY <1>4 DEF IsInjective
    <3>2. /\ at + i \in DOMAIN s /\ at + j \in DOMAIN s /\ s[at + i] = s[at + j]
      BY <3>1, <1>1, <1>3
    <3>3. at + i = at + j
      BY <3>2, <1>7 DEF IsInjective
    <3> QED
      BY <3>3, <1>1
  <2>3. ASSUME NEW i \in DOMAIN A, NEW j \in DOMAIN B, A[i] = B[j] PROVE FALSE
    <3>1. /\ i \in DOMAIN s /\ at + j \in DOMAIN s /\ s[i] = s[at + j] /\ i # at + j
      BY <2>3, <1>1, <1>2, <1>3, <1>4
    <3> QED
      BY <3>1, <1>7 DEF IsInjective
  <2> QED
    BY <2>1, <2>2, <2>3 DEF ToSet
<1>8. ToSet(s) \subseteq ToSet(A) \cup ToSet(B)
  BY <1>6 DEF ToSet
<1> QED
  BY <1>2, <1>3, <1>5, <1>7, <1>8 DEF A, B

-----------------------------------------------------------------------------
(* An empty list.                                                          *)
LEMMA EmptyListIsList ==
    ASSUME NEW S
    PROVE  EmptyList \in ListOf(S) /\ Members(EmptyList) = {} /\ NoRepeat(EmptyList)
  BY EmptySeq DEF EmptyList, ListOf, Members, ToSet, NoRepeat, IsInjective

(* vListInsertEnd adds the items, once if they are new.                    *)
LEMMA InsertEnd ==
    ASSUME NEW S, NEW l \in ListOf(S), NEW s \in Seq(S)
    PROVE  LET r == vListInsertEnd(l, s)
           IN  /\ r \in ListOf(S)
               /\ Members(r) = Members(l) \cup ToSet(s)
               /\ NoRepeat(l) /\ IsInjective(s) /\ Members(l) \cap ToSet(s) = {} => NoRepeat(r)
<1> DEFINE r  == vListInsertEnd(l, s)
           at == IF l.index = 0 THEN Len(l.items) ELSE l.index - 1
           A  == SubSeq(l.items, 1, at)
           B  == SubSeq(l.items, at + 1, Len(l.items))
<1>1. /\ l.items \in Seq(S) /\ Len(l.items) \in Nat /\ Len(s) \in Nat
      /\ l.index \in Nat /\ l.index <= Len(l.items)
  BY MembersOf, LenProperties
<1>2. at \in 0 .. Len(l.items)
  BY <1>1
<1>3. /\ r.items = A \o s \o B
      /\ r.index = IF l.index = 0 THEN 0 ELSE l.index + Len(s)
      /\ r = [items |-> r.items, index |-> r.index]
  BY DEF vListInsertEnd
<1> HIDE DEF at, r
<1>4. /\ A \in Seq(S) /\ B \in Seq(S) /\ Len(A) = at /\ Len(B) = Len(l.items) - at
      /\ ToSet(A) \cup ToSet(B) = Members(l)
      /\ NoRepeat(l) => IsInjective(A) /\ IsInjective(B) /\ ToSet(A) \cap ToSet(B) = {}
  BY <1>1, <1>2, Cut DEF NoRepeat, Members
<1> HIDE DEF A, B
<1>5. /\ A \o s \in Seq(S) /\ Len(A \o s) = at + Len(s)
      /\ ToSet(A \o s) = ToSet(A) \cup ToSet(s)
  BY <1>4, ConcatProperties, ToSetConcat
<1>6. /\ r.items \in Seq(S) /\ Len(r.items) = at + Len(s) + (Len(l.items) - at)
      /\ ToSet(r.items) = ToSet(A) \cup ToSet(s) \cup ToSet(B)
  <2> DEFINE As == A \o s
  <2> HIDE DEF As
  <2>1. /\ As \o B \in Seq(S) /\ Len(As \o B) = Len(As) + Len(B)
    BY <1>4, <1>5, ConcatProperties DEF As
  <2>2. As \in Seq(S)
    BY <1>5 DEF As
  <2>3. ToSet(As \o B) = ToSet(As) \cup ToSet(B)
    BY <2>2, <1>4, ToSetConcat
  <2> QED
    BY <2>1, <2>3, <1>3, <1>4, <1>5 DEF As
<1>7. r.index \in Nat /\ r.index <= Len(r.items)
  BY <1>1, <1>2, <1>3, <1>6
<1>8. r \in ListOf(S)
  BY <1>3, <1>6, <1>7 DEF ListOf
<1>9. Members(r) = Members(l) \cup ToSet(s)
  BY <1>4, <1>6 DEF Members
<1>10. ASSUME NoRepeat(l), IsInjective(s), Members(l) \cap ToSet(s) = {}
       PROVE  NoRepeat(r)
  <2>1. IsInjective(A \o s)
    BY <1>4, <1>10, InjectiveConcat
  <2>2. IsInjective(A \o s \o B)
    BY <2>1, <1>4, <1>5, <1>10, InjectiveConcat
  <2> QED
    BY <2>2, <1>3 DEF NoRepeat
<1> QED
  BY <1>8, <1>9, <1>10 DEF r

(* uxListRemove removes the item, and no other.                            *)
LEMMA RemoveItem ==
    ASSUME NEW S, NEW l \in ListOf(S), NEW x
    PROVE  LET r == uxListRemove(l, x)
           IN  /\ r \in ListOf(S)
               /\ x \notin Members(l) => r = l
               /\ Members(l) \ {x} \subseteq Members(r)
               /\ NoRepeat(l) => NoRepeat(r) /\ Members(r) = Members(l) \ {x}
<1> DEFINE r == uxListRemove(l, x)
<1>1. CASE x \notin Members(l)
  BY <1>1 DEF uxListRemove
<1>2. CASE x \in Members(l)
  <2> DEFINE s == l.items
             i == CHOOSE i \in DOMAIN l.items : l.items[i] = x
             A == SubSeq(s, 1, i - 1)
             B == SubSeq(s, i + 1, Len(s))
             C == SubSeq(s, i, Len(s))
  <2>1. i \in DOMAIN s /\ s[i] = x
    BY <1>2 DEF Members, ToSet
  <2>2. /\ r.items = A \o B
        /\ r.index = IF i <= l.index THEN l.index - 1 ELSE l.index
        /\ r = [items |-> r.items, index |-> r.index]
    BY <1>2 DEF uxListRemove, RemoveAt
  <2> HIDE DEF r, i
  <2>3. /\ s \in Seq(S) /\ Len(s) \in Nat /\ DOMAIN s = 1 .. Len(s)
        /\ l.index \in Nat /\ l.index <= Len(s)
    BY MembersOf
  <2>4. i \in Nat /\ 1 <= i /\ i <= Len(s) /\ i - 1 \in 0 .. Len(s) /\ i \in 0 .. Len(s)
        /\ i - 1 + 1 = i
    BY <2>1, <2>3
  <2>5. /\ A \in Seq(S) /\ Len(A) = i - 1 /\ \A j \in 1 .. i - 1 : A[j] = s[j]
        /\ C \in Seq(S)
        /\ ToSet(A) \cup ToSet(C) = ToSet(s)
        /\ IsInjective(s) => IsInjective(A) /\ IsInjective(C) /\ ToSet(A) \cap ToSet(C) = {}
    <3> DEFINE D == SubSeq(s, i - 1 + 1, Len(s))
    <3>1. C = D
      BY <2>4
    <3>2. /\ A \in Seq(S) /\ Len(A) = i - 1 /\ \A j \in 1 .. i - 1 : A[j] = s[j]
          /\ D \in Seq(S)
          /\ ToSet(A) \cup ToSet(D) = ToSet(s)
          /\ IsInjective(s) => IsInjective(A) /\ IsInjective(D) /\ ToSet(A) \cap ToSet(D) = {}
      BY <2>3, <2>4, Cut
    <3> HIDE DEF A, C, D
    <3> QED
      BY <3>1, <3>2
  <2>6. /\ B \in Seq(S) /\ Len(B) = Len(s) - i
        /\ \A j \in 1 .. Len(s) - i : B[j] = s[i + j]
        /\ IsInjective(s) => IsInjective(B)
    BY <2>3, <2>4, Cut
  <2>7. C = <<x>> \o B
    <3>1. i \in 1 .. Len(s) /\ Len(s) \in i .. Len(s)
      BY <2>3, <2>4
    <3>2. SubSeq(s, i, Len(s)) = <<s[i]>> \o SubSeq(s, i + 1, Len(s))
      BY <3>1, <2>3, SubSeqRecursiveFirst
    <3> QED
      BY <3>2, <2>1
  <2> HIDE DEF A, B, C
  <2>8. x \in S /\ <<x>> \in Seq(S) /\ ToSet(<<x>>) = {x}
    <3>1. x \in S /\ <<x>> \in Seq(S) /\ Len(<<x>>) = 1 /\ <<x>>[1] = x
      BY <2>1, <2>3, ElementOfSeq
    <3> QED
      BY <3>1, LenProperties DEF ToSet
  <2>9. ToSet(C) = {x} \cup ToSet(B)
    <3> DEFINE one == <<x>>
    <3>1. one \in Seq(S) /\ ToSet(one) = {x} /\ C = one \o B
      BY <2>7, <2>8
    <3> HIDE DEF one
    <3>2. ToSet(one \o B) = ToSet(one) \cup ToSet(B)
      BY <2>6, <3>1, ToSetConcat
    <3> QED
      BY <3>1, <3>2
  <2>10. /\ r.items \in Seq(S) /\ Len(r.items) = i - 1 + (Len(s) - i)
         /\ ToSet(r.items) = ToSet(A) \cup ToSet(B)
    <3>0. A \in Seq(S) /\ B \in Seq(S)
      BY <2>5, <2>6
    <3>1. A \o B \in Seq(S) /\ Len(A \o B) = Len(A) + Len(B)
      BY <3>0, ConcatProperties
    <3>2. ToSet(A \o B) = ToSet(A) \cup ToSet(B)
      BY <3>0, ToSetConcat
    <3> QED
      BY <3>1, <3>2, <2>2, <2>5, <2>6
  <2>11. r.index \in Nat /\ r.index <= Len(r.items)
    <3>1. Len(r.items) = Len(s) - 1
      BY <2>3, <2>4, <2>10
    <3>2. i <= l.index => r.index = l.index - 1
      BY <2>2
    <3>3. ~(i <= l.index) => r.index = l.index
      BY <2>2
    <3> QED
      BY <3>1, <3>2, <3>3, <2>3, <2>4
  <2>12. r \in ListOf(S)
    BY <2>2, <2>10, <2>11 DEF ListOf
  <2>13. Members(l) \ {x} \subseteq Members(r)
    BY <2>5, <2>9, <2>10 DEF Members
  <2>14. ASSUME NoRepeat(l)
         PROVE  NoRepeat(r) /\ Members(r) = Members(l) \ {x}
    <3>1. /\ IsInjective(A) /\ IsInjective(B) /\ ToSet(A) \cap ToSet(C) = {}
      BY <2>5, <2>6, <2>14 DEF NoRepeat
    <3>2. IsInjective(A \o B)
      BY <3>1, <2>5, <2>6, <2>9, InjectiveConcat
    <3>3. x \notin ToSet(B)
      <4>1. SUFFICES ASSUME NEW j \in 1 .. Len(s) - i, B[j] = x PROVE FALSE
        BY <2>6, LenProperties DEF ToSet
      <4>2. i + j \in DOMAIN s /\ s[i + j] = x /\ i + j # i
        BY <4>1, <2>3, <2>4, <2>6
      <4> QED
        BY <4>2, <2>1, <2>14 DEF NoRepeat, IsInjective
    <3>4. x \notin ToSet(A)
      BY <3>1, <2>9
    <3> QED
      BY <3>2, <3>3, <3>4, <2>2, <2>5, <2>9, <2>10 DEF NoRepeat, Members
  <2> QED
    BY <1>2, <2>12, <2>13, <2>14 DEF r
<1> QED
  BY <1>1, <1>2

(* Serving the next item moves only pxIndex, and serves an item.           *)
LEMMA Serve ==
    ASSUME NEW S, NEW l \in ListOf(S), l.items # <<>>
    PROVE  /\ Advance(l) \in ListOf(S)
           /\ Members(Advance(l)) = Members(l)
           /\ NoRepeat(Advance(l)) <=> NoRepeat(l)
           /\ listGET_OWNER_OF_NEXT_ENTRY(l) \in Members(l)
<1> DEFINE r == Advance(l)
<1>1. /\ l.items \in Seq(S) /\ Len(l.items) \in Nat /\ Len(l.items) # 0
      /\ l.index \in Nat /\ l.index <= Len(l.items)
  BY MembersOf, EmptySeq
<1>2. /\ r.items = l.items /\ r \in [items : Seq(S), index : Nat]
      /\ r.index \in 1 .. Len(l.items)
  BY <1>1 DEF Advance, ListOf
<1> HIDE DEF r
<1>3. r \in ListOf(S)
  BY <1>1, <1>2 DEF ListOf
<1>4. Members(r) = Members(l) /\ (NoRepeat(r) <=> NoRepeat(l))
  BY <1>2 DEF Members, NoRepeat
<1>5. l.items[r.index] \in Members(l)
  BY <1>2, MembersOf
<1> QED
  BY <1>3, <1>4, <1>5 DEF r, listGET_OWNER_OF_NEXT_ENTRY

-----------------------------------------------------------------------------
(* A set of numbers has a least one, and a greatest if it is bounded.      *)
LEMMA LeastNumber ==
    ASSUME NEW S, S \subseteq Nat, S # {}
    PROVE  Min(S) \in S /\ \A y \in S : Min(S) <= y
<1> DEFINE R == {ss \in Nat \X Nat : ss[1] < ss[2]}
<1>1. IsWellFoundedOn(R, Nat)
  BY NatLessThanWellFounded, Zenon DEF OpToRel
<1> HIDE DEF R
<1>2. PICK x \in S : \A y \in S : ~ (<<y, x>> \in R)
  BY <1>1, WFMin
<1>3. ASSUME NEW y \in S PROVE x <= y
  <2>1. y \in Nat /\ x \in Nat /\ <<y, x>> \in Nat \X Nat /\ ~(<<y, x>> \in R)
    BY <1>2
  <2>2. ~(y < x)
    BY <2>1 DEF R
  <2> QED
    BY <2>1, <2>2
<1> QED
  BY <1>3 DEF Min

LEMMA GreatestNumber ==
    ASSUME NEW n \in Nat, NEW S, S \subseteq 0 .. n, S # {}
    PROVE  Max(S) \in S /\ \A y \in S : y <= Max(S)
<1> DEFINE T == {n - x : x \in S}
<1>1. \A x \in S : x \in Nat /\ n - x \in Nat
  OBVIOUS
<1>2. T \subseteq Nat /\ T # {}
  <2>1. T \subseteq Nat
    BY <1>1
  <2>2. PICK x \in S : TRUE
    OBVIOUS
  <2>3. n - x \in T
    OBVIOUS
  <2> QED
    BY <2>1, <2>3
<1>3. Min(T) \in T /\ \A y \in T : Min(T) <= y
  BY <1>2, LeastNumber
<1>4. PICK x \in S : Min(T) = n - x
  BY <1>3
<1>5. ASSUME NEW y \in S PROVE y <= x
  <2>1. n - y \in T
    OBVIOUS
  <2>2. n - x <= n - y
    BY <1>3, <1>4, <2>1
  <2> QED
    BY <1>1, <2>2
<1> QED
  BY <1>5 DEF Max

-----------------------------------------------------------------------------
(* The ready lists: what the functions of Kernel that handle them do.      *)

(* The ready lists hold the tasks of R, each once, in the list of its      *)
(* priority.                                                               *)
Holds(lists, R, priority) ==
    /\ lists \in [Priority -> ListOf(Task)]
    /\ \A p \in Priority :
          NoRepeat(lists[p]) /\ Members(lists[p]) = {t \in R : priority[t] = p}

(* The search from top finds every task of R.                              *)
Covers(R, priority, top) ==
    top \in Priority /\ \A t \in R : priority[t] <= top

LEMMA PriorityIsNat == Priority \subseteq Nat /\ 0 \in Priority /\ TopPriority \in Priority
  BY WidthAssumption DEF Priority

(* The tasks of the lists together.                                        *)
LEMMA HeldTasks ==
    ASSUME NEW lists, NEW R \in SUBSET Task, NEW priority \in [Task -> Priority],
           Holds(lists, R, priority)
    PROVE  UNION {Members(lists[p]) : p \in Priority} = R
  BY DEF Holds

(* Only the priorities of the tasks held matter.                           *)
LEMMA HoldsOther ==
    ASSUME NEW lists, NEW R \in SUBSET Task, NEW priority, NEW other,
           Holds(lists, R, priority), \A t \in R : other[t] = priority[t]
    PROVE  Holds(lists, R, other)
<1>1. ASSUME NEW p PROVE {t \in R : priority[t] = p} = {t \in R : other[t] = p}
  OBVIOUS
<1> QED
  BY <1>1 DEF Holds

LEMMA WithoutHolds ==
    ASSUME NEW lists, NEW R \in SUBSET Task, NEW priority, NEW t,
           Holds(lists, R, priority)
    PROVE  Holds(Without(lists, t), R \ {t}, priority)
<1>1. ASSUME NEW p \in Priority
      PROVE  /\ uxListRemove(lists[p], t) \in ListOf(Task)
             /\ NoRepeat(uxListRemove(lists[p], t))
             /\ Members(uxListRemove(lists[p], t)) = {u \in R \ {t} : priority[u] = p}
  <2>1. /\ lists[p] \in ListOf(Task) /\ NoRepeat(lists[p])
        /\ Members(lists[p]) = {u \in R : priority[u] = p}
    BY DEF Holds
  <2> QED
    BY <2>1, RemoveItem
<1> QED
  BY <1>1 DEF Holds, Without

LEMMA AddHolds ==
    ASSUME NEW lists, NEW R \in SUBSET Task, NEW priority, NEW t \in Task \ R,
           Holds(lists, R, priority), priority[t] \in Priority
    PROVE  Holds(prvAddTaskToReadyList(lists, t, priority), R \cup {t}, priority)
<1> DEFINE q == priority[t]
           one == <<t>>
           r == vListInsertEnd(lists[q], one)
<1>1. /\ lists \in [Priority -> ListOf(Task)] /\ q \in Priority
      /\ \A p \in Priority : /\ lists[p] \in ListOf(Task) /\ NoRepeat(lists[p])
                             /\ Members(lists[p]) = {u \in R : priority[u] = p}
  BY DEF Holds
<1>2. one \in Seq(Task) /\ ToSet(one) = {t} /\ IsInjective(one)
  <2>1. one \in Seq(Task) /\ Len(one) = 1 /\ one[1] = t
    OBVIOUS
  <2> QED
    BY <2>1, LenProperties DEF ToSet, IsInjective
<1> HIDE DEF one
<1>3. Members(lists[q]) \cap ToSet(one) = {}
  BY <1>1, <1>2
<1>4. /\ r \in ListOf(Task)
      /\ Members(r) = {u \in R : priority[u] = q} \cup {t}
      /\ NoRepeat(r)
  BY <1>1, <1>2, <1>3, InsertEnd
<1> HIDE DEF r
<1>5. prvAddTaskToReadyList(lists, t, priority) = [lists EXCEPT ![q] = r]
  BY DEF prvAddTaskToReadyList, r, one
<1>6. ASSUME NEW p \in Priority
      PROVE  /\ [lists EXCEPT ![q] = r][p] \in ListOf(Task)
             /\ NoRepeat([lists EXCEPT ![q] = r][p])
             /\ Members([lists EXCEPT ![q] = r][p]) = {u \in R \cup {t} : priority[u] = p}
  BY <1>1, <1>4
<1> QED
  BY <1>1, <1>4, <1>5, <1>6 DEF Holds

LEMMA OrderOf ==
    ASSUME NEW S \in SUBSET Task, NEW o \in Orders(S)
    PROVE  o \in Seq(Task) /\ ToSet(o) = S /\ IsInjective(o)
<1>1. IsFiniteSet(S) /\ Cardinality(S) \in Nat
  BY TaskAssumption, FS_Subset, FS_CardinalityType
<1>2. /\ o \in [1 .. Cardinality(S) -> S] /\ IsInjective(o)
      /\ \A t \in S : \E i \in 1 .. Cardinality(S) : o[i] = t
  BY DEF Orders, Bijection, Injection, Surjection
<1>3. o \in [1 .. Cardinality(S) -> Task]
  BY <1>2
<1>4. o \in Seq(Task)
  BY <1>1, <1>3, SeqDef
<1> QED
  BY <1>2, <1>4 DEF ToSet

LEMMA WithAllHolds ==
    ASSUME NEW lists, NEW R \in SUBSET Task, NEW S \in SUBSET Task, S \cap R = {},
           uxPriority \in [Task -> Priority],
           Holds(lists, R, uxPriority), NEW order \in OrdersByPriority(S)
    PROVE  Holds(WithAll(lists, order), R \cup S, uxPriority)
<1>1. ASSUME NEW p \in Priority
      PROVE  /\ vListInsertEnd(lists[p], order[p]) \in ListOf(Task)
             /\ NoRepeat(vListInsertEnd(lists[p], order[p]))
             /\ Members(vListInsertEnd(lists[p], order[p])) = {u \in R \cup S : uxPriority[u] = p}
  <2> DEFINE T == {t \in S : uxPriority[t] = p}
  <2>1. /\ lists[p] \in ListOf(Task) /\ NoRepeat(lists[p])
        /\ Members(lists[p]) = {u \in R : uxPriority[u] = p}
    BY DEF Holds
  <2>2. order[p] \in Orders(T) /\ T \subseteq Task
    BY DEF OrdersByPriority
  <2>3. order[p] \in Seq(Task) /\ ToSet(order[p]) = T /\ IsInjective(order[p])
    BY <2>2, OrderOf
  <2>4. Members(lists[p]) \cap T = {}
    BY <2>1
  <2> QED
    BY <2>1, <2>3, <2>4, InsertEnd
<1> QED
  BY <1>1 DEF Holds, WithAll

-----------------------------------------------------------------------------
(* taskRECORD_READY_PRIORITY keeps the search complete.                    *)
LEMMA Record ==
    ASSUME uxTopReadyPriority \in Priority, NEW R, NEW S, NEW priority,
           \A t \in R : priority[t] <= uxTopReadyPriority,
           \A t \in S : priority[t] \in Priority, \A t \in R : priority[t] \in Priority
    PROVE  Covers(R \cup S, priority, taskRECORD_READY_PRIORITY(S, priority))
<1> DEFINE T == {uxTopReadyPriority} \cup {priority[t] : t \in S}
<1>1. T \subseteq 0 .. TopPriority /\ T # {} /\ TopPriority \in Nat
  BY WidthAssumption DEF Priority
<1>2. Max(T) \in T /\ \A y \in T : y <= Max(T)
  BY <1>1, GreatestNumber
<1> DEFINE m == Max(T)
<1> HIDE DEF m
<1>3. m \in Priority /\ uxTopReadyPriority <= m /\ \A t \in S : priority[t] <= m
  BY <1>1, <1>2 DEF Priority, m
<1>4. \A t \in R : priority[t] <= m
  <2> SUFFICES ASSUME NEW t \in R PROVE priority[t] <= m
    OBVIOUS
  <2> QED
    <3>1. priority[t] \in Nat /\ priority[t] <= uxTopReadyPriority /\ uxTopReadyPriority \in Nat /\ m \in Nat
      BY <1>3, PriorityIsNat
    <3> QED
      BY <3>1, <1>3
<1>5. taskRECORD_READY_PRIORITY(S, priority) = m
  BY DEF taskRECORD_READY_PRIORITY, m
<1> QED
  BY <1>3, <1>4, <1>5 DEF Covers

(* The context switch takes a ready task of the highest priority there is, *)
(* if the scheduler is not suspended, and moves no task to another list.   *)
LEMMA Select ==
    ASSUME NEW lists, NEW R \in SUBSET Task, NEW priority \in [Task -> Priority], NEW top,
           Holds(lists, R, priority), Covers(R, priority, top), R # {},
           taskSELECT_HIGHEST_PRIORITY_TASK(lists, top)
    PROVE  /\ Holds(pxReadyTasksLists', R, priority)
           /\ Covers(R, priority, uxTopReadyPriority')
           /\ pxCurrentTCB' \in R
           /\ \A t \in R : priority[t] <= priority[pxCurrentTCB']
<1> DEFINE P == {p \in 0 .. top : lists[p].items # <<>>}
           q == TopList(lists, top)
<1>1. /\ lists \in [Priority -> ListOf(Task)] /\ top \in Nat /\ top <= TopPriority
      /\ \A t \in R : priority[t] \in Nat /\ priority[t] <= top
      /\ \A p \in Priority : /\ lists[p] \in ListOf(Task) /\ NoRepeat(lists[p])
                             /\ Members(lists[p]) = {u \in R : priority[u] = p}
  BY PriorityIsNat DEF Holds, Covers, Priority
<1>2. \A t \in R : priority[t] \in P
  <2> SUFFICES ASSUME NEW t \in R PROVE priority[t] \in P
    OBVIOUS
  <2>1. priority[t] \in Priority /\ t \in Members(lists[priority[t]])
    BY <1>1
  <2>2. lists[priority[t]].items # <<>>
    BY <1>1, <2>1, MembersOf
  <2> QED
    BY <1>1, <2>2
<1>3. P \subseteq 0 .. top /\ P # {}
  BY <1>2
<1>4. q \in P /\ \A p \in P : p <= q
  BY <1>1, <1>3, GreatestNumber DEF TopList
<1> HIDE DEF q
<1>5. q \in Priority /\ q \in 0 .. top /\ lists[q].items # <<>>
  BY <1>1, <1>4, WidthAssumption DEF Priority
<1> HIDE DEF P
<1>6. \A t \in R : priority[t] <= q
  BY <1>2, <1>4
<1>7. /\ Advance(lists[q]) \in ListOf(Task) /\ NoRepeat(Advance(lists[q]))
      /\ Members(Advance(lists[q])) = {u \in R : priority[u] = q}
      /\ listGET_OWNER_OF_NEXT_ENTRY(lists[q]) \in {u \in R : priority[u] = q}
  BY <1>1, <1>5, Serve
<1>8. /\ pxCurrentTCB' = listGET_OWNER_OF_NEXT_ENTRY(lists[q])
      /\ pxReadyTasksLists' = [lists EXCEPT ![q] = Advance(lists[q])]
      /\ uxTopReadyPriority' = q
  BY DEF taskSELECT_HIGHEST_PRIORITY_TASK, q
<1>9. Holds(pxReadyTasksLists', R, priority)
  BY <1>1, <1>5, <1>7, <1>8 DEF Holds
<1> QED
  BY <1>5, <1>6, <1>7, <1>8, <1>9 DEF Covers

(* A function that ends with a switch, or without one.                     *)
LEMMA SwitchOrKeep ==
    ASSUME NEW lists, NEW R \in SUBSET Task, NEW priority \in [Task -> Priority], NEW top,
           Holds(lists, R, priority), Covers(R, priority, top), R # {},
           xYieldPendings \in BOOLEAN,
           vTaskSwitchContext(lists, top) \/ Keep(lists, top)
    PROVE  /\ Holds(pxReadyTasksLists', R, priority)
           /\ Covers(R, priority, uxTopReadyPriority')
           /\ pxCurrentTCB' \in R \cup {pxCurrentTCB}
           /\ uxSchedulerSuspended # 0 => pxCurrentTCB' = pxCurrentTCB
           /\ xYieldPendings' \in BOOLEAN
<1>1. CASE vTaskSwitchContext(lists, top) /\ uxSchedulerSuspended = 0
  <2>1. taskSELECT_HIGHEST_PRIORITY_TASK(lists, top) /\ xYieldPendings' = FALSE
    BY <1>1 DEF vTaskSwitchContext
  <2> QED
    BY <2>1, <1>1, Select
<1>2. CASE vTaskSwitchContext(lists, top) /\ uxSchedulerSuspended # 0
  BY <1>2 DEF vTaskSwitchContext
<1>3. CASE Keep(lists, top)
  BY <1>3 DEF Keep, switchVars
<1> QED
  BY <1>1, <1>2, <1>3

(* The switch leaves no ready task above the running one, or remembers     *)
(* that it is due.                                                         *)
LEMMA SwitchServes ==
    ASSUME NEW lists, NEW R \in SUBSET Task, NEW priority \in [Task -> Priority], NEW top,
           Holds(lists, R, priority), Covers(R, priority, top), R # {},
           vTaskSwitchContext(lists, top)
    PROVE  xYieldPendings' \/ \A t \in R : priority[t] <= priority[pxCurrentTCB']
<1>1. CASE uxSchedulerSuspended = 0
  <2>1. taskSELECT_HIGHEST_PRIORITY_TASK(lists, top)
    BY <1>1 DEF vTaskSwitchContext
  <2> QED
    BY <2>1, Select
<1>2. CASE uxSchedulerSuspended # 0
  BY <1>2 DEF vTaskSwitchContext
<1> QED
  BY <1>1, <1>2

-----------------------------------------------------------------------------
(* The inductive invariant.                                                *)

(* The places of the calls that run over the scheduler: of Notify, and of  *)
(* Queue and Mutex.  The scheduler goes on at those of Outs when such a    *)
(* call has slept.                                                         *)
Acts     == {"send", "receive", "peek"}
TimeOuts == [ticks : Tick, xTimeOnEntering : Tick, xOverflowCount : Nat]
NotifyEnds  == [op : {"takeEnds", "waitEnds"}, clear : BOOLEAN]
NotifyCalls ==
    [op : {"take", "wait"}, ticks : 1 .. portMAX_DELAY, clear : BOOLEAN]
    \cup [op : {"listen"}, ticks : 1 .. portMAX_DELAY, end : NotifyEnds]
QueueEnds  == [op : {"retry", "recheck"}, act : Acts, time : TimeOuts] \cup [op : {"giveUp"}]
QueueCalls ==
    [op : {"suspend", "lock"}, act : Acts, time : TimeOuts]
    \cup [op : {"test", "inherit", "place"}, act : Acts, time : {c \in TimeOuts : c.ticks # 0}]
    \cup [op : {"unlock", "unlocked"}, act : Acts, time : TimeOuts,
          then : {"sleeps", "retries", "timesOut"}]

(* The places a task can be in; Ends are those a call of xTaskResumeAll    *)
(* goes on at.                                                             *)
Outs   == {App} \cup NotifyEnds \cup QueueEnds
Yields == [op : {"yield"}, next : Outs]
Adds   == [op : {"add"}, who : Task]
Ends   == Outs \cup Yields \cup Adds
Place ==
    Ends
    \cup NotifyCalls \cup QueueCalls
    \cup [op : {"delay"}, ticks : 1 .. portMAX_DELAY]
    \cup [op : {"catchup"}, ticks : Tick]
    \cup [op : {"suspended", "created", "free"}, who : Task]
    \cup [op : {"resume"}, yielded : Ends, not : Ends]
    \cup [op : {"drain"}, moved : BOOLEAN, yielded : Ends, not : Ends]
    \cup [op : {"ticks"}, count : Nat, yielded : Ends, not : Ends]

Typed ==
    /\ pxCurrentTCB \in Task \cup {NULL}
    /\ pxDelayedTaskList \subseteq Task /\ pxOverflowDelayedTaskList \subseteq Task
    /\ xSuspendedTaskList \subseteq Task /\ xPendingReadyList \subseteq Task
    /\ xTasksWaitingTermination \subseteq Task
    /\ xItemValue \in [Task -> Tick]
    /\ uxPriority \in [Task -> Priority]
    /\ xTickCount \in Tick /\ xNextTaskUnblockTime \in Tick
    /\ xPendedTicks \in Nat /\ xYieldPendings \in BOOLEAN
    /\ uxSchedulerSuspended \in Nat /\ xSchedulerRunning \in BOOLEAN
    /\ memory \in [Task -> {"free", "new", "live", "dying"}]
    /\ ucNotifyState \in [Task -> {"none", "waiting", "received"}]
    /\ ulNotifiedValue \in [Task -> Nat]
    /\ pc \in [Task -> Place]

(* Every live task is in one list, once; pending tasks are among them.     *)
Homes ==
    /\ Holds(pxReadyTasksLists, Ready, uxPriority)
    /\ Ready \cap (Sleeping \cup xSuspendedTaskList \cup xTasksWaitingTermination) = {}
    /\ pxDelayedTaskList \cap pxOverflowDelayedTaskList = {}
    /\ Sleeping \cap (xSuspendedTaskList \cup xTasksWaitingTermination) = {}
    /\ xSuspendedTaskList \cap xTasksWaitingTermination = {}
    /\ Ready \cup Sleeping \cup xSuspendedTaskList \cup xTasksWaitingTermination = Live
    /\ xPendingReadyList \subseteq Live \ xTasksWaitingTermination

(* The search for a task starts high enough.                               *)
TopKnown == Covers(Ready, uxPriority, uxTopReadyPriority)

(* Before the scheduler is started nothing happened but creations; then    *)
(* the idle task is always ready, and the running task exists.             *)
NotStarted ==
    /\ memory[Idle] = "free" /\ \A t \in Task : memory[t] \in {"free", "live"}
    /\ Sleeping = {} /\ xSuspendedTaskList = {} /\ xTasksWaitingTermination = {}
    /\ xPendingReadyList = {} /\ xPendedTicks = 0 /\ uxSchedulerSuspended = 0
    /\ \A t \in Task : pc[t] = App
Alive ==
    /\ uxPriority[Idle] = 0
    /\ pxCurrentTCB # NULL => pxCurrentTCB \in Live
    /\ IF xSchedulerRunning THEN pxCurrentTCB # NULL /\ Idle \in Ready ELSE NotStarted

(* Between vTaskSuspendAll and the end of xTaskResumeAll only one task     *)
(* runs; after it nothing is left pending.  A task that is about to leave  *)
(* the ready lists, to sleep, is still in them.                            *)
In(ops) == xSchedulerRunning /\ pc[pxCurrentTCB].op \in ops
AboutToSleep == {"delay", "take", "wait", "listen", "lock", "test", "inherit", "place"}
Unlocks == {"unlock", "unlocked"}
Urgent == AboutToSleep \cup Unlocks \cup {"catchup", "resume", "drain", "ticks"}
Suspension ==
    /\ \A t \in Task : pc[t].op \in Urgent => t = pxCurrentTCB
    /\ In(AboutToSleep) => uxSchedulerSuspended = 1 /\ pxCurrentTCB \in Ready \ {Idle}
    /\ In(Unlocks) => uxSchedulerSuspended = 1
    /\ At("catchup") \/ At("resume") => uxSchedulerSuspended > 0
    /\ At("drain") \/ At("ticks") => uxSchedulerSuspended = 0
    /\ At("ticks") => xPendingReadyList = {}
    /\ NothingLeftPending

(* A running task that is in no ready list is about to yield.              *)
Leaving ==
    \/ /\ uxSchedulerSuspended = 0
       /\ At("yield") \/ pc[pxCurrentTCB] = [op |-> "suspended", who |-> pxCurrentTCB]
    \/ /\ uxSchedulerSuspended = 1
       /\ \/ At("resume") /\ pc[pxCurrentTCB].not.op = "yield"
          \/ In(Unlocks) /\ pc[pxCurrentTCB].then = "sleeps"
    \/ At("drain") /\ pc[pxCurrentTCB].not.op = "yield"
    \/ At("ticks") /\ pc[pxCurrentTCB].not.op = "yield"
Away == xSchedulerRunning /\ pxCurrentTCB \notin Ready => Leaving

(* A task that is not listed yet, or no longer, belongs to one call.       *)
Adding(t, u) ==
    LET add == [op |-> "add", who |-> u]
    IN  \/ pc[t] = add
        \/ pc[t].op \in {"resume", "drain", "ticks"} /\ (pc[t].yielded = add \/ pc[t].not = add)
Freeing(t, u) == pc[t] = [op |-> "free", who |-> u]
Owned ==
    /\ \A t, u \in Task : Adding(t, u) => memory[u] = "new"
    /\ \A t, v, u \in Task : Adding(t, u) /\ Adding(v, u) => t = v
    /\ \A t, u \in Task : Freeing(t, u) => memory[u] = "dying"
    /\ \A t, v, u \in Task : Freeing(t, u) /\ Freeing(v, u) => t = v

(* A call goes on at the same place whether xTaskResumeAll yielded or not. *)
OneWay ==
    \A t \in Task : pc[t].op \in {"resume", "drain", "ticks"} =>
        Onward(pc[t].yielded) = Onward(pc[t].not)

(* The inductive invariant: the lists, the clock and the counts of tasks.c *)
(* and the places of the calls in progress fit together.                   *)
IInv ==
    /\ Typed /\ Homes /\ TopKnown /\ Alive /\ Suspension /\ Away /\ Owned /\ OneWay
    /\ NeverLate /\ CountsAgree

-----------------------------------------------------------------------------
(* What each operation does to the set of ready tasks.                     *)

ReadyBecomes(R) ==
    /\ Ready' = R
    /\ Holds(pxReadyTasksLists', R, uxPriority')
    /\ Covers(R, uxPriority', uxTopReadyPriority')

LEMMA Becomes ==
    ASSUME NEW R \in SUBSET Task, uxPriority' \in [Task -> Priority],
           Holds(pxReadyTasksLists', R, uxPriority'),
           Covers(R, uxPriority', uxTopReadyPriority')
    PROVE  ReadyBecomes(R)
<1>1. UNION {Members(pxReadyTasksLists'[p]) : p \in Priority} = R
  BY HeldTasks
<1> QED
  BY <1>1 DEF ReadyBecomes, Ready

LEMMA ReadyFacts ==
    ASSUME IInv
    PROVE  /\ Ready \in SUBSET Task /\ Ready \subseteq Live
           /\ uxPriority \in [Task -> Priority] /\ xYieldPendings \in BOOLEAN
           /\ Holds(pxReadyTasksLists, Ready, uxPriority)
           /\ Covers(Ready, uxPriority, uxTopReadyPriority)
           /\ xSchedulerRunning => /\ Idle \in Ready /\ Ready # {} /\ uxPriority[Idle] = 0
                                   /\ pxCurrentTCB \in Live /\ pxCurrentTCB \in Task
  BY DEF IInv, Typed, Homes, TopKnown, Alive, Live

LEMMA RecordCovers ==
    ASSUME IInv, NEW S \in SUBSET Task, NEW priority \in [Task -> Priority],
           \A u \in Ready : priority[u] <= uxTopReadyPriority
    PROVE  Covers(Ready \cup S, priority, taskRECORD_READY_PRIORITY(S, priority))
<1>1. /\ uxTopReadyPriority \in Priority
      /\ \A u \in S : priority[u] \in Priority
      /\ \A u \in Ready : priority[u] \in Priority
  BY ReadyFacts DEF Covers
<1> QED
  BY <1>1, Record

LEMMA AddNewReady ==
    ASSUME IInv, NEW t \in Task \ Ready, uxPriority' \in [Task -> Priority],
           \A u \in Ready : uxPriority'[u] = uxPriority[u],
           AddNew(t, uxPriority')
    PROVE  ReadyBecomes(Ready \cup {t})
<1>1. Holds(pxReadyTasksLists, Ready, uxPriority')
  BY ReadyFacts, HoldsOther
<1>2. Holds(pxReadyTasksLists', Ready \cup {t}, uxPriority')
  BY <1>1, ReadyFacts, AddHolds DEF AddNew
<1>3. \A u \in Ready : uxPriority'[u] <= uxTopReadyPriority
  BY ReadyFacts DEF Covers
<1>4. Covers(Ready \cup {t}, uxPriority', uxTopReadyPriority')
  BY <1>3, ReadyFacts, RecordCovers DEF AddNew
<1> QED
  BY <1>2, <1>4, ReadyFacts, Becomes

LEMMA SameReady ==
    ASSUME IInv, UNCHANGED readyVars, uxPriority' \in [Task -> Priority],
           \A u \in Ready : uxPriority'[u] = uxPriority[u]
    PROVE  ReadyBecomes(Ready)
<1>1. Holds(pxReadyTasksLists, Ready, uxPriority')
  BY ReadyFacts, HoldsOther
<1> QED
  BY <1>1, ReadyFacts, Becomes DEF readyVars, Covers

LEMMA RemoveReady ==
    ASSUME IInv, NEW t, pxReadyTasksLists' = Without(pxReadyTasksLists, t),
           UNCHANGED <<uxTopReadyPriority, uxPriority>>
    PROVE  ReadyBecomes(Ready \ {t})
<1>1. Holds(pxReadyTasksLists', Ready \ {t}, uxPriority')
  BY ReadyFacts, WithoutHolds
<1>2. Covers(Ready \ {t}, uxPriority', uxTopReadyPriority')
  BY ReadyFacts DEF Covers
<1> QED
  BY <1>1, <1>2, ReadyFacts, Becomes

(* A switch, or none, with the lists the caller prepared.                  *)
Switches(R) ==
    /\ ReadyBecomes(R)
    /\ pxCurrentTCB' \in R \cup {pxCurrentTCB}
    /\ uxSchedulerSuspended # 0 => pxCurrentTCB' = pxCurrentTCB
    /\ xYieldPendings' \in BOOLEAN
Served ==
    xYieldPendings' \/ \A u \in Ready' : uxPriority'[u] <= uxPriority'[pxCurrentTCB']
LEMMA SwitchReady ==
    ASSUME IInv, NEW R \in SUBSET Task, R # {}, NEW lists, NEW top,
           uxPriority' \in [Task -> Priority],
           Holds(lists, R, uxPriority'), Covers(R, uxPriority', top),
           vTaskSwitchContext(lists, top) \/ Keep(lists, top)
    PROVE  Switches(R) /\ (vTaskSwitchContext(lists, top) => Served)
<1>1. /\ Holds(pxReadyTasksLists', R, uxPriority')
      /\ Covers(R, uxPriority', uxTopReadyPriority')
      /\ pxCurrentTCB' \in R \cup {pxCurrentTCB}
      /\ uxSchedulerSuspended # 0 => pxCurrentTCB' = pxCurrentTCB
      /\ xYieldPendings' \in BOOLEAN
  BY SwitchOrKeep, ReadyFacts
<1>2. Switches(R)
  BY <1>1, Becomes DEF Switches
<1>3. vTaskSwitchContext(lists, top) => xYieldPendings' \/ \A t \in R : uxPriority'[t] <= uxPriority'[pxCurrentTCB']
  BY SwitchServes
<1> QED
  BY <1>2, <1>3 DEF Switches, ReadyBecomes, Served

(* One task made ready, perhaps with a switch.                             *)
LEMMA AddReady ==
    ASSUME IInv, NEW t \in Task \ Ready
    PROVE  /\ Holds(prvAddTaskToReadyList(pxReadyTasksLists, t, uxPriority), Ready \cup {t}, uxPriority)
           /\ Covers(Ready \cup {t}, uxPriority, taskRECORD_READY_PRIORITY({t}, uxPriority))
<1>1. uxPriority[t] \in Priority /\ \A u \in Ready : uxPriority[u] <= uxTopReadyPriority
  BY ReadyFacts DEF Covers
<1> QED
  BY <1>1, ReadyFacts, AddHolds, RecordCovers

(* A task taken out and put in again.                                      *)
LEMMA MoveReady ==
    ASSUME IInv, NEW t \in Task, NEW priority \in [Task -> Priority],
           \A u \in Ready \ {t} : priority[u] = uxPriority[u]
    PROVE  /\ Holds(prvAddTaskToReadyList(Without(pxReadyTasksLists, t), t, priority),
                    Ready \cup {t}, priority)
           /\ Covers(Ready \cup {t}, priority, taskRECORD_READY_PRIORITY({t}, priority))
<1>1. Holds(Without(pxReadyTasksLists, t), Ready \ {t}, uxPriority)
  BY ReadyFacts, WithoutHolds
<1>2. Holds(Without(pxReadyTasksLists, t), Ready \ {t}, priority)
  BY <1>1, ReadyFacts, HoldsOther
<1>3. Holds(prvAddTaskToReadyList(Without(pxReadyTasksLists, t), t, priority),
            (Ready \ {t}) \cup {t}, priority)
  BY <1>2, ReadyFacts, AddHolds
<1>4. (Ready \ {t}) \cup {t} = Ready \cup {t}
  OBVIOUS
<1>5. /\ uxTopReadyPriority \in Priority
      /\ \A u \in Ready \ {t} : priority[u] <= uxTopReadyPriority
      /\ \A u \in Ready \ {t} : priority[u] \in Priority
      /\ \A u \in {t} : priority[u] \in Priority
  BY ReadyFacts DEF Covers
<1>6. Covers((Ready \ {t}) \cup {t}, priority, taskRECORD_READY_PRIORITY({t}, priority))
  BY <1>5, Record
<1> QED
  BY <1>3, <1>4, <1>6

(* The tasks a tick wakes.                                                 *)
LEMMA WokenReady ==
    ASSUME IInv, NEW order \in OrdersByPriority(Woken)
    PROVE  /\ Woken \subseteq Sleeping
           /\ Holds(WithAll(pxReadyTasksLists, order), Ready \cup Woken, uxPriority)
           /\ Covers(Ready \cup Woken, uxPriority, taskRECORD_READY_PRIORITY(Woken, uxPriority))
<1>1. Woken \subseteq Sleeping
  BY DEF Woken, DueList, Sleeping
<1>2. Woken \in SUBSET Task /\ Woken \cap Ready = {}
  BY <1>1 DEF IInv, Typed, Homes, Sleeping
<1>3. \A u \in Ready : uxPriority[u] <= uxTopReadyPriority
  BY ReadyFacts DEF Covers
<1> QED
  BY <1>1, <1>2, <1>3, ReadyFacts, WithAllHolds, RecordCovers

-----------------------------------------------------------------------------
(* What a place tells, by the operation it is in.                          *)
OutOps == {"app", "takeEnds", "waitEnds", "retry", "recheck", "giveUp"}
EndOps == OutOps \cup {"yield", "add"}
CallOps == {"take", "wait", "listen", "suspend", "lock", "test", "inherit", "place", "unlock", "unlocked"}

LEMMA OutShape ==
    ASSUME NEW p \in Outs
    PROVE  p.op \in OutOps /\ (p.op = "app" => p = App)
<1>1. CASE p = App
  BY <1>1 DEF App, OutOps
<1>2. CASE p \in NotifyEnds
  BY <1>2 DEF NotifyEnds, OutOps
<1>3. CASE p \in [op : {"retry", "recheck"}, act : Acts, time : TimeOuts]
  BY <1>3 DEF OutOps
<1>4. CASE p \in [op : {"giveUp"}]
  BY <1>4 DEF OutOps
<1> QED
  BY <1>1, <1>2, <1>3, <1>4 DEF Outs, QueueEnds

LEMMA CallShape ==
    ASSUME NEW p \in NotifyCalls \cup QueueCalls
    PROVE  p.op \in CallOps
  BY DEF NotifyCalls, QueueCalls, CallOps

LEMMA PlaceShape ==
    ASSUME NEW p \in Place
    PROVE  /\ p.op = "app" => p = App
           /\ p.op = "yield" => p.next \in Outs /\ p = YieldingTo(p.next)
           /\ p.op \in {"suspended", "created", "free", "add"} =>
                 p.who \in Task /\ p = [op |-> p.op, who |-> p.who]
           /\ p.op = "delay" => p.ticks \in 1 .. portMAX_DELAY
           /\ p.op = "catchup" => p.ticks \in Tick
           /\ p.op \in {"resume", "drain", "ticks"} => p.yielded \in Ends /\ p.not \in Ends
           /\ p.op = "drain" => p \in [op : {"drain"}, moved : BOOLEAN, yielded : Ends, not : Ends]
           /\ p.op = "ticks" => p \in [op : {"ticks"}, count : Nat, yielded : Ends, not : Ends]
<1>1. CASE p \in Outs
  BY <1>1, OutShape DEF OutOps
<1>2. CASE p \in Yields
  BY <1>2 DEF Yields, YieldingTo
<1>3. CASE p \in Adds
  BY <1>3 DEF Adds
<1>4. CASE p \in NotifyCalls \cup QueueCalls
  BY <1>4, CallShape DEF CallOps
<1>5. CASE p \in [op : {"delay"}, ticks : 1 .. portMAX_DELAY]
  BY <1>5
<1>6. CASE p \in [op : {"catchup"}, ticks : Tick]
  BY <1>6
<1>7. CASE p \in [op : {"suspended", "created", "free"}, who : Task]
  BY <1>7
<1>8. CASE p \in [op : {"resume"}, yielded : Ends, not : Ends]
  BY <1>8
<1>9. CASE p \in [op : {"drain"}, moved : BOOLEAN, yielded : Ends, not : Ends]
  BY <1>9
<1>10. CASE p \in [op : {"ticks"}, count : Nat, yielded : Ends, not : Ends]
  BY <1>10
<1> QED
  BY <1>1, <1>2, <1>3, <1>4, <1>5, <1>6, <1>7, <1>8, <1>9, <1>10 DEF Place, Ends

(* The operation of an end, and what kind of place each record is.         *)
LEMMA EndShape ==
    ASSUME NEW p \in Ends
    PROVE  p \in Place /\ p.op \in EndOps
<1>1. CASE p \in Outs
  <2>1. p.op \in OutOps
    BY <1>1, OutShape
  <2> QED
    BY <2>1 DEF EndOps, Place
<1>2. CASE p \in Yields
  BY <1>2 DEF Yields, EndOps, Place
<1>3. CASE p \in Adds
  BY <1>3 DEF Adds, EndOps, Place
<1> QED
  BY <1>1, <1>2, <1>3 DEF Ends

LEMMA PlaceMade ==
    /\ App \in Ends /\ Yielding \in Ends
    /\ \A o \in Outs : o \in Ends /\ YieldingTo(o) \in Ends
    /\ \A u \in Task : [op |-> "add", who |-> u] \in Ends
    /\ \A n \in 1 .. portMAX_DELAY : [op |-> "delay", ticks |-> n] \in Place
    /\ \A n \in Tick : [op |-> "catchup", ticks |-> n] \in Place
    /\ \A u \in Task : /\ [op |-> "suspended", who |-> u] \in Place
                       /\ [op |-> "created", who |-> u] \in Place
                       /\ [op |-> "free", who |-> u] \in Place
    /\ \A y, n \in Ends : Resuming(y, n) \in Place
    /\ \A m \in BOOLEAN, y, n \in Ends :
          [op |-> "drain", moved |-> m, yielded |-> y, not |-> n] \in Place
    /\ \A c \in Nat, y, n \in Ends :
          [op |-> "ticks", count |-> c, yielded |-> y, not |-> n] \in Place
<1>1. /\ App \in Outs /\ Outs \subseteq Ends /\ Ends \subseteq Place
      /\ \A o \in Outs : YieldingTo(o) \in Ends
  BY DEF Outs, Yields, YieldingTo, Ends, Place
<1>2. \A u \in Task : [op |-> "add", who |-> u] \in Ends
  BY DEF Adds, Ends
<1>3. /\ \A n \in 1 .. portMAX_DELAY : [op |-> "delay", ticks |-> n] \in Place
      /\ \A n \in Tick : [op |-> "catchup", ticks |-> n] \in Place
      /\ \A u \in Task : /\ [op |-> "suspended", who |-> u] \in Place
                         /\ [op |-> "created", who |-> u] \in Place
                         /\ [op |-> "free", who |-> u] \in Place
  BY DEF Place
<1>4. /\ \A y, n \in Ends : Resuming(y, n) \in Place
      /\ \A m \in BOOLEAN, y, n \in Ends :
            [op |-> "drain", moved |-> m, yielded |-> y, not |-> n] \in Place
      /\ \A c \in Nat, y, n \in Ends :
            [op |-> "ticks", count |-> c, yielded |-> y, not |-> n] \in Place
  BY DEF Resuming, Place
<1> QED
  BY <1>1, <1>2, <1>3, <1>4 DEF Yielding

-----------------------------------------------------------------------------
(* Ticks.                                                                  *)
LEMMA Wraps ==
    ASSUME NEW a \in Tick, NEW n \in Tick
    PROVE  /\ (a + n) % TickRange = IF a + n < TickRange THEN a + n ELSE a + n - TickRange
           /\ (a + n) % TickRange \in Tick
<1> DEFINE W == TickRange
<1>1. W \in Nat /\ W > 1 /\ a \in 0 .. W - 1 /\ n \in 0 .. W - 1
  BY WidthAssumption DEF Tick
<1> HIDE DEF W
<1>2. CASE a + n < W
  <2>1. (a + n) % W = a + n
    BY <1>1, <1>2
  <2> QED
    BY <1>1, <1>2, <2>1 DEF Tick, W
<1>3. CASE ~(a + n < W)
  <2> DEFINE m == a + n - W
  <2>1. m \in Nat /\ m < W /\ a + n = m + 1 * W
    BY <1>1, <1>3
  <2>2. (m + 1 * W) % W = m
    BY <1>1, <2>1
  <2> QED
    BY <1>1, <1>3, <2>1, <2>2 DEF Tick, W
<1> QED
  BY <1>2, <1>3 DEF W

LEMMA NextTickIs ==
    ASSUME xTickCount \in Tick
    PROVE  /\ NextTick \in Tick
           /\ NextTick = IF xTickCount = TickRange - 1 THEN 0 ELSE xTickCount + 1
<1>1. 1 \in Tick
  BY WidthAssumption DEF Tick
<1>2. xTickCount \in 0 .. TickRange - 1 /\ TickRange \in Nat
  BY WidthAssumption DEF Tick
<1>3. /\ NextTick = IF xTickCount + 1 < TickRange THEN xTickCount + 1 ELSE xTickCount + 1 - TickRange
      /\ NextTick \in Tick
  BY <1>1, Wraps DEF NextTick
<1> QED
  BY <1>2, <1>3

LEMMA TimeToWakeIs ==
    ASSUME xTickCount \in Tick, NEW n \in 1 .. portMAX_DELAY
    PROVE  /\ TimeToWake(n) \in Tick /\ TimeToWake(n) # xTickCount
<1>1. n \in Tick /\ n > 0 /\ n < TickRange /\ TickRange \in Nat /\ xTickCount \in 0 .. TickRange - 1
  BY WidthAssumption DEF Tick, portMAX_DELAY
<1>2. /\ TimeToWake(n) = IF xTickCount + n < TickRange THEN xTickCount + n ELSE xTickCount + n - TickRange
      /\ TimeToWake(n) \in Tick
  BY <1>1, Wraps DEF TimeToWake
<1> QED
  BY <1>1, <1>2

LEMMA HeadValueIs ==
    ASSUME NEW S \in SUBSET Task, NEW value \in [Task -> Tick]
    PROVE  HeadValue(S, value) \in Tick /\ \A t \in S : HeadValue(S, value) <= value[t]
<1> DEFINE V == {portMAX_DELAY} \cup {value[t] : t \in S}
<1>1. V \subseteq Tick /\ V \subseteq Nat /\ V # {}
  BY WidthAssumption DEF Tick, portMAX_DELAY
<1>2. Min(V) \in V /\ \A v \in V : Min(V) <= v
  BY <1>1, LeastNumber
<1> HIDE DEF V
<1>3. \A t \in S : value[t] \in V
  BY DEF V
<1> QED
  BY <1>1, <1>2, <1>3 DEF HeadValue, V

LEMMA TickTypes ==
    ASSUME IInv
    PROVE  /\ NextTick \in Tick /\ UnblockTime \in Tick
           /\ DueList \subseteq Task /\ LaterList \subseteq Task
           /\ HeadValue(DueList \ Woken, xItemValue) \in Tick
           /\ TickLists => /\ xTickCount' \in Tick /\ xNextTaskUnblockTime' \in Tick
                           /\ xItemValue' = xItemValue
<1>1. /\ pxDelayedTaskList \subseteq Task /\ pxOverflowDelayedTaskList \subseteq Task
      /\ xItemValue \in [Task -> Tick] /\ xTickCount \in Tick /\ xNextTaskUnblockTime \in Tick
  BY DEF IInv, Typed
<1>2. DueList \subseteq Task /\ LaterList \subseteq Task
  BY <1>1 DEF DueList, LaterList
<1>3. NextTick \in Tick
  BY <1>1, NextTickIs
<1>4. UnblockTime \in Tick
  BY <1>1, <1>2, HeadValueIs DEF UnblockTime
<1>5. HeadValue(DueList \ Woken, xItemValue) \in Tick
  BY <1>1, <1>2, HeadValueIs
<1> QED
  BY <1>2, <1>3, <1>4, <1>5 DEF TickLists

-----------------------------------------------------------------------------
(* A task that is about to sleep is the running one, and ready.            *)
LEMMA SleepsFromReady ==
    ASSUME IInv, xSchedulerRunning, pc[pxCurrentTCB].op \in AboutToSleep
    PROVE  /\ uxSchedulerSuspended = 1 /\ pxCurrentTCB \in Ready /\ pxCurrentTCB # Idle
           /\ pxCurrentTCB \in Task
  BY DEF IInv, Typed, Suspension, In, Alive, Live

LEMMA DelaySleepsFromReady ==
    ASSUME IInv, DelaySleeps
    PROVE  /\ uxSchedulerSuspended = 1 /\ pxCurrentTCB \in Ready /\ pxCurrentTCB # Idle
           /\ xSchedulerRunning
  BY SleepsFromReady DEF DelaySleeps, At, AboutToSleep

-----------------------------------------------------------------------------
(* The steps that leave the ready lists as they are.                       *)
Quiet ==
    \/ SuspendAll \/ ResumeAll \/ vTaskDelay \/ xTaskCatchUpTicks \/ CatchUpPends
    \/ xTaskResumeAll \/ TickPends \/ CreateReturns \/ prvIdleTask \/ ResumeDrained
    \/ SuspendReturns \/ prvCheckTasksWaitingTermination

LEMMA QuietUnchanged == Quiet => UNCHANGED <<readyVars, uxPriority, switchVars>>
  BY DEF Quiet, SuspendAll, ResumeAll, vTaskDelay, xTaskCatchUpTicks, CatchUpPends,
         xTaskResumeAll, TickPends, CreateReturns, prvIdleTask, ResumeDrained,
         SuspendReturns, prvCheckTasksWaitingTermination, readyVars, switchVars

LEMMA QuietReady == IInv /\ Quiet => ReadyBecomes(Ready)
  BY QuietUnchanged, SameReady, ReadyFacts

LEMMA CreateInMainReady ==
    ASSUME IInv, NEW t \in Task \ {Idle}, NEW p \in Priority, CreateBeforeStart(t, p)
    PROVE  t \notin Live /\ uxPriority' \in [Task -> Priority] /\ ReadyBecomes(Ready \cup {t})
<1>1. t \notin Live /\ uxPriority' \in [Task -> Priority]
  BY ReadyFacts DEF CreateBeforeStart, Live
<1>2. \A u \in Ready : uxPriority'[u] = uxPriority[u]
  BY <1>1, ReadyFacts DEF CreateBeforeStart
<1> QED
  BY <1>1, <1>2, ReadyFacts, AddNewReady DEF CreateBeforeStart

LEMMA StartReady ==
    ASSUME IInv, vTaskStartScheduler
    PROVE  Idle \notin Live /\ ReadyBecomes(Ready \cup {Idle})
<1>1. Idle \notin Live /\ UNCHANGED uxPriority
  BY DEF vTaskStartScheduler, Live
<1>2. AddNew(Idle, uxPriority')
  BY <1>1 DEF vTaskStartScheduler, AddNew
<1> QED
  BY <1>1, <1>2, ReadyFacts, TaskAssumption, AddNewReady

LEMMA CreateAddsReady ==
    ASSUME IInv, CreateAdds
    PROVE  /\ pc[pxCurrentTCB].who \in Task /\ memory[pc[pxCurrentTCB].who] = "new"
           /\ ReadyBecomes(Ready \cup {pc[pxCurrentTCB].who})
<1> DEFINE u == pc[pxCurrentTCB].who
<1>1. /\ pxCurrentTCB \in Task /\ pc[pxCurrentTCB].op = "add" /\ pc[pxCurrentTCB] \in Place
  BY ReadyFacts DEF CreateAdds, At, IInv, Typed
<1>2. u \in Task /\ pc[pxCurrentTCB] = [op |-> "add", who |-> u]
  BY <1>1, PlaceShape
<1>3. memory[u] = "new"
  BY <1>1, <1>2 DEF IInv, Owned, Adding
<1>4. u \notin Ready
  BY <1>3, ReadyFacts DEF Live
<1>5. UNCHANGED uxPriority
  BY DEF CreateAdds
<1>6. AddNew(u, uxPriority')
  BY <1>5 DEF CreateAdds, AddNew
<1> QED
  BY <1>2, <1>3, <1>4, <1>5, <1>6, ReadyFacts, AddNewReady

LEMMA CreateReady ==
    ASSUME IInv, NEW t \in Task, NEW p \in Priority, xTaskCreate(t, p)
    PROVE  t \notin Live /\ uxPriority' \in [Task -> Priority] /\ ReadyBecomes(Ready)
<1>1. t \notin Live /\ uxPriority' \in [Task -> Priority] /\ UNCHANGED readyVars
  BY ReadyFacts DEF xTaskCreate, Live
<1>2. \A u \in Ready : uxPriority'[u] = uxPriority[u]
  BY <1>1, ReadyFacts DEF xTaskCreate
<1> QED
  BY <1>1, <1>2, SameReady

LEMMA DeleteTCBReady ==
    ASSUME IInv, prvDeleteTCB
    PROVE  /\ pc[pxCurrentTCB].who \in Task /\ memory[pc[pxCurrentTCB].who] = "dying"
           /\ uxPriority' \in [Task -> Priority] /\ ReadyBecomes(Ready)
<1> DEFINE u == pc[pxCurrentTCB].who
<1>1. /\ pxCurrentTCB \in Task /\ pc[pxCurrentTCB].op = "free" /\ pc[pxCurrentTCB] \in Place
  BY ReadyFacts DEF prvDeleteTCB, At, IInv, Typed
<1>2. u \in Task /\ pc[pxCurrentTCB] = [op |-> "free", who |-> u]
  BY <1>1, PlaceShape
<1>3. memory[u] = "dying"
  BY <1>1, <1>2 DEF IInv, Owned, Freeing
<1>4. u \notin Ready
  BY <1>3, ReadyFacts DEF Live
<1>5. uxPriority' = [uxPriority EXCEPT ![u] = 0] /\ UNCHANGED readyVars
  BY DEF prvDeleteTCB
<1>6. uxPriority' \in [Task -> Priority] /\ \A v \in Ready : uxPriority'[v] = uxPriority[v]
  BY <1>4, <1>5, ReadyFacts, PriorityIsNat
<1> QED
  BY <1>2, <1>3, <1>5, <1>6, SameReady

LEMMA LeaveReady ==
    ASSUME IInv
    PROVE  /\ DelaySleeps => ReadyBecomes(Ready \ {pxCurrentTCB})
           /\ \A t \in Task : vTaskSuspend(t) \/ vTaskDelete(t) => ReadyBecomes(Ready \ {t})
  BY RemoveReady DEF DelaySleeps, prvAddCurrentTaskToDelayedList, vTaskSuspend, vTaskDelete

LEMMA TickCountsReady ==
    ASSUME IInv, TickCounts
    PROVE  /\ Woken \subseteq Sleeping /\ Switches(Ready \cup Woken)
           /\ \/ Served
              \/ UNCHANGED switchVars /\ \A t \in Woken : ~(uxPriority[t] > uxPriority[pxCurrentTCB])
<1>1. UNCHANGED uxPriority /\ xSchedulerRunning
  BY DEF TickCounts
<1>2. PICK order \in OrdersByPriority(Woken) :
        IF SwitchRequired(WithAll(pxReadyTasksLists, order))
        THEN vTaskSwitchContext(WithAll(pxReadyTasksLists, order), taskRECORD_READY_PRIORITY(Woken, uxPriority))
        ELSE Keep(WithAll(pxReadyTasksLists, order), taskRECORD_READY_PRIORITY(Woken, uxPriority))
  BY DEF TickCounts
<1>3. /\ Woken \subseteq Sleeping
      /\ Holds(WithAll(pxReadyTasksLists, order), Ready \cup Woken, uxPriority)
      /\ Covers(Ready \cup Woken, uxPriority, taskRECORD_READY_PRIORITY(Woken, uxPriority))
  BY WokenReady
<1>4. Ready \cup Woken \in SUBSET Task /\ Ready \cup Woken # {}
  BY <1>1, <1>3, ReadyFacts DEF IInv, Typed, Sleeping
<1>5. /\ Switches(Ready \cup Woken)
      /\ vTaskSwitchContext(WithAll(pxReadyTasksLists, order), taskRECORD_READY_PRIORITY(Woken, uxPriority))
            => Served
  BY <1>1, <1>2, <1>3, <1>4, ReadyFacts, SwitchReady
<1>6. CASE ~SwitchRequired(WithAll(pxReadyTasksLists, order))
  BY <1>2, <1>3, <1>5, <1>6 DEF SwitchRequired, Keep
<1> QED
  BY <1>2, <1>3, <1>5, <1>6

LEMMA ResumeTicksReady ==
    ASSUME IInv, ResumeTicks
    PROVE  Woken \subseteq Sleeping /\ ReadyBecomes(Ready \cup Woken)
<1>1. UNCHANGED uxPriority
  BY DEF ResumeTicks
<1>2. PICK order \in OrdersByPriority(Woken) : pxReadyTasksLists' = WithAll(pxReadyTasksLists, order)
  BY DEF ResumeTicks
<1>3. uxTopReadyPriority' = taskRECORD_READY_PRIORITY(Woken, uxPriority)
  BY DEF ResumeTicks
<1>4. /\ Woken \subseteq Sleeping
      /\ Holds(WithAll(pxReadyTasksLists, order), Ready \cup Woken, uxPriority)
      /\ Covers(Ready \cup Woken, uxPriority, taskRECORD_READY_PRIORITY(Woken, uxPriority))
  BY WokenReady
<1>5. Ready \cup Woken \in SUBSET Task
  BY <1>4, ReadyFacts DEF IInv, Typed, Sleeping
<1> QED
  BY <1>1, <1>2, <1>3, <1>4, <1>5, ReadyFacts, Becomes

LEMMA ResumeDrainsReady ==
    ASSUME IInv, NEW t \in Task, ResumeDrains(t)
    PROVE  ReadyBecomes(Ready \cup {t})
<1>1. /\ Holds(prvAddTaskToReadyList(Without(pxReadyTasksLists, t), t, uxPriority), Ready \cup {t}, uxPriority)
      /\ Covers(Ready \cup {t}, uxPriority, taskRECORD_READY_PRIORITY({t}, uxPriority))
  BY ReadyFacts, MoveReady
<1> QED
  BY <1>1, ReadyFacts, Becomes DEF ResumeDrains

LEMMA YieldReady ==
    ASSUME IInv, vPortYield \/ ResumeReturns
    PROVE  /\ Switches(Ready)
           /\ vPortYield \/ xYieldPendings => Served
<1>1. /\ xSchedulerRunning /\ UNCHANGED uxPriority
      /\ \/ vTaskSwitchContext(pxReadyTasksLists, uxTopReadyPriority)
         \/ Keep(pxReadyTasksLists, uxTopReadyPriority)
      /\ vPortYield \/ xYieldPendings => vTaskSwitchContext(pxReadyTasksLists, uxTopReadyPriority)
  BY DEF vPortYield, ResumeReturns, At
<1> QED
  BY <1>1, ReadyFacts, SwitchReady

LEMMA ResumeReady ==
    ASSUME IInv, NEW t \in Task, vTaskResume(t)
    PROVE  /\ Switches(Ready \cup {t})
           /\ \/ Served
              \/ UNCHANGED switchVars /\ ~(uxPriority[pxCurrentTCB] < uxPriority[t])
<1> DEFINE lists == prvAddTaskToReadyList(pxReadyTasksLists, t, uxPriority)
           top   == taskRECORD_READY_PRIORITY({t}, uxPriority)
<1>1. /\ xSchedulerRunning /\ UNCHANGED uxPriority
      /\ t \in xSuspendedTaskList
      /\ IF uxPriority[pxCurrentTCB] < uxPriority[t] THEN vTaskSwitchContext(lists, top)
         ELSE Keep(lists, top)
  BY DEF vTaskResume, Calling, At, prvTaskIsTaskSuspended
<1>2. t \notin Ready
  BY <1>1 DEF IInv, Homes
<1>3. Holds(lists, Ready \cup {t}, uxPriority) /\ Covers(Ready \cup {t}, uxPriority, top)
  BY <1>2, AddReady
<1> HIDE DEF lists, top
<1>4. Switches(Ready \cup {t}) /\ (vTaskSwitchContext(lists, top) => Served)
  BY <1>1, <1>3, ReadyFacts, SwitchReady
<1>5. CASE ~(uxPriority[pxCurrentTCB] < uxPriority[t])
  BY <1>1, <1>4, <1>5 DEF Keep
<1> QED
  BY <1>1, <1>4, <1>5

LEMMA ResumeFromISRReady ==
    ASSUME IInv, NEW t \in Task, xTaskResumeFromISR(t)
    PROVE  /\ t \in xSuspendedTaskList
           /\ ReadyBecomes(IF uxSchedulerSuspended = 0 THEN Ready \cup {t} ELSE Ready)
<1>1. xSchedulerRunning /\ UNCHANGED uxPriority /\ t \in xSuspendedTaskList
  BY DEF xTaskResumeFromISR, prvTaskIsTaskSuspended
<1>2. CASE uxSchedulerSuspended = 0
  <2>1. t \notin Ready
    BY <1>1 DEF IInv, Homes
  <2>2. /\ pxReadyTasksLists' = prvAddTaskToReadyList(pxReadyTasksLists, t, uxPriority)
        /\ uxTopReadyPriority' = taskRECORD_READY_PRIORITY({t}, uxPriority)
    BY <1>2 DEF xTaskResumeFromISR
  <2> QED
    BY <1>1, <1>2, <2>1, <2>2, ReadyFacts, AddReady, Becomes
<1>3. CASE uxSchedulerSuspended # 0
  <2>1. UNCHANGED readyVars
    BY <1>3 DEF xTaskResumeFromISR
  <2> QED
    BY <1>1, <1>3, <2>1, ReadyFacts, SameReady
<1> QED
  BY <1>1, <1>2, <1>3, ReadyFacts DEF IInv, Typed

LEMMA PrioritySetReady ==
    ASSUME IInv, NEW t \in Task, NEW p \in Priority, vTaskPrioritySet(t, p)
    PROVE  /\ uxPriority' \in [Task -> Priority] /\ Switches(Ready)
           /\ \/ Served
              \/ /\ UNCHANGED switchVars
                 /\ IF p > uxPriority[t] THEN t = pxCurrentTCB \/ ~(p > uxPriority[pxCurrentTCB])
                    ELSE t # pxCurrentTCB
<1> DEFINE yield == IF p > uxPriority[t] THEN t # pxCurrentTCB /\ p > uxPriority[pxCurrentTCB]
                    ELSE t = pxCurrentTCB
           moved == prvAddTaskToReadyList(Without(pxReadyTasksLists, t), t, uxPriority')
           above == taskRECORD_READY_PRIORITY({t}, uxPriority')
<1>1. /\ xSchedulerRunning /\ uxPriority' = [uxPriority EXCEPT ![t] = p]
      /\ uxPriority' \in [Task -> Priority]
  BY ReadyFacts DEF vTaskPrioritySet, Calling, At
<1>2. t \in Members(pxReadyTasksLists[uxPriority[t]]) <=> t \in Ready
  BY ReadyFacts DEF Holds
<1>3. PICK lists, top :
        /\ Holds(lists, Ready, uxPriority') /\ Covers(Ready, uxPriority', top)
        /\ IF yield THEN vTaskSwitchContext(lists, top) ELSE Keep(lists, top)
  <2>1. CASE t \in Ready
    <3>1. Ready \cup {t} = Ready
      BY <2>1
    <3>2. \A u \in Ready \ {t} : uxPriority'[u] = uxPriority[u]
      BY <1>1, ReadyFacts
    <3>3. Holds(moved, Ready, uxPriority') /\ Covers(Ready, uxPriority', above)
      BY <1>1, <3>1, <3>2, MoveReady
    <3>4. IF yield THEN vTaskSwitchContext(moved, above) ELSE Keep(moved, above)
      BY <1>2, <2>1 DEF vTaskPrioritySet
    <3> HIDE DEF moved, above, yield
    <3> QED
      BY <3>3, <3>4
  <2>2. CASE t \notin Ready
    <3>1. \A u \in Ready : uxPriority'[u] = uxPriority[u]
      BY <1>1, <2>2, ReadyFacts
    <3>2. Holds(pxReadyTasksLists, Ready, uxPriority') /\ Covers(Ready, uxPriority', uxTopReadyPriority)
      BY <3>1, ReadyFacts, HoldsOther DEF Covers
    <3>3. IF yield THEN vTaskSwitchContext(pxReadyTasksLists, uxTopReadyPriority)
          ELSE Keep(pxReadyTasksLists, uxTopReadyPriority)
      BY <1>2, <2>2 DEF vTaskPrioritySet
    <3> HIDE DEF yield
    <3> QED
      BY <3>2, <3>3
  <2> QED
    BY <2>1, <2>2
<1> HIDE DEF moved, above
<1>4. Switches(Ready) /\ (vTaskSwitchContext(lists, top) => Served)
  BY <1>1, <1>3, ReadyFacts, SwitchReady
<1>5. CASE yield
  BY <1>1, <1>3, <1>4, <1>5
<1>6. CASE ~yield
  BY <1>1, <1>3, <1>4, <1>6 DEF Keep
<1> QED
  BY <1>5, <1>6

-----------------------------------------------------------------------------
(* Types.                                                                  *)

(* The running task, and where it is.                                      *)
LEMMA Here ==
    ASSUME IInv, xSchedulerRunning
    PROVE  /\ pxCurrentTCB \in Task /\ pxCurrentTCB \in Live /\ pc \in [Task -> Place]
           /\ pc[pxCurrentTCB] \in Place
  BY ReadyFacts DEF IInv, Typed

LEMMA QuietTyped == IInv /\ Quiet => Typed'
<1> SUFFICES ASSUME IInv, Quiet PROVE Typed'
  OBVIOUS
<1> USE DEF IInv, Typed, NotListed, sleepVars, readyVars, switchVars, lifeVars, notifyVars, timeVars, Goto
<1>1. CASE SuspendAll
  BY <1>1 DEF SuspendAll, vTaskSuspendAll
<1>2. CASE ResumeAll
  BY <1>2, PlaceMade DEF ResumeAll
<1>3. CASE vTaskDelay
  <2>1. PICK n \in Delays :
           IF n > 0 THEN vTaskSuspendAll /\ Goto([op |-> "delay", ticks |-> n])
           ELSE Goto(Yielding) /\ UNCHANGED uxSchedulerSuspended
    BY <1>3 DEF vTaskDelay
  <2>2. pc' \in [Task -> Place] /\ uxSchedulerSuspended' \in Nat
    <3>1. Yielding \in Place
      BY PlaceMade, EndShape
    <3>2. n > 0 => n \in 1 .. portMAX_DELAY
      BY BoundAssumption
    <3> QED
      BY <2>1, <3>1, <3>2, PlaceMade DEF vTaskSuspendAll
  <2> QED
    BY <1>3, <2>2 DEF vTaskDelay
<1>4. CASE xTaskCatchUpTicks
  <2>1. PICK n \in CatchUps : pc' = [pc EXCEPT ![pxCurrentTCB] = [op |-> "catchup", ticks |-> n]]
    BY <1>4 DEF xTaskCatchUpTicks
  <2>2. pc' \in [Task -> Place]
    BY <2>1, PlaceMade, BoundAssumption
  <2> QED
    BY <1>4, <2>2 DEF xTaskCatchUpTicks, vTaskSuspendAll
<1>5. CASE CatchUpPends
  <2>1. pc[pxCurrentTCB].ticks \in Tick
    BY <1>5, Here, PlaceShape DEF CatchUpPends, At
  <2>2. xPendedTicks + pc[pxCurrentTCB].ticks \in Nat
    BY <2>1 DEF Tick
  <2> QED
    BY <1>5, <2>2, PlaceMade DEF CatchUpPends
<1>6. CASE xTaskResumeAll
  <2>1. /\ pc[pxCurrentTCB].yielded \in Ends /\ pc[pxCurrentTCB].not \in Ends
        /\ uxSchedulerSuspended - 1 \in Nat
    BY <1>6, Here, PlaceShape DEF xTaskResumeAll, At, Suspension
  <2>2. pc' \in [Task -> Place]
    BY <1>6, <2>1, PlaceMade, EndShape DEF xTaskResumeAll
  <2> QED
    BY <1>6, <2>1, <2>2 DEF xTaskResumeAll
<1>7. CASE TickPends
  BY <1>7 DEF TickPends
<1>8. CASE CreateReturns
  BY <1>8, PlaceMade, EndShape DEF CreateReturns
<1>9. CASE prvIdleTask
  BY <1>9, PlaceMade, EndShape DEF prvIdleTask
<1>10. CASE ResumeDrained
  <2>1. pc[pxCurrentTCB].yielded \in Ends /\ pc[pxCurrentTCB].not \in Ends
    BY <1>10, Here, PlaceShape DEF ResumeDrained, At
  <2>2. pc' \in [Task -> Place]
    BY <1>10, <2>1, PlaceMade DEF ResumeDrained
  <2>3. xNextTaskUnblockTime' \in Tick
    BY <1>10, HeadValueIs DEF ResumeDrained, prvResetNextTaskUnblockTime
  <2> QED
    BY <1>10, <2>2, <2>3 DEF ResumeDrained
<1>11. CASE SuspendReturns
  <2>1. pc' \in [Task -> Place]
    BY <1>11, PlaceMade, EndShape DEF SuspendReturns
  <2>2. xNextTaskUnblockTime' \in Tick
    BY <1>11, HeadValueIs DEF SuspendReturns, prvResetNextTaskUnblockTime
  <2> QED
    BY <1>11, <2>1, <2>2 DEF SuspendReturns
<1>12. CASE prvCheckTasksWaitingTermination
  <2>1. PICK t \in xTasksWaitingTermination :
          /\ xTasksWaitingTermination' = xTasksWaitingTermination \ {t}
          /\ memory' = [memory EXCEPT ![t] = "dying"]
          /\ pc' = [pc EXCEPT ![pxCurrentTCB] = [op |-> "free", who |-> t]]
    BY <1>12 DEF prvCheckTasksWaitingTermination
  <2>2. pc' \in [Task -> Place]
    BY <2>1, PlaceMade
  <2> QED
    BY <1>12, <2>1, <2>2 DEF prvCheckTasksWaitingTermination
<1> QED
  BY <1>1, <1>2, <1>3, <1>4, <1>5, <1>6, <1>7, <1>8, <1>9, <1>10, <1>11, <1>12 DEF Quiet

LEMMA TypedKept == IInv /\ Next => Typed'
<1> SUFFICES ASSUME IInv, Next PROVE Typed'
  OBVIOUS
<1> USE DEF IInv, Typed, NotListed, sleepVars, switchVars, lifeVars, notifyVars, timeVars, Goto
<1>1. CASE xTaskCreateInMain
  <2>1. PICK t \in Task \ {Idle}, p \in Priority : CreateBeforeStart(t, p)
    BY <1>1 DEF xTaskCreateInMain
  <2> QED
    BY <1>1, <2>1, CreateInMainReady DEF xTaskCreateInMain, CreateBeforeStart, AddNew
<1>2. CASE vTaskStartScheduler
  <2>1. portMAX_DELAY \in Tick
    BY WidthAssumption DEF portMAX_DELAY, Tick
  <2> QED
    BY <1>2, <2>1, TaskAssumption DEF vTaskStartScheduler, AddNew
<1>3. CASE Quiet
  BY <1>3, QuietTyped
<1>4. ASSUME NEW t \in Task, NEW p \in Priority, xTaskCreate(t, p) PROVE Typed'
  <2>1. PICK place \in Place : pc' = [pc EXCEPT ![pxCurrentTCB] = place] \/ pc' = [pc EXCEPT ![pxCurrentTCB] = place, ![t] = App]
    BY <1>4, PlaceMade DEF xTaskCreate
  <2>2. pc' \in [Task -> Place]
    BY <2>1, PlaceMade, EndShape
  <2> QED
    BY <1>4, <2>2, CreateReady DEF xTaskCreate, vTaskSuspendAll
<1>5. CASE CreateAdds
  <2>1. pc' \in [Task -> Place]
    BY <1>5, CreateAddsReady, PlaceMade DEF CreateAdds
  <2> QED
    BY <1>5, <2>1 DEF CreateAdds, AddNew
<1>6. CASE DelaySleeps
  <2>1. pc[pxCurrentTCB].ticks \in 1 .. portMAX_DELAY
    BY <1>6, Here, PlaceShape DEF DelaySleeps, At
  <2> DEFINE wake == TimeToWake(pc[pxCurrentTCB].ticks)
  <2>2. wake \in Tick /\ pxCurrentTCB \in Task
    BY <1>6, <2>1, Here, TimeToWakeIs DEF DelaySleeps, At
  <2>3. Min({xNextTaskUnblockTime, wake}) \in Tick
    <3> DEFINE V == {xNextTaskUnblockTime, wake}
    <3>1. V \subseteq Tick /\ V # {}
      BY <2>2
    <3>2. V \subseteq Nat
      BY <3>1 DEF Tick
    <3> HIDE DEF V
    <3>3. Min(V) \in V
      BY <3>1, <3>2, LeastNumber
    <3> QED
      BY <3>1, <3>3 DEF V
  <2>4. pc' \in [Task -> Place]
    BY <1>6, PlaceMade DEF DelaySleeps
  <2> HIDE DEF wake
  <2>5. /\ xItemValue' = [xItemValue EXCEPT ![pxCurrentTCB] = wake]
        /\ xNextTaskUnblockTime' \in {xNextTaskUnblockTime, Min({xNextTaskUnblockTime, wake})}
        /\ pxDelayedTaskList' \in {pxDelayedTaskList, pxDelayedTaskList \cup {pxCurrentTCB}}
        /\ pxOverflowDelayedTaskList' \in
              {pxOverflowDelayedTaskList, pxOverflowDelayedTaskList \cup {pxCurrentTCB}}
        /\ UNCHANGED xSuspendedTaskList
    BY <1>6 DEF DelaySleeps, prvAddCurrentTaskToDelayedList, wake
  <2> QED
    BY <1>6, <2>2, <2>3, <2>4, <2>5 DEF DelaySleeps
<1>7. ASSUME NEW t \in Task, vTaskSuspend(t) PROVE Typed'
  <2>1. pc' \in [Task -> Place]
    BY <1>7, PlaceMade DEF vTaskSuspend
  <2> QED
    BY <1>7, <2>1 DEF vTaskSuspend, Unlink
<1>8. ASSUME NEW t \in Task, vTaskResume(t) PROVE Typed'
  <2>1. Switches(Ready \cup {t})
    BY <1>8, ResumeReady
  <2> QED
    BY <1>8, <2>1, ReadyFacts DEF vTaskResume, Switches
<1>9. ASSUME NEW t \in Task, vTaskDelete(t) PROVE Typed'
  <2>1. pc' \in [Task -> Place]
    <3>1. Yielding \in Place /\ [op |-> "free", who |-> t] \in Place
      BY PlaceMade, EndShape
    <3>2. \/ pc' = [pc EXCEPT ![pxCurrentTCB] = Yielding]
          \/ pc' = [pc EXCEPT ![pxCurrentTCB] = [op |-> "free", who |-> t]]
      BY <1>9 DEF vTaskDelete
    <3> QED
      BY <3>1, <3>2
  <2>2. xNextTaskUnblockTime' \in Tick
    BY <1>9, HeadValueIs DEF vTaskDelete, Unlink, prvResetNextTaskUnblockTime
  <2> QED
    BY <1>9, <2>1, <2>2 DEF vTaskDelete, Unlink
<1>10. CASE prvDeleteTCB
  <2> DEFINE u == pc[pxCurrentTCB].who
  <2>1. u \in Task /\ uxPriority' \in [Task -> Priority] /\ 0 \in Tick
    BY <1>10, DeleteTCBReady, WidthAssumption DEF Tick
  <2>2. pc' \in [Task -> Place]
    <3>1. pc' = [pc EXCEPT ![pxCurrentTCB] = Resuming(App, App), ![u] = App]
      BY <1>10 DEF prvDeleteTCB
    <3> QED
      BY <3>1, PlaceMade, EndShape
  <2> QED
    BY <1>10, <2>1, <2>2 DEF prvDeleteTCB, vTaskSuspendAll
<1>11. ASSUME NEW t \in Task, NEW p \in Priority, vTaskPrioritySet(t, p) PROVE Typed'
  BY <1>11, PrioritySetReady, ReadyFacts DEF vTaskPrioritySet, Switches
<1>12. ASSUME NEW t \in Task, ResumeDrains(t) PROVE Typed'
  <2>1. /\ pxCurrentTCB \in Task
        /\ pc[pxCurrentTCB] \in [op : {"drain"}, moved : BOOLEAN, yielded : Ends, not : Ends]
    BY <1>12, Here, PlaceShape DEF ResumeDrains, At
  <2>2. pc' = [pc EXCEPT ![pxCurrentTCB] = [pc[pxCurrentTCB] EXCEPT !.moved = TRUE]]
    BY <1>12 DEF ResumeDrains
  <2>3. [pc[pxCurrentTCB] EXCEPT !.moved = TRUE] \in Place
    BY <2>1 DEF Place
  <2>4. pc' \in [Task -> Place]
    BY <2>2, <2>3
  <2> QED
    BY <1>12, <2>4 DEF ResumeDrains
<1>13. CASE ResumeTicks
  <2>1. /\ pxCurrentTCB \in Task /\ pc[pxCurrentTCB].count > 0
        /\ pc[pxCurrentTCB] \in [op : {"ticks"}, count : Nat, yielded : Ends, not : Ends]
    BY <1>13, Here, PlaceShape DEF ResumeTicks, At
  <2>2. pc' = [pc EXCEPT ![pxCurrentTCB] = [pc[pxCurrentTCB] EXCEPT !.count = @ - 1]]
    BY <1>13 DEF ResumeTicks
  <2>3. [pc[pxCurrentTCB] EXCEPT !.count = @ - 1] \in Place
    BY <2>1 DEF Place
  <2>4. pc' \in [Task -> Place]
    BY <2>2, <2>3
  <2>5. xYieldPendings' \in BOOLEAN
    BY <1>13 DEF ResumeTicks
  <2> QED
    BY <1>13, <2>4, <2>5, TickTypes DEF ResumeTicks, TickLists
<1>14. CASE ResumeReturns \/ vPortYield
  <2>2. pc' \in [Task -> Place]
    <3>1. CASE ResumeReturns
      <4>1. pc[pxCurrentTCB].yielded \in Place /\ pc[pxCurrentTCB].not \in Place
        BY <3>1, Here, PlaceShape, EndShape DEF ResumeReturns, At
      <4> QED
        BY <3>1, <4>1 DEF ResumeReturns
    <3>2. CASE vPortYield
      <4>1. pc[pxCurrentTCB].next \in Outs
        BY <3>2, Here, PlaceShape DEF vPortYield, At
      <4> QED
        BY <3>2, <4>1, PlaceMade, EndShape DEF vPortYield
    <3> QED
      BY <1>14, <3>1, <3>2
  <2> QED
    BY <1>14, <2>2, YieldReady, ReadyFacts DEF ResumeReturns, vPortYield, Switches
<1>15. CASE TickCounts
  <2>1. /\ xTickCount' \in Tick /\ xNextTaskUnblockTime' \in Tick /\ xItemValue' = xItemValue
        /\ pxDelayedTaskList' \subseteq Task /\ pxOverflowDelayedTaskList' \subseteq Task
        /\ xPendingReadyList' \subseteq Task
    BY <1>15, TickTypes DEF TickCounts, TickLists
  <2>2. pxCurrentTCB' \in Task \cup {NULL} /\ xYieldPendings' \in BOOLEAN
    BY <1>15, TickCountsReady, ReadyFacts DEF Switches, Sleeping
  <2> QED
    BY <1>15, <2>1, <2>2 DEF TickCounts
<1>16. ASSUME NEW t \in Task, xTaskResumeFromISR(t) PROVE Typed'
  BY <1>16 DEF xTaskResumeFromISR
<1> QED
  BY <1>1, <1>2, <1>3, <1>4, <1>5, <1>6, <1>7, <1>8, <1>9, <1>10, <1>11, <1>12, <1>13, <1>14, <1>15,
     <1>16, BoundAssumption
  DEF Next, AppCalls, KernelSteps, Interrupts, vPortYieldFromTick, Quiet

-----------------------------------------------------------------------------
(* Every live task in one list.                                            *)

LEMMA LiveBecomes ==
    ASSUME IInv, NEW t \in Task, NEW x, memory' = [memory EXCEPT ![t] = x]
    PROVE  Live' = IF x = "live" THEN Live \cup {t} ELSE Live \ {t}
  BY DEF IInv, Typed, Live

LEMMA HomesKept == IInv /\ Next => Homes' /\ TopKnown'
<1> SUFFICES ASSUME IInv, Next PROVE Homes' /\ TopKnown'
  OBVIOUS
<1> USE DEF Homes, TopKnown, Sleeping, ReadyBecomes, NotListed, sleepVars, lifeVars
<1> Homes
  BY DEF IInv
<1>1. CASE xTaskCreateInMain
  <2>1. PICK t \in Task \ {Idle}, p \in Priority : CreateBeforeStart(t, p)
    BY <1>1 DEF xTaskCreateInMain
  <2>2. t \notin Live /\ ReadyBecomes(Ready \cup {t})
    BY <2>1, CreateInMainReady
  <2>3. Live' = Live \cup {t}
    BY <2>1, LiveBecomes DEF CreateBeforeStart, AddNew
  <2> QED
    BY <2>1, <2>2, <2>3 DEF CreateBeforeStart
<1>2. CASE vTaskStartScheduler
  <2>1. Idle \notin Live /\ ReadyBecomes(Ready \cup {Idle})
    BY <1>2, StartReady
  <2>2. Live' = Live \cup {Idle}
    BY <1>2, LiveBecomes, TaskAssumption DEF vTaskStartScheduler, AddNew
  <2> QED
    BY <1>2, <2>1, <2>2 DEF vTaskStartScheduler
<1>3. CASE Quiet
  <2>1. ReadyBecomes(Ready)
    BY <1>3, QuietReady
  <2>2. CASE prvCheckTasksWaitingTermination
    <3>1. PICK t \in xTasksWaitingTermination :
            /\ xTasksWaitingTermination' = xTasksWaitingTermination \ {t}
            /\ memory' = [memory EXCEPT ![t] = "dying"]
      BY <2>2 DEF prvCheckTasksWaitingTermination
    <3>2. t \in Task
      BY DEF IInv, Typed
    <3>3. Live' = Live \ {t}
      BY <3>1, <3>2 DEF Live, IInv, Typed
    <3> QED
      BY <2>1, <2>2, <3>1, <3>2, <3>3 DEF prvCheckTasksWaitingTermination
  <2>3. CASE ~prvCheckTasksWaitingTermination
    <3>1. UNCHANGED <<pxDelayedTaskList, pxOverflowDelayedTaskList, xSuspendedTaskList,
                      xPendingReadyList, xTasksWaitingTermination, memory>>
      BY <1>3, <2>3
      DEF Quiet, SuspendAll, ResumeAll, vTaskDelay, xTaskCatchUpTicks, CatchUpPends, xTaskResumeAll,
          TickPends, CreateReturns, prvIdleTask, ResumeDrained, SuspendReturns
    <3> QED
      BY <2>1, <3>1 DEF Live
  <2> QED
    BY <2>2, <2>3
<1>4. ASSUME NEW t \in Task, NEW p \in Priority, xTaskCreate(t, p) PROVE Homes' /\ TopKnown'
  <2>1. t \notin Live /\ ReadyBecomes(Ready)
    BY <1>4, CreateReady
  <2>2. Live' = Live
    BY <1>4, <2>1, LiveBecomes DEF xTaskCreate, Live
  <2> QED
    BY <1>4, <2>1, <2>2 DEF xTaskCreate
<1>5. CASE CreateAdds
  <2> DEFINE u == pc[pxCurrentTCB].who
  <2>1. u \in Task /\ memory[u] = "new" /\ ReadyBecomes(Ready \cup {u})
    BY <1>5, CreateAddsReady
  <2>2. u \notin Live /\ Live' = Live \cup {u}
    BY <1>5, <2>1, LiveBecomes DEF CreateAdds, AddNew, Live
  <2> QED
    BY <1>5, <2>1, <2>2 DEF CreateAdds
<1>6. CASE DelaySleeps
  <2>1. ReadyBecomes(Ready \ {pxCurrentTCB}) /\ pxCurrentTCB \in Ready
    BY <1>6, LeaveReady, DelaySleepsFromReady
  <2>2. /\ UNCHANGED <<xSuspendedTaskList, xPendingReadyList, xTasksWaitingTermination, memory>>
        /\ \/ /\ pxDelayedTaskList' = pxDelayedTaskList \cup {pxCurrentTCB}
              /\ UNCHANGED pxOverflowDelayedTaskList
           \/ /\ pxOverflowDelayedTaskList' = pxOverflowDelayedTaskList \cup {pxCurrentTCB}
              /\ UNCHANGED pxDelayedTaskList
    BY <1>6 DEF DelaySleeps, prvAddCurrentTaskToDelayedList
  <2>3. Live' = Live
    BY <2>2 DEF Live
  <2> QED
    BY <2>1, <2>2, <2>3
<1>7. ASSUME NEW t \in Task, vTaskSuspend(t) PROVE Homes' /\ TopKnown'
  <2>1. ReadyBecomes(Ready \ {t}) /\ t \in Live \ xTasksWaitingTermination /\ Live' = Live
    BY <1>7, LeaveReady DEF vTaskSuspend, Live
  <2> QED
    BY <1>7, <2>1 DEF vTaskSuspend, Unlink
<1>8. ASSUME NEW t \in Task, vTaskResume(t) PROVE Homes' /\ TopKnown'
  <2>1. ReadyBecomes(Ready \cup {t}) /\ t \in xSuspendedTaskList /\ Live' = Live
    BY <1>8, ResumeReady DEF vTaskResume, prvTaskIsTaskSuspended, Live, Switches
  <2> QED
    BY <1>8, <2>1 DEF vTaskResume
<1>9. ASSUME NEW t \in Task, vTaskDelete(t) PROVE Homes' /\ TopKnown'
  <2>1. ReadyBecomes(Ready \ {t}) /\ t \in Live \ xTasksWaitingTermination
    BY <1>9, LeaveReady DEF vTaskDelete
  <2>2. CASE t = pxCurrentTCB
    <3>1. Live' = Live
      BY <1>9, <2>2 DEF vTaskDelete, Live
    <3> QED
      BY <1>9, <2>1, <2>2, <3>1 DEF vTaskDelete, Unlink
  <2>3. CASE t # pxCurrentTCB
    <3>1. Live' = Live \ {t} /\ xTasksWaitingTermination' = xTasksWaitingTermination
      BY <1>9, <2>3, LiveBecomes DEF vTaskDelete
    <3> QED
      BY <1>9, <2>1, <3>1 DEF vTaskDelete, Unlink
  <2> QED
    BY <2>2, <2>3
<1>10. CASE prvDeleteTCB
  <2> DEFINE u == pc[pxCurrentTCB].who
  <2>1. u \in Task /\ memory[u] = "dying" /\ ReadyBecomes(Ready)
    BY <1>10, DeleteTCBReady
  <2>2. Live' = Live
    BY <1>10, <2>1, LiveBecomes DEF prvDeleteTCB, Live
  <2> QED
    BY <1>10, <2>1, <2>2 DEF prvDeleteTCB
<1>11. ASSUME NEW t \in Task, NEW p \in Priority, vTaskPrioritySet(t, p) PROVE Homes' /\ TopKnown'
  <2>1. ReadyBecomes(Ready) /\ Live' = Live
    BY <1>11, PrioritySetReady DEF vTaskPrioritySet, Live, Switches
  <2> QED
    BY <1>11, <2>1 DEF vTaskPrioritySet
<1>12. ASSUME NEW t \in Task, ResumeDrains(t) PROVE Homes' /\ TopKnown'
  <2>1. ReadyBecomes(Ready \cup {t}) /\ Live' = Live /\ t \in Live \ xTasksWaitingTermination
    BY <1>12, ResumeDrainsReady DEF ResumeDrains, Live
  <2> QED
    BY <1>12, <2>1 DEF ResumeDrains
<1>13. CASE ResumeTicks \/ TickCounts
  <2>1. Woken \subseteq Sleeping /\ ReadyBecomes(Ready \cup Woken) /\ Live' = Live /\ TickLists
    BY <1>13, ResumeTicksReady, TickCountsReady DEF ResumeTicks, TickCounts, Live, Switches
  <2>2. UNCHANGED <<xSuspendedTaskList, xTasksWaitingTermination>>
    BY <1>13 DEF ResumeTicks, TickCounts
  <2>3. /\ DueList \cup LaterList = Sleeping /\ DueList \cap LaterList = {} /\ Woken \subseteq DueList
    BY DEF DueList, LaterList, Woken
  <2>4. /\ pxDelayedTaskList' = DueList \ Woken /\ pxOverflowDelayedTaskList' = LaterList
        /\ xPendingReadyList' \subseteq xPendingReadyList
    BY <2>1 DEF TickLists
  <2> QED
    BY <2>1, <2>2, <2>3, <2>4
<1>14. CASE ResumeReturns \/ vPortYield
  <2>1. ReadyBecomes(Ready) /\ Live' = Live
    BY <1>14, YieldReady DEF ResumeReturns, vPortYield, Live, Switches
  <2> QED
    BY <1>14, <2>1 DEF ResumeReturns, vPortYield
<1>15. ASSUME NEW t \in Task, xTaskResumeFromISR(t) PROVE Homes' /\ TopKnown'
  <2>1. /\ t \in xSuspendedTaskList /\ Live' = Live
        /\ ReadyBecomes(IF uxSchedulerSuspended = 0 THEN Ready \cup {t} ELSE Ready)
    BY <1>15, ResumeFromISRReady DEF xTaskResumeFromISR, Live
  <2>2. CASE uxSchedulerSuspended = 0
    BY <1>15, <2>1, <2>2 DEF xTaskResumeFromISR
  <2>3. CASE uxSchedulerSuspended # 0
    BY <1>15, <2>1, <2>3 DEF xTaskResumeFromISR
  <2> QED
    BY <2>2, <2>3
<1> QED
  BY <1>1, <1>2, <1>3, <1>4, <1>5, <1>6, <1>7, <1>8, <1>9, <1>10, <1>11, <1>12, <1>13, <1>14, <1>15,
     BoundAssumption
  DEF Next, AppCalls, KernelSteps, Interrupts, vPortYieldFromTick, Quiet

-----------------------------------------------------------------------------
(* The running task is alive, and the idle task ready.                     *)

LEMMA StaysRunning ==
    AppCalls \/ KernelSteps \/ Interrupts => xSchedulerRunning /\ UNCHANGED xSchedulerRunning
<1> USE DEF lifeVars
<1>1. AppCalls => xSchedulerRunning /\ UNCHANGED xSchedulerRunning
  BY DEF AppCalls, SuspendAll, ResumeAll, vTaskDelay, xTaskCatchUpTicks, vTaskSuspend, vTaskResume,
         vTaskDelete, vTaskPrioritySet, xTaskCreate, Calling, At
<1>2. KernelSteps => xSchedulerRunning /\ UNCHANGED xSchedulerRunning
  BY DEF KernelSteps, DelaySleeps, CatchUpPends, SuspendReturns, CreateAdds, CreateReturns, AddNew,
         prvDeleteTCB, xTaskResumeAll, ResumeDrains, ResumeDrained, ResumeTicks, ResumeReturns,
         vPortYield, prvCheckTasksWaitingTermination, prvIdleTask, At
<1>3. Interrupts => xSchedulerRunning /\ UNCHANGED xSchedulerRunning
  BY DEF Interrupts, vPortYieldFromTick, TickPends, TickCounts, xTaskResumeFromISR
<1> QED
  BY <1>1, <1>2, <1>3

LEMMA AliveKept == IInv /\ Next => Alive'
<1> SUFFICES ASSUME IInv, Next PROVE Alive'
  OBVIOUS
<1> USE DEF Alive
<1> Alive /\ Typed
  BY DEF IInv
<1>1. CASE xTaskCreateInMain
  <2>1. PICK t \in Task \ {Idle}, p \in Priority : CreateBeforeStart(t, p)
    BY <1>1 DEF xTaskCreateInMain
  <2>2. Live' = Live \cup {t}
    BY <2>1, LiveBecomes DEF CreateBeforeStart, AddNew
  <2>3. uxPriority'[Idle] = 0 /\ (pxCurrentTCB' # NULL => pxCurrentTCB' \in Live')
    BY <2>1, <2>2, TaskAssumption DEF CreateBeforeStart, Typed
  <2>4. memory' = [memory EXCEPT ![t] = "live"]
    BY <2>1 DEF CreateBeforeStart, AddNew
  <2>5. NotStarted'
    BY <1>1, <2>1, <2>4 DEF xTaskCreateInMain, CreateBeforeStart, NotStarted, NotListed, sleepVars, Sleeping, Typed
  <2> QED
    BY <1>1, <2>3, <2>5 DEF xTaskCreateInMain
<1>2. CASE vTaskStartScheduler
  <2>1. Idle \in Ready' /\ xSchedulerRunning' /\ uxPriority' = uxPriority
    BY <1>2, StartReady DEF vTaskStartScheduler, ReadyBecomes
  <2>2. Live' = Live \cup {Idle}
    BY <1>2, LiveBecomes, TaskAssumption DEF vTaskStartScheduler, AddNew
  <2>3. pxCurrentTCB' # NULL /\ pxCurrentTCB' \in Live'
    BY <1>2, <2>2, TaskAssumption DEF vTaskStartScheduler
  <2> QED
    BY <2>1, <2>3
<1>3. CASE ~xTaskCreateInMain /\ ~vTaskStartScheduler
  <2>1. xSchedulerRunning /\ xSchedulerRunning'
    BY <1>3, StaysRunning DEF Next
  <2>2. Homes' /\ TopKnown'
    BY HomesKept
  <2>3. Idle \in Ready /\ Ready' \subseteq Live'
    BY <2>1, <2>2 DEF Homes
  <2> SUFFICES uxPriority'[Idle] = 0 /\ Idle \in Ready' /\ pxCurrentTCB' \in Live'
    BY <2>1, TaskAssumption DEF Live
  <2>4. ASSUME ReadyBecomes(Ready), UNCHANGED <<uxPriority, pxCurrentTCB, memory>>
        PROVE  uxPriority'[Idle] = 0 /\ Idle \in Ready' /\ pxCurrentTCB' \in Live'
    BY <2>1, <2>3, <2>4, TaskAssumption DEF ReadyBecomes, Live
  <2>5. CASE Quiet
    <3>1. CASE prvCheckTasksWaitingTermination
      <4>1. PICK t \in xTasksWaitingTermination : memory' = [memory EXCEPT ![t] = "dying"]
        BY <3>1 DEF prvCheckTasksWaitingTermination
      <4>2. t # Idle /\ pxCurrentTCB = Idle /\ memory[Idle] = "live"
        BY <2>3, <3>1, <2>1, TaskAssumption DEF prvCheckTasksWaitingTermination, IInv, Homes, Live
      <4>3. memory'[Idle] = "live"
        BY <4>1, <4>2, TaskAssumption DEF Typed
      <4> QED
        BY <4>2, <4>3, <2>3, <2>5, QuietReady, QuietUnchanged, TaskAssumption
        DEF ReadyBecomes, Live, switchVars
    <3>2. CASE ~prvCheckTasksWaitingTermination
      <4>1. UNCHANGED memory
        BY <2>5, <3>2
        DEF Quiet, SuspendAll, ResumeAll, vTaskDelay, xTaskCatchUpTicks, CatchUpPends, xTaskResumeAll,
            TickPends, CreateReturns, prvIdleTask, ResumeDrained, SuspendReturns, lifeVars
      <4> QED
        BY <2>4, <2>5, <4>1, QuietReady, QuietUnchanged DEF switchVars
    <3> QED
      BY <3>1, <3>2
  <2>6. ASSUME NEW R \in SUBSET Task, Ready \subseteq R, Switches(R), UNCHANGED <<uxPriority, memory>>
        PROVE  uxPriority'[Idle] = 0 /\ Idle \in Ready' /\ pxCurrentTCB' \in Live'
    BY <2>1, <2>3, <2>6, TaskAssumption DEF Switches, ReadyBecomes, Live
  <2>7. ASSUME NEW R, Ready \subseteq R, ReadyBecomes(R), UNCHANGED <<uxPriority, memory, pxCurrentTCB>>
        PROVE  uxPriority'[Idle] = 0 /\ Idle \in Ready' /\ pxCurrentTCB' \in Live'
    BY <2>1, <2>3, <2>7, TaskAssumption DEF ReadyBecomes, Live
  <2>8. ASSUME NEW t \in Task, NEW p \in Priority, t # Idle, xTaskCreate(t, p)
        PROVE  uxPriority'[Idle] = 0 /\ Idle \in Ready' /\ pxCurrentTCB' \in Live'
    <3>1. /\ uxPriority'[Idle] = uxPriority[Idle]
          /\ memory'[pxCurrentTCB] = memory[pxCurrentTCB]
          /\ UNCHANGED pxCurrentTCB
      BY <2>1, <2>8, TaskAssumption DEF xTaskCreate, switchVars, Typed, Live
    <3> QED
      BY <2>1, <2>3, <2>8, <3>1, CreateReady DEF ReadyBecomes, Live
  <2>9. CASE CreateAdds
    <3> DEFINE u == pc[pxCurrentTCB].who
    <3>1. u \in Task /\ ReadyBecomes(Ready \cup {u})
      BY <2>9, CreateAddsReady
    <3>2. Live' = Live \cup {u} /\ UNCHANGED <<pxCurrentTCB, uxPriority>>
      BY <2>9, <3>1, LiveBecomes DEF CreateAdds, AddNew, switchVars
    <3> QED
      BY <2>1, <2>3, <3>1, <3>2, TaskAssumption DEF ReadyBecomes
  <2>10. CASE DelaySleeps
    BY <2>1, <2>3, <2>10, LeaveReady, DelaySleepsFromReady, TaskAssumption
    DEF DelaySleeps, ReadyBecomes, lifeVars, switchVars, Live
  <2>11. ASSUME NEW t \in Task, vTaskSuspend(t)
         PROVE  uxPriority'[Idle] = 0 /\ Idle \in Ready' /\ pxCurrentTCB' \in Live'
    <3>1. t # Idle
      BY <2>11, BoundAssumption DEF vTaskSuspend
    <3> QED
      BY <2>1, <2>3, <2>11, <3>1, LeaveReady, TaskAssumption
      DEF vTaskSuspend, ReadyBecomes, lifeVars, switchVars, Live
  <2>12. ASSUME NEW t \in Task, vTaskDelete(t)
         PROVE  uxPriority'[Idle] = 0 /\ Idle \in Ready' /\ pxCurrentTCB' \in Live'
    <3>1. t # Idle
      BY <2>12, BoundAssumption DEF vTaskDelete
    <3>2. memory'[pxCurrentTCB] = memory[pxCurrentTCB]
      BY <2>1, <2>12 DEF vTaskDelete, Typed
    <3> QED
      BY <2>1, <2>3, <2>12, <3>1, <3>2, LeaveReady, TaskAssumption
      DEF vTaskDelete, ReadyBecomes, switchVars, Live
  <2>13. CASE prvDeleteTCB
    <3> DEFINE u == pc[pxCurrentTCB].who
    <3>1. u \in Task /\ memory[u] = "dying" /\ ReadyBecomes(Ready)
      BY <2>13, DeleteTCBReady
    <3>2. u # Idle /\ u # pxCurrentTCB
      BY <2>1, <2>3, <3>1, TaskAssumption DEF Live, IInv, Homes
    <3>3. uxPriority'[Idle] = uxPriority[Idle]
      BY <2>13, <3>2, TaskAssumption DEF prvDeleteTCB, Typed
    <3>4. memory'[pxCurrentTCB] = memory[pxCurrentTCB] /\ UNCHANGED pxCurrentTCB
      BY <2>1, <2>13, <3>2, TaskAssumption DEF prvDeleteTCB, Typed, switchVars
    <3> QED
      BY <2>1, <2>3, <3>1, <3>3, <3>4 DEF ReadyBecomes, Live
  <2>14. ASSUME NEW t \in Task, NEW p \in Priority, vTaskPrioritySet(t, p)
         PROVE  uxPriority'[Idle] = 0 /\ Idle \in Ready' /\ pxCurrentTCB' \in Live'
    <3>1. uxPriority'[Idle] = 0 /\ UNCHANGED memory
      BY <2>14, TaskAssumption DEF vTaskPrioritySet, lifeVars, Typed
    <3> QED
      BY <2>1, <2>3, <2>14, <3>1, PrioritySetReady, TaskAssumption DEF Switches, ReadyBecomes, Live
  <2>15. ASSUME NEW t \in Task, vTaskResume(t) \/ ResumeDrains(t) \/ xTaskResumeFromISR(t)
         PROVE  uxPriority'[Idle] = 0 /\ Idle \in Ready' /\ pxCurrentTCB' \in Live'
    <3>1. UNCHANGED <<uxPriority, memory>> /\ Ready \cup {t} \in SUBSET Task
      BY <2>15, ReadyFacts DEF vTaskResume, ResumeDrains, xTaskResumeFromISR, lifeVars
    <3>2. CASE vTaskResume(t)
      BY <3>1, <3>2, <2>6, ResumeReady
    <3>3. CASE ResumeDrains(t)
      BY <3>1, <3>3, <2>7, ResumeDrainsReady DEF ResumeDrains
    <3>4. CASE xTaskResumeFromISR(t)
      BY <3>1, <3>4, <2>7, ResumeFromISRReady DEF xTaskResumeFromISR
    <3> QED
      BY <2>15, <3>2, <3>3, <3>4
  <2>16. CASE ResumeTicks
    BY <2>16, <2>7, ResumeTicksReady DEF ResumeTicks, lifeVars
  <2>17. CASE TickCounts
    <3>1. UNCHANGED <<uxPriority, memory>> /\ Ready \cup Woken \in SUBSET Task
      BY <2>17, ReadyFacts, TickCountsReady DEF TickCounts, lifeVars, Typed, Sleeping
    <3> QED
      BY <3>1, <2>6, <2>17, TickCountsReady
  <2>18. CASE ResumeReturns \/ vPortYield
    <3>1. UNCHANGED <<uxPriority, memory>>
      BY <2>18 DEF ResumeReturns, vPortYield, lifeVars
    <3> QED
      BY <3>1, <2>6, <2>18, YieldReady, ReadyFacts
  <2> QED
    BY <1>3, <2>5, <2>8, <2>9, <2>10, <2>11, <2>12, <2>13, <2>14, <2>15, <2>16, <2>17, <2>18, BoundAssumption
    DEF Next, AppCalls, KernelSteps, Interrupts, vPortYieldFromTick, Quiet
<1> QED
  BY <1>1, <1>2, <1>3

-----------------------------------------------------------------------------
(* Suspending the scheduler.                                               *)

(* A step of the running task, or one that moves nobody.                   *)
Stays == pxCurrentTCB' = pxCurrentTCB
Moves(place) ==
    Stays /\ pc' = [pc EXCEPT ![pxCurrentTCB] = place]
(* A step after which another task may run.                                *)
MayGive(place) ==
    /\ place.op \notin Urgent
    /\ pc' = [pc EXCEPT ![pxCurrentTCB] = place]

LEMMA UrgentStays ==
    ASSUME IInv, xSchedulerRunning, Stays,
           \A t \in Task \ {pxCurrentTCB} : pc'[t] = pc[t] \/ pc'[t] = App
    PROVE  \A t \in Task : pc'[t].op \in Urgent => t = pxCurrentTCB'
<1>1. App.op \notin Urgent
  BY DEF App, Urgent, AboutToSleep, Unlocks
<1> QED
  BY <1>1 DEF Stays, IInv, Suspension

LEMMA UrgentGone ==
    ASSUME IInv, xSchedulerRunning, NEW place, MayGive(place)
    PROVE  \A t \in Task : pc'[t].op \notin Urgent
  BY DEF MayGive, IInv, Typed, Suspension

(* A task in application code is ready, and nothing is pending.            *)
LEMMA InApp ==
    ASSUME IInv, At("app")
    PROVE  /\ xSchedulerRunning /\ pxCurrentTCB \in Ready /\ pxCurrentTCB \in Task
           /\ pc[pxCurrentTCB] = App /\ pc = [pc EXCEPT ![pxCurrentTCB] = App]
           /\ uxSchedulerSuspended = 0 => xPendingReadyList = {} /\ xPendedTicks = 0
<1>1. /\ xSchedulerRunning /\ pxCurrentTCB \in Task /\ pc[pxCurrentTCB].op = "app"
      /\ pc \in [Task -> Place] /\ pc[pxCurrentTCB] = App
  BY Here, PlaceShape DEF At
<1>2. pxCurrentTCB \in Ready
  BY <1>1 DEF IInv, Away, Leaving, In, Unlocks, At
<1>3. uxSchedulerSuspended = 0 => xPendingReadyList = {} /\ xPendedTicks = 0
  BY <1>1 DEF IInv, Suspension, NothingLeftPending, Masked
<1> QED
  BY <1>1, <1>2, <1>3

(* Where the step of the running task leads.                               *)
LEMMA SuspensionMoves ==
    ASSUME IInv, xSchedulerRunning, xSchedulerRunning', NEW place, Moves(place),
           place.op \in AboutToSleep => uxSchedulerSuspended' = 1 /\ pxCurrentTCB \in Ready' \ {Idle},
           place.op \in Unlocks => uxSchedulerSuspended' = 1,
           place.op \in {"catchup", "resume"} => uxSchedulerSuspended' > 0,
           place.op \in {"drain", "ticks"} => uxSchedulerSuspended' = 0,
           place.op = "ticks" => xPendingReadyList' = {},
           uxSchedulerSuspended' = 0 /\ place.op \notin {"drain", "ticks"} =>
              xPendingReadyList' = {} /\ xPendedTicks' = 0
    PROVE  Suspension'
<1>1. pxCurrentTCB' = pxCurrentTCB /\ pc'[pxCurrentTCB] = place
  BY Here DEF Moves, Stays
<1>2. \A t \in Task : pc'[t].op \in Urgent => t = pxCurrentTCB'
  BY UrgentStays, Here DEF Moves
<1> QED
  BY <1>1, <1>2 DEF Suspension, In, At, Masked, NothingLeftPending

LEMMA SuspensionGives ==
    ASSUME IInv, Next, xSchedulerRunning, NEW place, MayGive(place),
           uxSchedulerSuspended' = 0 => xPendingReadyList' = {} /\ xPendedTicks' = 0
    PROVE  Suspension'
<1>1. \A t \in Task : pc'[t].op \notin Urgent
  BY UrgentGone
<1>2. xSchedulerRunning' => pxCurrentTCB' \in Task
  BY AliveKept DEF Alive, Live
<1>3. xSchedulerRunning' => pc'[pxCurrentTCB'].op \notin Urgent
  BY <1>1, <1>2
<1>4. /\ ~At("catchup")' /\ ~At("resume")' /\ ~At("drain")' /\ ~At("ticks")'
      /\ ~In(AboutToSleep)' /\ ~In(Unlocks)'
  BY <1>3 DEF At, In, Urgent
<1> QED
  BY <1>1, <1>4 DEF Suspension, NothingLeftPending

LEMMA SuspensionKept == IInv /\ Next => Suspension'
<1> SUFFICES ASSUME IInv, Next PROVE Suspension'
  OBVIOUS
<1> USE DEF NotListed, switchVars, lifeVars, timeVars
<1>1. CASE xTaskCreateInMain
  BY <1>1 DEF xTaskCreateInMain, CreateBeforeStart, IInv, Alive, NotStarted, Suspension, In, At,
     Masked, NothingLeftPending, Urgent, AboutToSleep, Unlocks, App
<1>2. CASE vTaskStartScheduler
  <2>1. /\ \A t \in Task : pc'[t].op = "app"
        /\ xPendingReadyList' = {} /\ xPendedTicks' = 0 /\ uxSchedulerSuspended' = 0
    BY <1>2 DEF vTaskStartScheduler, IInv, Alive, NotStarted, Homes, App, Typed
  <2>2. pxCurrentTCB' \in Task
    BY <1>2, AliveKept DEF vTaskStartScheduler, Alive, Live
  <2> QED
    BY <2>1, <2>2 DEF Suspension, In, AboutToSleep, Unlocks, At, Masked, NothingLeftPending, Urgent
<1>3. CASE AppCalls \/ KernelSteps \/ Interrupts
  <2> xSchedulerRunning /\ xSchedulerRunning' /\ pxCurrentTCB \in Task /\ pc \in [Task -> Place]
    BY <1>3, StaysRunning, Here
  <2> uxSchedulerSuspended \in Nat /\ xPendedTicks \in Nat
    BY DEF IInv, Typed
  <2>1. CASE SuspendAll
    BY <2>1, InApp, SuspensionMoves DEF SuspendAll, Calling, vTaskSuspendAll, Moves, Stays, App, AboutToSleep, Unlocks, EndOps, OutOps
  <2>2. CASE ResumeAll
    BY <2>2, InApp, SuspensionMoves DEF ResumeAll, Calling, Goto, Resuming, Moves, Stays, AboutToSleep, Unlocks, EndOps, OutOps
  <2>3. CASE vTaskDelay
    <3>1. At("app") /\ pxCurrentTCB # Idle /\ uxSchedulerSuspended = 0 /\ Stays
          /\ UNCHANGED <<xPendingReadyList, xPendedTicks, pxReadyTasksLists>>
      BY <2>3 DEF vTaskDelay, Calling, MayBlock, Stays, readyVars
    <3>2. Ready' = Ready
      BY <3>1 DEF Ready
    <3>3. PICK n \in Delays :
             IF n > 0 THEN vTaskSuspendAll /\ Goto([op |-> "delay", ticks |-> n])
             ELSE Goto(Yielding) /\ UNCHANGED uxSchedulerSuspended
      BY <2>3 DEF vTaskDelay
    <3>4. CASE n > 0
      BY <3>1, <3>2, <3>3, <3>4, InApp, SuspensionMoves DEF vTaskSuspendAll, Goto, Moves, AboutToSleep, Unlocks, EndOps, OutOps
    <3>5. CASE ~(n > 0)
      BY <3>1, <3>3, <3>5, InApp, SuspensionMoves DEF Goto, Moves, Yielding, YieldingTo, AboutToSleep, Unlocks, EndOps, OutOps
    <3> QED
      BY <3>4, <3>5
  <2>4. CASE xTaskCatchUpTicks
    <3>1. PICK n \in CatchUps : vTaskSuspendAll /\ Goto([op |-> "catchup", ticks |-> n])
      BY <2>4 DEF xTaskCatchUpTicks
    <3> DEFINE place == [op |-> "catchup", ticks |-> n]
    <3>2. Stays /\ pc' = [pc EXCEPT ![pxCurrentTCB] = place]
      BY <2>4, <3>1 DEF xTaskCatchUpTicks, Goto, Stays
    <3>3. Moves(place) /\ place.op = "catchup" /\ uxSchedulerSuspended' > 0
      BY <3>1, <3>2 DEF vTaskSuspendAll, Moves
    <3> HIDE DEF place
    <3> QED
      BY <3>3, SuspensionMoves DEF AboutToSleep, Unlocks, EndOps, OutOps
  <2>5. CASE CatchUpPends
    <3>1. uxSchedulerSuspended > 0
      BY <2>5 DEF CatchUpPends, IInv, Suspension
    <3> DEFINE place == Resuming(App, App)
    <3>2. Moves(place) /\ place.op = "resume" /\ uxSchedulerSuspended' > 0
      BY <2>5, <3>1 DEF CatchUpPends, Goto, Moves, Stays, Resuming
    <3> HIDE DEF place
    <3> QED
      BY <3>2, SuspensionMoves DEF AboutToSleep, Unlocks, EndOps, OutOps
  <2>6. CASE xTaskResumeAll
    <3>1. uxSchedulerSuspended > 0 /\ pc[pxCurrentTCB].not.op \in EndOps
      BY <2>6, Here, PlaceShape, EndShape DEF xTaskResumeAll, At, IInv, Suspension, In, AboutToSleep, Unlocks
    <3>2. CASE uxSchedulerSuspended = 1
      <4> DEFINE place == [op |-> "drain", moved |-> FALSE, yielded |-> pc[pxCurrentTCB].yielded,
                           not |-> pc[pxCurrentTCB].not]
      <4>1. Moves(place) /\ place.op = "drain" /\ uxSchedulerSuspended' = 0
        BY <2>6, <3>2 DEF xTaskResumeAll, Goto, Moves, Stays
      <4> HIDE DEF place
      <4> QED
        BY <4>1, SuspensionMoves DEF AboutToSleep, Unlocks, EndOps, OutOps
    <3>3. CASE uxSchedulerSuspended # 1
      <4> DEFINE place == pc[pxCurrentTCB].not
      <4>1. /\ Moves(place) /\ place.op \in EndOps
            /\ uxSchedulerSuspended' > 0
        BY <2>6, <3>1, <3>3 DEF xTaskResumeAll, Goto, Moves, Stays
      <4> HIDE DEF place
      <4>2. place.op \notin Urgent
        BY <4>1 DEF Urgent, AboutToSleep, Unlocks, EndOps, OutOps
      <4> QED
        BY <4>1, <4>2, SuspensionMoves DEF Urgent
    <3> QED
      BY <3>2, <3>3
  <2>7. CASE TickPends
    <3>1. Ready' = Ready
      BY <2>7 DEF TickPends, readyVars, Ready
    <3> QED
      BY <2>7, <3>1 DEF TickPends, IInv, Suspension, In, AboutToSleep, Unlocks, At, Masked, NothingLeftPending
  <2>8. CASE CreateReturns \/ SuspendReturns \/ prvIdleTask \/ prvCheckTasksWaitingTermination
    <3>1. /\ uxSchedulerSuspended = 0 => xPendingReadyList = {} /\ xPendedTicks = 0
          /\ UNCHANGED <<uxSchedulerSuspended, xPendingReadyList, xPendedTicks>>
      BY <2>8 DEF CreateReturns, SuspendReturns, prvIdleTask, prvCheckTasksWaitingTermination,
         IInv, Suspension, In, AboutToSleep, Unlocks, At, Masked, NothingLeftPending
    <3>2. PICK place : Moves(place) /\ place.op \in {"app", "yield", "free"}
      BY <2>8 DEF CreateReturns, SuspendReturns, prvIdleTask, prvCheckTasksWaitingTermination,
         Goto, Moves, Stays, App, Yielding, YieldingTo
    <3> QED
      BY <3>1, <3>2, SuspensionMoves DEF AboutToSleep, Unlocks, EndOps, OutOps
  <2>9. CASE ResumeDrained
    <3>1. uxSchedulerSuspended = 0
      BY <2>9 DEF ResumeDrained, IInv, Suspension
    <3> QED
      BY <2>9, <3>1, SuspensionMoves DEF ResumeDrained, Goto, Moves, Stays, AboutToSleep, Unlocks, EndOps, OutOps
  <2>10. ASSUME NEW t \in Task, NEW p \in Priority, xTaskCreate(t, p) PROVE Suspension'
    <3>1. /\ uxSchedulerSuspended' > 0 /\ Stays
          /\ pc'[pxCurrentTCB].op = "resume"
          /\ \A v \in Task \ {pxCurrentTCB} : pc'[v] = pc[v] \/ pc'[v] = App
      <4>1. pxCurrentTCB # t
        BY <2>10, Here DEF xTaskCreate, Live
      <4> QED
        BY <2>10, <4>1 DEF xTaskCreate, vTaskSuspendAll, Stays, Goto, Resuming
    <3> QED
      BY <3>1, UrgentStays DEF Suspension, In, AboutToSleep, Unlocks, At, Masked, NothingLeftPending, Stays
  <2>11. CASE CreateAdds
    BY <2>11, SuspensionMoves
    DEF CreateAdds, Goto, Moves, Stays, IInv, Suspension, In, AboutToSleep, Unlocks, At, Masked, NothingLeftPending, EndOps, OutOps
  <2>12. CASE DelaySleeps
    <3> DEFINE place == Resuming(App, Yielding)
    <3>1. Moves(place) /\ place.op = "resume" /\ uxSchedulerSuspended' > 0
      BY <2>12, DelaySleepsFromReady DEF DelaySleeps, Goto, Moves, Stays, Resuming
    <3> HIDE DEF place
    <3> QED
      BY <3>1, SuspensionMoves DEF AboutToSleep, Unlocks, EndOps, OutOps
  <2>13. ASSUME NEW t \in Task, vTaskSuspend(t) PROVE Suspension'
    BY <2>13, InApp, SuspensionMoves DEF vTaskSuspend, Calling, Unlink, Goto, Moves, Stays, AboutToSleep, Unlocks, EndOps, OutOps
  <2>14. ASSUME NEW t \in Task, vTaskResume(t) PROVE Suspension'
    <3>1. /\ At("app") /\ MayGive(App)
          /\ UNCHANGED <<uxSchedulerSuspended, xPendingReadyList, xPendedTicks>>
      BY <2>14, InApp DEF vTaskResume, Calling, MayGive, App, Urgent, AboutToSleep, Unlocks
    <3> QED
      BY <3>1, InApp, SuspensionGives
  <2>15. ASSUME NEW t \in Task, vTaskDelete(t) PROVE Suspension'
    <3>1. PICK place : Moves(place) /\ place.op \in {"yield", "free"}
      BY <2>15 DEF vTaskDelete, Goto, Moves, Stays, Yielding, YieldingTo
    <3>2. At("app") /\ xPendingReadyList' \subseteq xPendingReadyList
          /\ UNCHANGED <<uxSchedulerSuspended, xPendedTicks>>
      BY <2>15 DEF vTaskDelete, Calling, Unlink
    <3> QED
      BY <3>1, <3>2, InApp, SuspensionMoves DEF AboutToSleep, Unlocks, EndOps, OutOps
  <2>16. CASE prvDeleteTCB
    <3> DEFINE u == pc[pxCurrentTCB].who
    <3>1. u # pxCurrentTCB
      BY <2>16, DeleteTCBReady, Here DEF Live
    <3>2. /\ uxSchedulerSuspended' > 0 /\ Stays
          /\ pc'[pxCurrentTCB].op = "resume"
          /\ \A v \in Task \ {pxCurrentTCB} : pc'[v] = pc[v] \/ pc'[v] = App
      BY <2>16, <3>1 DEF prvDeleteTCB, vTaskSuspendAll, Stays, Resuming
    <3> QED
      BY <3>2, UrgentStays DEF Suspension, In, AboutToSleep, Unlocks, At, Masked, NothingLeftPending, Stays
  <2>17. ASSUME NEW t \in Task, NEW p \in Priority, vTaskPrioritySet(t, p) PROVE Suspension'
    <3>1. /\ At("app") /\ MayGive(App)
          /\ UNCHANGED <<uxSchedulerSuspended, xPendingReadyList, xPendedTicks>>
      BY <2>17, InApp DEF vTaskPrioritySet, Calling, MayGive, App, Urgent, AboutToSleep, Unlocks
    <3> QED
      BY <3>1, InApp, SuspensionGives
  <2>18. ASSUME NEW t \in Task, ResumeDrains(t) PROVE Suspension'
    <3> DEFINE place == [pc[pxCurrentTCB] EXCEPT !.moved = TRUE]
    <3>1. pc[pxCurrentTCB] \in [op : {"drain"}, moved : BOOLEAN, yielded : Ends, not : Ends]
      BY <2>18, Here, PlaceShape DEF ResumeDrains, At
    <3>2. place.op = "drain" /\ Moves(place)
      BY <2>18, <3>1 DEF ResumeDrains, Moves, Stays
    <3>3. uxSchedulerSuspended' = 0
      BY <2>18 DEF ResumeDrains, IInv, Suspension
    <3> QED
      BY <3>2, <3>3, SuspensionMoves DEF AboutToSleep, Unlocks, EndOps, OutOps
  <2>19. CASE ResumeTicks
    <3> DEFINE place == [pc[pxCurrentTCB] EXCEPT !.count = @ - 1]
    <3>1. pc[pxCurrentTCB] \in [op : {"ticks"}, count : Nat, yielded : Ends, not : Ends]
      BY <2>19, Here, PlaceShape DEF ResumeTicks, At
    <3>2. place.op = "ticks" /\ Moves(place)
      BY <2>19, <3>1 DEF ResumeTicks, Moves, Stays
    <3>3. uxSchedulerSuspended' = 0 /\ xPendingReadyList' = {}
      BY <2>19 DEF ResumeTicks, TickLists, IInv, Suspension
    <3> QED
      BY <3>2, <3>3, SuspensionMoves DEF AboutToSleep, Unlocks, EndOps, OutOps
  <2>20. CASE ResumeReturns
    <3>1. PICK place \in {pc[pxCurrentTCB].yielded, pc[pxCurrentTCB].not} :
            pc' = [pc EXCEPT ![pxCurrentTCB] = place]
      BY <2>20 DEF ResumeReturns, Goto
    <3>2. place.op \notin Urgent
      <4>1. place.op \in EndOps
        BY <2>20, Here, PlaceShape, EndShape DEF ResumeReturns, At
      <4> QED
        BY <4>1 DEF EndOps, OutOps, Urgent, AboutToSleep, Unlocks
    <3>3. xPendedTicks' = 0 /\ xPendingReadyList' = {}
      BY <2>20 DEF ResumeReturns, IInv, Suspension
    <3> QED
      BY <3>1, <3>2, <3>3, SuspensionGives DEF MayGive
  <2>21. CASE vPortYield
    <3>1. pc[pxCurrentTCB].next \in Outs
      BY <2>21, Here, PlaceShape DEF vPortYield, At
    <3>2. MayGive(pc[pxCurrentTCB].next)
      BY <2>21, <3>1, OutShape DEF vPortYield, Goto, MayGive, OutOps, Urgent, AboutToSleep, Unlocks
    <3>3. uxSchedulerSuspended' = 0 => xPendingReadyList' = {} /\ xPendedTicks' = 0
      BY <2>21 DEF vPortYield, IInv, Suspension, In, AboutToSleep, Unlocks, At, Masked, NothingLeftPending
    <3> QED
      BY <3>2, <3>3, SuspensionGives
  <2>22. CASE TickCounts
    <3>1. uxSchedulerSuspended = 0 /\ ~Masked /\ xPendingReadyList = {} /\ xPendedTicks = 0
      BY <2>22 DEF TickCounts, IInv, Suspension, NothingLeftPending
    <3>2. pc[pxCurrentTCB].op \notin Urgent
      BY <3>1 DEF Masked, IInv, Suspension, In, AboutToSleep, Unlocks, At, Urgent
    <3>3. MayGive(pc[pxCurrentTCB])
      BY <2>22, <3>2 DEF TickCounts, MayGive
    <3>4. xPendingReadyList' = {} /\ xPendedTicks' = 0
      BY <2>22, <3>1 DEF TickCounts, TickLists
    <3> QED
      BY <3>3, <3>4, SuspensionGives
  <2>23. ASSUME NEW t \in Task, xTaskResumeFromISR(t) PROVE Suspension'
    <3>1. Ready \subseteq Ready'
      BY <2>23, ResumeFromISRReady DEF ReadyBecomes
    <3> QED
      BY <2>23, <3>1 DEF xTaskResumeFromISR, IInv, Suspension, In, AboutToSleep, Unlocks, At, Masked, NothingLeftPending
  <2> QED
    BY <1>3, <2>1, <2>2, <2>3, <2>4, <2>5, <2>6, <2>7, <2>8, <2>9, <2>10, <2>11, <2>12, <2>13, <2>14,
       <2>15, <2>16, <2>17, <2>18, <2>19, <2>20, <2>21, <2>22, <2>23, BoundAssumption
    DEF AppCalls, KernelSteps, Interrupts, vPortYieldFromTick
<1> QED
  BY <1>1, <1>2, <1>3 DEF Next

-----------------------------------------------------------------------------
(* A running task that is not ready.                                       *)

(* A switch that is not refused takes a ready task.                        *)
LEMMA SwitchTakesReady ==
    ASSUME IInv, xSchedulerRunning, uxSchedulerSuspended = 0, UNCHANGED uxPriority,
           vTaskSwitchContext(pxReadyTasksLists, uxTopReadyPriority)
    PROVE  pxCurrentTCB' \in Ready
<1>1. taskSELECT_HIGHEST_PRIORITY_TASK(pxReadyTasksLists, uxTopReadyPriority)
  BY DEF vTaskSwitchContext
<1> QED
  BY <1>1, ReadyFacts, Select

LEMMA AwayKept == IInv /\ Next => Away'
<1> SUFFICES ASSUME IInv, Next PROVE Away'
  OBVIOUS
<1> USE DEF Away, NotListed, switchVars, lifeVars, timeVars
<1>1. CASE xTaskCreateInMain
  BY <1>1 DEF xTaskCreateInMain
<1>2. CASE vTaskStartScheduler
  <2>1. pxCurrentTCB' \in Live' /\ Homes'
    BY <1>2, AliveKept, HomesKept DEF vTaskStartScheduler, Alive
  <2>2. Sleeping' = {} /\ xSuspendedTaskList' = {} /\ xTasksWaitingTermination' = {}
    BY <1>2 DEF vTaskStartScheduler, IInv, Alive, NotStarted, Sleeping, sleepVars
  <2> QED
    BY <2>1, <2>2 DEF Homes
<1>3. CASE AppCalls \/ KernelSteps \/ Interrupts
  <2> xSchedulerRunning /\ xSchedulerRunning' /\ pxCurrentTCB \in Task /\ pc \in [Task -> Place]
    BY <1>3, StaysRunning, Here
  <2> /\ Homes' /\ Ready \subseteq Task
      /\ pxCurrentTCB \notin Ready => Leaving
    BY HomesKept, ReadyFacts DEF IInv
  <2>1. CASE Quiet \/ \E t \in Task, p \in Priority : xTaskCreate(t, p)
    <3>1. Ready' = Ready
      BY <2>1, QuietReady, CreateReady DEF ReadyBecomes
    <3>2. SUFFICES ASSUME pxCurrentTCB \notin Ready PROVE Leaving'
      BY <2>1, <3>1, QuietUnchanged DEF xTaskCreate
    <3>3. ~At("app") /\ ~At("delay") /\ ~At("catchup") /\ ~At("created")
      BY <3>2 DEF Leaving, In, Unlocks, At
    <3>4. CASE xTaskResumeAll
      <4>1. uxSchedulerSuspended = 1 /\ pc[pxCurrentTCB].not.op = "yield"
        BY <3>2, <3>4 DEF Leaving, In, Unlocks, xTaskResumeAll, At
      <4> QED
        BY <3>4, <4>1 DEF xTaskResumeAll, Goto, Leaving, In, Unlocks, At
    <3>5. CASE TickPends
      BY <3>2, <3>5 DEF TickPends, Leaving, In, Unlocks, At
    <3>6. CASE ResumeDrained
      BY <3>2, <3>6 DEF ResumeDrained, Leaving, In, Unlocks, At, Goto
    <3>7. CASE SuspendReturns
      <4>1. uxSchedulerSuspended = 0 /\ pc[pxCurrentTCB].who = pxCurrentTCB
        BY <3>2, <3>7 DEF SuspendReturns, Leaving, In, Unlocks, At
      <4> QED
        BY <3>7, <4>1 DEF SuspendReturns, Leaving, In, Unlocks, At, Goto, Yielding, YieldingTo
    <3> QED
      BY <2>1, <3>3, <3>4, <3>5, <3>6, <3>7
      DEF Quiet, SuspendAll, ResumeAll, vTaskDelay, xTaskCatchUpTicks, CatchUpPends, CreateReturns,
          prvIdleTask, prvCheckTasksWaitingTermination, xTaskCreate, Calling
  <2>2. CASE CreateAdds \/ prvDeleteTCB
    <3>1. Ready \subseteq Ready' /\ pxCurrentTCB' = pxCurrentTCB
      BY <2>2, CreateAddsReady, DeleteTCBReady DEF ReadyBecomes, CreateAdds, prvDeleteTCB
    <3>2. pxCurrentTCB \in Ready
      BY <2>2 DEF CreateAdds, prvDeleteTCB, Leaving, In, Unlocks, At
    <3> QED
      BY <3>1, <3>2
  <2>3. CASE DelaySleeps
    BY <2>3, DelaySleepsFromReady DEF DelaySleeps, Leaving, At, Goto, Resuming, Yielding, YieldingTo
  <2>4. ASSUME NEW t \in Task, vTaskSuspend(t) PROVE Away'
    <3>1. pxCurrentTCB \in Ready /\ Ready' = Ready \ {t} /\ pxCurrentTCB' = pxCurrentTCB
      BY <2>4, InApp, LeaveReady DEF vTaskSuspend, Calling, ReadyBecomes
    <3>2. t = pxCurrentTCB => Leaving'
      BY <2>4, <3>1 DEF vTaskSuspend, MayBlock, Leaving, In, Unlocks, Goto
    <3> QED
      BY <3>1, <3>2
  <2>5. ASSUME NEW t \in Task, vTaskDelete(t) PROVE Away'
    <3>1. pxCurrentTCB \in Ready /\ Ready' = Ready \ {t} /\ pxCurrentTCB' = pxCurrentTCB
      BY <2>5, InApp, LeaveReady DEF vTaskDelete, Calling, ReadyBecomes
    <3>2. t = pxCurrentTCB => Leaving'
      BY <2>5, <3>1 DEF vTaskDelete, MayBlock, Leaving, In, Unlocks, At, Goto, Yielding, YieldingTo
    <3> QED
      BY <3>1, <3>2
  <2>6. ASSUME NEW t \in Task, vTaskResume(t) PROVE Away'
    <3>1. pxCurrentTCB \in Ready
      BY <2>6, InApp DEF vTaskResume, Calling
    <3>2. Switches(Ready \cup {t})
      BY <2>6, ResumeReady
    <3> QED
      BY <3>1, <3>2 DEF Switches, ReadyBecomes
  <2>7. ASSUME NEW t \in Task, NEW p \in Priority, vTaskPrioritySet(t, p) PROVE Away'
    <3>1. pxCurrentTCB \in Ready
      BY <2>7, InApp DEF vTaskPrioritySet, Calling
    <3>2. Switches(Ready)
      BY <2>7, PrioritySetReady
    <3> QED
      BY <3>1, <3>2 DEF Switches, ReadyBecomes
  <2>8. ASSUME NEW t \in Task, ResumeDrains(t) PROVE Away'
    <3>1. Ready \subseteq Ready' /\ pxCurrentTCB' = pxCurrentTCB
      BY <2>8, ResumeDrainsReady DEF ResumeDrains, ReadyBecomes
    <3>2. pc[pxCurrentTCB] \in [op : {"drain"}, moved : BOOLEAN, yielded : Ends, not : Ends]
      BY <2>8, Here, PlaceShape DEF ResumeDrains, At
    <3>3. pc'[pxCurrentTCB].op = "drain" /\ pc'[pxCurrentTCB].not = pc[pxCurrentTCB].not
      BY <2>8, <3>2 DEF ResumeDrains
    <3> QED
      BY <3>1, <3>2, <3>3 DEF Leaving, In, Unlocks, At
  <2>9. CASE ResumeTicks
    <3>1. Ready \subseteq Ready' /\ pxCurrentTCB' = pxCurrentTCB
      BY <2>9, ResumeTicksReady DEF ResumeTicks, ReadyBecomes
    <3>2. pc[pxCurrentTCB] \in [op : {"ticks"}, count : Nat, yielded : Ends, not : Ends]
      BY <2>9, Here, PlaceShape DEF ResumeTicks, At
    <3>3. pc'[pxCurrentTCB].op = "ticks" /\ pc'[pxCurrentTCB].not = pc[pxCurrentTCB].not
      BY <2>9, <3>2 DEF ResumeTicks
    <3> QED
      BY <3>1, <3>2, <3>3 DEF Leaving, In, Unlocks, At
  <2>10. CASE ResumeReturns
    <3>1. Ready' = Ready /\ uxSchedulerSuspended = 0 /\ UNCHANGED uxPriority
      BY <2>10, YieldReady DEF ResumeReturns, Switches, ReadyBecomes, IInv, Suspension
    <3>2. CASE xYieldPendings
      BY <2>10, <3>1, <3>2, SwitchTakesReady DEF ResumeReturns
    <3>3. CASE ~xYieldPendings
      <4>1. pxCurrentTCB' = pxCurrentTCB /\ pc'[pxCurrentTCB] = pc[pxCurrentTCB].not
        BY <2>10, <3>3 DEF ResumeReturns, Keep, Goto
      <4>2. UNCHANGED uxSchedulerSuspended
        BY <2>10 DEF ResumeReturns
      <4>3. pxCurrentTCB \notin Ready => pc[pxCurrentTCB].not.op = "yield"
        BY <2>10 DEF ResumeReturns, Leaving, In, Unlocks, At
      <4> QED
        BY <3>1, <4>1, <4>2, <4>3 DEF Leaving, In, Unlocks, At, Yielding, YieldingTo
    <3> QED
      BY <3>2, <3>3
  <2>11. CASE vPortYield
    <3>1. Ready' = Ready /\ pxCurrentTCB' \in Ready \cup {pxCurrentTCB}
      BY <2>11, YieldReady DEF Switches, ReadyBecomes
    <3>2. pxCurrentTCB \notin Ready => uxSchedulerSuspended = 0
      BY <2>11 DEF vPortYield, Leaving, In, Unlocks, At
    <3>3. uxSchedulerSuspended = 0 => pxCurrentTCB' \in Ready
      BY <2>11, SwitchTakesReady DEF vPortYield
    <3> QED
      BY <3>1, <3>2, <3>3
  <2>12. CASE TickCounts
    <3>1. Ready' = Ready \cup Woken /\ pxCurrentTCB' \in Ready' \cup {pxCurrentTCB}
      BY <2>12, TickCountsReady DEF Switches, ReadyBecomes
    <3>2. pxCurrentTCB \notin Ready =>
             /\ uxSchedulerSuspended = 0
             /\ At("yield") \/ pc[pxCurrentTCB] = [op |-> "suspended", who |-> pxCurrentTCB]
      BY <2>12 DEF TickCounts, Masked, Leaving, In, Unlocks, At
    <3> QED
      BY <2>12, <3>1, <3>2 DEF TickCounts, Leaving, In, Unlocks, At
  <2>13. ASSUME NEW t \in Task, xTaskResumeFromISR(t) PROVE Away'
    <3>1. Ready \subseteq Ready'
      BY <2>13, ResumeFromISRReady DEF ReadyBecomes
    <3> QED
      BY <2>13, <3>1 DEF xTaskResumeFromISR, Leaving, In, Unlocks, At
  <2> QED
    BY <1>3, <2>1, <2>2, <2>3, <2>4, <2>5, <2>6, <2>7, <2>8, <2>9, <2>10, <2>11, <2>12, <2>13, BoundAssumption
    DEF AppCalls, KernelSteps, Interrupts, vPortYieldFromTick, Quiet
<1> QED
  BY <1>1, <1>2, <1>3 DEF Next

-----------------------------------------------------------------------------
(* Tasks that are not listed yet, or no longer.                            *)

LEMMA OwnedSame ==
    ASSUME IInv,
           \A t, u \in Task : Adding(t, u)' => Adding(t, u),
           \A t, u \in Task : Freeing(t, u)' => Freeing(t, u),
           \A u \in Task : memory'[u] = memory[u] \/ memory[u] \notin {"new", "dying"}
    PROVE  Owned'
  BY DEF IInv, Owned

(* A place with no task to add or to free.                                 *)
Plain == {p \in Place : /\ p.op \notin {"add", "free"}
                        /\ p.op \in {"resume", "drain", "ticks"} =>
                              p.yielded \notin Adds /\ p.not \notin Adds}
LEMMA PlainPlaces ==
    /\ App \in Plain /\ Yielding \in Plain
    /\ Outs \cup Yields \subseteq Plain /\ NotifyCalls \cup QueueCalls \subseteq Plain
    /\ \A y, n \in Outs \cup Yields : Resuming(y, n) \in Plain
    /\ Resuming(App, App) \in Plain /\ Resuming(App, Yielding) \in Plain
    /\ \A n \in 1 .. portMAX_DELAY : [op |-> "delay", ticks |-> n] \in Plain
    /\ \A n \in Tick : [op |-> "catchup", ticks |-> n] \in Plain
    /\ \A u \in Task : [op |-> "suspended", who |-> u] \in Plain /\ [op |-> "created", who |-> u] \in Plain
<1>1. \A p \in Outs \cup Yields : p.op \notin {"add", "free", "resume", "drain", "ticks"} /\ p \notin Adds
  BY OutShape DEF OutOps, Yields, Adds
<1>2. App \in Outs \cup Yields /\ Yielding \in Outs \cup Yields
  BY DEF Outs, Yields, Yielding, YieldingTo
<1>3. Outs \cup Yields \subseteq Place /\ NotifyCalls \cup QueueCalls \subseteq Place
  BY DEF Place, Ends
<1>4. Outs \cup Yields \subseteq Plain
  BY <1>1, <1>3 DEF Plain
<1>5. NotifyCalls \cup QueueCalls \subseteq Plain
  BY <1>3, CallShape DEF Plain, CallOps
<1>6. \A y, n \in Outs \cup Yields : Resuming(y, n) \in Plain
  <2> SUFFICES ASSUME NEW y \in Outs \cup Yields, NEW n \in Outs \cup Yields
               PROVE  Resuming(y, n) \in Plain
    OBVIOUS
  <2>1. Resuming(y, n) \in Place
    BY PlaceMade DEF Ends
  <2> QED
    BY <1>1, <2>1 DEF Plain, Resuming
<1>7. /\ \A n \in 1 .. portMAX_DELAY : [op |-> "delay", ticks |-> n] \in Plain
      /\ \A n \in Tick : [op |-> "catchup", ticks |-> n] \in Plain
      /\ \A u \in Task : [op |-> "suspended", who |-> u] \in Plain /\ [op |-> "created", who |-> u] \in Plain
  BY PlaceMade DEF Plain
<1> QED
  BY <1>2, <1>4, <1>5, <1>6, <1>7

LEMMA OwnedByMove ==
    ASSUME IInv,
           \A t \in Task : pc'[t] = pc[t] \/ pc'[t] \in Plain,
           \A u \in Task : memory'[u] = memory[u] \/ memory[u] \notin {"new", "dying"}
    PROVE  Owned'
<1>1. ASSUME NEW t \in Task, NEW u \in Task, pc'[t] \in Plain
      PROVE  ~Adding(t, u)' /\ ~Freeing(t, u)'
  BY <1>1 DEF Plain, Adding, Freeing, Adds
<1>2. ASSUME NEW t \in Task, NEW u \in Task, pc'[t] = pc[t]
      PROVE  (Adding(t, u)' => Adding(t, u)) /\ (Freeing(t, u)' => Freeing(t, u))
  BY <1>2 DEF Adding, Freeing
<1> QED
  BY <1>1, <1>2, OwnedSame

(* xTaskResumeAll: the places it goes on at are handed on.                 *)
LEMMA OwnedHandedOn ==
    ASSUME IInv, xSchedulerRunning, UNCHANGED memory, NEW place \in Place,
           pc' = [pc EXCEPT ![pxCurrentTCB] = place],
           pc[pxCurrentTCB].op \in {"resume", "drain", "ticks"},
           \/ place \in {pc[pxCurrentTCB].yielded, pc[pxCurrentTCB].not}
           \/ /\ place.op \in {"resume", "drain", "ticks"}
              /\ place.yielded = pc[pxCurrentTCB].yielded /\ place.not = pc[pxCurrentTCB].not
    PROVE  Owned'
<1>1. pxCurrentTCB \in Task /\ pc \in [Task -> Place] /\ pc[pxCurrentTCB] \in Place
  BY Here
<1>2. /\ pc[pxCurrentTCB].yielded \in Place /\ pc[pxCurrentTCB].not \in Place
      /\ pc[pxCurrentTCB].yielded.op \in EndOps
      /\ pc[pxCurrentTCB].not.op \in EndOps
  BY <1>1, PlaceShape, EndShape DEF EndOps, OutOps
<1>3. pc'[pxCurrentTCB] = place /\ \A t \in Task \ {pxCurrentTCB} : pc'[t] = pc[t]
  BY <1>1
<1>4. ASSUME NEW t \in Task, NEW u \in Task
      PROVE  (Adding(t, u)' => Adding(t, u)) /\ (Freeing(t, u)' => Freeing(t, u))
  <2>1. CASE t # pxCurrentTCB
    BY <1>3, <2>1 DEF Adding, Freeing
  <2>2. CASE t = pxCurrentTCB
    <3>1. place.op # "free"
      BY <1>2 DEF EndOps, OutOps
    <3>2. ~Freeing(t, u)'
      BY <1>3, <2>2, <3>1 DEF Freeing
    <3>3. CASE place \in {pc[pxCurrentTCB].yielded, pc[pxCurrentTCB].not}
      <4>1. place.op \notin {"resume", "drain", "ticks"}
        BY <1>2, <3>3 DEF EndOps, OutOps
      <4> QED
        BY <1>3, <2>2, <3>2, <3>3, <4>1 DEF Adding
    <3>4. CASE /\ place.op \in {"resume", "drain", "ticks"}
               /\ place.yielded = pc[pxCurrentTCB].yielded /\ place.not = pc[pxCurrentTCB].not
      <4>1. \A w \in Task : place # [op |-> "add", who |-> w]
        BY <3>4
      <4> QED
        BY <1>3, <2>2, <3>2, <3>4, <4>1 DEF Adding
    <3> QED
      BY <3>3, <3>4
  <2> QED
    BY <2>1, <2>2
<1> QED
  BY <1>4, OwnedSame

LEMMA OwnedKept == IInv /\ Next => Owned'
<1> SUFFICES ASSUME IInv, Next PROVE Owned'
  OBVIOUS
<1> USE DEF lifeVars
<1>1. CASE xTaskCreateInMain
  <2>1. PICK t \in Task \ {Idle}, p \in Priority : CreateBeforeStart(t, p)
    BY <1>1 DEF xTaskCreateInMain
  <2>2. \A u \in Task : memory'[u] = memory[u] \/ memory[u] \notin {"new", "dying"}
    BY <2>1 DEF CreateBeforeStart, AddNew, IInv, Typed
  <2> QED
    BY <2>1, <2>2, OwnedByMove DEF CreateBeforeStart
<1>2. CASE vTaskStartScheduler
  <2>1. \A u \in Task : memory'[u] = memory[u] \/ memory[u] \notin {"new", "dying"}
    BY <1>2 DEF vTaskStartScheduler, AddNew, IInv, Typed
  <2> QED
    BY <1>2, <2>1, OwnedByMove DEF vTaskStartScheduler
<1>3. CASE AppCalls \/ KernelSteps \/ Interrupts
  <2> xSchedulerRunning /\ pxCurrentTCB \in Task /\ pc \in [Task -> Place] /\ pc[pxCurrentTCB] \in Place
    BY <1>3, StaysRunning, Here
  <2> memory \in [Task -> {"free", "new", "live", "dying"}]
    BY DEF IInv, Typed
  <2>1. CASE Quiet /\ ~prvCheckTasksWaitingTermination /\ ~xTaskResumeAll /\ ~ResumeDrained
    <3>1. UNCHANGED memory
      BY <2>1 DEF Quiet, SuspendAll, ResumeAll, vTaskDelay, xTaskCatchUpTicks, CatchUpPends, TickPends,
         CreateReturns, prvIdleTask, SuspendReturns
    <3>2. \E place \in Plain : pc' = pc \/ pc' = [pc EXCEPT ![pxCurrentTCB] = place]
      <4>1. CASE vTaskDelay
        <5>1. PICK n \in Delays :
                 IF n > 0 THEN Goto([op |-> "delay", ticks |-> n]) ELSE Goto(Yielding)
          BY <4>1 DEF vTaskDelay
        <5>2. n > 0 => n \in 1 .. portMAX_DELAY
          BY BoundAssumption
        <5> QED
          BY <5>1, <5>2, PlainPlaces DEF Goto
      <4>2. CASE xTaskCatchUpTicks
        BY <4>2, PlainPlaces, BoundAssumption DEF xTaskCatchUpTicks, Goto
      <4>3. CASE SuspendAll \/ TickPends
        BY <4>3, PlainPlaces DEF SuspendAll, TickPends
      <4>4. CASE ResumeAll \/ CatchUpPends \/ CreateReturns \/ prvIdleTask \/ SuspendReturns
        BY <4>4, PlainPlaces DEF ResumeAll, CatchUpPends, CreateReturns, prvIdleTask, SuspendReturns, Goto
      <4> QED
        BY <2>1, <4>1, <4>2, <4>3, <4>4 DEF Quiet
    <3> QED
      BY <3>1, <3>2, OwnedByMove
  <2>2. CASE prvCheckTasksWaitingTermination
    <3>1. PICK d \in xTasksWaitingTermination :
            /\ memory' = [memory EXCEPT ![d] = "dying"]
            /\ pc' = [pc EXCEPT ![pxCurrentTCB] = [op |-> "free", who |-> d]]
      BY <2>2 DEF prvCheckTasksWaitingTermination, Goto
    <3>2. d \in Task /\ memory[d] = "live"
      BY DEF IInv, Homes, Live
    <3>3. ASSUME NEW t \in Task, NEW u \in Task
          PROVE  /\ Adding(t, u)' => Adding(t, u)
                 /\ Freeing(t, u)' => Freeing(t, u) \/ (t = pxCurrentTCB /\ u = d)
      BY <3>1 DEF Adding, Freeing
    <3> QED
      BY <3>1, <3>2, <3>3 DEF IInv, Owned
  <2>3. CASE xTaskResumeAll \/ ResumeDrained
    <3> DEFINE back == pc[pxCurrentTCB]
    <3>1. back.yielded \in Ends /\ back.not \in Ends /\ back.op \in {"resume", "drain"}
      BY <2>3, PlaceShape DEF xTaskResumeAll, ResumeDrained, At
    <3>2. \/ pc' = [pc EXCEPT ![pxCurrentTCB] = back.not]
          \/ pc' = [pc EXCEPT ![pxCurrentTCB] =
                     [op |-> "drain", moved |-> FALSE, yielded |-> back.yielded, not |-> back.not]]
          \/ pc' = [pc EXCEPT ![pxCurrentTCB] =
                     [op |-> "ticks", count |-> xPendedTicks, yielded |-> back.yielded, not |-> back.not]]
      BY <2>3 DEF xTaskResumeAll, ResumeDrained, Goto
    <3>3. UNCHANGED memory /\ xPendedTicks \in Nat
      BY <2>3 DEF xTaskResumeAll, ResumeDrained, IInv, Typed
    <3> QED
      BY <3>1, <3>2, <3>3, PlaceMade, EndShape, OwnedHandedOn
  <2>4. ASSUME NEW d \in Task, NEW p \in Priority, xTaskCreate(d, p) PROVE Owned'
    <3>1. memory[d] = "free" /\ d # pxCurrentTCB
      BY <2>4, Here DEF xTaskCreate, Live
    <3>2. CASE memory' = [memory EXCEPT ![d] = "new"]
      <4> DEFINE add == [op |-> "add", who |-> d]
      <4>1. pc' = [pc EXCEPT ![pxCurrentTCB] = Resuming(add, add), ![d] = App]
        BY <2>4, <3>1, <3>2 DEF xTaskCreate
      <4>2. ASSUME NEW t \in Task, NEW u \in Task
            PROVE  /\ Adding(t, u)' => Adding(t, u) \/ (t = pxCurrentTCB /\ u = d)
                   /\ Freeing(t, u)' => Freeing(t, u)
        BY <3>1, <4>1 DEF Adding, Freeing, Resuming, App
      <4> QED
        BY <3>1, <3>2, <4>2 DEF IInv, Owned
    <3>3. CASE UNCHANGED memory /\ Goto(Resuming(App, App))
      BY <3>3, PlainPlaces, OwnedByMove DEF Goto
    <3> QED
      BY <2>4, <3>2, <3>3 DEF xTaskCreate
  <2>5. CASE CreateAdds
    <3> DEFINE d == pc[pxCurrentTCB].who
    <3>1. d \in Task /\ memory[d] = "new" /\ pc[pxCurrentTCB] = [op |-> "add", who |-> d]
      BY <2>5, CreateAddsReady, PlaceShape DEF CreateAdds, At
    <3>2. /\ pc' = [pc EXCEPT ![pxCurrentTCB] = [op |-> "created", who |-> d]]
          /\ memory' = [memory EXCEPT ![d] = "live"]
      BY <2>5 DEF CreateAdds, AddNew, Goto
    <3>3. Adding(pxCurrentTCB, d)
      BY <3>1 DEF Adding
    <3>4. ASSUME NEW t \in Task, NEW u \in Task
          PROVE  /\ Adding(t, u)' => Adding(t, u) /\ t # pxCurrentTCB
                 /\ Freeing(t, u)' => Freeing(t, u)
      BY <3>2 DEF Adding, Freeing
    <3> QED
      BY <3>1, <3>2, <3>3, <3>4 DEF IInv, Owned
  <2>6. CASE DelaySleeps
    BY <2>6, PlainPlaces, OwnedByMove DEF DelaySleeps, Goto
  <2>7. ASSUME NEW t \in Task, vTaskSuspend(t) PROVE Owned'
    BY <2>7, PlainPlaces, OwnedByMove DEF vTaskSuspend, Goto
  <2>8. ASSUME NEW d \in Task, vTaskDelete(d) PROVE Owned'
    <3>1. memory[d] = "live"
      BY <2>8 DEF vTaskDelete, Live
    <3>2. CASE d = pxCurrentTCB
      BY <2>8, <3>2, PlainPlaces, OwnedByMove DEF vTaskDelete, Goto
    <3>3. CASE d # pxCurrentTCB
      <4>1. /\ memory' = [memory EXCEPT ![d] = "dying"]
            /\ pc' = [pc EXCEPT ![pxCurrentTCB] = [op |-> "free", who |-> d]]
        BY <2>8, <3>3 DEF vTaskDelete, Goto
      <4>2. ASSUME NEW t \in Task, NEW u \in Task
            PROVE  /\ Adding(t, u)' => Adding(t, u)
                   /\ Freeing(t, u)' => Freeing(t, u) \/ (t = pxCurrentTCB /\ u = d)
        BY <4>1 DEF Adding, Freeing
      <4> QED
        BY <3>1, <4>1, <4>2 DEF IInv, Owned
    <3> QED
      BY <3>2, <3>3
  <2>9. CASE prvDeleteTCB
    <3> DEFINE d == pc[pxCurrentTCB].who
    <3>1. d \in Task /\ memory[d] = "dying" /\ pc[pxCurrentTCB] = [op |-> "free", who |-> d]
      BY <2>9, DeleteTCBReady, PlaceShape DEF prvDeleteTCB, At
    <3>2. /\ pc' = [pc EXCEPT ![pxCurrentTCB] = Resuming(App, App), ![d] = App]
          /\ memory' = [memory EXCEPT ![d] = "free"]
      BY <2>9 DEF prvDeleteTCB
    <3>3. Freeing(pxCurrentTCB, d) /\ d # pxCurrentTCB
      BY <3>1, Here DEF Freeing, Live
    <3>4. ASSUME NEW t \in Task, NEW u \in Task
          PROVE  /\ Adding(t, u)' => Adding(t, u)
                 /\ Freeing(t, u)' => Freeing(t, u) /\ t # pxCurrentTCB
      BY <3>2, <3>3 DEF Adding, Freeing, Resuming, App
    <3> QED
      BY <3>1, <3>2, <3>3, <3>4 DEF IInv, Owned
  <2>10. ASSUME NEW t \in Task, ResumeDrains(t) PROVE Owned'
    <3> DEFINE place == [pc[pxCurrentTCB] EXCEPT !.moved = TRUE]
    <3>1. pc[pxCurrentTCB] \in [op : {"drain"}, moved : BOOLEAN, yielded : Ends, not : Ends]
      BY <2>10, PlaceShape DEF ResumeDrains, At
    <3>2. /\ place \in Place /\ place.op = "drain" /\ place.yielded = pc[pxCurrentTCB].yielded
          /\ place.not = pc[pxCurrentTCB].not
      BY <3>1 DEF Place
    <3>3. pc' = [pc EXCEPT ![pxCurrentTCB] = place] /\ UNCHANGED memory
      BY <2>10 DEF ResumeDrains
    <3> HIDE DEF place
    <3> QED
      BY <3>1, <3>2, <3>3, OwnedHandedOn
  <2>11. CASE ResumeTicks
    <3> DEFINE place == [pc[pxCurrentTCB] EXCEPT !.count = @ - 1]
    <3>1. /\ pc[pxCurrentTCB] \in [op : {"ticks"}, count : Nat, yielded : Ends, not : Ends]
          /\ pc[pxCurrentTCB].count > 0
      BY <2>11, PlaceShape DEF ResumeTicks, At
    <3>2. /\ place \in Place /\ place.op = "ticks" /\ place.yielded = pc[pxCurrentTCB].yielded
          /\ place.not = pc[pxCurrentTCB].not
      BY <3>1 DEF Place
    <3>3. pc' = [pc EXCEPT ![pxCurrentTCB] = place] /\ UNCHANGED memory
      BY <2>11 DEF ResumeTicks
    <3> HIDE DEF place
    <3> QED
      BY <3>1, <3>2, <3>3, OwnedHandedOn
  <2>12. CASE ResumeReturns
    <3>1. PICK place \in {pc[pxCurrentTCB].yielded, pc[pxCurrentTCB].not} :
            pc' = [pc EXCEPT ![pxCurrentTCB] = place]
      BY <2>12 DEF ResumeReturns, Goto
    <3>2. place \in Place /\ pc[pxCurrentTCB].op = "ticks" /\ UNCHANGED memory
      BY <2>12, PlaceShape, EndShape DEF ResumeReturns, At
    <3> QED
      BY <3>1, <3>2, OwnedHandedOn
  <2>13. CASE vPortYield
    <3>1. pc[pxCurrentTCB].next \in Plain
      BY <2>13, PlaceShape, PlainPlaces DEF vPortYield, At
    <3> QED
      BY <2>13, <3>1, PlainPlaces, OwnedByMove DEF vPortYield, Goto
  <2>14. ASSUME UNCHANGED <<pc, memory>> PROVE Owned'
    BY <2>14, OwnedByMove
  <2> QED
    BY <1>3, <2>1, <2>2, <2>3, <2>4, <2>5, <2>6, <2>7, <2>8, <2>9, <2>10, <2>11, <2>12, <2>13, <2>14,
       BoundAssumption
    DEF AppCalls, KernelSteps, Interrupts, vPortYieldFromTick, Quiet, vTaskResume, vTaskPrioritySet,
        TickCounts, xTaskResumeFromISR
<1> QED
  BY <1>1, <1>2, <1>3 DEF Next

-----------------------------------------------------------------------------
(* Sleeping tasks and the time.                                            *)

(* Tasks may leave the delayed lists, and the recorded time be that of the *)
(* head.                                                                   *)
LEMMA NeverLateFewer ==
    ASSUME IInv,
           pxDelayedTaskList' \subseteq pxDelayedTaskList,
           pxOverflowDelayedTaskList' \subseteq pxOverflowDelayedTaskList,
           \A t \in Sleeping : xItemValue'[t] = xItemValue[t],
           xItemValue' \in [Task -> Tick],
           UNCHANGED xTickCount,
           UNCHANGED xNextTaskUnblockTime \/ prvResetNextTaskUnblockTime
    PROVE  NeverLate'
<1>1. /\ pxDelayedTaskList' \in SUBSET Task
      /\ \A t \in pxDelayedTaskList : xTickCount < xItemValue[t] /\ xNextTaskUnblockTime <= xItemValue[t]
      /\ \A t \in pxOverflowDelayedTaskList : xItemValue[t] < xTickCount
  BY DEF IInv, Typed, NeverLate
<1>2. prvResetNextTaskUnblockTime =>
         \A t \in pxDelayedTaskList' : xNextTaskUnblockTime' <= xItemValue'[t]
  BY <1>1, HeadValueIs DEF prvResetNextTaskUnblockTime
<1> QED
  BY <1>1, <1>2 DEF NeverLate, Sleeping

(* A counted tick wakes the tasks whose time has come; at the wrap no task *)
(* is left in the delayed list.                                            *)
LEMMA NeverLateTicks == IInv /\ TickLists => NeverLate'
<1> SUFFICES ASSUME IInv, TickLists PROVE NeverLate'
  OBVIOUS
<1>1. /\ pxDelayedTaskList \subseteq Task /\ pxOverflowDelayedTaskList \subseteq Task
      /\ xItemValue \in [Task -> Tick] /\ xTickCount \in Tick /\ xNextTaskUnblockTime \in Tick
      /\ \A t \in pxDelayedTaskList : xTickCount < xItemValue[t] /\ xNextTaskUnblockTime <= xItemValue[t]
      /\ \A t \in pxOverflowDelayedTaskList : xItemValue[t] < xTickCount
  BY DEF IInv, Typed, NeverLate
<1>2. /\ \A t \in Task : xItemValue[t] \in Nat /\ xItemValue[t] <= TickRange - 1
      /\ \A v \in Tick : v \in Nat /\ v <= TickRange - 1
      /\ TickRange \in Nat /\ xTickCount \in Nat
  BY <1>1, WidthAssumption DEF Tick
<1>3. /\ NextTick \in Tick /\ UnblockTime \in Tick /\ DueList \in SUBSET Task
      /\ DueList \ Woken \in SUBSET Task
  BY TickTypes
<1>4. NextTick = IF xTickCount = TickRange - 1 THEN 0 ELSE xTickCount + 1
  BY <1>1, NextTickIs
<1>5. \A t \in DueList : UnblockTime <= xItemValue[t] /\ NextTick <= xItemValue[t]
  <2>1. CASE NextTick = 0
    <3>1. UnblockTime = HeadValue(DueList, xItemValue)
      BY <2>1 DEF UnblockTime
    <3>2. \A t \in DueList : UnblockTime <= xItemValue[t]
      BY <1>1, <1>3, <3>1, HeadValueIs
    <3> QED
      BY <1>1, <1>2, <1>3, <2>1, <3>2
  <2>2. CASE NextTick # 0
    <3>1. NextTick = xTickCount + 1
      BY <1>4, <2>2
    <3>2. DueList = pxDelayedTaskList /\ UnblockTime = xNextTaskUnblockTime
      BY <2>2 DEF DueList, UnblockTime
    <3> QED
      BY <1>1, <1>2, <3>1, <3>2
  <2> QED
    BY <2>1, <2>2
<1>6. \A t \in LaterList : xItemValue[t] < NextTick
  <2>1. CASE NextTick = 0
    <3>1. xTickCount = TickRange - 1
      BY <1>1, <1>2, <1>4, <2>1
    <3>2. pxDelayedTaskList = {}
      BY <1>1, <1>2, <3>1
    <3> QED
      BY <2>1, <3>2 DEF LaterList
  <2>2. CASE NextTick # 0
    <3>1. NextTick = xTickCount + 1 /\ LaterList = pxOverflowDelayedTaskList
      BY <1>4, <2>2 DEF LaterList
    <3> QED
      BY <1>1, <1>2, <3>1
  <2> QED
    BY <2>1, <2>2
<1>7. \A t \in DueList \ Woken : HeadValue(DueList \ Woken, xItemValue) <= xItemValue[t]
  BY <1>1, <1>3, HeadValueIs
<1>8. /\ xTickCount' = NextTick /\ xItemValue' = xItemValue
      /\ pxDelayedTaskList' = DueList \ Woken /\ pxOverflowDelayedTaskList' = LaterList
      /\ xNextTaskUnblockTime' = IF NextTick >= UnblockTime THEN HeadValue(DueList \ Woken, xItemValue)
                                 ELSE UnblockTime
  BY DEF TickLists
<1>9. ASSUME NEW t \in DueList \ Woken
      PROVE  NextTick < xItemValue[t] /\ xNextTaskUnblockTime' <= xItemValue[t]
  <2>1. xItemValue[t] \in Nat /\ NextTick \in Nat /\ UnblockTime \in Nat
    BY <1>1, <1>2, <1>3
  <2>2. CASE NextTick >= UnblockTime
    <3>1. ~(xItemValue[t] <= NextTick)
      BY <1>9, <2>2 DEF Woken
    <3> QED
      BY <1>7, <1>8, <1>9, <2>1, <2>2, <3>1
  <2>3. CASE ~(NextTick >= UnblockTime)
    BY <1>5, <1>8, <1>9, <2>1, <2>3
  <2> QED
    BY <2>2, <2>3
<1> QED
  BY <1>6, <1>8, <1>9 DEF NeverLate

(* The running task leaves the ready lists to sleep, or to be suspended.   *)
LEMMA FallsAsleep ==
    ASSUME IInv, In(AboutToSleep), NEW n \in 1 .. portMAX_DELAY, NEW b \in BOOLEAN,
           prvAddCurrentTaskToDelayedList(n, b), UNCHANGED xTickCount
    PROVE  /\ NeverLate'
           /\ xItemValue' \in [Task -> Tick] /\ xNextTaskUnblockTime' \in Tick
           /\ \/ /\ xSuspendedTaskList' = xSuspendedTaskList \cup {pxCurrentTCB}
                 /\ UNCHANGED <<pxDelayedTaskList, pxOverflowDelayedTaskList>>
              \/ /\ pxDelayedTaskList' = pxDelayedTaskList \cup {pxCurrentTCB}
                 /\ UNCHANGED <<xSuspendedTaskList, pxOverflowDelayedTaskList>>
              \/ /\ pxOverflowDelayedTaskList' = pxOverflowDelayedTaskList \cup {pxCurrentTCB}
                 /\ UNCHANGED <<xSuspendedTaskList, pxDelayedTaskList>>
<1> DEFINE me == pxCurrentTCB
           wake == TimeToWake(n)
           first == Min({xNextTaskUnblockTime, wake})
<1>1. me \in Task /\ me \in Ready
  BY SleepsFromReady DEF In
<1>2. me \notin Sleeping
  BY <1>1 DEF IInv, Homes
<1>3. /\ wake \in Tick /\ wake # xTickCount
      /\ xItemValue \in [Task -> Tick] /\ xTickCount \in Tick /\ xNextTaskUnblockTime \in Tick
  BY TimeToWakeIs DEF IInv, Typed
<1>4. \/ /\ xSuspendedTaskList' = xSuspendedTaskList \cup {me}
         /\ UNCHANGED <<sleepVars, xNextTaskUnblockTime>>
      \/ /\ xItemValue' = [xItemValue EXCEPT ![me] = wake]
         /\ UNCHANGED xSuspendedTaskList
         /\ IF wake < xTickCount
            THEN /\ pxOverflowDelayedTaskList' = pxOverflowDelayedTaskList \cup {me}
                 /\ UNCHANGED <<pxDelayedTaskList, xNextTaskUnblockTime>>
            ELSE /\ pxDelayedTaskList' = pxDelayedTaskList \cup {me}
                 /\ xNextTaskUnblockTime' = first
                 /\ UNCHANGED pxOverflowDelayedTaskList
  BY DEF prvAddCurrentTaskToDelayedList
<1>5. xTickCount \in Nat /\ wake \in Nat /\ xNextTaskUnblockTime \in Nat
  BY <1>3 DEF Tick
<1> HIDE DEF wake
<1>6. first \in {xNextTaskUnblockTime, wake} /\ first <= wake /\ first <= xNextTaskUnblockTime
  BY <1>5, LeastNumber
<1> HIDE DEF first, me
<1>7. CASE UNCHANGED <<sleepVars, xNextTaskUnblockTime>> /\ xSuspendedTaskList' = xSuspendedTaskList \cup {me}
  <2>1. NeverLate'
    BY <1>7 DEF IInv, NeverLate, sleepVars
  <2> QED
    BY <1>3, <1>7, <2>1 DEF sleepVars, me
<1>8. CASE xItemValue' = [xItemValue EXCEPT ![me] = wake]
  <2>1. /\ xItemValue'[me] = wake
        /\ \A t \in Sleeping : t # me /\ xItemValue'[t] = xItemValue[t]
    BY <1>1, <1>2, <1>3, <1>8 DEF Sleeping, IInv, Typed
  <2>2. /\ \A t \in pxDelayedTaskList : /\ xTickCount < xItemValue[t] /\ xItemValue[t] \in Nat
                                        /\ xNextTaskUnblockTime <= xItemValue[t]
        /\ \A t \in pxOverflowDelayedTaskList : xItemValue[t] < xTickCount
    BY DEF IInv, Typed, NeverLate, Tick
  <2>3. xItemValue' \in [Task -> Tick] /\ xNextTaskUnblockTime' \in Tick
    BY <1>3, <1>4, <1>6, <1>8
  <2>4. ASSUME /\ wake < xTickCount
               /\ pxOverflowDelayedTaskList' = pxOverflowDelayedTaskList \cup {me}
               /\ UNCHANGED <<pxDelayedTaskList, xNextTaskUnblockTime>>
        PROVE  NeverLate'
    BY <2>1, <2>2, <2>4 DEF NeverLate, Sleeping
  <2>5. ASSUME UNCHANGED <<sleepVars, xNextTaskUnblockTime>> PROVE NeverLate'
    BY <2>5 DEF IInv, NeverLate, sleepVars
  <2>6. ASSUME /\ ~(wake < xTickCount)
               /\ pxDelayedTaskList' = pxDelayedTaskList \cup {me}
               /\ xNextTaskUnblockTime' = first
               /\ UNCHANGED pxOverflowDelayedTaskList
        PROVE  NeverLate'
    <3>1. \A t \in pxDelayedTaskList : first <= xItemValue[t]
      BY <1>5, <1>6, <2>2
    <3>2. xTickCount < wake
      BY <1>3, <1>5, <2>6
    <3> QED
      BY <1>6, <2>1, <2>2, <2>6, <3>1, <3>2 DEF NeverLate, Sleeping
  <2>7. NeverLate'
    BY <1>4, <2>4, <2>5, <2>6
  <2> QED
    BY <1>4, <2>3, <2>7 DEF me, sleepVars
<1> QED
  BY <1>4, <1>7, <1>8

LEMMA NeverLateKept == IInv /\ Next => NeverLate'
<1> SUFFICES ASSUME IInv, Next PROVE NeverLate'
  OBVIOUS
<1> USE DEF NotListed, sleepVars, timeVars
<1>1. xItemValue' \in [Task -> Tick] /\ xItemValue \in [Task -> Tick]
  BY TypedKept DEF IInv, Typed
<1>2. ASSUME UNCHANGED <<sleepVars, xTickCount, xNextTaskUnblockTime>> PROVE NeverLate'
  BY <1>2 DEF IInv, NeverLate
<1>3. CASE xTaskCreateInMain
  BY <1>2, <1>3 DEF xTaskCreateInMain, CreateBeforeStart
<1>4. CASE vTaskStartScheduler
  <2>1. Sleeping = {}
    BY <1>4 DEF vTaskStartScheduler, IInv, Alive, NotStarted
  <2> QED
    BY <1>4, <2>1 DEF vTaskStartScheduler, Sleeping, NeverLate
<1>5. CASE Quiet
  <2>1. CASE ResumeDrained \/ SuspendReturns
    BY <1>1, <2>1, NeverLateFewer DEF ResumeDrained, SuspendReturns
  <2>2. CASE ~(ResumeDrained \/ SuspendReturns)
    BY <1>2, <1>5, <2>2
    DEF Quiet, SuspendAll, ResumeAll, vTaskDelay, xTaskCatchUpTicks, CatchUpPends, xTaskResumeAll,
        TickPends, CreateReturns, prvIdleTask, prvCheckTasksWaitingTermination
  <2> QED
    BY <2>1, <2>2
<1>6. ASSUME NEW t \in Task, NEW p \in Priority, xTaskCreate(t, p) \/ vTaskPrioritySet(t, p)
      PROVE  NeverLate'
  BY <1>2, <1>6 DEF xTaskCreate, vTaskPrioritySet
<1>7. CASE CreateAdds \/ ResumeReturns \/ vPortYield
  BY <1>2, <1>7 DEF CreateAdds, ResumeReturns, vPortYield
<1>8. ASSUME NEW t \in Task, vTaskResume(t) \/ xTaskResumeFromISR(t) PROVE NeverLate'
  BY <1>2, <1>8 DEF vTaskResume, xTaskResumeFromISR
<1>9. ASSUME NEW t \in Task, vTaskSuspend(t) \/ vTaskDelete(t) \/ ResumeDrains(t) PROVE NeverLate'
  <2>1. /\ pxDelayedTaskList' \subseteq pxDelayedTaskList
        /\ pxOverflowDelayedTaskList' \subseteq pxOverflowDelayedTaskList
        /\ UNCHANGED <<xItemValue, xTickCount>>
        /\ UNCHANGED xNextTaskUnblockTime \/ prvResetNextTaskUnblockTime
    BY <1>9 DEF vTaskSuspend, vTaskDelete, ResumeDrains, Unlink
  <2> QED
    BY <1>1, <2>1, NeverLateFewer
<1>10. CASE prvDeleteTCB
  <2> DEFINE u == pc[pxCurrentTCB].who
  <2>1. u \in Task /\ memory[u] = "dying"
    BY <1>10, DeleteTCBReady
  <2>2. u \notin Sleeping
    BY <2>1 DEF IInv, Homes, Live
  <2>3. /\ xItemValue' = [xItemValue EXCEPT ![u] = 0]
        /\ UNCHANGED <<pxDelayedTaskList, pxOverflowDelayedTaskList, xTickCount, xNextTaskUnblockTime>>
    BY <1>10 DEF prvDeleteTCB
  <2>4. \A t \in Sleeping : xItemValue'[t] = xItemValue[t]
    BY <1>1, <2>2, <2>3 DEF IInv, Typed, Sleeping
  <2> QED
    BY <1>1, <2>3, <2>4, NeverLateFewer
<1>11. CASE DelaySleeps
  <2>1. pc[pxCurrentTCB].ticks \in 1 .. portMAX_DELAY /\ In(AboutToSleep)
    BY <1>11, Here, PlaceShape DEF DelaySleeps, At, In, AboutToSleep
  <2> QED
    BY <1>11, <2>1, FallsAsleep DEF DelaySleeps
<1>12. CASE TickCounts \/ ResumeTicks
  BY <1>12, NeverLateTicks DEF TickCounts, ResumeTicks
<1> QED
  BY <1>3, <1>4, <1>5, <1>6, <1>7, <1>8, <1>9, <1>10, <1>11, <1>12, BoundAssumption
  DEF Next, AppCalls, KernelSteps, Interrupts, vPortYieldFromTick, Quiet

-----------------------------------------------------------------------------
(* The counts of tasks.                                                    *)

LEMMA CountsKept == IInv /\ Next => CountsAgree'
<1> SUFFICES ASSUME IInv, Next PROVE CountsAgree'
  OBVIOUS
<1> USE DEF lifeVars
<1>1. /\ IsFiniteSet(Live) /\ IsFiniteSet(xTasksWaitingTermination)
      /\ Cardinality(Live) \in Nat /\ Cardinality(xTasksWaitingTermination) \in Nat
  BY TaskAssumption, FS_Subset, FS_CardinalityType DEF IInv, Typed, Live
<1>2. ASSUME UNCHANGED <<xTasksWaitingTermination, uxDeletedTasksWaitingCleanUp>>,
             NEW t \in Task, t \notin Live, AddNew(t, uxPriority')
      PROVE  CountsAgree'
  <2>1. Live' = Live \cup {t} /\ uxCurrentNumberOfTasks' = uxCurrentNumberOfTasks + 1
    BY <1>2, LiveBecomes DEF AddNew
  <2>2. Cardinality(Live \cup {t}) = Cardinality(Live) + 1
    BY <1>1, <1>2, FS_AddElement
  <2> QED
    BY <1>2, <2>1, <2>2 DEF IInv, CountsAgree
<1>3. ASSUME UNCHANGED <<xTasksWaitingTermination, uxDeletedTasksWaitingCleanUp,
                         uxCurrentNumberOfTasks>>, Live' = Live
      PROVE  CountsAgree'
  BY <1>3 DEF IInv, CountsAgree
<1>4. ASSUME UNCHANGED <<xTasksWaitingTermination, uxDeletedTasksWaitingCleanUp,
                         uxCurrentNumberOfTasks, memory>>
      PROVE  CountsAgree'
  BY <1>3, <1>4 DEF Live
<1>5. ASSUME NEW t \in Task, t \in Live, memory' = [memory EXCEPT ![t] = "dying"],
             uxCurrentNumberOfTasks' = uxCurrentNumberOfTasks - 1
      PROVE  uxCurrentNumberOfTasks' = Cardinality(Live')
  <2>1. Live' = Live \ {t}
    <3>1. t \in Task /\ memory' = [memory EXCEPT ![t] = "dying"] /\ "dying" # "live"
      BY <1>5
    <3>2. Live' = IF "dying" = "live" THEN Live \cup {t} ELSE Live \ {t}
      BY <3>1, LiveBecomes, Zenon
    <3> QED
      BY <3>1, <3>2
  <2>2. Cardinality(Live \ {t}) = Cardinality(Live) - 1
    BY <1>1, <1>5, FS_RemoveElement
  <2> QED
    BY <1>5, <2>1, <2>2 DEF IInv, CountsAgree
<1>6. CASE xTaskCreateInMain
  <2>1. PICK t \in Task \ {Idle}, p \in Priority : CreateBeforeStart(t, p)
    BY <1>6 DEF xTaskCreateInMain
  <2>2. t \notin Live
    BY <2>1, CreateInMainReady
  <2> QED
    BY <1>2, <2>1, <2>2 DEF CreateBeforeStart
<1>7. CASE vTaskStartScheduler
  <2>1. Idle \notin Live /\ UNCHANGED uxPriority
    BY <1>7, StartReady DEF vTaskStartScheduler
  <2>2. AddNew(Idle, uxPriority')
    BY <1>7, <2>1 DEF vTaskStartScheduler, AddNew
  <2> QED
    BY <1>2, <1>7, <2>1, <2>2, TaskAssumption DEF vTaskStartScheduler
<1>8. CASE Quiet
  <2>1. CASE prvCheckTasksWaitingTermination
    <3>1. PICK t \in xTasksWaitingTermination :
            /\ xTasksWaitingTermination' = xTasksWaitingTermination \ {t}
            /\ memory' = [memory EXCEPT ![t] = "dying"]
      BY <2>1 DEF prvCheckTasksWaitingTermination
    <3>2. t \in Task /\ t \in Live
      BY DEF IInv, Homes, Live
    <3>3. Cardinality(xTasksWaitingTermination \ {t}) = Cardinality(xTasksWaitingTermination) - 1
      BY <1>1, FS_RemoveElement
    <3>4. /\ uxCurrentNumberOfTasks' = uxCurrentNumberOfTasks - 1
          /\ uxDeletedTasksWaitingCleanUp' = uxDeletedTasksWaitingCleanUp - 1
      BY <2>1 DEF prvCheckTasksWaitingTermination
    <3> QED
      BY <1>5, <3>1, <3>2, <3>3, <3>4 DEF IInv, CountsAgree
  <2>2. CASE ~prvCheckTasksWaitingTermination
    BY <1>4, <1>8, <2>2
    DEF Quiet, SuspendAll, ResumeAll, vTaskDelay, xTaskCatchUpTicks, CatchUpPends, xTaskResumeAll,
        TickPends, CreateReturns, prvIdleTask, ResumeDrained, SuspendReturns
  <2> QED
    BY <2>1, <2>2
<1>9. ASSUME NEW t \in Task, NEW p \in Priority, xTaskCreate(t, p) PROVE CountsAgree'
  <2>1. Live' = Live
    BY <1>9, CreateReady, LiveBecomes DEF xTaskCreate, Live
  <2> QED
    BY <1>3, <1>9, <2>1 DEF xTaskCreate
<1>10. CASE CreateAdds
  <2> DEFINE u == pc[pxCurrentTCB].who
  <2>1. u \in Task /\ u \notin Live /\ UNCHANGED uxPriority
    BY <1>10, CreateAddsReady DEF CreateAdds, Live
  <2>2. AddNew(u, uxPriority')
    BY <1>10, <2>1 DEF CreateAdds, AddNew
  <2> HIDE DEF u
  <2> QED
    BY <1>2, <1>10, <2>1, <2>2 DEF CreateAdds
<1>11. ASSUME NEW t \in Task, vTaskDelete(t) PROVE CountsAgree'
  <2>1. t \in Live \ xTasksWaitingTermination
    BY <1>11 DEF vTaskDelete
  <2>2. CASE t = pxCurrentTCB
    <3>1. Cardinality(xTasksWaitingTermination \cup {t}) = Cardinality(xTasksWaitingTermination) + 1
      BY <1>1, <2>1, FS_AddElement
    <3>2. /\ xTasksWaitingTermination' = xTasksWaitingTermination \cup {t}
          /\ uxDeletedTasksWaitingCleanUp' = uxDeletedTasksWaitingCleanUp + 1
          /\ UNCHANGED uxCurrentNumberOfTasks /\ Live' = Live
      BY <1>11, <2>2 DEF vTaskDelete, Live
    <3> QED
      BY <3>1, <3>2 DEF IInv, CountsAgree
  <2>3. CASE t # pxCurrentTCB
    BY <1>5, <1>11, <2>1, <2>3 DEF vTaskDelete, IInv, CountsAgree
  <2> QED
    BY <2>2, <2>3
<1>12. CASE prvDeleteTCB
  <2> DEFINE u == pc[pxCurrentTCB].who
  <2>1. u \in Task /\ memory[u] = "dying"
    BY <1>12, DeleteTCBReady
  <2>2. memory' = [memory EXCEPT ![u] = "free"]
    BY <1>12 DEF prvDeleteTCB
  <2>3. Live' = Live
    BY <2>1, <2>2, LiveBecomes DEF Live
  <2> QED
    BY <1>3, <1>12, <2>3 DEF prvDeleteTCB
<1>13. ASSUME NEW t \in Task,
              \/ vTaskSuspend(t) \/ vTaskResume(t) \/ ResumeDrains(t) \/ xTaskResumeFromISR(t)
              \/ \E p \in Priority : vTaskPrioritySet(t, p)
       PROVE  CountsAgree'
  BY <1>4, <1>13 DEF vTaskSuspend, vTaskResume, ResumeDrains, xTaskResumeFromISR, vTaskPrioritySet
<1>14. CASE DelaySleeps \/ ResumeTicks \/ TickCounts \/ ResumeReturns \/ vPortYield
  BY <1>4, <1>14 DEF DelaySleeps, ResumeTicks, TickCounts, ResumeReturns, vPortYield
<1> QED
  BY <1>6, <1>7, <1>8, <1>9, <1>10, <1>11, <1>12, <1>13, <1>14, BoundAssumption
  DEF Next, AppCalls, KernelSteps, Interrupts, vPortYieldFromTick, Quiet

-----------------------------------------------------------------------------
(* Where the calls go on.  The steps of xTaskResumeAll and the yield lead  *)
(* a task on its way; the others are those of the scheduler's own calls.   *)

Own == {"app", "delay", "catchup", "suspended", "created", "free", "add"}
Ahead(p) ==
    /\ Onward(p).op \in Own
    /\ p.op \in {"resume", "drain", "ticks"} => Onward(p.yielded) = Onward(p.not)

LEMMA OwnPlaces ==
    /\ Ahead(App) /\ Ahead(Yielding) /\ Ahead(Resuming(App, App)) /\ Ahead(Resuming(App, Yielding))
    /\ \A n : Ahead([op |-> "delay", ticks |-> n]) /\ Ahead([op |-> "catchup", ticks |-> n])
    /\ \A u : /\ Ahead([op |-> "suspended", who |-> u]) /\ Ahead([op |-> "created", who |-> u])
              /\ Ahead([op |-> "free", who |-> u])
              /\ Ahead(Resuming([op |-> "add", who |-> u], [op |-> "add", who |-> u]))
    /\ \A p : p.op \in Own => Ahead(p)
<1> USE DEF Ahead, Onward, Own
<1>1. Ahead(App) /\ Ahead(Yielding)
  BY DEF App, Yielding, YieldingTo
<1>2. Ahead(Resuming(App, App)) /\ Ahead(Resuming(App, Yielding))
  BY DEF App, Yielding, YieldingTo, Resuming
<1>3. \A n : Ahead([op |-> "delay", ticks |-> n]) /\ Ahead([op |-> "catchup", ticks |-> n])
  OBVIOUS
<1>4. \A u : /\ Ahead([op |-> "suspended", who |-> u]) /\ Ahead([op |-> "created", who |-> u])
            /\ Ahead([op |-> "free", who |-> u])
  OBVIOUS
<1>5. \A u : Ahead(Resuming([op |-> "add", who |-> u], [op |-> "add", who |-> u]))
  BY DEF Resuming
<1>6. \A p : p.op \in Own => Ahead(p)
  OBVIOUS
<1> QED
  BY <1>1, <1>2, <1>3, <1>4, <1>5, <1>6

HandsOn ==
    \/ xTaskResumeAll \/ ResumeDrained \/ ResumeTicks \/ ResumeReturns \/ vPortYield
    \/ \E t \in Task : ResumeDrains(t)
LEMMA HandedOn ==
    ASSUME IInv, HandsOn
    PROVE  OneWay' /\ \A t \in Task : Onward(pc'[t]) = Onward(pc[t])
<1>1. xSchedulerRunning
  BY DEF HandsOn, xTaskResumeAll, ResumeDrained, ResumeTicks, ResumeReturns, vPortYield, ResumeDrains, At
<1> DEFINE me == pxCurrentTCB
           here == pc[me]
<1>2. /\ me \in Task /\ pc \in [Task -> Place] /\ here \in Place
      /\ here.op \in {"resume", "drain", "ticks"} =>
            here.yielded \in Ends /\ here.not \in Ends /\ Onward(here.yielded) = Onward(here.not)
  BY <1>1, Here, PlaceShape DEF IInv, OneWay
<1>3. \A e \in Ends : e.op \notin {"resume", "drain", "ticks"}
  BY EndShape DEF EndOps, OutOps
<1>4. ASSUME NEW place, pc' = [pc EXCEPT ![me] = place], Onward(place) = Onward(here),
             place.op \in {"resume", "drain", "ticks"} => Onward(place.yielded) = Onward(place.not)
      PROVE  OneWay' /\ \A t \in Task : Onward(pc'[t]) = Onward(pc[t])
  <2>1. \A t \in Task : pc'[t] = IF t = me THEN place ELSE pc[t]
    BY <1>2, <1>4
  <2> QED
    BY <1>4, <2>1 DEF IInv, OneWay
<1>5. CASE xTaskResumeAll
  <2>1. here.op = "resume" /\ Onward(here) = Onward(here.not)
    BY <1>2, <1>3, <1>5 DEF xTaskResumeAll, At, Onward
  <2> DEFINE drain == [op |-> "drain", moved |-> FALSE, yielded |-> here.yielded, not |-> here.not]
  <2>2. drain.op = "drain" /\ drain.yielded = here.yielded /\ drain.not = here.not
    OBVIOUS
  <2> HIDE DEF drain
  <2>3. Onward(drain) = Onward(here.not)
    BY <1>2, <1>3, <2>1, <2>2 DEF Onward
  <2>4. pc' = [pc EXCEPT ![me] = drain] \/ pc' = [pc EXCEPT ![me] = here.not]
    BY <1>5 DEF xTaskResumeAll, Goto, drain
  <2> QED
    BY <1>2, <1>3, <1>4, <2>1, <2>2, <2>3, <2>4
<1>6. CASE ResumeDrained
  <2>1. here.op = "drain" /\ Onward(here) = Onward(here.not)
    BY <1>2, <1>3, <1>6 DEF ResumeDrained, At, Onward
  <2> DEFINE ticks == [op |-> "ticks", count |-> xPendedTicks, yielded |-> here.yielded, not |-> here.not]
  <2>2. ticks.op = "ticks" /\ ticks.yielded = here.yielded /\ ticks.not = here.not
    OBVIOUS
  <2>3. pc' = [pc EXCEPT ![me] = ticks]
    BY <1>6 DEF ResumeDrained, Goto
  <2> HIDE DEF ticks
  <2>4. Onward(ticks) = Onward(here.not)
    BY <1>2, <1>3, <2>1, <2>2 DEF Onward
  <2> QED
    BY <1>2, <1>4, <2>1, <2>2, <2>3, <2>4
<1>7. ASSUME NEW place, place.op = here.op, here.op \in {"drain", "ticks"},
             place.yielded = here.yielded, place.not = here.not
      PROVE  /\ Onward(place) = Onward(here)
             /\ place.op \in {"resume", "drain", "ticks"} => Onward(place.yielded) = Onward(place.not)
  BY <1>2, <1>7 DEF Onward
<1>8. CASE ResumeTicks
  <2> DEFINE place == [here EXCEPT !.count = @ - 1]
  <2>1. here \in [op : {"ticks"}, count : Nat, yielded : Ends, not : Ends]
    BY <1>2, <1>8, PlaceShape DEF ResumeTicks, At
  <2>2. place.op = here.op /\ here.op = "ticks" /\ place.yielded = here.yielded /\ place.not = here.not
    BY <2>1
  <2>3. pc' = [pc EXCEPT ![me] = place]
    BY <1>8 DEF ResumeTicks
  <2> HIDE DEF place
  <2> QED
    BY <1>4, <1>7, <2>2, <2>3
<1>9. ASSUME NEW t \in Task, ResumeDrains(t) PROVE OneWay' /\ \A u \in Task : Onward(pc'[u]) = Onward(pc[u])
  <2> DEFINE place == [here EXCEPT !.moved = TRUE]
  <2>1. here \in [op : {"drain"}, moved : BOOLEAN, yielded : Ends, not : Ends]
    BY <1>2, <1>9, PlaceShape DEF ResumeDrains, At
  <2>2. place.op = here.op /\ here.op = "drain" /\ place.yielded = here.yielded /\ place.not = here.not
    BY <2>1
  <2>3. pc' = [pc EXCEPT ![me] = place]
    BY <1>9 DEF ResumeDrains
  <2> HIDE DEF place
  <2> QED
    BY <1>4, <1>7, <2>2, <2>3
<1>10. CASE ResumeReturns
  <2>1. here.op = "ticks" /\ Onward(here) = Onward(here.not)
    BY <1>2, <1>3, <1>10 DEF ResumeReturns, At, Onward
  <2>2. pc' = [pc EXCEPT ![me] = here.yielded] \/ pc' = [pc EXCEPT ![me] = here.not]
    BY <1>10 DEF ResumeReturns, Goto
  <2> QED
    BY <1>2, <1>3, <1>4, <2>1, <2>2
<1>11. CASE vPortYield
  <2>1. here.op = "yield" /\ here.next \in Outs /\ pc' = [pc EXCEPT ![me] = here.next]
    BY <1>2, <1>11, PlaceShape DEF vPortYield, At, Goto
  <2>2. here.next.op \in OutOps
    BY <2>1, OutShape
  <2>3. /\ here.next.op \notin {"resume", "drain", "ticks"} /\ here.next.op # "yield"
        /\ here.op \notin {"resume", "drain", "ticks"}
    <3> DEFINE goesOn == here.next.op
               op == here.op
    <3>1. goesOn \in OutOps /\ op = "yield"
      BY <2>1, <2>2
    <3> HIDE DEF goesOn, op
    <3>2. goesOn \notin {"resume", "drain", "ticks"} /\ goesOn # "yield" /\ op \notin {"resume", "drain", "ticks"}
      BY <3>1 DEF OutOps
    <3> QED
      BY <3>2 DEF goesOn, op
  <2>4. Onward(here.next) = here.next /\ Onward(here) = here.next
    BY <2>1, <2>3 DEF Onward
  <2> QED
    BY <1>4, <2>1, <2>3, <2>4
<1> QED
  BY <1>5, <1>6, <1>8, <1>9, <1>10, <1>11 DEF HandsOn

(* A task that did not start its call goes on where it was to, or it is    *)
(* in a call of the scheduler and stays in one, or it is made or freed.    *)
GoesOn(t) ==
    \/ Onward(pc'[t]) = Onward(pc[t])
    \/ t = pxCurrentTCB /\ Ahead(pc[t]) /\ Ahead(pc'[t])
    \/ pc'[t] = App /\ t # pxCurrentTCB /\ (memory[t] = "free" \/ memory'[t] = "free")
LEMMA OneWayKept == IInv /\ Next => OneWay' /\ \A t \in Task : GoesOn(t)
<1> SUFFICES ASSUME IInv, Next PROVE OneWay' /\ \A t \in Task : GoesOn(t)
  OBVIOUS
<1>1. CASE UNCHANGED pc
  BY <1>1 DEF IInv, OneWay, GoesOn
<1>2. CASE HandsOn
  BY <1>2, HandedOn DEF GoesOn
<1>3. ASSUME xSchedulerRunning, pc[pxCurrentTCB].op \in Own, NEW place, Ahead(place),
             \/ pc' = [pc EXCEPT ![pxCurrentTCB] = place]
             \/ \E u \in Task \ {pxCurrentTCB} :
                   /\ pc' = [pc EXCEPT ![pxCurrentTCB] = place, ![u] = App]
                   /\ memory[u] = "free" \/ memory'[u] = "free"
      PROVE  OneWay' /\ \A t \in Task : GoesOn(t)
  <2>1. pxCurrentTCB \in Task /\ pc \in [Task -> Place] /\ Ahead(pc[pxCurrentTCB])
    BY <1>3, Here, OwnPlaces
  <2>2. Ahead(App)
    BY OwnPlaces
  <2>3. ASSUME NEW t \in Task PROVE GoesOn(t) /\ (pc'[t] = pc[t] \/ Ahead(pc'[t]))
    BY <1>3, <2>1, <2>2, <2>3 DEF GoesOn
  <2> QED
    BY <2>3 DEF IInv, OneWay, Ahead
<1>4. CASE xTaskCreateInMain \/ vTaskStartScheduler
  BY <1>1, <1>4 DEF xTaskCreateInMain, CreateBeforeStart, vTaskStartScheduler
<1>5. CASE AppCalls \/ KernelSteps \/ Interrupts
  <2> xSchedulerRunning /\ pxCurrentTCB \in Task /\ pxCurrentTCB \in Live
    BY <1>5, StaysRunning, Here
  <2> USE DEF At, Calling, Goto, Own
  <2>1. CASE SuspendAll \/ TickPends \/ TickCounts
             \/ \E t \in Task : \/ vTaskResume(t) \/ xTaskResumeFromISR(t)
                                \/ \E p \in Priority : vTaskPrioritySet(t, p)
    BY <1>1, <2>1 DEF SuspendAll, TickPends, TickCounts, vTaskResume, xTaskResumeFromISR, vTaskPrioritySet
  <2>2. CASE ResumeAll \/ CatchUpPends \/ DelaySleeps
    BY <1>3, <2>2, OwnPlaces DEF ResumeAll, CatchUpPends, DelaySleeps
  <2>3. CASE vTaskDelay
    <3>1. PICK n \in Delays : \/ pc' = [pc EXCEPT ![pxCurrentTCB] = [op |-> "delay", ticks |-> n]]
                              \/ pc' = [pc EXCEPT ![pxCurrentTCB] = Yielding]
      BY <2>3 DEF vTaskDelay
    <3>2. pc[pxCurrentTCB].op \in Own
      BY <2>3 DEF vTaskDelay
    <3> QED
      BY <1>3, <3>1, <3>2, OwnPlaces
  <2>4. CASE xTaskCatchUpTicks
    <3>1. PICK n \in CatchUps : pc' = [pc EXCEPT ![pxCurrentTCB] = [op |-> "catchup", ticks |-> n]]
      BY <2>4 DEF xTaskCatchUpTicks
    <3>2. pc[pxCurrentTCB].op \in Own
      BY <2>4 DEF xTaskCatchUpTicks
    <3> QED
      BY <1>3, <3>1, <3>2, OwnPlaces
  <2>5. CASE SuspendReturns \/ CreateReturns \/ prvIdleTask
    <3>1. pc[pxCurrentTCB].op \in Own
      BY <2>5 DEF SuspendReturns, CreateReturns, prvIdleTask
    <3>2. pc' = [pc EXCEPT ![pxCurrentTCB] = App] \/ pc' = [pc EXCEPT ![pxCurrentTCB] = Yielding]
      BY <2>5 DEF SuspendReturns, CreateReturns, prvIdleTask
    <3> QED
      BY <1>3, <3>1, <3>2, OwnPlaces
  <2>6. CASE CreateAdds \/ prvCheckTasksWaitingTermination
             \/ \E t \in Task : vTaskSuspend(t) \/ vTaskDelete(t)
    <3>1. pc[pxCurrentTCB].op \in Own
      BY <2>6 DEF CreateAdds, prvCheckTasksWaitingTermination, vTaskSuspend, vTaskDelete
    <3>2. \E u : \/ pc' = [pc EXCEPT ![pxCurrentTCB] = [op |-> "created", who |-> u]]
                 \/ pc' = [pc EXCEPT ![pxCurrentTCB] = [op |-> "free", who |-> u]]
                 \/ pc' = [pc EXCEPT ![pxCurrentTCB] = [op |-> "suspended", who |-> u]]
                 \/ pc' = [pc EXCEPT ![pxCurrentTCB] = Yielding]
      BY <2>6 DEF CreateAdds, prvCheckTasksWaitingTermination, vTaskSuspend, vTaskDelete
    <3> QED
      BY <1>3, <3>1, <3>2, OwnPlaces
  <2>7. ASSUME NEW t \in Task, NEW p \in Priority, xTaskCreate(t, p)
        PROVE  OneWay' /\ \A u \in Task : GoesOn(u)
    <3>1. pc[pxCurrentTCB].op \in Own /\ memory[t] = "free" /\ t # pxCurrentTCB
      BY <2>7 DEF xTaskCreate, Live
    <3> DEFINE add == Resuming([op |-> "add", who |-> t], [op |-> "add", who |-> t])
               back == Resuming(App, App)
    <3>2. Ahead(add) /\ Ahead(back)
      BY OwnPlaces
    <3>3. \/ pc' = [pc EXCEPT ![pxCurrentTCB] = add, ![t] = App]
          \/ pc' = [pc EXCEPT ![pxCurrentTCB] = back]
      BY <2>7 DEF xTaskCreate
    <3> HIDE DEF add, back
    <3> QED
      BY <1>3, <3>1, <3>2, <3>3
  <2>8. CASE prvDeleteTCB
    <3> DEFINE u == pc[pxCurrentTCB].who
    <3>1. pc[pxCurrentTCB].op \in Own /\ u \in Task /\ memory[u] = "dying"
      BY <2>8, DeleteTCBReady DEF prvDeleteTCB
    <3>2. u # pxCurrentTCB /\ memory'[u] = "free"
      BY <2>8, <3>1 DEF prvDeleteTCB, Live, IInv, Typed
    <3>3. pc' = [pc EXCEPT ![pxCurrentTCB] = Resuming(App, App), ![u] = App]
      BY <2>8 DEF prvDeleteTCB
    <3> QED
      BY <1>3, <3>1, <3>2, <3>3, OwnPlaces
  <2> QED
    BY <1>2, <1>5, <2>1, <2>2, <2>3, <2>4, <2>5, <2>6, <2>7, <2>8, BoundAssumption
    DEF AppCalls, KernelSteps, Interrupts, vPortYieldFromTick, HandsOn
<1> QED
  BY <1>4, <1>5 DEF Next

-----------------------------------------------------------------------------
(* The invariant.                                                          *)

LEMMA InitHolds == Init => IInv
<1> SUFFICES ASSUME Init PROVE IInv
  OBVIOUS
<1>1. App \in Place /\ 0 \in Tick /\ 0 \in Priority
  BY PlaceMade, EndShape, PriorityIsNat, WidthAssumption DEF Tick
<1>2. Typed
  BY <1>1 DEF Init, Typed
<1>3. Live = {}
  BY DEF Init, Live
<1>4. Holds(pxReadyTasksLists, {}, uxPriority) /\ Covers({}, uxPriority, uxTopReadyPriority)
  BY <1>1, EmptyListIsList DEF Init, Holds, Covers
<1>5. Ready = {}
  BY <1>2, <1>4, HeldTasks DEF Typed, Ready
<1>6. Homes /\ TopKnown
  BY <1>3, <1>4, <1>5 DEF Init, Homes, TopKnown, Sleeping
<1>7. Alive
  BY TaskAssumption DEF Init, Alive, NotStarted, Sleeping
<1>8. Suspension
  BY DEF Init, Suspension, In, AboutToSleep, Unlocks, At, NothingLeftPending, App, Urgent
<1>9. Away
  BY DEF Init, Away
<1>10. Owned
  BY DEF Init, Owned, Adding, Freeing, App
<1>11. NeverLate /\ CountsAgree
  BY <1>3, FS_EmptySet DEF Init, NeverLate, CountsAgree
<1>12. OneWay
  BY DEF Init, OneWay, App
<1> QED
  BY <1>2, <1>6, <1>7, <1>8, <1>9, <1>10, <1>11, <1>12 DEF IInv

LEMMA StutterKeeps == IInv /\ UNCHANGED vars => IInv'
<1> SUFFICES ASSUME IInv, UNCHANGED vars PROVE IInv'
  OBVIOUS
<1> USE DEF IInv, vars, sleepVars, timeVars, readyVars, switchVars, lifeVars, notifyVars
<1>1. Typed'
  BY DEF Typed
<1>2. Homes' /\ TopKnown'
  BY DEF Homes, TopKnown, Holds, Covers, Ready, Sleeping, Live
<1>3. Alive'
  BY DEF Alive, NotStarted, Ready, Sleeping, Live
<1>4. Suspension'
  BY DEF Suspension, In, AboutToSleep, Unlocks, At, NothingLeftPending, Masked, Ready
<1>5. Away' /\ Owned' /\ OneWay'
  BY DEF Away, Leaving, In, Unlocks, Owned, OneWay, Adding, Freeing, At, Ready
<1>6. NeverLate' /\ CountsAgree'
  BY DEF NeverLate, CountsAgree, Live
<1> QED
  BY <1>1, <1>2, <1>3, <1>4, <1>5, <1>6

LEMMA StepKeeps == IInv /\ [Next]_vars => IInv'
  BY TypedKept, HomesKept, AliveKept, SuspensionKept, AwayKept, OwnedKept, OneWayKept, NeverLateKept,
     CountsKept, StutterKeeps
  DEF IInv

(* Every step keeps the inductive invariant of the scheduler: the lists,   *)
(* the clock, the counts and the places of the calls fit together.         *)
THEOREM Inductive == Spec => []IInv
  BY InitHolds, StepKeeps, PTL DEF Spec

-----------------------------------------------------------------------------
(* The properties that follow.                                             *)

(* The variables of tasks.c have their types, for any number of tasks and  *)
(* any width of the tick count.                                            *)
THEOREM TypeCorrect == Spec => []TypeOK
<1>1. IInv => TypeOK
  <2> SUFFICES ASSUME IInv PROVE TypeOK
    OBVIOUS
  <2>1. /\ Cardinality(xTasksWaitingTermination) \in 0 .. Cardinality(Task)
        /\ Cardinality(Live) \in 0 .. Cardinality(Task)
    <3>1. xTasksWaitingTermination \in SUBSET Task /\ Live \in SUBSET Task
      BY DEF IInv, Typed, Live
    <3>2. \A S \in SUBSET Task : Cardinality(S) \in Nat /\ Cardinality(S) <= Cardinality(Task)
      BY TaskAssumption, FS_Subset, FS_CardinalityType
    <3> QED
      BY <3>1, <3>2, TaskAssumption, FS_CardinalityType
  <2>2. /\ uxTopReadyPriority \in Priority
        /\ \A p \in Priority : /\ pxReadyTasksLists[p].items \in Seq(Task)
                               /\ pxReadyTasksLists[p].index \in 0 .. Len(pxReadyTasksLists[p].items)
    BY MembersOf DEF IInv, Homes, TopKnown, Holds, Covers
  <2> QED
    BY <2>1, <2>2 DEF IInv, Typed, CountsAgree, TypeOK
<1> QED
  BY Inductive, <1>1, PTL

LEMMA HomesAreOne == IInv => OneHome
<1> SUFFICES ASSUME IInv PROVE OneHome
  OBVIOUS
<1>1. /\ DOMAIN Places = 1 .. 5
      /\ Places[1] = Ready /\ Places[2] = pxDelayedTaskList /\ Places[3] = pxOverflowDelayedTaskList
      /\ Places[4] = xSuspendedTaskList /\ Places[5] = xTasksWaitingTermination
  BY DEF Places
<1>2. \A i, j \in DOMAIN Places : i # j => Places[i] \cap Places[j] = {}
  BY <1>1 DEF IInv, Homes, Sleeping
<1>3. ToSet(Places) = {Ready, pxDelayedTaskList, pxOverflowDelayedTaskList, xSuspendedTaskList,
                       xTasksWaitingTermination}
  BY <1>1 DEF ToSet
<1>4. UNION ToSet(Places) = Live
  BY <1>3 DEF IInv, Homes, Sleeping
<1>5. \A p \in Priority :
        /\ IsInjective(pxReadyTasksLists[p].items)
        /\ \A t \in Members(pxReadyTasksLists[p]) : uxPriority[t] = p
  BY DEF IInv, Homes, Holds, NoRepeat
<1>6. pxCurrentTCB # NULL => memory[pxCurrentTCB] = "live"
  BY DEF IInv, Alive, Live
<1> QED
  BY <1>2, <1>4, <1>5, <1>6 DEF OneHome

(* A task that exists is linked in exactly one list of states, in the      *)
(* ready list of its priority if it is ready, and the running task is      *)
(* never freed.                                                            *)
THEOREM EveryTaskHasOneHome == Spec => []OneHome
  BY Inductive, HomesAreOne, PTL

(* The search of the context switch from uxTopReadyPriority down finds a   *)
(* task, and no ready task is above: its assertion never fails.            *)
THEOREM SearchAlwaysFinds == Spec => []SearchFinds
<1>1. IInv => SearchFinds
  <2> SUFFICES ASSUME IInv, xSchedulerRunning
               PROVE  /\ \A t \in Ready : uxPriority[t] <= uxTopReadyPriority
                      /\ \E p \in 0 .. uxTopReadyPriority : pxReadyTasksLists[p].items # <<>>
    BY DEF SearchFinds
  <2>1. \A t \in Ready : uxPriority[t] <= uxTopReadyPriority
    BY ReadyFacts DEF Covers
  <2>2. 0 \in Priority /\ Idle \in Members(pxReadyTasksLists[0])
    BY ReadyFacts, PriorityIsNat DEF Holds
  <2>3. pxReadyTasksLists[0].items # <<>>
    BY <2>2, EmptySeq DEF Members, ToSet
  <2>4. uxTopReadyPriority \in Nat
    BY ReadyFacts, PriorityIsNat DEF Covers
  <2> QED
    BY <2>1, <2>3, <2>4
<1> QED
  BY Inductive, <1>1, PTL

(* Once xTaskResumeAll has resumed the scheduler, no task and no tick is   *)
(* left pending.                                                           *)
THEOREM NothingIsLeftPending == Spec => []NothingLeftPending
  BY Inductive, PTL DEF IInv, Suspension

(* The recorded unblock time is never later than the first task to wake,   *)
(* and the two delayed lists are on the right side of the wrap.            *)
THEOREM NoTaskIsLate == Spec => []NeverLate
  BY Inductive, PTL DEF IInv

(* uxCurrentNumberOfTasks and uxDeletedTasksWaitingCleanUp are the numbers *)
(* of tasks that exist, and of those that wait to be freed.                *)
THEOREM CountsAreRight == Spec => []CountsAgree
  BY Inductive, PTL DEF IInv

(* A step after which another task runs starts and ends with the scheduler *)
(* not suspended.                                                          *)
LEMMA SwitchesUnsuspended ==
    ASSUME IInv, Next, pxCurrentTCB' # pxCurrentTCB
    PROVE  uxSchedulerSuspended = 0 /\ uxSchedulerSuspended' = 0
<1> USE DEF switchVars, NotListed
<1>1. ASSUME UNCHANGED uxSchedulerSuspended, NEW R, Switches(R)
      PROVE  uxSchedulerSuspended = 0 /\ uxSchedulerSuspended' = 0
  BY <1>1 DEF Switches
<1>2. CASE xTaskCreateInMain \/ vTaskStartScheduler
  BY <1>2 DEF xTaskCreateInMain, CreateBeforeStart, vTaskStartScheduler, IInv, Alive, NotStarted
<1>3. ~Quiet
  BY QuietUnchanged
<1>4. ASSUME NEW t \in Task, vTaskResume(t) PROVE uxSchedulerSuspended = 0 /\ uxSchedulerSuspended' = 0
  <2>1. UNCHANGED uxSchedulerSuspended
    BY <1>4 DEF vTaskResume
  <2> QED
    BY <1>1, <1>4, <2>1, ResumeReady
<1>5. ASSUME NEW t \in Task, NEW p \in Priority, vTaskPrioritySet(t, p)
      PROVE  uxSchedulerSuspended = 0 /\ uxSchedulerSuspended' = 0
  <2>1. UNCHANGED uxSchedulerSuspended
    BY <1>5 DEF vTaskPrioritySet
  <2> QED
    BY <1>1, <1>5, <2>1, PrioritySetReady
<1>6. CASE vPortYield \/ ResumeReturns
  <2>1. UNCHANGED uxSchedulerSuspended
    BY <1>6 DEF vPortYield, ResumeReturns
  <2> QED
    BY <1>1, <1>6, <2>1, YieldReady
<1>7. CASE TickCounts
  BY <1>7 DEF TickCounts
<1>8. ASSUME NEW t \in Task,
             \/ vTaskSuspend(t) \/ vTaskDelete(t) \/ ResumeDrains(t) \/ xTaskResumeFromISR(t)
             \/ \E p \in Priority : xTaskCreate(t, p)
      PROVE  FALSE
  BY <1>8 DEF vTaskSuspend, vTaskDelete, ResumeDrains, xTaskResumeFromISR, xTaskCreate
<1>9. ~(DelaySleeps \/ CreateAdds \/ prvDeleteTCB \/ ResumeTicks)
  BY DEF DelaySleeps, CreateAdds, prvDeleteTCB, ResumeTicks
<1> QED
  BY <1>2, <1>3, <1>4, <1>5, <1>6, <1>7, <1>8, <1>9, BoundAssumption
  DEF Next, AppCalls, KernelSteps, Interrupts, vPortYieldFromTick, Quiet

(* While the scheduler is suspended the running task stays the running     *)
(* task, whatever interrupts come.                                         *)
THEOREM SuspendedMeansAlone == Spec => NoSwitchWhileSuspended
<1>1. IInv /\ [Next]_vars => [uxSchedulerSuspended > 0 => pxCurrentTCB' = pxCurrentTCB]_vars
  BY SwitchesUnsuspended
<1> QED
  BY Inductive, <1>1, PTL DEF Spec, NoSwitchWhileSuspended

-----------------------------------------------------------------------------
(* Preemption: the running task is one of the highest priority, or a       *)
(* yield is due.                                                           *)

(* The inductive part.  A call that made the running task leave will yield *)
(* whatever happens; a call that created a task will compare priorities.   *)
(* It is kept for the tasks of any set, alone.                             *)
WillYield ==
    \/ At("yield")
    \/ At("suspended") /\ pc[pxCurrentTCB].who = pxCurrentTCB
    \/ (At("resume") \/ At("drain") \/ At("ticks")) /\ pc[pxCurrentTCB].not.op = "yield"
NewOne == IF At("created") THEN {pc[pxCurrentTCB].who} ELSE {}
Preempts(X) ==
    IF xSchedulerRunning
    THEN \/ xYieldPendings \/ WillYield
         \/ \A u \in (Ready \cap X) \ NewOne : uxPriority[u] <= uxPriority[pxCurrentTCB]
    ELSE IF pxCurrentTCB = NULL THEN Ready = {}
         ELSE \A u \in Ready : uxPriority[u] <= uxPriority[pxCurrentTCB]

(* Priorities are numbers, so what is not above is at or below.            *)
LEMMA Comparable ==
    ASSUME IInv, xSchedulerRunning
    PROVE  /\ uxPriority[pxCurrentTCB] \in Nat
           /\ \A u \in Task : uxPriority[u] \in Nat
  BY ReadyFacts, PriorityIsNat

LEMMA AfterSwitch ==
    ASSUME NEW X, Served, xSchedulerRunning'
    PROVE  Preempts(X)'
  BY DEF Served, Preempts

(* A step of the running task, by where it leads.                          *)
LEMMA LeadsTo ==
    ASSUME IInv, xSchedulerRunning, xSchedulerRunning', NEW place,
           pxCurrentTCB' = pxCurrentTCB, pc'[pxCurrentTCB] = place
    PROVE  /\ place.op = "yield" => WillYield'
           /\ place.op = "suspended" /\ place.who = pxCurrentTCB => WillYield'
           /\ place.op \in {"resume", "drain", "ticks"} /\ place.not.op = "yield" => WillYield'
           /\ NewOne' = IF place.op = "created" THEN {place.who} ELSE {}
  BY DEF WillYield, NewOne, At

(* No task that was not below becomes ready.                               *)
LEMMA NoneRaised ==
    ASSUME NEW X, IInv, Preempts(X), xSchedulerRunning, xSchedulerRunning',
           pxCurrentTCB' = pxCurrentTCB, xYieldPendings => xYieldPendings',
           WillYield => WillYield' \/ xYieldPendings',
           Ready' \ NewOne' \subseteq Ready \ NewOne,
           uxPriority'[pxCurrentTCB] = uxPriority[pxCurrentTCB],
           \A u \in Ready' : uxPriority'[u] = uxPriority[u]
    PROVE  Preempts(X)'
  BY DEF Preempts

(* A task becomes ready between two steps of the running task.             *)
LEMMA OneRaised ==
    ASSUME NEW X, IInv, Preempts(X), xSchedulerRunning, xSchedulerRunning',
           UNCHANGED <<pxCurrentTCB, uxPriority>>, NEW S \in SUBSET Task,
           Ready' \subseteq Ready \cup S, NewOne \subseteq NewOne',
           xYieldPendings => xYieldPendings', WillYield => WillYield' \/ xYieldPendings',
           \/ xYieldPendings'
           \/ \A u \in S : ~(uxPriority[u] > uxPriority[pxCurrentTCB])
    PROVE  Preempts(X)'
  BY Comparable DEF Preempts

LEMMA SameCall ==
    ASSUME UNCHANGED <<pc, pxCurrentTCB, xSchedulerRunning>>
    PROVE  NewOne' = NewOne /\ (WillYield' <=> WillYield)
  BY DEF NewOne, WillYield, At

(* In application code no yield is due but by the flag.                    *)
LEMMA NotYielding ==
    ASSUME pc[pxCurrentTCB].op \notin {"yield", "suspended", "created", "resume", "drain", "ticks"}
    PROVE  ~WillYield /\ NewOne = {}
  BY DEF WillYield, NewOne, At


(* A call from application code that keeps the running task running.       *)
LEMMA CallKeepsPreempts ==
    ASSUME NEW X, IInv, Preempts(X), At("app"), xSchedulerRunning', NEW place,
           UNCHANGED <<uxPriority, switchVars>>,
           pc'[pxCurrentTCB] = place, place.op # "created", Ready' \subseteq Ready
    PROVE  Preempts(X)'
<1>1. xSchedulerRunning /\ ~WillYield /\ NewOne = {}
  BY NotYielding DEF At
<1>2. NewOne' = {}
  BY <1>1, LeadsTo DEF switchVars
<1> QED
  BY <1>1, <1>2, NoneRaised DEF switchVars

(* The steps of one call, which will yield at its end if it had to.        *)
LEMMA CallGoesOn ==
    ASSUME IInv, xSchedulerRunning, xSchedulerRunning', NEW place,
           UNCHANGED uxPriority, pxCurrentTCB' = pxCurrentTCB,
           xYieldPendings => xYieldPendings',
           pc[pxCurrentTCB].op \in {"resume", "drain", "ticks"},
           pc'[pxCurrentTCB] = place, place.op \in {"resume", "drain", "ticks"},
           place.not = pc[pxCurrentTCB].not
    PROVE  /\ NewOne = {} /\ NewOne' = {}
           /\ WillYield => WillYield'
<1>1. NewOne = {} /\ NewOne' = {}
  BY LeadsTo DEF NewOne, At
<1>2. WillYield => pc[pxCurrentTCB].not.op = "yield"
  BY DEF WillYield, At
<1> QED
  BY <1>1, <1>2, LeadsTo

(* Before the scheduler is started: the newest of the highest runs first.  *)
LEMMA PreemptsInMain ==
    ASSUME NEW X, IInv, Preempts(X), xTaskCreateInMain \/ vTaskStartScheduler
    PROVE  Preempts(X)'
<1>1. CASE xTaskCreateInMain
  <2>1. PICK t \in Task \ {Idle}, p \in Priority : CreateBeforeStart(t, p)
    BY <1>1 DEF xTaskCreateInMain
  <2>2. ~xSchedulerRunning /\ ~xSchedulerRunning'
    BY <1>1 DEF xTaskCreateInMain
  <2>3. /\ t \notin Ready /\ Ready' = Ready \cup {t}
        /\ uxPriority' = [uxPriority EXCEPT ![t] = p]
        /\ pxCurrentTCB' = IF pxCurrentTCB = NULL THEN t
                           ELSE IF uxPriority[pxCurrentTCB] <= p THEN t ELSE pxCurrentTCB
    BY <2>1, ReadyFacts, CreateInMainReady DEF ReadyBecomes, CreateBeforeStart
  <2>4. /\ uxPriority \in [Task -> Priority] /\ Priority \subseteq Nat /\ Ready \subseteq Task
        /\ t \in Task /\ t # NULL /\ p \in Nat
    BY ReadyFacts, PriorityIsNat, TaskAssumption
  <2>5. pxCurrentTCB # NULL => pxCurrentTCB \in Task /\ pxCurrentTCB # t
    BY <2>1 DEF IInv, Alive, Live, CreateBeforeStart
  <2>6. \A u \in Task : uxPriority[u] \in Nat
    BY <2>4
  <2>7. uxPriority'[t] = p /\ \A u \in Task \ {t} : uxPriority'[u] = uxPriority[u]
    BY <2>3, <2>4
  <2> QED
    BY <2>2, <2>3, <2>4, <2>5, <2>6, <2>7 DEF Preempts
<1>2. CASE vTaskStartScheduler
  <2>1. /\ ~xSchedulerRunning /\ xSchedulerRunning' /\ UNCHANGED uxPriority /\ UNCHANGED pc
        /\ pxCurrentTCB' = IF pxCurrentTCB = NULL \/ uxPriority[pxCurrentTCB] = 0
                           THEN Idle ELSE pxCurrentTCB
    BY <1>2 DEF vTaskStartScheduler
  <2>2. Ready' = Ready \cup {Idle}
    BY <1>2, StartReady DEF ReadyBecomes
  <2>3. uxPriority[Idle] = 0 /\ pxCurrentTCB' \in Task /\ pc[pxCurrentTCB'] = App
    BY <2>1, TaskAssumption DEF IInv, Alive, NotStarted, Live
  <2>4. NewOne' = {}
    BY <2>1, <2>3 DEF NewOne, At, App
  <2>5. /\ \A u \in Task : uxPriority[u] \in Nat
        /\ Ready \subseteq Task /\ pxCurrentTCB # NULL => pxCurrentTCB \in Task
    BY ReadyFacts, PriorityIsNat DEF IInv, Typed
  <2>6. \A u \in Ready' : uxPriority'[u] <= uxPriority'[pxCurrentTCB']
    BY <2>1, <2>2, <2>3, <2>5 DEF Preempts
  <2> QED
    BY <2>1, <2>4, <2>6 DEF Preempts
<1> QED
  BY <1>1, <1>2


(* The steps that cannot switch.                                           *)
LEMMA PreemptsKeeps ==
    ASSUME NEW X, IInv, Preempts(X), xSchedulerRunning, xSchedulerRunning',
           \/ Quiet \/ CreateAdds \/ DelaySleeps \/ prvDeleteTCB \/ ResumeTicks
           \/ \E t \in Task : vTaskSuspend(t) \/ vTaskDelete(t) \/ ResumeDrains(t) \/ xTaskResumeFromISR(t)
           \/ \E t \in Mortal, p \in Priority : xTaskCreate(t, p)
    PROVE  Preempts(X)'
<1> USE DEF NotListed, switchVars
<1>h. pxCurrentTCB \in Task /\ pc \in [Task -> Place] /\ pc[pxCurrentTCB] \in Place
  BY Here
<1>q. Quiet => Ready' = Ready /\ UNCHANGED <<uxPriority, switchVars>>
  BY QuietUnchanged, QuietReady DEF ReadyBecomes
<1>a. App.op = "app" /\ Yielding.op = "yield" /\ Resuming(App, Yielding).op = "resume"
      /\ Resuming(App, Yielding).not.op = "yield" /\ Resuming(App, App).op = "resume"
  BY DEF App, Yielding, YieldingTo, Resuming
<1>1. CASE SuspendAll \/ TickPends
  <2>1. UNCHANGED <<pc, pxCurrentTCB, xSchedulerRunning>> /\ Ready' = Ready /\ UNCHANGED <<uxPriority, switchVars>>
    BY <1>1, <1>q DEF Quiet, SuspendAll, TickPends, lifeVars
  <2> QED
    BY <2>1, SameCall, NoneRaised
<1>2. CASE ResumeAll \/ vTaskDelay \/ xTaskCatchUpTicks \/ prvIdleTask
  <2>1. At("app") /\ Ready' = Ready /\ UNCHANGED <<uxPriority, switchVars>>
    BY <1>2, <1>q DEF Quiet, ResumeAll, vTaskDelay, xTaskCatchUpTicks, prvIdleTask, Calling
  <2>2. PICK place : pc' = [pc EXCEPT ![pxCurrentTCB] = place] /\ place.op # "created"
    BY <1>2, <1>a DEF ResumeAll, vTaskDelay, xTaskCatchUpTicks, prvIdleTask, Goto
  <2>3. pc'[pxCurrentTCB] = place
    BY <1>h, <2>2
  <2> QED
    BY <2>1, <2>2, <2>3, CallKeepsPreempts
<1>3. CASE prvCheckTasksWaitingTermination
  <2>1. At("app") /\ Ready' = Ready /\ UNCHANGED <<uxPriority, switchVars>>
    BY <1>3, <1>q DEF Quiet, prvCheckTasksWaitingTermination
  <2>2. PICK t \in Task : pc' = [pc EXCEPT ![pxCurrentTCB] = [op |-> "free", who |-> t]]
    BY <1>3 DEF prvCheckTasksWaitingTermination, Goto, IInv, Typed
  <2>3. pc'[pxCurrentTCB] = [op |-> "free", who |-> t]
    BY <1>h, <2>2
  <2> QED
    BY <2>1, <2>3, CallKeepsPreempts
<1>4. CASE CatchUpPends
  <2>1. pc[pxCurrentTCB].op = "catchup" /\ Ready' = Ready /\ UNCHANGED <<uxPriority, switchVars>>
    BY <1>4, <1>q DEF Quiet, CatchUpPends, At
  <2>2. pc'[pxCurrentTCB] = Resuming(App, App)
    BY <1>4, <1>h DEF CatchUpPends, Goto
  <2>3. NewOne = {} /\ ~WillYield /\ NewOne' = {}
    BY <2>1, <2>2, <1>a, NotYielding, LeadsTo
  <2> QED
    BY <2>1, <2>3, NoneRaised
<1>5. CASE xTaskResumeAll
  <2>1. /\ At("resume") /\ pc[pxCurrentTCB].op = "resume"
        /\ Ready' = Ready /\ UNCHANGED <<uxPriority, switchVars>>
    BY <1>5, <1>q DEF Quiet, xTaskResumeAll, At
  <2>2. NewOne = {} /\ pc[pxCurrentTCB].not \in Ends /\ (WillYield => pc[pxCurrentTCB].not.op = "yield")
    BY <1>h, <2>1, PlaceShape DEF NewOne, WillYield, At
  <2>3. CASE uxSchedulerSuspended = 1
    <3> DEFINE place == [op |-> "drain", moved |-> FALSE, yielded |-> pc[pxCurrentTCB].yielded,
                         not |-> pc[pxCurrentTCB].not]
    <3>1. pc'[pxCurrentTCB] = place
      BY <1>5, <1>h, <2>3 DEF xTaskResumeAll, Goto
    <3>2. place.op = "drain" /\ place.not = pc[pxCurrentTCB].not
      OBVIOUS
    <3> HIDE DEF place
    <3>3. NewOne' = {} /\ (WillYield => WillYield')
      BY <2>1, <3>1, <3>2, CallGoesOn
    <3> QED
      BY <2>1, <2>2, <3>3, NoneRaised
  <2>4. CASE uxSchedulerSuspended # 1
    <3>1. pc'[pxCurrentTCB] = pc[pxCurrentTCB].not
      BY <1>5, <1>h, <2>4 DEF xTaskResumeAll, Goto
    <3>2. NewOne' = {} /\ (WillYield => WillYield')
      BY <2>1, <2>2, <3>1, <1>a, EndShape, LeadsTo DEF EndOps, OutOps
    <3> QED
      BY <2>1, <2>2, <3>2, NoneRaised
  <2> QED
    BY <2>3, <2>4
<1>6. CASE ResumeDrained
  <2> DEFINE place == [op |-> "ticks", count |-> xPendedTicks, yielded |-> pc[pxCurrentTCB].yielded,
                       not |-> pc[pxCurrentTCB].not]
  <2>1. pc[pxCurrentTCB].op = "drain" /\ Ready' = Ready /\ UNCHANGED <<uxPriority, switchVars>>
    BY <1>6, <1>q DEF Quiet, ResumeDrained, At
  <2>2. pc'[pxCurrentTCB] = place
    BY <1>6, <1>h DEF ResumeDrained, Goto
  <2>3. place.op = "ticks" /\ place.not = pc[pxCurrentTCB].not
    OBVIOUS
  <2> HIDE DEF place
  <2>4. NewOne = {} /\ NewOne' = {} /\ (WillYield => WillYield')
    BY <2>1, <2>2, <2>3, CallGoesOn
  <2> QED
    BY <2>1, <2>4, NoneRaised
<1>7. CASE CreateReturns
  <2>1. /\ pc[pxCurrentTCB].op = "created" /\ At("created") /\ Ready' = Ready
        /\ UNCHANGED <<uxPriority, switchVars>>
    BY <1>7, <1>q DEF Quiet, CreateReturns, At
  <2>2. pc[pxCurrentTCB].who \in Task
    BY <1>h, <2>1, PlaceShape
  <2>3. ~WillYield /\ NewOne = {pc[pxCurrentTCB].who}
    BY <2>1 DEF WillYield, NewOne, At
  <2>4. CASE uxPriority[pxCurrentTCB] < uxPriority[pc[pxCurrentTCB].who]
    <3>1. pc'[pxCurrentTCB] = Yielding
      BY <1>7, <1>h, <2>4 DEF CreateReturns, Goto
    <3>2. WillYield'
      BY <2>1, <3>1, <1>a, LeadsTo
    <3> QED
      BY <3>2 DEF Preempts
  <2>5. CASE ~(uxPriority[pxCurrentTCB] < uxPriority[pc[pxCurrentTCB].who])
    <3>1. pc'[pxCurrentTCB] = App
      BY <1>7, <1>h, <2>5 DEF CreateReturns, Goto
    <3>2. NewOne' = {}
      BY <2>1, <3>1, <1>a, LeadsTo
    <3>3. uxPriority[pc[pxCurrentTCB].who] <= uxPriority[pxCurrentTCB]
      BY <2>2, <2>5, Comparable
    <3>4. xYieldPendings \/ \A u \in Ready \cap X : uxPriority[u] <= uxPriority[pxCurrentTCB]
      BY <2>3, <3>3 DEF Preempts
    <3> QED
      BY <2>1, <3>2, <3>4 DEF Preempts
  <2> QED
    BY <2>4, <2>5
<1>8. CASE SuspendReturns
  <2>1. pc[pxCurrentTCB].op = "suspended" /\ Ready' = Ready /\ UNCHANGED <<uxPriority, switchVars>>
    BY <1>8, <1>q DEF Quiet, SuspendReturns, At
  <2>2. NewOne = {} /\ (WillYield => pc[pxCurrentTCB].who = pxCurrentTCB)
    BY <2>1 DEF NewOne, WillYield, At
  <2>3. pc'[pxCurrentTCB] = IF pc[pxCurrentTCB].who = pxCurrentTCB THEN Yielding ELSE App
    BY <1>8, <1>h DEF SuspendReturns, Goto
  <2>4. NewOne' = {} /\ (WillYield => WillYield')
    BY <2>1, <2>2, <2>3, <1>a, LeadsTo
  <2> QED
    BY <2>1, <2>2, <2>4, NoneRaised
<1>9. CASE CreateAdds
  <2> DEFINE u == pc[pxCurrentTCB].who
  <2>1. pc[pxCurrentTCB].op = "add" /\ UNCHANGED <<uxPriority, switchVars>> /\ Ready' = Ready \cup {u}
    BY <1>9, CreateAddsReady DEF CreateAdds, At, ReadyBecomes
  <2>2. pc'[pxCurrentTCB] = [op |-> "created", who |-> u]
    BY <1>9, <1>h DEF CreateAdds, Goto
  <2>3. NewOne = {} /\ ~WillYield /\ NewOne' = {u}
    BY <2>1, <2>2, NotYielding, LeadsTo
  <2> QED
    BY <2>1, <2>3, NoneRaised
<1>10. CASE DelaySleeps
  <2>1. UNCHANGED pxCurrentTCB /\ pc'[pxCurrentTCB] = Resuming(App, Yielding)
    BY <1>10, <1>h DEF DelaySleeps, Goto
  <2>2. WillYield'
    BY <2>1, <1>a, LeadsTo
  <2> QED
    BY <2>2 DEF Preempts
<1>11. CASE prvDeleteTCB
  <2> DEFINE u == pc[pxCurrentTCB].who
  <2>1. /\ pc[pxCurrentTCB].op = "free" /\ UNCHANGED switchVars /\ Ready' = Ready
        /\ u \in Task /\ memory[u] = "dying" /\ uxPriority' = [uxPriority EXCEPT ![u] = 0]
    BY <1>11, DeleteTCBReady DEF prvDeleteTCB, At, ReadyBecomes
  <2>2. u # pxCurrentTCB /\ u \notin Ready
    BY <2>1, ReadyFacts DEF Live
  <2>3. pc'[pxCurrentTCB] = Resuming(App, App)
    BY <1>11, <1>h, <2>2 DEF prvDeleteTCB
  <2>4. NewOne = {} /\ ~WillYield /\ NewOne' = {}
    BY <2>1, <2>3, <1>a, NotYielding, LeadsTo
  <2>5. \A v \in Ready \cup {pxCurrentTCB} : uxPriority'[v] = uxPriority[v]
    BY <2>1, <2>2, <1>h, ReadyFacts
  <2> QED
    BY <2>1, <2>4, <2>5, NoneRaised
<1>12. CASE ResumeTicks
  <2> DEFINE place == [pc[pxCurrentTCB] EXCEPT !.count = @ - 1]
  <2>1. /\ pc[pxCurrentTCB].op = "ticks" /\ UNCHANGED <<uxPriority, pxCurrentTCB>>
        /\ pc' = [pc EXCEPT ![pxCurrentTCB].count = @ - 1]
    BY <1>12 DEF ResumeTicks, At
  <2>2. Ready' = Ready \cup Woken /\ Woken \in SUBSET Task
    BY <1>12, ResumeTicksReady DEF ReadyBecomes, IInv, Typed, Sleeping
  <2>3. xYieldPendings' \/ \A t \in Woken : ~(uxPriority[t] > uxPriority[pxCurrentTCB])
    BY <1>12 DEF ResumeTicks, SwitchRequired
  <2>4. xYieldPendings => xYieldPendings'
    BY <1>12 DEF ResumeTicks
  <2>5. pc'[pxCurrentTCB] = place
    BY <1>h, <2>1
  <2>6. place.op = "ticks" /\ place.not = pc[pxCurrentTCB].not
    BY <1>h, <2>1, PlaceShape
  <2> HIDE DEF place
  <2>7. NewOne = {} /\ NewOne' = {} /\ (WillYield => WillYield')
    BY <2>1, <2>4, <2>5, <2>6, CallGoesOn
  <2> QED
    BY <2>1, <2>2, <2>3, <2>4, <2>7, OneRaised
<1>13. ASSUME NEW t \in Task, vTaskSuspend(t) PROVE Preempts(X)'
  <2>1. At("app") /\ UNCHANGED <<uxPriority, switchVars>> /\ Ready' \subseteq Ready
    BY <1>13, LeaveReady DEF vTaskSuspend, Calling, ReadyBecomes
  <2>2. pc'[pxCurrentTCB] = [op |-> "suspended", who |-> t]
    BY <1>13, <1>h DEF vTaskSuspend, Goto
  <2> QED
    BY <2>1, <2>2, CallKeepsPreempts
<1>14. ASSUME NEW t \in Task, vTaskDelete(t) PROVE Preempts(X)'
  <2>1. At("app") /\ UNCHANGED <<uxPriority, switchVars>> /\ Ready' \subseteq Ready
    BY <1>14, LeaveReady DEF vTaskDelete, Calling, ReadyBecomes
  <2>2. pc'[pxCurrentTCB] = IF t = pxCurrentTCB THEN Yielding ELSE [op |-> "free", who |-> t]
    BY <1>14, <1>h DEF vTaskDelete, Goto
  <2> QED
    BY <2>1, <2>2, <1>a, CallKeepsPreempts
<1>15. ASSUME NEW t \in Task, ResumeDrains(t) PROVE Preempts(X)'
  <2> DEFINE place == [pc[pxCurrentTCB] EXCEPT !.moved = TRUE]
  <2>1. /\ pc[pxCurrentTCB].op = "drain" /\ UNCHANGED <<uxPriority, pxCurrentTCB>>
        /\ pc' = [pc EXCEPT ![pxCurrentTCB].moved = TRUE]
        /\ xYieldPendings' = (xYieldPendings \/ uxPriority[t] > uxPriority[pxCurrentTCB])
    BY <1>15 DEF ResumeDrains, At
  <2>2. Ready' = Ready \cup {t}
    BY <1>15, ResumeDrainsReady DEF ReadyBecomes
  <2>3. pc'[pxCurrentTCB] = place
    BY <1>h, <2>1
  <2>4. place.op = "drain" /\ place.not = pc[pxCurrentTCB].not
    BY <1>h, <2>1, PlaceShape
  <2> HIDE DEF place
  <2>5. NewOne = {} /\ NewOne' = {} /\ (WillYield => WillYield')
    BY <2>1, <2>3, <2>4, CallGoesOn
  <2>6. /\ {t} \in SUBSET Task /\ (xYieldPendings => xYieldPendings')
        /\ xYieldPendings' \/ \A u \in {t} : ~(uxPriority[u] > uxPriority[pxCurrentTCB])
    BY <2>1
  <2> QED
    BY <2>1, <2>2, <2>5, <2>6, OneRaised
<1>16. ASSUME NEW t \in Task, xTaskResumeFromISR(t) PROVE Preempts(X)'
  <2>1. UNCHANGED <<pc, pxCurrentTCB, xSchedulerRunning, uxPriority>>
    BY <1>16 DEF xTaskResumeFromISR, lifeVars
  <2>2. NewOne' = NewOne /\ (WillYield <=> WillYield')
    BY <2>1, SameCall
  <2>3. CASE uxSchedulerSuspended = 0
    <3>1. /\ Ready' = Ready \cup {t}
          /\ xYieldPendings' = (xYieldPendings \/ uxPriority[t] > uxPriority[pxCurrentTCB])
      BY <1>16, <2>3, ResumeFromISRReady DEF ReadyBecomes, xTaskResumeFromISR
    <3>2. /\ {t} \in SUBSET Task /\ (xYieldPendings => xYieldPendings')
          /\ xYieldPendings' \/ \A u \in {t} : ~(uxPriority[u] > uxPriority[pxCurrentTCB])
      BY <3>1
    <3> QED
      BY <2>1, <2>2, <3>1, <3>2, OneRaised
  <2>4. CASE uxSchedulerSuspended # 0
    <3>1. Ready' = Ready /\ UNCHANGED xYieldPendings
      BY <1>16, <2>4, ResumeFromISRReady DEF ReadyBecomes, xTaskResumeFromISR
    <3> QED
      BY <2>1, <2>2, <3>1, NoneRaised
  <2> QED
    BY <2>3, <2>4
<1>17. ASSUME NEW t \in Mortal, NEW p \in Priority, xTaskCreate(t, p) PROVE Preempts(X)'
  <2>1. t \in Task /\ At("app") /\ UNCHANGED switchVars
    BY <1>17, BoundAssumption DEF xTaskCreate, Calling
  <2>2. Ready' = Ready /\ t \notin Live /\ t # pxCurrentTCB
    BY <1>17, <2>1, ReadyFacts, CreateReady DEF ReadyBecomes
  <2>3. uxPriority' = uxPriority \/ uxPriority' = [uxPriority EXCEPT ![t] = p]
    BY <1>17 DEF xTaskCreate
  <2>4. \A v \in Ready \cup {pxCurrentTCB} : uxPriority'[v] = uxPriority[v]
    BY <2>2, <2>3, <1>h, ReadyFacts
  <2>5. \/ pc' = [pc EXCEPT ![pxCurrentTCB] = Resuming([op |-> "add", who |-> t], [op |-> "add", who |-> t]),
                           ![t] = App]
        \/ pc' = [pc EXCEPT ![pxCurrentTCB] = Resuming(App, App)]
    BY <1>17 DEF xTaskCreate, Goto
  <2>6. pc'[pxCurrentTCB].op = "resume"
    BY <2>2, <2>5, <1>h DEF Resuming
  <2>7. NewOne = {} /\ ~WillYield /\ NewOne' = {}
    BY <2>1, <2>6, NotYielding, LeadsTo DEF At
  <2> QED
    BY <2>1, <2>2, <2>4, <2>7, NoneRaised
<1> QED
  BY <1>1, <1>2, <1>3, <1>4, <1>5, <1>6, <1>7, <1>8, <1>9, <1>10, <1>11, <1>12, <1>13, <1>14,
     <1>15, <1>16, <1>17 DEF Quiet


(* The steps that may switch.                                              *)
LEMMA PreemptsSwitches ==
    ASSUME NEW X, IInv, Preempts(X), xSchedulerRunning, xSchedulerRunning',
           \/ TickCounts \/ vPortYield \/ ResumeReturns
           \/ \E t \in Task : vTaskResume(t)
           \/ \E t \in Task, p \in Priority : vTaskPrioritySet(t, p)
    PROVE  Preempts(X)'
<1> USE DEF switchVars
<1>h. pxCurrentTCB \in Task /\ pc \in [Task -> Place] /\ pc[pxCurrentTCB] \in Place
  BY Here
<1>1. CASE TickCounts
  <2>1. UNCHANGED <<pc, xSchedulerRunning, uxPriority>> /\ Ready' = Ready \cup Woken
    BY <1>1, TickCountsReady DEF TickCounts, lifeVars, Switches, ReadyBecomes
  <2>2. Woken \in SUBSET Task
    BY <1>1, TickCountsReady DEF IInv, Typed, Sleeping
  <2>3. CASE UNCHANGED switchVars /\ \A t \in Woken : ~(uxPriority[t] > uxPriority[pxCurrentTCB])
    <3>1. NewOne' = NewOne /\ (WillYield' <=> WillYield)
      BY <2>1, <2>3, SameCall
    <3> QED
      BY <2>1, <2>2, <2>3, <3>1, OneRaised
  <2> QED
    BY <1>1, <2>3, TickCountsReady, AfterSwitch
<1>2. CASE vPortYield
  BY <1>2, YieldReady, AfterSwitch
<1>3. CASE ResumeReturns
  <2>1. CASE ~xYieldPendings
    <3>1. /\ pc[pxCurrentTCB].op = "ticks" /\ UNCHANGED <<uxPriority, switchVars>> /\ Ready' = Ready
          /\ pc'[pxCurrentTCB] = pc[pxCurrentTCB].not
      BY <1>h, <1>3, <2>1, YieldReady DEF ResumeReturns, At, Goto, Keep, Switches, ReadyBecomes
    <3>2. pc[pxCurrentTCB].not.op \in EndOps
      BY <1>h, <3>1, PlaceShape, EndShape
    <3>3. NewOne = {} /\ NewOne' = {}
      BY <3>1, <3>2, LeadsTo DEF NewOne, At, EndOps, OutOps
    <3>4. WillYield => WillYield'
      <4> SUFFICES ASSUME WillYield PROVE WillYield'
        OBVIOUS
      <4>1. pc[pxCurrentTCB].not.op = "yield"
        BY <3>1 DEF WillYield, At
      <4> QED
        BY <3>1, <4>1, LeadsTo DEF Yielding, YieldingTo
    <3> QED
      BY <3>1, <3>3, <3>4, NoneRaised
  <2> QED
    BY <1>3, <2>1, YieldReady, AfterSwitch
<1>4. ASSUME NEW t \in Task, vTaskResume(t) PROVE Preempts(X)'
  <2>1. UNCHANGED <<pc, xSchedulerRunning, uxPriority>> /\ Ready' = Ready \cup {t}
    BY <1>4, ResumeReady DEF vTaskResume, lifeVars, Switches, ReadyBecomes
  <2>2. CASE UNCHANGED switchVars /\ ~(uxPriority[pxCurrentTCB] < uxPriority[t])
    <3>1. NewOne' = NewOne /\ (WillYield' <=> WillYield)
      BY <2>1, <2>2, SameCall
    <3>2. {t} \in SUBSET Task /\ \A u \in {t} : ~(uxPriority[u] > uxPriority[pxCurrentTCB])
      BY <2>2, Comparable
    <3> QED
      BY <2>1, <2>2, <3>1, <3>2, OneRaised
  <2> QED
    BY <1>4, <2>2, ResumeReady, AfterSwitch
<1>5. ASSUME NEW t \in Task, NEW p \in Priority, vTaskPrioritySet(t, p) PROVE Preempts(X)'
  <2>1. /\ pc[pxCurrentTCB].op = "app" /\ uxPriority' = [uxPriority EXCEPT ![t] = p]
        /\ UNCHANGED <<pc, xSchedulerRunning>>
        /\ Ready' = Ready
    BY <1>5, PrioritySetReady DEF vTaskPrioritySet, Calling, At, lifeVars, Switches, ReadyBecomes
  <2>2. CASE /\ UNCHANGED switchVars
             /\ IF p > uxPriority[t] THEN t = pxCurrentTCB \/ ~(p > uxPriority[pxCurrentTCB])
                ELSE t # pxCurrentTCB
    <3>1. NewOne = {} /\ ~WillYield /\ NewOne' = {}
      BY <2>1, <2>2, SameCall, NotYielding
    <3>2. /\ \A u \in Task : uxPriority[u] \in Nat
          /\ \A u \in Task \ {t} : uxPriority'[u] = uxPriority[u]
          /\ p \in Nat /\ uxPriority'[t] = p /\ Ready \subseteq Task
      BY <2>1, ReadyFacts, PriorityIsNat
    <3>3. ASSUME ~xYieldPendings, NEW u \in Ready \cap X PROVE uxPriority'[u] <= uxPriority'[pxCurrentTCB]
      <4>1. uxPriority[u] <= uxPriority[pxCurrentTCB] /\ uxPriority[t] \in Nat
            /\ uxPriority[u] \in Nat /\ uxPriority[pxCurrentTCB] \in Nat
        BY <1>h, <3>1, <3>2, <3>3 DEF Preempts
      <4>2. CASE t = pxCurrentTCB
        BY <1>h, <2>2, <3>2, <4>1, <4>2
      <4>3. CASE t # pxCurrentTCB
        BY <1>h, <2>2, <3>2, <4>1, <4>3
      <4> QED
        BY <4>2, <4>3
    <3> QED
      BY <2>1, <2>2, <3>1, <3>3 DEF Preempts
  <2> QED
    BY <1>5, <2>2, PrioritySetReady, AfterSwitch
<1> QED
  BY <1>1, <1>2, <1>3, <1>4, <1>5

LEMMA PreemptsKept ==
    ASSUME NEW X, IInv, Preempts(X), [Next]_vars
    PROVE  Preempts(X)'
<1>1. CASE xTaskCreateInMain \/ vTaskStartScheduler
  BY <1>1, PreemptsInMain
<1>2. CASE AppCalls \/ KernelSteps \/ Interrupts
  <2>1. xSchedulerRunning /\ xSchedulerRunning'
    BY <1>2, StaysRunning
  <2>2. CASE AppCalls
    BY <2>1, <2>2, PreemptsKeeps, PreemptsSwitches, BoundAssumption DEF AppCalls, Quiet
  <2>3. CASE KernelSteps
    BY <2>1, <2>3, PreemptsKeeps, PreemptsSwitches DEF KernelSteps, Quiet
  <2>4. CASE Interrupts
    BY <2>1, <2>4, PreemptsKeeps, PreemptsSwitches DEF Interrupts, vPortYieldFromTick, Quiet
  <2> QED
    BY <1>2, <2>2, <2>3, <2>4
<1>3. CASE UNCHANGED vars
  BY <1>3 DEF vars, readyVars, switchVars, lifeVars, Preempts, Ready, WillYield, NewOne, At
<1> QED
  BY <1>1, <1>2, <1>3 DEF Next

-----------------------------------------------------------------------------
(* Preemption: while a task runs in application code, with the scheduler   *)
(* not suspended and no yield pending, it is ready itself and no ready     *)
(* task has a higher priority, whatever calls and interrupts led there.    *)
THEOREM HighestReadyRuns == Spec => []HighestRuns
<1>1. Init => Preempts(Task)
  <2> SUFFICES ASSUME Init PROVE Ready = {}
    BY DEF Init, Preempts
  <2> QED
    BY DEF Init, Ready, Members, EmptyList, ToSet
<1>2. IInv /\ Preempts(Task) => HighestRuns
  <2> SUFFICES ASSUME IInv, Preempts(Task), At("app"), ~xYieldPendings
               PROVE  /\ pxCurrentTCB \in Ready
                      /\ \A t \in Ready : uxPriority[t] <= uxPriority[pxCurrentTCB]
    BY DEF HighestRuns
  <2>1. ~WillYield /\ NewOne = {}
    BY NotYielding DEF At
  <2> QED
    BY <2>1, InApp, ReadyFacts DEF Preempts
<1>3. IInv /\ Preempts(Task) /\ [Next]_vars => Preempts(Task)'
  BY PreemptsKept
<1> QED
  BY Inductive, <1>1, <1>2, <1>3, PTL DEF Spec

-----------------------------------------------------------------------------
(* Calls over the scheduler: the steps of Notify, Queue and Mutex, as what *)
(* they do to the lists and where they go.                                 *)

(* A place that leads to a call is in it.                                  *)
LEMMA LeadsToItself ==
    ASSUME NEW p \in Place, Onward(p).op \in CallOps
    PROVE  Onward(p) = p /\ p.op \in CallOps
<1>1. \A o \in Outs : o.op \notin CallOps /\ o.op # "yield"
  BY OutShape DEF OutOps, CallOps
<1>2. \A e \in Ends : e.op = "yield" => e.next \in Outs
  BY EndShape, PlaceShape
<1>3. \A e \in Ends : e.op \notin CallOps
  BY EndShape DEF EndOps, OutOps, CallOps
<1>4. p.op \notin {"resume", "drain", "ticks"}
  BY <1>1, <1>2, <1>3, PlaceShape DEF Onward
<1>5. p.op # "yield"
  BY <1>1, <1>4, PlaceShape DEF Onward
<1> QED
  BY <1>4, <1>5 DEF Onward

(* A task that is not in a call of the scheduler itself goes on to where   *)
(* it leads, and interrupts may come.                                      *)
LEMMA OnItsWay ==
    ASSUME IInv, Next, xSchedulerRunning, pc[pxCurrentTCB].op \notin Own
    PROVE  HandsOn \/ Interrupts
<1>1. /\ ~At("app") /\ ~At("delay") /\ ~At("catchup") /\ ~At("suspended") /\ ~At("add") /\ ~At("created")
      /\ ~At("free")
  BY DEF At, Own
<1>2. CASE AppCalls
  BY <1>1, <1>2 DEF AppCalls, Calling, SuspendAll, ResumeAll, vTaskDelay, xTaskCatchUpTicks, vTaskSuspend,
     vTaskResume, vTaskDelete, vTaskPrioritySet, xTaskCreate
<1>3. CASE KernelSteps
  BY <1>1, <1>3 DEF KernelSteps, DelaySleeps, CatchUpPends, SuspendReturns, CreateAdds, CreateReturns,
     prvDeleteTCB, prvCheckTasksWaitingTermination, prvIdleTask, HandsOn
<1> QED
  BY <1>2, <1>3 DEF Next, xTaskCreateInMain, vTaskStartScheduler

(* Nothing but an interrupt comes between the steps of another call.       *)
LEMMA BetweenSteps ==
    ASSUME IInv, Next, In(CallOps)
    PROVE  \/ TickPends
           \/ uxSchedulerSuspended = 0 /\ TickCounts
           \/ \E t \in Task : xTaskResumeFromISR(t)
<1>1. xSchedulerRunning /\ pc[pxCurrentTCB].op \notin Own
  BY DEF In, CallOps, Own
<1>2. ~At("resume") /\ ~At("drain") /\ ~At("ticks") /\ ~At("yield")
  BY DEF In, At, CallOps
<1>3. ~HandsOn
  BY <1>2 DEF HandsOn, xTaskResumeAll, ResumeDrains, ResumeDrained, ResumeTicks, ResumeReturns, vPortYield
<1> QED
  BY <1>1, <1>3, OnItsWay DEF Interrupts, vPortYieldFromTick, TickCounts

(* With the scheduler suspended they leave the call as it is.              *)
LEMMA HeldInCall ==
    ASSUME IInv, Next, In(CallOps), uxSchedulerSuspended # 0
    PROVE  /\ UNCHANGED <<pc, pxCurrentTCB, uxSchedulerSuspended, lifeVars>>
           /\ xPendingReadyList \subseteq xPendingReadyList'
           /\ xPendingReadyList' \subseteq xPendingReadyList \cup xSuspendedTaskList
<1>1. CASE TickPends
  BY <1>1 DEF TickPends, switchVars
<1>2. ASSUME NEW t \in Task, xTaskResumeFromISR(t)
      PROVE  /\ UNCHANGED <<pc, pxCurrentTCB, uxSchedulerSuspended, lifeVars>>
             /\ xPendingReadyList \subseteq xPendingReadyList'
             /\ xPendingReadyList' \subseteq xPendingReadyList \cup xSuspendedTaskList
  BY <1>2 DEF xTaskResumeFromISR, prvTaskIsTaskSuspended
<1> QED
  BY <1>1, <1>2, BetweenSteps

(* A task in such a call was there before the step.                        *)
LEMMA StillInCall ==
    ASSUME IInv, Next, In(CallOps)'
    PROVE  /\ pxCurrentTCB' \in Task /\ pc'[pxCurrentTCB'] = pc[pxCurrentTCB']
           /\ pc[pxCurrentTCB'].op \in CallOps /\ xSchedulerRunning
<1> DEFINE t == pxCurrentTCB'
<1>1. xSchedulerRunning' /\ pc'[t].op \in CallOps
  BY DEF In
<1>2. IInv'
  BY StepKeeps
<1>3. t \in Task /\ pc \in [Task -> Place] /\ pc' \in [Task -> Place]
  BY <1>1, <1>2 DEF IInv, Alive, Live, Typed
<1>4. GoesOn(t)
  BY <1>3, OneWayKept
<1> HIDE DEF t
<1>5. Onward(pc'[t]) = pc'[t]
  BY <1>1 DEF Onward, CallOps
<1>6. pc'[t] # App /\ ~Ahead(pc'[t])
  BY <1>1, <1>5 DEF App, Ahead, Own, CallOps
<1>7. Onward(pc[t]) = pc'[t]
  BY <1>4, <1>5, <1>6 DEF GoesOn
<1>8. pc[t] = pc'[t]
  BY <1>1, <1>3, <1>7, LeadsToItself
<1>9. xSchedulerRunning
  BY <1>3, <1>6, <1>8 DEF IInv, Alive, NotStarted
<1> QED
  BY <1>1, <1>3, <1>8, <1>9 DEF t

(* The tasks of S are made ready, those of P pending.                      *)
Rearranges(S, P) ==
    /\ S \subseteq Live \ xTasksWaitingTermination /\ P \subseteq Live \ xTasksWaitingTermination
    /\ Switches(Ready \cup S)
    /\ pxDelayedTaskList' = pxDelayedTaskList \ S
    /\ pxOverflowDelayedTaskList' = pxOverflowDelayedTaskList \ S
    /\ xSuspendedTaskList' = xSuspendedTaskList \ S
    /\ xPendingReadyList' = xPendingReadyList \cup P
    /\ uxPriority' \in [Task -> Priority] /\ uxPriority'[Idle] = 0
    /\ ucNotifyState' \in [Task -> {"none", "waiting", "received"}]
    /\ ulNotifiedValue' \in [Task -> Nat]
    /\ UNCHANGED <<xItemValue, timeVars, lifeVars>>

(* Nothing is made ready or pending.                                       *)
LEMMA NothingMoves ==
    ASSUME IInv, UNCHANGED <<NotListed, readyVars, lifeVars, uxPriority, xTickCount, xPendedTicks>>,
           pxCurrentTCB' = pxCurrentTCB, xYieldPendings' \in BOOLEAN,
           ucNotifyState' \in [Task -> {"none", "waiting", "received"}], ulNotifiedValue' \in [Task -> Nat]
    PROVE  Rearranges({}, {})
<1>1. ReadyBecomes(Ready)
  BY SameReady, ReadyFacts
<1>2. Switches(Ready \cup {})
  BY <1>1 DEF Switches
<1>3. uxPriority' \in [Task -> Priority] /\ uxPriority'[Idle] = 0
  BY DEF IInv, Typed, Alive
<1> QED
  BY <1>2, <1>3 DEF Rearranges, NotListed, sleepVars, timeVars

LEMMA RearrangesKeeps ==
    ASSUME IInv, xSchedulerRunning, NEW S, NEW P, Rearranges(S, P),
           uxSchedulerSuspended' \in Nat,
           \A t \in Task : pc'[t] = pc[t] \/ pc'[t] \in Plain,
           pc' \in [Task -> Place],
           Suspension', Away', OneWay'
    PROVE  IInv'
<1> USE DEF Rearranges, Switches, ReadyBecomes, timeVars, lifeVars
<1>1. /\ Ready' = Ready \cup S /\ Live' = Live /\ pxCurrentTCB' \in Ready' \cup {pxCurrentTCB}
      /\ pxCurrentTCB \in Live /\ pxCurrentTCB \in Task /\ Ready \subseteq Live /\ Idle \in Ready
      /\ S \subseteq Task /\ P \subseteq Task
  BY ReadyFacts DEF Live
<1>2. Typed'
  <2>1. pxCurrentTCB' \in Task
    BY <1>1, ReadyFacts
  <2>2. /\ pxDelayedTaskList' \subseteq Task /\ pxOverflowDelayedTaskList' \subseteq Task
        /\ xSuspendedTaskList' \subseteq Task /\ xPendingReadyList' \subseteq Task
    BY <1>1 DEF IInv, Typed
  <2>3. /\ xTasksWaitingTermination' \subseteq Task /\ xItemValue' \in [Task -> Tick]
        /\ xTickCount' \in Tick /\ xNextTaskUnblockTime' \in Tick /\ xPendedTicks' \in Nat
        /\ xSchedulerRunning' \in BOOLEAN /\ memory' \in [Task -> {"free", "new", "live", "dying"}]
    BY DEF IInv, Typed
  <2> QED
    BY <2>1, <2>2, <2>3 DEF Typed
<1>3. Homes'
  <2>1. Homes
    BY DEF IInv
  <2> QED
    BY <1>1, <2>1 DEF Homes, Sleeping
<1>4. TopKnown'
  BY <1>1 DEF TopKnown
<1>5. Alive'
  BY <1>1, TaskAssumption DEF Alive, Live
<1>6. Owned'
  BY OwnedByMove
<1>7. NeverLate'
  <2>1. xItemValue' \in [Task -> Tick]
    BY <1>2 DEF Typed
  <2> QED
    BY <2>1, NeverLateFewer
<1>8. CountsAgree'
  BY <1>1 DEF IInv, CountsAgree
<1> QED
  BY <1>2, <1>3, <1>4, <1>5, <1>6, <1>7, <1>8 DEF IInv

(* The runner goes on to a place.                                          *)
LEMMA CallMoves ==
    ASSUME IInv, xSchedulerRunning, NEW S, NEW P, Rearranges(S, P), NEW place \in Plain, Moves(place),
           uxSchedulerSuspended' \in Nat,
           pxCurrentTCB \in Ready \/ Leaving',
           place.op \in {"resume", "drain", "ticks"} => Onward(place.yielded) = Onward(place.not),
           place.op \in AboutToSleep => uxSchedulerSuspended' = 1 /\ pxCurrentTCB \in Ready \ {Idle},
           place.op \in Unlocks => uxSchedulerSuspended' = 1,
           place.op \in {"catchup", "resume"} => uxSchedulerSuspended' > 0,
           place.op \notin {"drain", "ticks"},
           uxSchedulerSuspended' = 0 => xPendingReadyList' = {} /\ xPendedTicks' = 0
    PROVE  IInv'
<1>1. /\ pxCurrentTCB \in Task /\ pc \in [Task -> Place] /\ place \in Place
      /\ pc' = [pc EXCEPT ![pxCurrentTCB] = place] /\ Stays
  BY Here DEF Moves, Plain
<1>2. xSchedulerRunning' /\ Ready' = Ready \cup S
  BY DEF Rearranges, lifeVars, Switches, ReadyBecomes
<1>3. Suspension'
  BY <1>2, SuspensionMoves
<1>4. Away'
  BY <1>1, <1>2 DEF Away, Stays
<1>5. OneWay'
  <2>1. \A t \in Task : pc'[t] = IF t = pxCurrentTCB THEN place ELSE pc[t]
    BY <1>1
  <2> QED
    BY <2>1 DEF IInv, OneWay
<1>6. pc' \in [Task -> Place] /\ \A t \in Task : pc'[t] = pc[t] \/ pc'[t] \in Plain
  BY <1>1
<1> QED
  BY <1>3, <1>4, <1>5, <1>6, RearrangesKeeps

(* The call ends, and another task may run.                                *)
LEMMA CallGives ==
    ASSUME IInv, xSchedulerRunning, NEW S, NEW P, Rearranges(S, P), NEW place \in Plain, MayGive(place),
           UNCHANGED uxSchedulerSuspended, P = {} \/ uxSchedulerSuspended # 0,
           ~Masked, pxCurrentTCB \in Ready
    PROVE  IInv'
<1>1. /\ pxCurrentTCB \in Task /\ pc \in [Task -> Place] /\ place \in Place
      /\ pc' = [pc EXCEPT ![pxCurrentTCB] = place] /\ uxSchedulerSuspended \in Nat
  BY Here DEF MayGive, Plain, IInv, Typed
<1>2. xSchedulerRunning' /\ Ready' = Ready \cup S /\ pxCurrentTCB' \in Ready'
  BY DEF Rearranges, lifeVars, Switches, ReadyBecomes
<1>3. S \subseteq Task /\ Ready \subseteq Task
  BY ReadyFacts DEF Rearranges, Live
<1>4. Suspension'
  <2>1. \A t \in Task : pc'[t].op \notin Urgent
    BY UrgentGone
  <2>2. pc'[pxCurrentTCB'].op \notin Urgent
    BY <1>2, <1>3, <2>1
  <2>3. /\ ~At("catchup")' /\ ~At("resume")' /\ ~At("drain")' /\ ~At("ticks")'
        /\ ~In(AboutToSleep)' /\ ~In(Unlocks)'
    BY <2>2 DEF At, In, Urgent
  <2>4. NothingLeftPending'
    BY DEF IInv, Suspension, NothingLeftPending, Rearranges, timeVars
  <2> QED
    BY <2>1, <2>3, <2>4 DEF Suspension
<1>5. Away'
  BY <1>2 DEF Away
<1>6. OneWay'
  <2>1. \A t \in Task : pc'[t] = IF t = pxCurrentTCB THEN place ELSE pc[t]
    BY <1>1
  <2>2. place.op \notin {"resume", "drain", "ticks"}
    BY DEF MayGive, Urgent
  <2> QED
    BY <2>1, <2>2 DEF IInv, OneWay
<1>7. pc' \in [Task -> Place] /\ \A t \in Task : pc'[t] = pc[t] \/ pc'[t] \in Plain
  BY <1>1
<1> QED
  BY <1>1, <1>4, <1>5, <1>6, <1>7, RearrangesKeeps

(* An interrupt, while they are not masked.                                *)
LEMMA Interrupted ==
    ASSUME IInv, xSchedulerRunning, NEW S, NEW P, Rearranges(S, P), Stays,
           UNCHANGED <<pc, uxSchedulerSuspended>>, P = {} \/ uxSchedulerSuspended # 0, ~Masked
    PROVE  IInv'
<1>1. xSchedulerRunning' /\ Ready' = Ready \cup S
  BY DEF Rearranges, lifeVars, Switches, ReadyBecomes
<1>2. Suspension'
  <2>1. Suspension
    BY DEF IInv
  <2>2. NothingLeftPending'
    BY <2>1 DEF Suspension, NothingLeftPending, Rearranges, timeVars, Stays, Masked
  <2>3. ~At("ticks")'
    BY DEF At, Masked, Stays
  <2> QED
    BY <1>1, <2>1, <2>2, <2>3 DEF Suspension, In, At, Stays
<1>3. Away'
  BY <1>1 DEF IInv, Away, Leaving, In, At, Stays
<1>4. OneWay'
  BY DEF IInv, OneWay
<1>5. uxSchedulerSuspended' \in Nat /\ pc' \in [Task -> Place]
  BY DEF IInv, Typed
<1> QED
  BY <1>2, <1>3, <1>4, <1>5, RearrangesKeeps

(* The runner goes to sleep, to go on at a place from which it yields.     *)
LEMMA CallSleeps ==
    ASSUME IInv, In(AboutToSleep), NEW n \in 1 .. portMAX_DELAY,
           prvAddCurrentTaskToDelayedList(n, TRUE), NEW place \in Plain, Goto(place),
           \/ place.op = "resume" /\ place.not.op = "yield" /\ Onward(place.yielded) = Onward(place.not)
           \/ place.op = "unlock" /\ place.then = "sleeps",
           UNCHANGED <<uxTopReadyPriority, xPendingReadyList, switchVars, notifyVars, lifeVars, uxPriority,
                       uxSchedulerSuspended, xTickCount, xPendedTicks>>
    PROVE  IInv'
<1> DEFINE me == pxCurrentTCB
<1>1. /\ uxSchedulerSuspended = 1 /\ me \in Ready /\ me # Idle /\ me \in Task /\ xSchedulerRunning
      /\ place \in Place /\ pc' = [pc EXCEPT ![me] = place] /\ pc \in [Task -> Place]
      /\ xSchedulerRunning' /\ uxSchedulerSuspended' = 1 /\ me' = me
  BY SleepsFromReady, Here DEF In, Plain, Goto, switchVars, lifeVars
<1>2. ReadyBecomes(Ready \ {me})
  BY RemoveReady DEF prvAddCurrentTaskToDelayedList
<1>3. /\ NeverLate'
      /\ xItemValue' \in [Task -> Tick] /\ xNextTaskUnblockTime' \in Tick
      /\ \/ /\ xSuspendedTaskList' = xSuspendedTaskList \cup {me}
            /\ UNCHANGED <<pxDelayedTaskList, pxOverflowDelayedTaskList>>
         \/ /\ pxDelayedTaskList' = pxDelayedTaskList \cup {me}
            /\ UNCHANGED <<xSuspendedTaskList, pxOverflowDelayedTaskList>>
         \/ /\ pxOverflowDelayedTaskList' = pxOverflowDelayedTaskList \cup {me}
            /\ UNCHANGED <<xSuspendedTaskList, pxDelayedTaskList>>
  BY FallsAsleep
<1> HIDE DEF me
<1>4. Live' = Live
  BY DEF Live, lifeVars
<1>5. Typed'
  BY <1>1, <1>3 DEF IInv, Typed, switchVars, notifyVars, lifeVars, me
<1>6. Homes' /\ TopKnown'
  BY <1>1, <1>2, <1>3, <1>4 DEF IInv, Homes, TopKnown, Sleeping, ReadyBecomes, lifeVars
<1>7. Alive'
  BY <1>1, <1>2, <1>4 DEF IInv, Alive, ReadyBecomes, me
<1>8. Suspension'
  <2>1. Moves(place)
    BY <1>1 DEF Moves, Stays, me
  <2>2. place.op \in {"resume", "unlock"} /\ place.op \notin AboutToSleep
    BY DEF AboutToSleep
  <2> QED
    BY <1>1, <2>1, <2>2, SuspensionMoves DEF me
<1>9. Away'
  <2>1. pc'[me] = place
    BY <1>1
  <2> QED
    BY <1>1, <2>1 DEF Away, Leaving, In, Unlocks, At, me
<1>10. Owned'
  BY <1>1, OwnedByMove DEF lifeVars
<1>11. OneWay'
  <2>1. \A t \in Task : pc'[t] = IF t = me THEN place ELSE pc[t]
    BY <1>1
  <2> QED
    BY <2>1 DEF IInv, OneWay
<1>12. CountsAgree'
  BY <1>4 DEF IInv, CountsAgree, lifeVars
<1> QED
  BY <1>3, <1>5, <1>6, <1>7, <1>8, <1>9, <1>10, <1>11, <1>12 DEF IInv

=============================================================================
