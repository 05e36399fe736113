----------------------------- MODULE HeapProofs -----------------------------
(***************************************************************************)
(* The region heap, for all regions, sizes and requests: no byte is lost   *)
(* or lent twice, and freed neighbours are joined.  At the end, the stack  *)
(* heap: stacks stay apart, and all bytes come back.                       *)
(***************************************************************************)
EXTENDS FarHeap, SequenceTheorems, FiniteSetTheorems, WellFoundedInduction, TLAPS

(* The stack heap, with the memory of the first region and the variables   *)
(* that both heaps have.                                                   *)
CONSTANTS TopBit, MaxBlocks
Stack == INSTANCE HeapStack WITH HeapStart <- Regions[1].addr, HeapSize <- Regions[1].size

Blocks == [addr : Nat, size : Nat]

(* b lies before c, and starts before it.                                  *)
Before(b, c) == EndOf(b) <= c.addr /\ b.addr < c.addr

(* The blocks of a list, one before the other.                             *)
Chain(s) == \A i, j \in DOMAIN s : i < j => Before(s[i], s[j])

-----------------------------------------------------------------------------
(* A sequence cut in two.                                                  *)
LEMMA Cut ==
    ASSUME NEW S, NEW s \in Seq(S), NEW at \in 0 .. Len(s)
    PROVE  LET A == SubSeq(s, 1, at)
               B == SubSeq(s, at + 1, Len(s))
           IN  /\ A \in Seq(S) /\ Len(A) = at
               /\ \A i \in 1 .. at : A[i] = s[i]
               /\ B \in Seq(S) /\ Len(B) = Len(s) - at
               /\ \A i \in 1 .. Len(s) - at : B[i] = s[at + i]
               /\ ToSet(A) \cup ToSet(B) = ToSet(s)
               /\ IsInjective(s) => /\ IsInjective(A) /\ IsInjective(B)
                                    /\ ToSet(A) \cap ToSet(B) = {}
<1> DEFINE A == SubSeq(s, 1, at)
           B == SubSeq(s, at + 1, Len(s))
<1>1. /\ Len(s) \in Nat /\ at \in Nat /\ at <= Len(s) /\ DOMAIN s = 1 .. Len(s)
      /\ \A i \in 1 .. Len(s) : s[i] \in S
  BY LenProperties
<1>2. /\ A \in Seq(S) /\ Len(A) = at
      /\ \A i \in 1 .. at : A[i] = s[i]
  <2>1. \A i \in 1 .. at : s[i] \in S
    BY <1>1
  <2>2. /\ A \in Seq(S) /\ Len(A) = IF 1 <= at THEN at - 1 + 1 ELSE 0
        /\ \A i \in 1 .. at - 1 + 1 : A[i] = s[1 + i - 1]
    BY <1>1, <2>1, SubSeqProperties
  <2> QED
    BY <1>1, <2>2
<1>3. /\ B \in Seq(S) /\ Len(B) = Len(s) - at
      /\ \A i \in 1 .. Len(s) - at : B[i] = s[at + i]
  <2>1. \A i \in at + 1 .. Len(s) : s[i] \in S
    BY <1>1
  <2>2. /\ B \in Seq(S) /\ Len(B) = IF at + 1 <= Len(s) THEN Len(s) - (at + 1) + 1 ELSE 0
        /\ \A i \in 1 .. Len(s) - (at + 1) + 1 : B[i] = s[at + 1 + i - 1]
    BY <1>1, <2>1, SubSeqProperties
  <2> HIDE DEF B
  <2>3. Len(B) = Len(s) - at
    <3> DEFINE n == Len(s)
    <3>1. n \in Nat /\ at \in Nat /\ at <= n
      BY <1>1
    <3>2. Len(B) = IF at + 1 <= n THEN n - (at + 1) + 1 ELSE 0
      BY <2>2
    <3> HIDE DEF n
    <3>3. Len(B) = n - at
      BY <3>1, <3>2
    <3> QED
      BY <3>3 DEF n
  <2>4. ASSUME NEW i \in 1 .. Len(s) - at PROVE B[i] = s[at + i]
    <3>1. i \in 1 .. Len(s) - (at + 1) + 1 /\ at + 1 + i - 1 = at + i
      BY <1>1
    <3> QED
      BY <2>2, <3>1
  <2> QED
    BY <2>2, <2>3, <2>4
<1> HIDE DEF A, B
<1>4. DOMAIN A = 1 .. at /\ DOMAIN B = 1 .. Len(s) - at
  BY <1>2, <1>3, LenProperties
<1>5. ToSet(A) \cup ToSet(B) \subseteq ToSet(s)
  <2>1. \A i \in DOMAIN A : i \in DOMAIN s /\ A[i] = s[i]
    BY <1>1, <1>2, <1>4
  <2>2. \A i \in DOMAIN B : at + i \in DOMAIN s /\ B[i] = s[at + i]
    BY <1>1, <1>3, <1>4
  <2> QED
    BY <2>1, <2>2 DEF ToSet
<1>6. ASSUME NEW i \in DOMAIN s PROVE s[i] \in ToSet(A) \cup ToSet(B)
  <2>1. CASE i <= at
    BY <2>1, <1>1, <1>2, <1>4 DEF ToSet
  <2>2. CASE ~(i <= at)
    <3>1. i - at \in DOMAIN B /\ at + (i - at) = i
      BY <2>2, <1>1, <1>4
    <3> QED
      BY <3>1, <1>3, <1>4 DEF ToSet
  <2> QED
    BY <2>1, <2>2
<1>7. ASSUME IsInjective(s)
      PROVE  IsInjective(A) /\ IsInjective(B) /\ ToSet(A) \cap ToSet(B) = {}
  <2>1. IsInjective(A)
    BY <1>1, <1>2, <1>4, <1>7 DEF IsInjective
  <2>2. IsInjective(B)
    <3>1. SUFFICES ASSUME NEW i \in 1 .. Len(s) - at, NEW j \in 1 .. Len(s) - at, B[i] = B[j]
                   PROVE  i = j
      BY <1>4 DEF IsInjective
    <3>2. /\ at + i \in DOMAIN s /\ at + j \in DOMAIN s /\ s[at + i] = s[at + j]
      BY <3>1, <1>1, <1>3
    <3>3. at + i = at + j
      BY <3>2, <1>7 DEF IsInjective
    <3> QED
      BY <3>3, <1>1
  <2>3. ASSUME NEW i \in DOMAIN A, NEW j \in DOMAIN B, A[i] = B[j] PROVE FALSE
    <3>1. /\ i \in DOMAIN s /\ at + j \in DOMAIN s /\ s[i] = s[at + j] /\ i # at + j
      BY <2>3, <1>1, <1>2, <1>3, <1>4
    <3> QED
      BY <3>1, <1>7 DEF IsInjective
  <2> QED
    BY <2>1, <2>2, <2>3 DEF ToSet
<1>8. ToSet(s) \subseteq ToSet(A) \cup ToSet(B)
  BY <1>6 DEF ToSet
<1> QED
  BY <1>2, <1>3, <1>5, <1>7, <1>8 DEF A, B

-----------------------------------------------------------------------------

(* A set of numbers has a least one, and a greatest if it is bounded.      *)
LEMMA LeastNumber ==
    ASSUME NEW S, S \subseteq Nat, S # {}
    PROVE  Min(S) \in S /\ \A y \in S : Min(S) <= y
<1> DEFINE R == {ss \in Nat \X Nat : ss[1] < ss[2]}
<1>1. IsWellFoundedOn(R, Nat)
  BY NatLessThanWellFounded, Zenon DEF OpToRel
<1> HIDE DEF R
<1>2. PICK x \in S : \A y \in S : ~ (<<y, x>> \in R)
  BY <1>1, WFMin
<1>3. ASSUME NEW y \in S PROVE x <= y
  <2>1. y \in Nat /\ x \in Nat /\ <<y, x>> \in Nat \X Nat /\ ~(<<y, x>> \in R)
    BY <1>2
  <2>2. ~(y < x)
    BY <2>1 DEF R
  <2> QED
    BY <2>1, <2>2
<1> QED
  BY <1>3 DEF Min

LEMMA GreatestNumber ==
    ASSUME NEW n \in Nat, NEW S, S \subseteq 0 .. n, S # {}
    PROVE  Max(S) \in S /\ \A y \in S : y <= Max(S)
<1> DEFINE T == {n - x : x \in S}
<1>1. \A x \in S : x \in Nat /\ n - x \in Nat
  OBVIOUS
<1>2. T \subseteq Nat /\ T # {}
  <2>1. T \subseteq Nat
    BY <1>1
  <2>2. PICK x \in S : TRUE
    OBVIOUS
  <2>3. n - x \in T
    OBVIOUS
  <2> QED
    BY <2>1, <2>3
<1>3. Min(T) \in T /\ \A y \in T : Min(T) <= y
  BY <1>2, LeastNumber
<1>4. PICK x \in S : Min(T) = n - x
  BY <1>3
<1>5. ASSUME NEW y \in S PROVE y <= x
  <2>1. n - y \in T
    OBVIOUS
  <2>2. n - x <= n - y
    BY <1>3, <1>4, <2>1
  <2> QED
    BY <1>1, <2>2
<1> QED
  BY <1>5 DEF Max

-----------------------------------------------------------------------------
(* Lists of blocks.                                                        *)

LEMMA NewBlock ==
    ASSUME NEW a \in Nat, NEW n \in Nat
    PROVE  /\ Block(a, n) \in Blocks
           /\ Block(a, n).addr = a /\ Block(a, n).size = n
           /\ EndOf(Block(a, n)) = a + n
  BY DEF Block, Blocks, EndOf

LEMMA BlockIs ==
    ASSUME NEW b \in Blocks
    PROVE  /\ b.addr \in Nat /\ b.size \in Nat
           /\ EndOf(b) = b.addr + b.size /\ EndOf(b) \in Nat
           /\ b.addr <= EndOf(b)
  BY DEF Blocks, EndOf

(* A list with the items from m + 1 to q - 1 replaced by one.              *)
LEMMA Spliced ==
    ASSUME NEW s \in Seq(Blocks), NEW m \in 0 .. Len(s), NEW q \in m + 1 .. Len(s) + 1,
           NEW x \in Blocks
    PROVE  LET t == SubSeq(s, 1, m) \o <<x>> \o SubSeq(s, q, Len(s))
           IN  /\ t \in Seq(Blocks)
               /\ Len(t) = m + 1 + (Len(s) + 1 - q)
               /\ \A i \in 1 .. Len(t) :
                     t[i] = IF i <= m THEN s[i] ELSE IF i = m + 1 THEN x ELSE s[i - m - 2 + q]
<1> DEFINE A == SubSeq(s, 1, m)
           B == SubSeq(s, q, Len(s))
           X == <<x>>
           Ax == A \o X
           t == Ax \o B
           at == q - 1
<1>1. /\ Len(s) \in Nat /\ m \in Nat /\ q \in Nat /\ m <= Len(s) /\ m + 1 <= q /\ q <= Len(s) + 1
      /\ at \in 0 .. Len(s) /\ at + 1 = q
  BY LenProperties
<1>2. /\ A \in Seq(Blocks) /\ Len(A) = m
      /\ \A i \in 1 .. m : A[i] = s[i]
  BY Cut
<1>3. /\ B \in Seq(Blocks) /\ Len(B) = Len(s) - at
      /\ \A i \in 1 .. Len(s) - at : B[i] = s[at + i]
  <2> DEFINE C == SubSeq(s, at + 1, Len(s))
  <2>1. C \in Seq(Blocks) /\ Len(C) = Len(s) - at
        /\ \A i \in 1 .. Len(s) - at : C[i] = s[at + i]
    BY <1>1, Cut
  <2>2. C = B
    BY <1>1
  <2> QED
    BY <2>1, <2>2
<1>4. X \in Seq(Blocks) /\ Len(X) = 1 /\ X[1] = x
  OBVIOUS
<1> HIDE DEF A, B, X, at
<1>5. /\ Ax \in Seq(Blocks) /\ Len(Ax) = m + 1
      /\ \A i \in 1 .. m + 1 : Ax[i] = IF i <= m THEN s[i] ELSE x
  <2>1. /\ Ax \in Seq(Blocks) /\ Len(Ax) = Len(A) + Len(X)
        /\ \A i \in 1 .. Len(Ax) : Ax[i] = IF i <= Len(A) THEN A[i] ELSE X[i - Len(A)]
    <3>1. A \in Seq(Blocks) /\ X \in Seq(Blocks)
      BY <1>2, <1>4
    <3> QED
      BY <3>1, ConcatProperties
  <2> QED
    BY <2>1, <1>1, <1>2, <1>4
<1> HIDE DEF Ax
<1>6. /\ t \in Seq(Blocks) /\ Len(t) = Len(Ax) + Len(B)
      /\ \A i \in 1 .. Len(t) : t[i] = IF i <= Len(Ax) THEN Ax[i] ELSE B[i - Len(Ax)]
  <2>1. Ax \in Seq(Blocks) /\ B \in Seq(Blocks)
    BY <1>3, <1>5
  <2> QED
    BY <2>1, ConcatProperties
<1> HIDE DEF t
<1>7. Len(t) = m + 1 + (Len(s) + 1 - q)
  <2>1. Len(Ax) = m + 1 /\ Len(B) = Len(s) - at /\ Len(t) = Len(Ax) + Len(B)
    BY <1>3, <1>5, <1>6
  <2> QED
    BY <2>1, <1>1
<1>8. ASSUME NEW i \in 1 .. Len(t)
      PROVE  t[i] = IF i <= m THEN s[i] ELSE IF i = m + 1 THEN x ELSE s[i - m - 2 + q]
  <2>1. CASE i <= m + 1
    BY <2>1, <1>1, <1>5, <1>6
  <2>2. CASE ~(i <= m + 1)
    <3>1. i - (m + 1) \in 1 .. Len(s) - at /\ at + (i - (m + 1)) = i - m - 2 + q
      BY <2>2, <1>1, <1>7
    <3>2. t[i] = B[i - (m + 1)]
      BY <2>2, <1>1, <1>5, <1>6
    <3>3. B[i - (m + 1)] = s[at + (i - (m + 1))]
      BY <3>1, <1>3
    <3>4. ~(i <= m) /\ ~(i = m + 1)
      BY <2>2, <1>1
    <3> QED
      BY <3>1, <3>2, <3>3, <3>4
  <2> QED
    BY <2>1, <2>2
<1> QED
  BY <1>6, <1>7, <1>8 DEF t, Ax, A, B, X

(* A list without its item i.                                              *)
LEMMA Removed ==
    ASSUME NEW s \in Seq(Blocks), NEW i \in 1 .. Len(s)
    PROVE  LET t == RemoveAt(s, i)
           IN  /\ t \in Seq(Blocks) /\ Len(t) = Len(s) - 1
               /\ \A j \in 1 .. Len(t) : t[j] = IF j < i THEN s[j] ELSE s[j + 1]
<1> DEFINE m == i - 1
           A == SubSeq(s, 1, m)
           B == SubSeq(s, i + 1, Len(s))
           t == A \o B
<1>1. Len(s) \in Nat /\ m \in 0 .. Len(s) /\ i \in 0 .. Len(s) /\ m + 1 = i
  BY LenProperties
<1>2. /\ A \in Seq(Blocks) /\ Len(A) = m /\ \A j \in 1 .. m : A[j] = s[j]
      /\ B \in Seq(Blocks) /\ Len(B) = Len(s) - i /\ \A j \in 1 .. Len(s) - i : B[j] = s[i + j]
  <2>1. A \in Seq(Blocks) /\ Len(A) = m /\ \A j \in 1 .. m : A[j] = s[j]
    BY <1>1, Cut
  <2>2. B \in Seq(Blocks) /\ Len(B) = Len(s) - i /\ \A j \in 1 .. Len(s) - i : B[j] = s[i + j]
    BY <1>1, Cut
  <2> QED
    BY <2>1, <2>2
<1>3. t = RemoveAt(s, i)
  BY DEF RemoveAt
<1> HIDE DEF A, B
<1>4. /\ t \in Seq(Blocks) /\ Len(t) = Len(A) + Len(B)
      /\ \A j \in 1 .. Len(t) : t[j] = IF j <= Len(A) THEN A[j] ELSE B[j - Len(A)]
  <2>1. A \in Seq(Blocks) /\ B \in Seq(Blocks)
    BY <1>2
  <2> QED
    BY <2>1, ConcatProperties
<1>5. ASSUME NEW j \in 1 .. Len(t) PROVE t[j] = IF j < i THEN s[j] ELSE s[j + 1]
  <2>1. CASE j < i
    BY <2>1, <1>1, <1>2, <1>4
  <2>2. CASE ~(j < i)
    <3>1. j - m \in 1 .. Len(s) - i /\ i + (j - m) = j + 1 /\ ~(j <= m)
      <4>1. /\ Len(s) \in Nat /\ m \in Nat /\ i = m + 1 /\ i <= Len(s)
            /\ Len(t) = m + (Len(s) - i) /\ j \in 1 .. Len(t)
        BY <1>1, <1>2, <1>4
      <4> QED
        BY <2>2, <4>1
    <3>2. t[j] = B[j - m]
      BY <3>1, <1>2, <1>4
    <3>3. B[j - m] = s[i + (j - m)]
      BY <3>1, <1>2
    <3> QED
      BY <2>2, <3>1, <3>2, <3>3
  <2> QED
    BY <2>1, <2>2
<1> QED
  BY <1>1, <1>2, <1>3, <1>4, <1>5

(* An item of a chain stands in it once.                                   *)
LEMMA ChainItems ==
    ASSUME NEW s \in Seq(Blocks), Chain(s)
    PROVE  /\ Len(s) \in Nat /\ DOMAIN s = 1 .. Len(s)
           /\ \A i \in 1 .. Len(s) : s[i] \in Blocks /\ s[i] \in ToSet(s)
           /\ \A c \in ToSet(s) : \E i \in 1 .. Len(s) : c = s[i]
           /\ ToSet(s) \subseteq Blocks
           /\ \A i, j \in 1 .. Len(s) : i < j => Before(s[i], s[j])
           /\ \A i, j \in 1 .. Len(s) : i # j => s[i] # s[j]
           /\ \A i, j \in 1 .. Len(s) : s[i].addr < s[j].addr => i < j
<1>1. /\ Len(s) \in Nat /\ DOMAIN s = 1 .. Len(s)
      /\ \A i \in 1 .. Len(s) : s[i] \in Blocks
  BY LenProperties
<1>2. \A i, j \in 1 .. Len(s) : i < j => Before(s[i], s[j])
  BY <1>1 DEF Chain
<1>3. ASSUME NEW i \in 1 .. Len(s), NEW j \in 1 .. Len(s)
      PROVE  /\ i # j => s[i] # s[j]
             /\ s[i].addr < s[j].addr => i < j
  <2>1. s[i].addr \in Nat /\ s[j].addr \in Nat /\ i \in Nat /\ j \in Nat
    BY <1>1, BlockIs
  <2>2. /\ i < j => s[i].addr < s[j].addr
        /\ j < i => s[j].addr < s[i].addr
    BY <1>2 DEF Before
  <2> QED
    BY <2>1, <2>2
<1>4. /\ \A i \in 1 .. Len(s) : s[i] \in ToSet(s)
      /\ \A c \in ToSet(s) : \E i \in 1 .. Len(s) : c = s[i]
      /\ ToSet(s) \subseteq Blocks
  BY <1>1 DEF ToSet
<1> QED
  BY <1>1, <1>2, <1>3, <1>4

(* What a grant leaves of the block it cuts.                               *)
Rest(b, wanted) == Block(b.addr + wanted, b.size - wanted)

LEMMA GrantedIs ==
    ASSUME NEW s \in Seq(Blocks), NEW i \in 1 .. Len(s), NEW wanted \in Nat \ {0},
           wanted <= s[i].size
    PROVE  LET b == s[i]
               g == Granted(s, i, wanted)
               r == Rest(b, wanted)
           IN  /\ g \in Blocks /\ g.addr = b.addr /\ wanted <= g.size
               /\ g.size <= wanted + heapMINIMUM_BLOCK_SIZE
               /\ Splits(b, wanted) =>
                     /\ r \in Blocks /\ r.addr = EndOf(g) /\ EndOf(r) = EndOf(b) /\ r.size > 0
               /\ ~Splits(b, wanted) => g = b
<1>1. s[i] \in Blocks
  BY LenProperties
<1> DEFINE b == s[i]
<1>2. b.addr \in Nat /\ b.size \in Nat /\ EndOf(b) = b.addr + b.size
  BY <1>1, BlockIs
<1>3. H \in Nat /\ heapMINIMUM_BLOCK_SIZE = 2 * H
  BY HeaderAssumption DEF heapMINIMUM_BLOCK_SIZE
<1> HIDE DEF b
<1>4. CASE Splits(b, wanted)
  <2>1. b.size - wanted > 2 * H /\ b.size - wanted \in Nat /\ b.addr + wanted \in Nat
    BY <1>2, <1>3, <1>4 DEF Splits
  <2>2. Granted(s, i, wanted) = Block(b.addr, wanted)
    BY <1>4 DEF Granted, b
  <2>3. /\ Block(b.addr, wanted) \in Blocks /\ Block(b.addr, wanted).addr = b.addr
        /\ Block(b.addr, wanted).size = wanted
        /\ EndOf(Block(b.addr, wanted)) = b.addr + wanted
    BY <1>2, NewBlock
  <2>4. /\ Rest(b, wanted) \in Blocks /\ Rest(b, wanted).addr = b.addr + wanted
        /\ Rest(b, wanted).size = b.size - wanted
        /\ EndOf(Rest(b, wanted)) = b.addr + wanted + (b.size - wanted)
    BY <2>1, NewBlock DEF Rest
  <2>5. b.addr + wanted + (b.size - wanted) = b.addr + b.size
    BY <1>2
  <2> QED
    BY <1>2, <1>3, <1>4, <2>1, <2>2, <2>3, <2>4, <2>5 DEF b
<1>5. CASE ~Splits(b, wanted)
  <2>1. Granted(s, i, wanted) = b
    BY <1>5 DEF Granted, b
  <2>2. b.size <= wanted + 2 * H
    BY <1>2, <1>3, <1>5 DEF Splits
  <2> QED
    BY <1>1, <1>3, <1>5, <2>1, <2>2 DEF b
<1> QED
  BY <1>4, <1>5

(* The list after a grant is again a chain with the same last block.       *)
LEMMA ListGranted ==
    ASSUME NEW s \in Seq(Blocks), Chain(s), NEW i \in 1 .. Len(s), NEW wanted \in Nat \ {0},
           wanted <= s[i].size, i # Len(s)
    PROVE  LET t == ListAfterGrant(s, i, wanted)
           IN  /\ t \in Seq(Blocks) /\ t # <<>> /\ Chain(t)
               /\ t[Len(t)] = s[Len(s)]
               /\ ToSet(t) = (ToSet(s) \ {s[i]})
                               \cup (IF Splits(s[i], wanted) THEN {Rest(s[i], wanted)} ELSE {})
<1> DEFINE t == ListAfterGrant(s, i, wanted)
           r == Rest(s[i], wanted)
<1>1. /\ Len(s) \in Nat /\ DOMAIN s = 1 .. Len(s)
      /\ \A j \in 1 .. Len(s) : s[j] \in Blocks
      /\ \A j, k \in 1 .. Len(s) : j < k => Before(s[j], s[k])
      /\ \A j, k \in 1 .. Len(s) : j # k => s[j] # s[k]
      /\ i \in Nat /\ 1 <= i /\ i < Len(s)
  BY ChainItems
<1>2. CASE Splits(s[i], wanted)
  <2>1. /\ r \in Blocks /\ r.addr = s[i].addr + wanted /\ EndOf(r) = EndOf(s[i]) /\ r.size > 0
    <3>1. /\ r \in Blocks /\ EndOf(r) = EndOf(s[i]) /\ r.size > 0
      BY <1>2, GrantedIs
    <3>2. r.addr = s[i].addr + wanted
      BY DEF Rest, Block
    <3> QED
      BY <3>1, <3>2
  <2>2. t = [s EXCEPT ![i] = r]
    BY <1>2 DEF ListAfterGrant, ReplaceAt, Rest
  <2> HIDE DEF t, r
  <2>3. /\ t \in Seq(Blocks) /\ Len(t) = Len(s)
        /\ \A j \in 1 .. Len(s) : t[j] = IF j = i THEN r ELSE s[j]
    BY <1>1, <2>1, <2>2, ExceptSeq
  <2>4. ASSUME NEW j \in 1 .. Len(s), NEW k \in 1 .. Len(s), j < k
        PROVE  Before(t[j], t[k])
    <3>1. Before(s[j], s[k])
      BY <1>1, <2>4
    <3>2. \A n \in 1 .. Len(s) : /\ s[n].addr \in Nat /\ EndOf(s[n]) \in Nat
                                 /\ s[n].addr <= EndOf(s[n])
      BY <1>1, BlockIs
    <3>3. s[i].addr < r.addr /\ r.addr < EndOf(r) /\ r.addr \in Nat
      <4>1. s[i].addr \in Nat /\ r.addr \in Nat /\ r.size \in Nat /\ EndOf(r) = r.addr + r.size
        BY <1>1, <2>1, BlockIs
      <4> QED
        BY <4>1, <2>1
    <3>4. t[j] = (IF j = i THEN r ELSE s[j]) /\ t[k] = (IF k = i THEN r ELSE s[k])
      BY <2>3
    <3>5. /\ s[j].addr < s[k].addr /\ EndOf(s[j]) <= s[k].addr
          /\ EndOf(r) = EndOf(s[i])
      BY <2>1, <3>1 DEF Before
    <3>6. CASE j = i
      BY <2>4, <3>2, <3>3, <3>4, <3>5, <3>6 DEF Before
    <3>7. CASE k = i
      BY <2>4, <3>2, <3>3, <3>4, <3>5, <3>7 DEF Before
    <3> QED
      BY <3>1, <3>4, <3>6, <3>7
  <2>5. Chain(t) /\ t # <<>> /\ t[Len(t)] = s[Len(s)] /\ DOMAIN t = 1 .. Len(s)
    <3>1. DOMAIN t = 1 .. Len(s)
      <4>1. t \in Seq(Blocks) /\ Len(t) = Len(s)
        BY <2>3
      <4> QED
        BY <4>1, LenProperties
    <3>2. Chain(t)
      BY <2>4, <3>1 DEF Chain
    <3>3. Len(s) \in 1 .. Len(s) /\ Len(s) # i
      <4>1. Len(s) \in Nat /\ i \in Nat /\ 1 <= i /\ i < Len(s)
        BY <1>1
      <4> QED
        BY <4>1
    <3>4. t[Len(t)] = s[Len(s)]
      BY <2>3, <3>3
    <3>5. t # <<>>
      BY <3>1, <3>3
    <3> QED
      BY <3>1, <3>2, <3>4, <3>5
  <2>6. ToSet(t) = (ToSet(s) \ {s[i]}) \cup {r}
    <3>1. /\ DOMAIN t = DOMAIN s /\ i \in DOMAIN s
          /\ \A j \in DOMAIN s : t[j] = IF j = i THEN r ELSE s[j]
          /\ \A j \in DOMAIN s : j # i => s[j] # s[i]
      BY <1>1, <2>3, <2>5
    <3> QED
      BY <3>1 DEF ToSet
  <2> QED
    BY <1>2, <2>3, <2>5, <2>6 DEF t, r
<1>3. CASE ~Splits(s[i], wanted)
  <2>1. t = RemoveAt(s, i)
    BY <1>3 DEF ListAfterGrant
  <2> HIDE DEF t
  <2>2. /\ t \in Seq(Blocks) /\ Len(t) = Len(s) - 1
        /\ \A j \in 1 .. Len(t) : t[j] = IF j < i THEN s[j] ELSE s[j + 1]
    BY <2>1, Removed
  <2>3. DOMAIN t = 1 .. Len(s) - 1
    BY <2>2, LenProperties
  <2> DEFINE n == Len(s) - 1
             at(j) == IF j < i THEN j ELSE j + 1
  <2>3a. /\ Len(s) \in Nat /\ i \in Nat /\ 1 <= i /\ i < Len(s)
         /\ n \in Nat /\ n >= 1 /\ at(n) = Len(s) /\ Len(t) = n
    <3>1. Len(s) \in Nat /\ i \in Nat /\ 1 <= i /\ i < Len(s)
      BY <1>1
    <3>2. Len(t) = Len(s) - 1
      BY <2>2
    <3> QED
      BY <3>1, <3>2
  <2>3b. ASSUME NEW j \in 1 .. n
         PROVE  at(j) \in 1 .. Len(s) /\ at(j) # i /\ t[j] = s[at(j)]
    BY <2>2, <2>3a
  <2>3c. \A j, k \in 1 .. n : j < k => at(j) < at(k)
    BY <2>3a
  <2>3d. ASSUME NEW j \in 1 .. Len(s), j # i PROVE \E k \in 1 .. n : at(k) = j
    <3>1. CASE j < i
      <4>1. j \in 1 .. n
        BY <3>1, <2>3a
      <4> QED
        BY <3>1, <4>1
    <3>2. CASE ~(j < i)
      <4>1. j - 1 \in 1 .. n /\ ~(j - 1 < i) /\ j - 1 + 1 = j
        BY <3>2, <2>3a, <2>3d
      <4> QED
        BY <4>1
    <3> QED
      BY <3>1, <3>2
  <2>3e. DOMAIN t = 1 .. n
    BY <2>3
  <2> HIDE DEF n, at
  <2>4. Chain(t)
    <3>1. SUFFICES ASSUME NEW j \in 1 .. n, NEW k \in 1 .. n, j < k
                   PROVE  Before(t[j], t[k])
      BY <2>3e DEF Chain
    <3> QED
      BY <3>1, <1>1, <2>3b, <2>3c
  <2>5. t # <<>> /\ t[Len(t)] = s[Len(s)]
    <3>1. n \in 1 .. n
      BY <2>3a
    <3> QED
      BY <3>1, <2>2, <2>3a, <2>3b, EmptySeq
  <2>6. ToSet(t) = ToSet(s) \ {s[i]}
    <3>1. \A j \in 1 .. n : t[j] \in ToSet(s) \ {s[i]}
      BY <1>1, <2>3b DEF ToSet
    <3>2. \A j \in 1 .. Len(s) : j # i => s[j] \in ToSet(t)
      BY <2>3b, <2>3d, <2>3e DEF ToSet
    <3> QED
      BY <1>1, <2>3e, <3>1, <3>2 DEF ToSet
  <2> QED
    BY <1>3, <2>2, <2>4, <2>5, <2>6 DEF t
<1> QED
  BY <1>2, <1>3

(* The neighbours that a freed block joins.                                *)
PrevOf(F, b) == {c \in F : EndOf(c) = b.addr}
NextOf(F, b, end) == {c \in F : EndOf(b) = c.addr /\ c.addr # end}

(* x is the block b joined to its neighbours in F.                         *)
Joined(F, b, end, x) ==
    /\ x \in Blocks
    /\ \A c \in PrevOf(F, b) : x.addr = c.addr
    /\ PrevOf(F, b) = {} => x.addr = b.addr
    /\ \A c \in NextOf(F, b, end) : EndOf(x) = EndOf(c)
    /\ NextOf(F, b, end) = {} => EndOf(x) = EndOf(b)

(* The place of a block in the list.                                       *)
LEMMA PlaceOf ==
    ASSUME NEW s \in Seq(Blocks), Chain(s), s # <<>>, NEW b \in Blocks, b.size > 0,
           \A c \in ToSet(s) : Before(c, b) \/ Before(b, c),
           Before(b, s[Len(s)])
    PROVE  LET p == SelectLastInSeq(s, LAMBDA x : x.addr < b.addr)
           IN  /\ p \in 0 .. Len(s) - 1
               /\ \A i \in 1 .. p : Before(s[i], b)
               /\ \A i \in p + 1 .. Len(s) : Before(b, s[i])
<1> DEFINE I == {i \in 1 .. Len(s) : s[i].addr < b.addr}
           p == IF I # {} THEN Max(I) ELSE 0
<1>0. p = SelectLastInSeq(s, LAMBDA x : x.addr < b.addr)
  BY DEF SelectLastInSeq
<1>1. /\ Len(s) \in Nat /\ Len(s) # 0
      /\ \A i \in 1 .. Len(s) : s[i] \in Blocks /\ s[i] \in ToSet(s)
      /\ \A i, j \in 1 .. Len(s) : i < j => Before(s[i], s[j])
  BY ChainItems, EmptySeq
<1>2. \A i \in 1 .. Len(s) : s[i].addr \in Nat
  BY <1>1, BlockIs
<1>3. I \subseteq 0 .. Len(s)
  BY <1>1
<1>4. I # {} => p \in I /\ \A i \in I : i <= p
  BY <1>1, <1>3, GreatestNumber
<1>5. I = {} => p = 0
  OBVIOUS
<1> HIDE DEF p
<1>6. Len(s) \notin I
  BY <1>1, <1>2, BlockIs DEF Before
<1>7. p \in 0 .. Len(s) - 1
  BY <1>1, <1>4, <1>5, <1>6
<1>8. ASSUME NEW i \in 1 .. p PROVE Before(s[i], b)
  <2>1. p \in I /\ i \in 1 .. Len(s) /\ p \in 1 .. Len(s)
    BY <1>1, <1>4, <1>5, <1>7
  <2>2. i = p \/ Before(s[i], s[p])
    BY <2>1, <1>1
  <2>3. s[i].addr < b.addr
    BY <2>1, <2>2, <1>2, BlockIs DEF Before
  <2>4. ~Before(b, s[i])
    <3>1. s[i].addr \in Nat /\ b.addr \in Nat
      BY <2>1, <1>2, BlockIs
    <3> QED
      BY <3>1, <2>3 DEF Before
  <2> QED
    BY <2>1, <2>4, <1>1
<1>9. ASSUME NEW i \in p + 1 .. Len(s) PROVE Before(b, s[i])
  <2>1. i \in 1 .. Len(s) /\ ~(i <= p)
    BY <1>1, <1>7
  <2>2. i \notin I
    BY <2>1, <1>4
  <2> QED
    BY <2>1, <2>2, <1>1 DEF Before
<1> QED
  BY <1>0, <1>7, <1>8, <1>9

(* A chain with a stretch of its blocks replaced by one that reaches at    *)
(* most from the start of the first to the end of the last.                *)
LEMMA ChainSpliced ==
    ASSUME NEW s \in Seq(Blocks), Chain(s), NEW m \in 0 .. Len(s), NEW q \in m + 1 .. Len(s),
           NEW x \in Blocks,
           \A i \in 1 .. m : Before(s[i], x),
           \A i \in q .. Len(s) : Before(x, s[i])
    PROVE  LET t == SubSeq(s, 1, m) \o <<x>> \o SubSeq(s, q, Len(s))
           IN  /\ t \in Seq(Blocks) /\ t # <<>> /\ Chain(t)
               /\ t[Len(t)] = s[Len(s)]
               /\ ToSet(t) = {s[i] : i \in 1 .. m} \cup {x} \cup {s[i] : i \in q .. Len(s)}
<1> DEFINE t == SubSeq(s, 1, m) \o <<x>> \o SubSeq(s, q, Len(s))
           n == m + 1 + (Len(s) + 1 - q)
           at(j) == j - m - 2 + q
<1>1. /\ t \in Seq(Blocks) /\ Len(t) = n
      /\ \A i \in 1 .. Len(t) :
            t[i] = IF i <= m THEN s[i] ELSE IF i = m + 1 THEN x ELSE s[i - m - 2 + q]
  <2>1. q \in m + 1 .. Len(s) + 1
    BY LenProperties
  <2> QED
    BY <2>1, Spliced
<1>2. /\ Len(s) \in Nat /\ m \in Nat /\ q \in Nat /\ m < q /\ q <= Len(s)
      /\ n \in Nat /\ n >= m + 2 /\ at(n) = Len(s) /\ at(m + 2) = q
  BY LenProperties
<1>3. \A i, j \in 1 .. Len(s) : i < j => Before(s[i], s[j])
  BY ChainItems
<1>4. ASSUME NEW j \in m + 2 .. n PROVE at(j) \in q .. Len(s) /\ t[j] = s[at(j)]
  <2>1. at(j) \in q .. Len(s) /\ j \in 1 .. n /\ ~(j <= m) /\ ~(j = m + 1)
    BY <1>2
  <2> QED
    BY <2>1, <1>1
<1>5. \A j, k \in m + 2 .. n : j < k => at(j) < at(k)
  BY <1>2
<1>6. ASSUME NEW k \in q .. Len(s) PROVE \E j \in m + 2 .. n : at(j) = k
  <2>1. k + m + 2 - q \in m + 2 .. n /\ at(k + m + 2 - q) = k
    BY <1>2
  <2> QED
    BY <2>1
<1>7. /\ \A j \in 1 .. m : j \in 1 .. n /\ j \in 1 .. Len(s) /\ t[j] = s[j]
      /\ m + 1 \in 1 .. n /\ t[m + 1] = x
  <2>1. \A j \in 1 .. m : j \in 1 .. n /\ j \in 1 .. Len(s) /\ j <= m
    BY <1>2
  <2>2. m + 1 \in 1 .. n /\ ~(m + 1 <= m)
    BY <1>2
  <2> QED
    BY <2>1, <2>2, <1>1
<1>8. DOMAIN t = 1 .. n
  BY <1>1, LenProperties
<1>9. 1 .. n = (1 .. m) \cup {m + 1} \cup (m + 2 .. n)
  BY <1>2
<1>10. \A j \in q .. Len(s) : j \in 1 .. Len(s) /\ \A i \in 1 .. m : i < j
  BY <1>2
<1>a. n \in m + 2 .. n
  BY <1>2
<1>11. t # <<>> /\ t[Len(t)] = s[Len(s)]
  <2>1. t[n] = s[at(n)]
    BY <1>a, <1>4
  <2> HIDE DEF t, n, at
  <2> QED
    BY <2>1, <1>1, <1>2, EmptySeq
<1> HIDE DEF t, at, n
<1>12. Chain(t)
  <2>1. SUFFICES ASSUME NEW j \in 1 .. n, NEW k \in 1 .. n, j < k
                 PROVE  Before(t[j], t[k])
    BY <1>8 DEF Chain
  <2>2. CASE j \in 1 .. m
    <3>1. CASE k \in 1 .. m
      BY <2>1, <2>2, <3>1, <1>3, <1>7
    <3>2. CASE k = m + 1
      BY <2>2, <3>2, <1>7
    <3>3. CASE k \in m + 2 .. n
      <4>1. t[j] = s[j] /\ t[k] = s[at(k)] /\ at(k) \in q .. Len(s)
        BY <2>2, <3>3, <1>4, <1>7
      <4>2. j \in 1 .. Len(s) /\ at(k) \in 1 .. Len(s) /\ j < at(k)
        BY <4>1, <2>2, <1>7, <1>10
      <4> QED
        BY <4>1, <4>2, <1>3
    <3> QED
      BY <3>1, <3>2, <3>3, <1>9
  <2>3. CASE j = m + 1
    <3>1. k \in m + 2 .. n
      BY <2>1, <2>3, <1>2
    <3> QED
      BY <3>1, <2>3, <1>4, <1>7
  <2>4. CASE j \in m + 2 .. n
    <3>1. k \in m + 2 .. n
      BY <2>1, <2>4, <1>2
    <3>2. /\ t[j] = s[at(j)] /\ t[k] = s[at(k)] /\ at(j) < at(k)
          /\ at(j) \in 1 .. Len(s) /\ at(k) \in 1 .. Len(s)
      BY <2>1, <2>4, <3>1, <1>4, <1>5, <1>10
    <3> QED
      BY <3>2, <1>3
  <2> QED
    BY <2>2, <2>3, <2>4, <1>9
<1>13. ToSet(t) = {s[i] : i \in 1 .. m} \cup {x} \cup {s[i] : i \in q .. Len(s)}
  <2>1. ToSet(t) = {t[j] : j \in 1 .. n}
    BY <1>8 DEF ToSet
  <2>2. ASSUME NEW j \in 1 .. n
        PROVE  t[j] \in {s[i] : i \in 1 .. m} \cup {x} \cup {s[i] : i \in q .. Len(s)}
    BY <1>4, <1>7, <1>9
  <2>3. ASSUME NEW y \in {s[i] : i \in 1 .. m} \cup {x} \cup {s[i] : i \in q .. Len(s)}
        PROVE  \E j \in 1 .. n : y = t[j]
    <3>1. CASE y \in {s[i] : i \in 1 .. m}
      BY <3>1, <1>7
    <3>2. CASE y = x
      BY <3>2, <1>7
    <3>3. CASE y \in {s[i] : i \in q .. Len(s)}
      <4>1. PICK k \in q .. Len(s) : y = s[k]
        BY <3>3
      <4>2. PICK j \in m + 2 .. n : at(j) = k
        BY <1>6
      <4> QED
        BY <4>1, <4>2, <1>4, <1>9
    <3> QED
      BY <2>3, <3>1, <3>2, <3>3
  <2> QED
    BY <2>1, <2>2, <2>3
<1> QED
  BY <1>1, <1>11, <1>12, <1>13 DEF t

(* The list after an insertion is again a chain with the same last block;  *)
(* the block took the place of the neighbours it joined.                   *)
LEMMA ListInserted ==
    ASSUME NEW s \in Seq(Blocks), Chain(s), s # <<>>, NEW b \in Blocks, b.size > 0,
           \A c \in ToSet(s) : Before(c, b) \/ Before(b, c),
           Before(b, s[Len(s)]), NEW end, end = s[Len(s)].addr
    PROVE  LET t == Insert(s, b, end)
               gone == PrevOf(ToSet(s), b) \cup NextOf(ToSet(s), b, end)
           IN  /\ t \in Seq(Blocks) /\ t # <<>> /\ Chain(t)
               /\ t[Len(t)] = s[Len(s)]
               /\ \E x : Joined(ToSet(s), b, end, x) /\ ToSet(t) = (ToSet(s) \ gone) \cup {x}
<1> DEFINE p == SelectLastInSeq(s, LAMBDA x : x.addr < b.addr)
           joinsPrev == p # 0 /\ EndOf(s[p]) = b.addr
           m == IF joinsPrev THEN p - 1 ELSE p
           front == IF joinsPrev THEN Block(s[p].addr, s[p].size + b.size) ELSE b
           joinsNext == JoinsNext(front, s[p + 1], end)
           q == IF joinsNext THEN p + 2 ELSE p + 1
           x == IF joinsNext THEN Block(front.addr, front.size + s[p + 1].size) ELSE front
           t == Insert(s, b, end)
           F == ToSet(s)
<1>1. t = SubSeq(s, 1, m) \o <<x>> \o SubSeq(s, q, Len(s))
  BY DEF Insert
<1>2. /\ p \in 0 .. Len(s) - 1
      /\ \A i \in 1 .. p : Before(s[i], b)
      /\ \A i \in p + 1 .. Len(s) : Before(b, s[i])
  BY PlaceOf
<1> HIDE DEF p, t
<1>3. /\ Len(s) \in Nat /\ p \in Nat /\ p < Len(s) /\ p + 1 \in 1 .. Len(s)
      /\ p # 0 => p \in 1 .. p /\ p \in 1 .. Len(s)
      /\ p + 1 \in p + 1 .. Len(s)
  BY <1>2, LenProperties
<1>4. /\ \A i \in 1 .. Len(s) : s[i] \in Blocks /\ s[i] \in F
      /\ \A c \in F : \E i \in 1 .. Len(s) : c = s[i]
      /\ \A i, j \in 1 .. Len(s) : i < j => Before(s[i], s[j])
  BY ChainItems
<1>5. /\ \A i \in 1 .. Len(s) : /\ s[i].addr \in Nat /\ s[i].size \in Nat
                                /\ EndOf(s[i]) = s[i].addr + s[i].size
      /\ b.addr \in Nat /\ b.size \in Nat /\ EndOf(b) = b.addr + b.size
  BY <1>4, BlockIs
<1> HIDE DEF F
<1>6. /\ front \in Blocks /\ EndOf(front) = EndOf(b)
      /\ front.addr = IF joinsPrev THEN s[p].addr ELSE b.addr
  <2>1. CASE joinsPrev
    <3>1. /\ s[p].addr \in Nat /\ s[p].size + b.size \in Nat
          /\ s[p].addr + (s[p].size + b.size) = EndOf(b)
      BY <2>1, <1>3, <1>5
    <3> QED
      BY <2>1, <3>1, NewBlock
  <2>2. CASE ~joinsPrev
    BY <2>2
  <2> QED
    BY <2>1, <2>2
<1>7. joinsNext <=> EndOf(b) = s[p + 1].addr /\ s[p + 1].addr # end
  BY <1>6 DEF JoinsNext
<1> HIDE DEF front, joinsNext
<1>8. /\ x \in Blocks /\ x.addr = front.addr
      /\ EndOf(x) = IF joinsNext THEN EndOf(s[p + 1]) ELSE EndOf(b)
  <2>0. front.addr \in Nat /\ front.size \in Nat /\ front.addr + front.size = EndOf(front)
    BY <1>6, BlockIs
  <2>1. CASE joinsNext
    <3>1. /\ front.size + s[p + 1].size \in Nat
          /\ front.addr + (front.size + s[p + 1].size) = EndOf(s[p + 1])
      <4>1. /\ s[p + 1].addr \in Nat /\ s[p + 1].size \in Nat
            /\ EndOf(s[p + 1]) = s[p + 1].addr + s[p + 1].size
        BY <1>3, <1>5
      <4>2. EndOf(front) = s[p + 1].addr
        BY <2>1, <1>6, <1>7
      <4> QED
        BY <2>0, <4>1, <4>2
    <3> QED
      BY <2>0, <2>1, <3>1, NewBlock
  <2>2. CASE ~joinsNext
    BY <2>2, <1>6
  <2> QED
    BY <2>1, <2>2
<1> HIDE DEF x
(* Only the blocks next to b in the list can touch it.                     *)
<1>9. PrevOf(F, b) = IF joinsPrev THEN {s[p]} ELSE {}
  <2>1. ASSUME NEW i \in 1 .. Len(s), EndOf(s[i]) = b.addr
        PROVE  joinsPrev /\ i = p
    <3>1. i <= p
      <4>1. i \in p + 1 .. Len(s) => b.addr < s[i].addr /\ s[i].addr <= EndOf(s[i])
        BY <2>1, <1>2, <1>5 DEF Before
      <4> QED
        BY <2>1, <4>1, <1>3, <1>5
    <3>2. i < p => EndOf(s[i]) <= s[p].addr /\ s[p].addr < b.addr
      BY <3>1, <1>2, <1>3, <1>4 DEF Before
    <3>3. i = p
      BY <2>1, <3>1, <3>2, <1>3, <1>5
    <3> QED
      BY <2>1, <3>3, <1>3
  <2>2. joinsPrev => s[p] \in F /\ EndOf(s[p]) = b.addr
    BY <1>3, <1>4
  <2> HIDE DEF joinsPrev
  <2> QED
    BY <2>1, <2>2, <1>4 DEF PrevOf
<1>10. NextOf(F, b, end) = IF joinsNext THEN {s[p + 1]} ELSE {}
  <2>1. ASSUME NEW i \in 1 .. Len(s), EndOf(b) = s[i].addr, s[i].addr # end
        PROVE  joinsNext /\ i = p + 1
    <3>1. ~(i <= p)
      <4>1. i <= p => i \in 1 .. p
        BY <1>3
      <4>2. i <= p => s[i].addr < b.addr
        BY <4>1, <1>2 DEF Before
      <4>3. b.addr <= s[i].addr
        BY <2>1, <1>5
      <4> QED
        BY <4>2, <4>3, <1>5
    <3>2. i > p + 1 => s[p + 1].addr < s[i].addr /\ EndOf(b) <= s[p + 1].addr
      BY <1>2, <1>3, <1>4 DEF Before
    <3>3. i = p + 1
      BY <2>1, <3>1, <3>2, <1>3, <1>5
    <3> QED
      BY <2>1, <3>3, <1>7
  <2>2. joinsNext => s[p + 1] \in F /\ EndOf(b) = s[p + 1].addr /\ s[p + 1].addr # end
    BY <1>3, <1>4, <1>7
  <2> QED
    BY <2>1, <2>2, <1>4 DEF NextOf
<1>11. Joined(F, b, end, x)
  <2> HIDE DEF joinsPrev
  <2> QED
    BY <1>6, <1>8, <1>9, <1>10 DEF Joined
(* The list.                                                               *)
<1>12. joinsNext => p + 1 # Len(s)
  BY <1>7
<1>13. m \in 0 .. Len(s) /\ q \in m + 1 .. Len(s)
  BY <1>3, <1>12
<1>14. ASSUME NEW i \in 1 .. m PROVE Before(s[i], x)
  <2>1. i \in 1 .. p /\ i \in 1 .. Len(s)
    BY <1>3
  <2>2. CASE joinsPrev
    <3>1. i < p /\ p \in 1 .. Len(s)
      BY <2>2, <1>3
    <3> QED
      BY <2>1, <2>2, <3>1, <1>4, <1>6, <1>8 DEF Before
  <2>3. CASE ~joinsPrev
    BY <2>1, <2>3, <1>2, <1>6, <1>8 DEF Before
  <2> QED
    BY <2>2, <2>3
<1>15. ASSUME NEW i \in q .. Len(s) PROVE Before(x, s[i])
  <2>1. i \in p + 1 .. Len(s) /\ i \in 1 .. Len(s)
    BY <1>3
  <2>2. Before(b, s[i])
    BY <2>1, <1>2
  <2>3. x.addr <= b.addr
    BY <1>3, <1>5, <1>6, <1>8
  <2>4. x.addr < s[i].addr
    <3>1. x.addr \in Nat
      BY <1>8, BlockIs
    <3> QED
      BY <2>1, <2>2, <2>3, <3>1, <1>5 DEF Before
  <2>5. CASE joinsNext
    <3>1. p + 1 < i
      BY <2>5, <1>3
    <3> QED
      BY <2>1, <2>4, <2>5, <3>1, <1>3, <1>4, <1>8 DEF Before
  <2>6. CASE ~joinsNext
    BY <2>2, <2>4, <2>6, <1>8 DEF Before
  <2> QED
    BY <2>5, <2>6
<1>16. /\ t \in Seq(Blocks) /\ t # <<>> /\ Chain(t)
       /\ t[Len(t)] = s[Len(s)]
       /\ ToSet(t) = {s[i] : i \in 1 .. m} \cup {x} \cup {s[i] : i \in q .. Len(s)}
  <2> HIDE DEF m, q
  <2> QED
    BY <1>1, <1>8, <1>13, <1>14, <1>15, ChainSpliced
<1>17. {s[i] : i \in 1 .. m} \cup {s[i] : i \in q .. Len(s)}
         = F \ (PrevOf(F, b) \cup NextOf(F, b, end))
  <2>1. \A i \in 1 .. Len(s) :
           \/ i \in 1 .. m
           \/ joinsPrev /\ i = p
           \/ joinsNext /\ i = p + 1
           \/ i \in q .. Len(s)
    BY <1>3
  <2>2. \A i \in 1 .. m : i \in 1 .. Len(s) /\ (joinsPrev => i # p) /\ i # p + 1
    BY <1>3
  <2>3. \A i \in q .. Len(s) : i \in 1 .. Len(s) /\ i # p /\ (joinsNext => i # p + 1)
    BY <1>3
  <2>4. \A i, j \in 1 .. Len(s) : i # j => s[i] # s[j]
    BY ChainItems
  <2>5. p + 1 \in 1 .. Len(s) /\ (joinsPrev => p \in 1 .. Len(s))
    BY <1>3
  <2> HIDE DEF joinsPrev, m, q
  <2> QED
    BY <2>1, <2>2, <2>3, <2>4, <2>5, <1>4, <1>9, <1>10
<1> QED
  BY <1>11, <1>16, <1>17 DEF t, F

-----------------------------------------------------------------------------
(* The regions.                                                            *)

LEMMA RegionIs ==
    /\ Len(Regions) \in Nat \ {0} /\ DOMAIN Regions = 1 .. Len(Regions)
    /\ \A k \in DOMAIN Regions :
          /\ Regions[k].addr \in Nat /\ MarkerOf(k) \in Nat /\ Regions[k].addr < MarkerOf(k)
          /\ FirstBlock(k) \in Blocks /\ FirstBlock(k).addr = Regions[k].addr
          /\ FirstBlock(k).size = MarkerOf(k) - Regions[k].addr
          /\ EndOf(FirstBlock(k)) = MarkerOf(k)
    /\ \A j, k \in DOMAIN Regions : j < k => MarkerOf(j) < Regions[k].addr
    /\ Len(Regions) \in DOMAIN Regions
    /\ \A k \in DOMAIN Regions : MarkerOf(k) <= MarkerOf(Len(Regions))
<1>1. /\ Len(Regions) \in Nat /\ Len(Regions) # 0 /\ DOMAIN Regions = 1 .. Len(Regions)
      /\ \A k \in DOMAIN Regions : Regions[k] \in [addr : Nat \ {0}, size : Nat]
  <2>1. Regions \in Seq([addr : Nat \ {0}, size : Nat]) /\ Regions # <<>>
    BY RegionsAssumption
  <2> QED
    BY <2>1, LenProperties, EmptySeq
<1>2. H \in Nat /\ H > 0
  BY HeaderAssumption
<1>3. ASSUME NEW k \in DOMAIN Regions
      PROVE  /\ Regions[k].addr \in Nat /\ Regions[k].size \in Nat /\ Regions[k].size > H
             /\ MarkerOf(k) = Regions[k].addr + Regions[k].size - H
             /\ MarkerOf(k) \in Nat /\ Regions[k].addr < MarkerOf(k)
  BY <1>1, <1>2, RegionsAssumption DEF MarkerOf
<1>4. ASSUME NEW k \in DOMAIN Regions
      PROVE  /\ FirstBlock(k) \in Blocks /\ FirstBlock(k).addr = Regions[k].addr
             /\ FirstBlock(k).size = MarkerOf(k) - Regions[k].addr
             /\ EndOf(FirstBlock(k)) = MarkerOf(k)
  <2>1. Regions[k].addr \in Nat /\ Regions[k].size - H \in Nat
    BY <1>2, <1>3
  <2>2. /\ FirstBlock(k) \in Blocks /\ FirstBlock(k).addr = Regions[k].addr
        /\ FirstBlock(k).size = Regions[k].size - H
        /\ EndOf(FirstBlock(k)) = Regions[k].addr + (Regions[k].size - H)
    BY <2>1, NewBlock DEF FirstBlock
  <2> QED
    BY <1>2, <1>3, <2>2
<1>5. ASSUME NEW j \in DOMAIN Regions, NEW k \in DOMAIN Regions, j < k
      PROVE  MarkerOf(j) < Regions[k].addr
  <2>1. Regions[j].addr + Regions[j].size <= Regions[k].addr
    BY <1>5, RegionsAssumption
  <2> QED
    BY <2>1, <1>2, <1>3
<1>6. Len(Regions) \in DOMAIN Regions
  BY <1>1
<1>7. ASSUME NEW k \in DOMAIN Regions PROVE MarkerOf(k) <= MarkerOf(Len(Regions))
  <2>1. k = Len(Regions) \/ k < Len(Regions)
    BY <1>1
  <2> QED
    BY <2>1, <1>3, <1>5, <1>6
<1> QED
  BY <1>1, <1>3, <1>4, <1>5, <1>6, <1>7

(* b lies in region k, below its end marker.                               *)
InRegion(b, k) == Regions[k].addr <= b.addr /\ EndOf(b) <= MarkerOf(k)

(* Blocks that touch are of one region.                                    *)
LEMMA OneRegion ==
    ASSUME NEW b \in Blocks, NEW c \in Blocks,
           NEW j \in DOMAIN Regions, NEW k \in DOMAIN Regions,
           InRegion(b, j), InRegion(c, k), EndOf(b) = c.addr
    PROVE  j = k
<1>1. /\ b.addr \in Nat /\ EndOf(b) \in Nat /\ b.addr <= EndOf(b)
      /\ c.addr \in Nat /\ EndOf(c) \in Nat /\ c.addr <= EndOf(c)
  BY BlockIs
<1>2. /\ Regions[j].addr \in Nat /\ MarkerOf(j) \in Nat
      /\ Regions[k].addr \in Nat /\ MarkerOf(k) \in Nat
      /\ j \in Nat /\ k \in Nat
  BY RegionIs
<1>3. ~(j < k)
  <2>1. j < k => MarkerOf(j) < Regions[k].addr
    BY RegionIs
  <2> QED
    BY <2>1, <1>1, <1>2 DEF InRegion
<1>4. ~(k < j)
  <2>1. k < j => MarkerOf(k) < Regions[j].addr
    BY RegionIs
  <2> QED
    BY <2>1, <1>1, <1>2 DEF InRegion
<1> QED
  BY <1>2, <1>3, <1>4

-----------------------------------------------------------------------------
(* The free blocks F and the blocks O of the application.                  *)

Holds(b, y) == b.addr <= y /\ y < EndOf(b)

Disjoint(S) == \A b, c \in S : b # c => Before(b, c) \/ Before(c, b)
Housed(S)   == \A b \in S : \E k \in DOMAIN Regions : InRegion(b, k)
Covering(S) == \A k \in DOMAIN Regions : \A y \in Nat :
                  Regions[k].addr <= y /\ y < MarkerOf(k) => \E b \in S : Holds(b, y)
Merged(F)   == \A b, c \in F : EndOf(b) = c.addr => c.size = 0

Shape(F, O) ==
    /\ F \subseteq Blocks /\ O \subseteq Blocks /\ F \cap O = {}
    /\ Disjoint(F \cup O) /\ Housed(F \cup O) /\ Covering(F \cup O)
    /\ Merged(F)
    /\ \A b \in O : b.size > 0

(* g is cut from the front of f, and R holds what is left of it, if any.   *)
Carved(f, g, R) ==
    /\ g.addr = f.addr
    /\ \/ g = f /\ R = {}
       \/ \E r \in Blocks : R = {r} /\ r.addr = EndOf(g) /\ EndOf(r) = EndOf(f) /\ r.size > 0

(* A block f gives way to g, which is lent, and r, what is left of it.     *)
LEMMA ShapeGranted ==
    ASSUME NEW F, NEW O, Shape(F, O), NEW f \in F, NEW g \in Blocks, NEW R,
           g.size > 0, Carved(f, g, R)
    PROVE  Shape((F \ {f}) \cup R, O \cup {g}) /\ g \notin O
<1> USE DEF Carved
<1> DEFINE G == (F \ {f}) \cup R
           P == O \cup {g}
<1>1. /\ F \subseteq Blocks /\ O \subseteq Blocks /\ F \cap O = {}
      /\ Disjoint(F \cup O) /\ Housed(F \cup O) /\ Covering(F \cup O)
      /\ Merged(F) /\ \A b \in O : b.size > 0
  BY DEF Shape
<1>2. /\ f \in Blocks /\ g.addr = f.addr /\ f.addr \in Nat /\ EndOf(f) \in Nat /\ EndOf(g) \in Nat
      /\ g.addr < EndOf(g) /\ EndOf(g) <= EndOf(f)
      /\ \A r \in R : /\ r \in Blocks /\ r.addr = EndOf(g) /\ EndOf(r) = EndOf(f)
                      /\ r.size > 0 /\ r.addr < EndOf(r)
      /\ R = {} => g = f
      /\ R # {} => \E r \in R : R = {r}
  <2>1. f \in Blocks /\ f.addr \in Nat /\ EndOf(f) \in Nat /\ EndOf(g) \in Nat /\ g.addr < EndOf(g)
    BY <1>1, BlockIs
  <2>2. ASSUME NEW r \in R
        PROVE  /\ r \in Blocks /\ r.addr = EndOf(g) /\ EndOf(r) = EndOf(f)
               /\ r.size > 0 /\ r.addr < EndOf(r)
    <3>1. r \in Blocks /\ r.addr = EndOf(g) /\ EndOf(r) = EndOf(f) /\ r.size > 0
      OBVIOUS
    <3>2. r.addr < EndOf(r)
      BY <3>1, BlockIs
    <3> QED
      BY <3>1, <3>2
  <2>3. (R = {} => g = f) /\ (R # {} => \E r \in R : R = {r})
    OBVIOUS
  <2>4. EndOf(g) <= EndOf(f)
    <3>1. CASE R = {}
      BY <3>1, <2>1, <2>3
    <3>2. CASE R # {}
      <4>1. PICK r \in R : R = {r}
        BY <3>2, <2>3
      <4> QED
        BY <2>1, <2>2
    <3> QED
      BY <3>1, <3>2
  <2> QED
    BY <2>1, <2>2, <2>3, <2>4
<1>3. \A c \in (F \cup O) \ {f} : c \in Blocks /\ (Before(c, f) \/ Before(f, c))
  BY <1>1 DEF Disjoint
<1>4. ASSUME NEW c \in (F \cup O) \ {f}
      PROVE  /\ c # g /\ (Before(c, g) \/ Before(g, c))
             /\ \A r \in R : c # r /\ (Before(c, r) \/ Before(r, c))
  <2>1. c.addr \in Nat /\ EndOf(c) \in Nat /\ c.addr <= EndOf(c)
    BY <1>3, BlockIs
  <2>2. CASE Before(c, f)
    <3>1. c.addr # g.addr /\ Before(c, g)
      BY <2>1, <2>2, <1>2 DEF Before
    <3>2. ASSUME NEW r \in R PROVE c.addr # r.addr /\ Before(c, r)
      <4>1. r.addr = EndOf(g)
        BY <1>2
      <4> QED
        BY <4>1, <2>1, <2>2, <1>2 DEF Before
    <3> QED
      BY <3>1, <3>2
  <2>3. CASE Before(f, c)
    <3>1. c.addr # g.addr /\ Before(g, c)
      BY <2>1, <2>3, <1>2 DEF Before
    <3>2. ASSUME NEW r \in R PROVE c.addr # r.addr /\ Before(r, c)
      <4>1. r.addr = EndOf(g) /\ EndOf(r) = EndOf(f) /\ r.addr < EndOf(r)
        BY <1>2
      <4> QED
        BY <4>1, <2>1, <2>3, <1>2 DEF Before
    <3> QED
      BY <3>1, <3>2
  <2> QED
    BY <2>2, <2>3, <1>3
<1>5. \A r \in R : g # r /\ Before(g, r)
  BY <1>2 DEF Before
<1>6. G \subseteq Blocks /\ P \subseteq Blocks /\ G \cap P = {} /\ g \notin O
  <2>1. \A r \in R : r \notin O
    BY <1>1, <1>4
  <2>2. g \notin O /\ g \notin F \ {f}
    BY <1>1, <1>4
  <2> QED
    BY <2>1, <2>2, <1>1, <1>2, <1>5
<1>7. Disjoint(G \cup P)
  <2>1. ASSUME NEW b \in G \cup P, NEW c \in G \cup P, b # c
        PROVE  Before(b, c) \/ Before(c, b)
    <3>1. \A d \in G \cup P : d \in (F \cup O) \ {f} \/ d = g \/ d \in R
      BY <1>1
    <3>2. \A d, e \in R : d = e
      BY <1>2
    <3>3. CASE b \in (F \cup O) \ {f} /\ c \in (F \cup O) \ {f}
      BY <2>1, <3>3, <1>1 DEF Disjoint
    <3> QED
      BY <2>1, <3>1, <3>2, <3>3, <1>4, <1>5
  <2> QED
    BY <2>1 DEF Disjoint
<1>8. Housed(G \cup P)
  <2>1. PICK k \in DOMAIN Regions : InRegion(f, k)
    BY <1>1 DEF Housed
  <2>2. Regions[k].addr \in Nat /\ MarkerOf(k) \in Nat
    BY RegionIs
  <2>3. InRegion(g, k)
    BY <2>1, <2>2, <1>2 DEF InRegion
  <2>4. ASSUME NEW r \in R PROVE InRegion(r, k)
    <3>1. r.addr = EndOf(g) /\ EndOf(r) = EndOf(f)
      BY <1>2
    <3> QED
      BY <3>1, <2>1, <2>2, <1>2 DEF InRegion
  <2> QED
    BY <2>3, <2>4, <1>1 DEF Housed
<1>9. Covering(G \cup P)
  <2>1. SUFFICES ASSUME NEW k \in DOMAIN Regions, NEW y \in Nat,
                        Regions[k].addr <= y, y < MarkerOf(k)
                 PROVE  \E b \in G \cup P : Holds(b, y)
    BY DEF Covering
  <2>2. PICK b \in F \cup O : Holds(b, y)
    BY <2>1, <1>1 DEF Covering
  <2>3. CASE b # f
    BY <2>2, <2>3
  <2>4. CASE b = f /\ y < EndOf(g)
    BY <2>2, <2>4, <1>2 DEF Holds
  <2>5. CASE b = f /\ ~(y < EndOf(g))
    <3>1. R # {}
      BY <2>2, <2>5, <1>2 DEF Holds
    <3>2. PICK r \in R : r.addr = EndOf(g) /\ EndOf(r) = EndOf(f)
      BY <3>1, <1>2
    <3>3. Holds(r, y)
      BY <2>2, <2>5, <3>2, <1>2 DEF Holds
    <3> QED
      BY <3>3
  <2> QED
    BY <2>3, <2>4, <2>5
<1>10. Merged(G)
  <2>1. SUFFICES ASSUME NEW b \in G, NEW c \in G, EndOf(b) = c.addr
                 PROVE  c.size = 0
    BY DEF Merged
  <2>2. CASE c \in R
    <3>1. c.addr = EndOf(g) /\ c.addr < EndOf(c)
      BY <2>2, <1>2
    <3>2. b \notin R
      BY <2>1, <2>2, <3>1, <1>2
    <3>3. b \in (F \cup O) \ {f} /\ b \in Blocks /\ b.addr \in Nat /\ EndOf(b) \in Nat
          /\ b.addr <= EndOf(b)
      BY <2>1, <3>2, <1>1, BlockIs
    <3>4. Before(b, g) \/ Before(g, b)
      BY <3>3, <1>4
    <3>5. b.addr = EndOf(b)
      BY <3>1, <3>3, <3>4, <2>1, <1>2 DEF Before
    <3>6. b.addr = c.addr
      BY <2>1, <3>5
    <3>7. Before(b, c) \/ Before(c, b)
      BY <2>2, <3>3, <1>4
    <3> QED
      BY <3>3, <3>6, <3>7 DEF Before
  <2>3. CASE c \notin R /\ b \in R
    <3>1. EndOf(b) = EndOf(f)
      BY <2>3, <1>2
    <3> QED
      BY <2>1, <2>3, <3>1, <1>1 DEF Merged
  <2>4. CASE c \notin R /\ b \notin R
    BY <2>1, <2>4, <1>1 DEF Merged
  <2> QED
    BY <2>2, <2>3, <2>4
<1> QED
  BY <1>1, <1>6, <1>7, <1>8, <1>9, <1>10 DEF Shape

(* What joining does to the bytes of a block and its neighbours.           *)
LEMMA JoinedIs ==
    ASSUME NEW F, NEW O, Shape(F, O), NEW b \in O, NEW end, NEW x, Joined(F, b, end, x)
    PROVE  /\ x \in Blocks /\ b \in Blocks
           /\ x.addr \in Nat /\ EndOf(x) \in Nat /\ b.addr \in Nat /\ EndOf(b) \in Nat
           /\ x.addr <= b.addr /\ b.addr < EndOf(b) /\ EndOf(b) <= EndOf(x)
           /\ \A c \in PrevOf(F, b) : /\ c \in F /\ c # b /\ EndOf(c) = b.addr
                                      /\ x.addr = c.addr /\ c.addr < b.addr
           /\ \A c \in NextOf(F, b, end) : c \in F /\ c # b /\ c.addr = EndOf(b) /\ EndOf(x) = EndOf(c)
           /\ PrevOf(F, b) = {} => x.addr = b.addr
           /\ NextOf(F, b, end) = {} => EndOf(x) = EndOf(b)
<1>1. /\ F \subseteq Blocks /\ O \subseteq Blocks /\ F \cap O = {} /\ Disjoint(F \cup O)
      /\ b.size > 0
  BY DEF Shape
<1>2. b \in Blocks /\ b.addr \in Nat /\ EndOf(b) \in Nat /\ b.addr < EndOf(b)
  BY <1>1, BlockIs
<1>3. x \in Blocks /\ x.addr \in Nat /\ EndOf(x) \in Nat
  BY BlockIs DEF Joined
<1>4. ASSUME NEW c \in PrevOf(F, b)
      PROVE  c \in F /\ c # b /\ EndOf(c) = b.addr /\ x.addr = c.addr /\ c.addr < b.addr
  <2>1. c \in F /\ EndOf(c) = b.addr /\ x.addr = c.addr /\ c # b
    BY <1>1 DEF Joined, PrevOf
  <2>2. c.addr \in Nat /\ c.addr <= EndOf(c)
    BY <2>1, <1>1, BlockIs
  <2>3. Before(c, b) \/ Before(b, c)
    BY <2>1, <1>1 DEF Disjoint
  <2> QED
    BY <2>1, <2>2, <2>3, <1>2 DEF Before
<1>5. ASSUME NEW c \in NextOf(F, b, end)
      PROVE  c \in F /\ c # b /\ c.addr = EndOf(b) /\ EndOf(x) = EndOf(c) /\ EndOf(b) <= EndOf(x)
  <2>1. c \in F /\ c.addr = EndOf(b) /\ EndOf(x) = EndOf(c) /\ c # b
    BY <1>1 DEF Joined, NextOf
  <2>2. c.addr <= EndOf(c)
    BY <2>1, <1>1, BlockIs
  <2> QED
    BY <2>1, <2>2
<1>6. /\ PrevOf(F, b) = {} => x.addr = b.addr
      /\ NextOf(F, b, end) = {} => EndOf(x) = EndOf(b)
  BY DEF Joined
<1>7. x.addr <= b.addr
  <2>1. CASE PrevOf(F, b) = {}
    BY <2>1, <1>2, <1>6
  <2>2. CASE PrevOf(F, b) # {}
    <3>1. PICK c \in PrevOf(F, b) : TRUE
      BY <2>2
    <3>2. x.addr = c.addr /\ c.addr < b.addr
      BY <1>4
    <3> QED
      BY <3>2, <1>2, <1>3
  <2> QED
    BY <2>1, <2>2
<1>8. EndOf(b) <= EndOf(x)
  BY <1>2, <1>5, <1>6
<1> QED
  BY <1>2, <1>3, <1>4, <1>5, <1>6, <1>7, <1>8

(* A block of the application goes back to the free ones, joined to its    *)
(* neighbours unless the next is the marker l at the end of the list.      *)
LEMMA ShapeInserted ==
    ASSUME NEW F, NEW O, Shape(F, O), NEW b \in O, NEW l \in F, l.size = 0,
           NEW x, Joined(F, b, l.addr, x)
    PROVE  Shape((F \ (PrevOf(F, b) \cup NextOf(F, b, l.addr))) \cup {x}, O \ {b})
<1> DEFINE Pr == PrevOf(F, b)
           Nx == NextOf(F, b, l.addr)
           K == F \ (Pr \cup Nx)
           G == K \cup {x}
           P == O \ {b}
<1>1. /\ F \subseteq Blocks /\ O \subseteq Blocks /\ F \cap O = {}
      /\ Disjoint(F \cup O) /\ Housed(F \cup O) /\ Covering(F \cup O)
      /\ Merged(F) /\ \A c \in O : c.size > 0
  BY DEF Shape
<1>2. /\ x \in Blocks /\ b \in Blocks
      /\ x.addr \in Nat /\ EndOf(x) \in Nat /\ b.addr \in Nat /\ EndOf(b) \in Nat
      /\ x.addr <= b.addr /\ b.addr < EndOf(b) /\ EndOf(b) <= EndOf(x)
      /\ Pr = {} => x.addr = b.addr
      /\ Nx = {} => EndOf(x) = EndOf(b)
  BY JoinedIs
<1>3. \A c \in Pr : /\ c \in F /\ c # b /\ EndOf(c) = b.addr /\ x.addr = c.addr /\ c.addr < b.addr
  BY JoinedIs
<1>4. \A c \in Nx : c \in F /\ c # b /\ c.addr = EndOf(b) /\ EndOf(x) = EndOf(c)
  BY JoinedIs
<1>5. \A c \in F : /\ EndOf(c) = b.addr => c \in Pr
                   /\ c.addr = EndOf(b) => c \in Nx \/ c.addr = l.addr
  BY DEF PrevOf, NextOf
<1>6. \A c, d \in F \cup O : c # d => Before(c, d) \/ Before(d, c)
  BY <1>1 DEF Disjoint
<1>7. \A c \in F \cup O : c \in Blocks /\ c.addr \in Nat /\ EndOf(c) \in Nat /\ c.addr <= EndOf(c)
  BY <1>1, BlockIs
<1> HIDE DEF Pr, Nx
<1>8. ASSUME NEW c \in K \cup P
      PROVE  c # x /\ (Before(c, x) \/ Before(x, c))
  <2>1. /\ c \in F \cup O /\ c # b /\ c \notin Pr /\ c \notin Nx
        /\ c.addr \in Nat /\ EndOf(c) \in Nat /\ c.addr <= EndOf(c)
    BY <1>1, <1>3, <1>4, <1>7
  <2>2. Before(c, b) \/ Before(b, c)
    BY <2>1, <1>6
  <2>3. CASE Before(c, b)
    <3>1. EndOf(c) <= x.addr /\ c.addr < x.addr
      <4>1. CASE Pr = {}
        BY <2>3, <4>1, <1>2 DEF Before
      <4>2. CASE Pr # {}
        <5>1. PICK p \in Pr : TRUE
          BY <4>2
        <5>2. p \in F /\ EndOf(p) = b.addr /\ x.addr = p.addr /\ c # p
          BY <2>1, <1>3
        <5>3. Before(c, p) \/ Before(p, c)
          BY <5>2, <2>1, <1>6
        <5>4. ~Before(p, c)
          BY <5>2, <2>1, <2>3, <1>2 DEF Before
        <5> QED
          BY <5>2, <5>3, <5>4 DEF Before
      <4> QED
        BY <4>1, <4>2
    <3> QED
      BY <3>1, <2>1, <1>2 DEF Before
  <2>4. CASE Before(b, c)
    <3>1. x.addr < c.addr
      BY <2>1, <2>4, <1>2 DEF Before
    <3>2. EndOf(x) <= c.addr
      <4>1. CASE Nx = {}
        BY <2>4, <4>1, <1>2 DEF Before
      <4>2. CASE Nx # {}
        <5>1. PICK n \in Nx : TRUE
          BY <4>2
        <5>2. n \in F /\ n.addr = EndOf(b) /\ EndOf(x) = EndOf(n) /\ c # n
          BY <2>1, <1>4
        <5>3. Before(c, n) \/ Before(n, c)
          BY <5>2, <2>1, <1>6
        <5>4. ~Before(c, n)
          BY <5>2, <2>1, <2>4, <1>2 DEF Before
        <5> QED
          BY <5>2, <5>3, <5>4 DEF Before
      <4> QED
        BY <4>1, <4>2
    <3> QED
      BY <3>1, <3>2, <2>1, <1>2 DEF Before
  <2> QED
    BY <2>2, <2>3, <2>4
<1>9. G \subseteq Blocks /\ P \subseteq Blocks /\ G \cap P = {}
  BY <1>1, <1>2, <1>8
<1>10. Disjoint(G \cup P)
  <2>1. ASSUME NEW c \in G \cup P, NEW d \in G \cup P, c # d
        PROVE  Before(c, d) \/ Before(d, c)
    <3>1. c \in K \cup P \/ c = x
      OBVIOUS
    <3>2. d \in K \cup P \/ d = x
      OBVIOUS
    <3> QED
      BY <2>1, <3>1, <3>2, <1>6, <1>8
  <2> QED
    BY <2>1 DEF Disjoint
<1>11. Housed(G \cup P)
  <2>1. PICK k \in DOMAIN Regions : InRegion(b, k)
    BY <1>1 DEF Housed
  <2>2. Regions[k].addr \in Nat /\ MarkerOf(k) \in Nat
    BY RegionIs
  <2>3. Regions[k].addr <= x.addr
    <3>1. CASE Pr = {}
      BY <3>1, <2>1, <1>2 DEF InRegion
    <3>2. CASE Pr # {}
      <4>1. PICK p \in Pr : TRUE
        BY <3>2
      <4>2. p \in F /\ EndOf(p) = b.addr /\ x.addr = p.addr
        BY <1>3
      <4>3. PICK j \in DOMAIN Regions : InRegion(p, j)
        BY <4>2, <1>1 DEF Housed
      <4>4. j = k
        BY <4>2, <4>3, <2>1, <1>2, <1>7, OneRegion
      <4> QED
        BY <4>2, <4>3, <4>4 DEF InRegion
    <3> QED
      BY <3>1, <3>2
  <2>4. EndOf(x) <= MarkerOf(k)
    <3>1. CASE Nx = {}
      BY <3>1, <2>1, <1>2 DEF InRegion
    <3>2. CASE Nx # {}
      <4>1. PICK n \in Nx : TRUE
        BY <3>2
      <4>2. n \in F /\ n.addr = EndOf(b) /\ EndOf(x) = EndOf(n)
        BY <1>4
      <4>3. PICK j \in DOMAIN Regions : InRegion(n, j)
        BY <4>2, <1>1 DEF Housed
      <4>4. j = k
        BY <4>2, <4>3, <2>1, <1>2, <1>7, OneRegion
      <4> QED
        BY <4>2, <4>3, <4>4 DEF InRegion
    <3> QED
      BY <3>1, <3>2
  <2>5. InRegion(x, k)
    BY <2>3, <2>4 DEF InRegion
  <2> QED
    BY <2>5, <1>1 DEF Housed
<1>12. Covering(G \cup P)
  <2>1. SUFFICES ASSUME NEW k \in DOMAIN Regions, NEW y \in Nat,
                        Regions[k].addr <= y, y < MarkerOf(k)
                 PROVE  \E c \in G \cup P : Holds(c, y)
    BY DEF Covering
  <2>2. PICK c \in F \cup O : Holds(c, y)
    BY <2>1, <1>1 DEF Covering
  <2>3. CASE c \in K \cup P
    BY <2>2, <2>3
  <2>4. CASE c = b
    BY <2>2, <2>4, <1>2 DEF Holds
  <2>5. CASE c \in Pr
    <3>1. EndOf(c) = b.addr /\ x.addr = c.addr
      BY <2>5, <1>3
    <3> QED
      BY <3>1, <2>2, <1>2 DEF Holds
  <2>6. CASE c \in Nx
    <3>1. c.addr = EndOf(b) /\ EndOf(x) = EndOf(c)
      BY <2>6, <1>4
    <3> QED
      BY <3>1, <2>2, <1>2 DEF Holds
  <2> QED
    BY <2>2, <2>3, <2>4, <2>5, <2>6
<1>13. Merged(G)
  <2>1. SUFFICES ASSUME NEW c \in G, NEW d \in G, EndOf(c) = d.addr
                 PROVE  d.size = 0
    BY DEF Merged
  <2>2. CASE c \in K /\ d \in K
    BY <2>1, <2>2, <1>1 DEF Merged
  <2>3. CASE c \in K /\ d = x
    <3>1. Pr # {}
      BY <2>1, <2>3, <1>2, <1>5
    <3>2. PICK p \in Pr : TRUE
      BY <3>1
    <3>3. p \in F /\ EndOf(p) = b.addr /\ x.addr = p.addr /\ p.addr < b.addr
      BY <1>3
    <3>4. p.size = 0
      BY <3>3, <2>1, <2>3, <1>1 DEF Merged
    <3>5. EndOf(p) = p.addr
      BY <3>3, <3>4, <1>1, BlockIs
    <3> QED
      BY <3>3, <3>5, <1>2
  <2>4. CASE c = x /\ d \in K
    <3>1. CASE Nx = {}
      <4>1. d.addr = l.addr
        BY <2>1, <2>4, <3>1, <1>2, <1>5
      <4>2. d = l
        BY <2>4, <4>1, <1>6, <1>7 DEF Before
      <4> QED
        BY <4>2
    <3>2. CASE Nx # {}
      <4>1. PICK n \in Nx : TRUE
        BY <3>2
      <4>2. n \in F /\ EndOf(x) = EndOf(n)
        BY <1>4
      <4> QED
        BY <4>2, <2>1, <2>4, <1>1 DEF Merged
    <3> QED
      BY <3>1, <3>2
  <2>5. CASE c = x /\ d = x
    BY <2>1, <2>5, <1>2
  <2> QED
    BY <2>2, <2>3, <2>4, <2>5
<1> QED
  BY <1>1, <1>9, <1>10, <1>11, <1>12, <1>13 DEF Shape, Pr, Nx

-----------------------------------------------------------------------------
(* The list as vPortDefineHeapRegions builds it.                           *)

NewList == [j \in 1..(2 * Len(Regions)) |->
              IF j % 2 = 1 THEN FirstBlock((j + 1) \div 2) ELSE Block(MarkerOf(j \div 2), 0)]

LEMMA NewListItems ==
    /\ NewList \in Seq(Blocks) /\ Len(NewList) = 2 * Len(Regions)
    /\ \A k \in DOMAIN Regions :
          /\ 2 * k - 1 \in 1 .. 2 * Len(Regions) /\ NewList[2 * k - 1] = FirstBlock(k)
          /\ 2 * k \in 1 .. 2 * Len(Regions) /\ NewList[2 * k] = Block(MarkerOf(k), 0)
    /\ \A j \in 1 .. 2 * Len(Regions) :
          \E k \in DOMAIN Regions : j = 2 * k - 1 \/ j = 2 * k
<1> DEFINE n == Len(Regions)
<1>1. n \in Nat \ {0} /\ DOMAIN Regions = 1 .. n
  BY RegionIs
<1>2. \A k \in DOMAIN Regions : Block(MarkerOf(k), 0) \in Blocks /\ FirstBlock(k) \in Blocks
  BY RegionIs, NewBlock
<1>3. NewList = [j \in 1 .. 2 * n |->
                   IF j % 2 = 1 THEN FirstBlock((j + 1) \div 2) ELSE Block(MarkerOf(j \div 2), 0)]
  BY DEF NewList
<1> HIDE DEF n
<1>4. ASSUME NEW k \in DOMAIN Regions
      PROVE  /\ 2 * k - 1 \in 1 .. 2 * n /\ NewList[2 * k - 1] = FirstBlock(k)
             /\ 2 * k \in 1 .. 2 * n /\ NewList[2 * k] = Block(MarkerOf(k), 0)
  <2>1. /\ 2 * k - 1 \in 1 .. 2 * n /\ (2 * k - 1) % 2 = 1 /\ (2 * k - 1 + 1) \div 2 = k
        /\ 2 * k \in 1 .. 2 * n /\ (2 * k) % 2 = 0 /\ (2 * k) \div 2 = k
    BY <1>1
  <2> QED
    BY <2>1, <1>3
<1>5. ASSUME NEW j \in 1 .. 2 * n
      PROVE  \E k \in DOMAIN Regions : j = 2 * k - 1 \/ j = 2 * k
  <2>1. (j + 1) \div 2 \in DOMAIN Regions
    BY <1>1
  <2>2. j = 2 * ((j + 1) \div 2) - 1 \/ j = 2 * ((j + 1) \div 2)
    BY <1>1
  <2> QED
    BY <2>1, <2>2
<1>6. ASSUME NEW j \in 1 .. 2 * n PROVE NewList[j] \in Blocks
  BY <1>2, <1>4, <1>5
<1>7. NewList \in Seq(Blocks) /\ Len(NewList) = 2 * n
  <2>1. 2 * n \in Nat
    BY <1>1
  <2>2. NewList = [j \in 1 .. 2 * n |-> NewList[j]]
    BY <1>3
  <2>3. NewList \in [1 .. 2 * n -> Blocks]
    BY <1>6, <2>2
  <2> QED
    BY <2>1, <2>3, SeqDef, LenProperties
<1> QED
  BY <1>4, <1>5, <1>7 DEF n

LEMMA NewListIs ==
    /\ NewList \in Seq(Blocks) /\ NewList # <<>> /\ Chain(NewList)
    /\ NewList[Len(NewList)] = Block(MarkerOf(Len(Regions)), 0)
    /\ ToSet(NewList) = {FirstBlock(k) : k \in DOMAIN Regions}
                          \cup {Block(MarkerOf(k), 0) : k \in DOMAIN Regions}
    /\ Shape(ToSet(NewList), {})
<1> DEFINE n == Len(Regions)
           F == ToSet(NewList)
<1>1. /\ n \in Nat \ {0} /\ DOMAIN Regions = 1 .. n /\ n \in DOMAIN Regions
      /\ \A j, k \in DOMAIN Regions : j < k => MarkerOf(j) < Regions[k].addr
  BY RegionIs
<1>2. ASSUME NEW k \in DOMAIN Regions
      PROVE  /\ Regions[k].addr \in Nat /\ MarkerOf(k) \in Nat /\ Regions[k].addr < MarkerOf(k)
             /\ FirstBlock(k).addr = Regions[k].addr /\ EndOf(FirstBlock(k)) = MarkerOf(k)
             /\ Block(MarkerOf(k), 0).addr = MarkerOf(k) /\ EndOf(Block(MarkerOf(k), 0)) = MarkerOf(k)
             /\ Block(MarkerOf(k), 0).size = 0
  <2>1. /\ Regions[k].addr \in Nat /\ MarkerOf(k) \in Nat /\ Regions[k].addr < MarkerOf(k)
        /\ FirstBlock(k).addr = Regions[k].addr /\ EndOf(FirstBlock(k)) = MarkerOf(k)
    BY RegionIs
  <2>2. /\ Block(MarkerOf(k), 0).addr = MarkerOf(k) /\ Block(MarkerOf(k), 0).size = 0
        /\ EndOf(Block(MarkerOf(k), 0)) = MarkerOf(k) + 0
    <3>1. MarkerOf(k) \in Nat
      BY <2>1
    <3> QED
      BY <3>1, NewBlock
  <2> QED
    BY <2>1, <2>2
<1>3. NewList \in Seq(Blocks) /\ Len(NewList) = 2 * n
  BY NewListItems
<1>4. \A k \in DOMAIN Regions :
          /\ 2 * k - 1 \in 1 .. 2 * n /\ NewList[2 * k - 1] = FirstBlock(k)
          /\ 2 * k \in 1 .. 2 * n /\ NewList[2 * k] = Block(MarkerOf(k), 0)
  BY NewListItems
<1>5. \A j \in 1 .. 2 * n : \E k \in DOMAIN Regions : j = 2 * k - 1 \/ j = 2 * k
  BY NewListItems
<1> HIDE DEF n
<1>6. DOMAIN NewList = 1 .. 2 * n
  BY <1>3, LenProperties
<1>7. ASSUME NEW i \in 1 .. 2 * n, NEW j \in 1 .. 2 * n, i < j
      PROVE  Before(NewList[i], NewList[j])
  <2>1. PICK k \in DOMAIN Regions : i = 2 * k - 1 \/ i = 2 * k
    BY <1>5
  <2>2. PICK m \in DOMAIN Regions : j = 2 * m - 1 \/ j = 2 * m
    BY <1>5
  <2>3. CASE k = m
    <3>1. i = 2 * k - 1 /\ j = 2 * k
      BY <1>7, <2>1, <2>2, <2>3, <1>1
    <3>2. NewList[i] = FirstBlock(k) /\ NewList[j] = Block(MarkerOf(k), 0)
      BY <3>1, <1>4
    <3> QED
      BY <3>2, <1>2 DEF Before
  <2>4. CASE k # m
    <3>1. k < m
      BY <1>7, <2>1, <2>2, <2>4, <1>1
    <3>2. MarkerOf(k) < Regions[m].addr
      BY <3>1, <1>1
    <3>3. NewList[i] = FirstBlock(k) \/ NewList[i] = Block(MarkerOf(k), 0)
      BY <2>1, <1>4
    <3>4. NewList[j] = FirstBlock(m) \/ NewList[j] = Block(MarkerOf(m), 0)
      BY <2>2, <1>4
    <3>5. EndOf(NewList[i]) = MarkerOf(k) /\ NewList[i].addr <= MarkerOf(k)
      BY <3>3, <1>2
    <3>6. Regions[m].addr <= NewList[j].addr
      BY <3>4, <1>2
    <3>7. NewList[i].addr \in Nat /\ NewList[j].addr \in Nat
      BY <3>3, <3>4, <1>2
    <3> QED
      BY <3>2, <3>5, <3>6, <3>7, <1>2 DEF Before
  <2> QED
    BY <2>3, <2>4
<1>8. Chain(NewList) /\ NewList # <<>>
  <2>1. 2 * n # 0
    BY <1>1
  <2> QED
    BY <2>1, <1>3, <1>6, <1>7, EmptySeq DEF Chain
<1>9. NewList[Len(NewList)] = Block(MarkerOf(n), 0)
  BY <1>1, <1>3, <1>4
<1>10. F = {FirstBlock(k) : k \in DOMAIN Regions} \cup {Block(MarkerOf(k), 0) : k \in DOMAIN Regions}
  <2>1. F = {NewList[j] : j \in 1 .. 2 * n}
    BY <1>6 DEF ToSet
  <2>2. \A j \in 1 .. 2 * n : \E k \in DOMAIN Regions :
           NewList[j] = FirstBlock(k) \/ NewList[j] = Block(MarkerOf(k), 0)
    BY <1>4, <1>5
  <2> HIDE DEF F
  <2> QED
    BY <2>1, <2>2, <1>4
<1>11. F \subseteq Blocks /\ Disjoint(F)
  <2>1. ASSUME NEW b \in F, NEW c \in F, b # c PROVE Before(b, c) \/ Before(c, b)
    <3>1. PICK i \in 1 .. 2 * n : b = NewList[i]
      BY <1>6 DEF ToSet
    <3>2. PICK j \in 1 .. 2 * n : c = NewList[j]
      BY <1>6 DEF ToSet
    <3>3. i < j \/ j < i
      BY <2>1, <3>1, <3>2, <1>1
    <3> QED
      BY <3>1, <3>2, <3>3, <1>7
  <2>2. F \subseteq Blocks
    BY <1>3, <1>8, ChainItems
  <2> QED
    BY <2>1, <2>2 DEF Disjoint
<1> HIDE DEF F
<1>12. Housed(F)
  <2>1. ASSUME NEW b \in F PROVE \E k \in DOMAIN Regions : InRegion(b, k)
    <3>1. PICK k \in DOMAIN Regions : b = FirstBlock(k) \/ b = Block(MarkerOf(k), 0)
      BY <1>10
    <3>2. InRegion(b, k)
      BY <3>1, <1>2 DEF InRegion
    <3> QED
      BY <3>2
  <2> QED
    BY <2>1 DEF Housed
<1>13. Covering(F)
  <2>1. ASSUME NEW k \in DOMAIN Regions, NEW y \in Nat, Regions[k].addr <= y, y < MarkerOf(k)
        PROVE  \E b \in F : Holds(b, y)
    <3>1. FirstBlock(k) \in F /\ Holds(FirstBlock(k), y)
      BY <2>1, <1>2, <1>10 DEF Holds
    <3> QED
      BY <3>1
  <2> QED
    BY <2>1 DEF Covering
<1>14. Merged(F)
  <2>1. SUFFICES ASSUME NEW b \in F, NEW c \in F, EndOf(b) = c.addr PROVE c.size = 0
    BY DEF Merged
  <2>2. PICK j \in DOMAIN Regions : EndOf(b) = MarkerOf(j)
    BY <1>2, <1>10
  <2>3. PICK k \in DOMAIN Regions : c = FirstBlock(k) \/ c = Block(MarkerOf(k), 0)
    BY <1>10
  <2>4. c # FirstBlock(k)
    <3>1. SUFFICES ASSUME MarkerOf(j) = Regions[k].addr PROVE FALSE
      BY <2>1, <2>2, <1>2
    <3>2. j \in Nat /\ k \in Nat /\ (j = k \/ j < k \/ k < j)
      BY <1>1
    <3>3. j # k
      BY <3>1, <1>2
    <3>4. ~(j < k)
      BY <3>1, <1>1, <1>2
    <3>5. ~(k < j)
      <4>1. k < j => MarkerOf(k) < Regions[j].addr
        BY <1>1
      <4>2. Regions[j].addr < MarkerOf(j) /\ Regions[k].addr < MarkerOf(k)
        BY <1>2
      <4> QED
        BY <3>1, <4>1, <4>2, <1>2
    <3> QED
      BY <3>2, <3>3, <3>4, <3>5
  <2> QED
    BY <2>3, <2>4, <1>2
<1>15. Shape(F, {})
  BY <1>11, <1>12, <1>13, <1>14 DEF Shape
<1> QED
  BY <1>3, <1>8, <1>9, <1>10, <1>15 DEF n, F

-----------------------------------------------------------------------------
(* Bytes.                                                                  *)

LEMMA BytesAre ==
    ASSUME NEW S, S \subseteq Blocks
    PROVE  /\ \A b \in S : \A y : y \in Bytes(b.addr, b.size) <=> y \in Nat /\ Holds(b, y)
           /\ \A y : y \in BytesOf(S) <=> y \in Nat /\ \E b \in S : Holds(b, y)
<1>1. ASSUME NEW b \in S, NEW y
      PROVE  y \in Bytes(b.addr, b.size) <=> y \in Nat /\ Holds(b, y)
  <2>1. b.addr \in Nat /\ b.size \in Nat /\ EndOf(b) = b.addr + b.size
    BY BlockIs
  <2> QED
    BY <2>1 DEF Bytes, Holds
<1> QED
  BY <1>1 DEF BytesOf

(* The bytes of a granted block come out of the free ones.                 *)
LEMMA BytesGranted ==
    ASSUME NEW F, NEW O, Shape(F, O), NEW f \in F, NEW g \in Blocks, NEW R,
           Carved(f, g, R)
    PROVE  BytesOf(F) = BytesOf((F \ {f}) \cup R) \cup Bytes(g.addr, g.size)
<1> USE DEF Carved
<1> DEFINE G == (F \ {f}) \cup R
<1>1. F \subseteq Blocks /\ R \subseteq Blocks /\ G \subseteq Blocks /\ {g} \subseteq Blocks
  BY DEF Shape
<1>2. \A y \in Nat : Holds(f, y) <=> Holds(g, y) \/ \E r \in R : Holds(r, y)
  <2>0. f \in Blocks
    BY <1>1
  <2>1. /\ f.addr \in Nat /\ EndOf(f) \in Nat /\ g.addr = f.addr /\ EndOf(g) \in Nat
        /\ g.addr <= EndOf(g)
    BY <2>0, BlockIs
  <2>2. CASE R = {}
    BY <2>2
  <2>3. CASE R # {}
    <3>1. PICK r \in Blocks : R = {r} /\ r.addr = EndOf(g) /\ EndOf(r) = EndOf(f)
      BY <2>3
    <3>2. r.addr <= EndOf(r) /\ EndOf(r) \in Nat
      BY BlockIs
    <3>3. \A y \in Nat : Holds(f, y) <=> Holds(g, y) \/ Holds(r, y)
      BY <2>1, <3>1, <3>2 DEF Holds
    <3> QED
      BY <3>1, <3>3
  <2> QED
    BY <2>2, <2>3
<1>3. \A y : y \in BytesOf(F) <=> y \in Nat /\ \E b \in F : Holds(b, y)
  BY <1>1, BytesAre
<1>4. \A y : y \in BytesOf(G) <=> y \in Nat /\ \E b \in G : Holds(b, y)
  BY <1>1, BytesAre
<1>5. \A y : y \in Bytes(g.addr, g.size) <=> y \in Nat /\ Holds(g, y)
  BY <1>1, BytesAre
<1>6. ASSUME NEW y PROVE y \in BytesOf(F) <=> y \in BytesOf(G) \cup Bytes(g.addr, g.size)
  BY <1>2, <1>3, <1>4, <1>5
<1> QED
  BY <1>6

(* The bytes of a freed block come to the free ones.                       *)
LEMMA BytesInserted ==
    ASSUME NEW F, NEW O, Shape(F, O), NEW b \in O, NEW end, NEW x, Joined(F, b, end, x)
    PROVE  BytesOf((F \ (PrevOf(F, b) \cup NextOf(F, b, end))) \cup {x})
             = BytesOf(F) \cup Bytes(b.addr, b.size)
<1> DEFINE Pr == PrevOf(F, b)
           Nx == NextOf(F, b, end)
           G == (F \ (Pr \cup Nx)) \cup {x}
<1>1. /\ x \in Blocks /\ b \in Blocks
      /\ x.addr \in Nat /\ EndOf(x) \in Nat /\ b.addr \in Nat /\ EndOf(b) \in Nat
      /\ x.addr <= b.addr /\ b.addr < EndOf(b) /\ EndOf(b) <= EndOf(x)
      /\ Pr = {} => x.addr = b.addr
      /\ Nx = {} => EndOf(x) = EndOf(b)
  BY JoinedIs
<1>2. \A c \in Pr : c \in F /\ EndOf(c) = b.addr /\ x.addr = c.addr
  BY JoinedIs
<1>3. \A c \in Nx : c \in F /\ c.addr = EndOf(b) /\ EndOf(x) = EndOf(c)
  BY JoinedIs
<1>4. F \subseteq Blocks /\ G \subseteq Blocks /\ {b} \subseteq Blocks
  BY <1>1 DEF Shape
<1> HIDE DEF Pr, Nx
<1>5. ASSUME NEW y \in Nat
      PROVE  Holds(x, y) <=> Holds(b, y) \/ \E c \in Pr \cup Nx : Holds(c, y)
  <2>1. \A c \in Pr \cup Nx : Holds(c, y) => Holds(x, y)
    BY <1>1, <1>2, <1>3 DEF Holds
  <2>2. Holds(b, y) => Holds(x, y)
    BY <1>1 DEF Holds
  <2>3. ASSUME Holds(x, y), ~Holds(b, y) PROVE \E c \in Pr \cup Nx : Holds(c, y)
    <3>1. CASE y < b.addr
      <4>1. PICK c \in Pr : TRUE
        BY <2>3, <3>1, <1>1 DEF Holds
      <4> QED
        BY <4>1, <2>3, <3>1, <1>2 DEF Holds
    <3>2. CASE EndOf(b) <= y
      <4>1. PICK c \in Nx : TRUE
        BY <2>3, <3>2, <1>1 DEF Holds
      <4> QED
        BY <4>1, <2>3, <3>2, <1>3 DEF Holds
    <3> QED
      BY <2>3, <3>1, <3>2, <1>1 DEF Holds
  <2> QED
    BY <2>1, <2>2, <2>3
<1>6. \A y : y \in BytesOf(F) <=> y \in Nat /\ \E c \in F : Holds(c, y)
  BY <1>4, BytesAre
<1>7. \A y : y \in BytesOf(G) <=> y \in Nat /\ \E c \in G : Holds(c, y)
  BY <1>4, BytesAre
<1>8. \A y : y \in Bytes(b.addr, b.size) <=> y \in Nat /\ Holds(b, y)
  BY <1>4, BytesAre
<1>9. ASSUME NEW y PROVE y \in BytesOf(G) <=> y \in BytesOf(F) \cup Bytes(b.addr, b.size)
  BY <1>2, <1>3, <1>5, <1>6, <1>7, <1>8
<1> QED
  BY <1>9 DEF Pr, Nx

(* The bytes of a block of the application are none of the free ones.      *)
LEMMA Counted ==
    ASSUME NEW F, NEW O, F \subseteq Blocks, O \subseteq Blocks, F \cap O = {},
           Disjoint(F \cup O), Housed(F \cup O)
    PROVE  /\ IsFiniteSet(BytesOf(F)) /\ Cardinality(BytesOf(F)) \in Nat
           /\ \A b \in O : Cardinality(BytesOf(F) \cup Bytes(b.addr, b.size))
                              = Cardinality(BytesOf(F)) + b.size
<1> DEFINE B == BytesOf(F)
<1>1. F \subseteq Blocks /\ O \subseteq Blocks /\ F \cap O = {} /\ Disjoint(F \cup O) /\ Housed(F \cup O)
  OBVIOUS
<1>2. \A y : y \in B <=> y \in Nat /\ \E c \in F : Holds(c, y)
  BY <1>1, BytesAre
<1> HIDE DEF B
<1>3. IsFiniteSet(B)
  <2> DEFINE last == MarkerOf(Len(Regions))
  <2>1. last \in Nat /\ \A k \in DOMAIN Regions : MarkerOf(k) <= last /\ MarkerOf(k) \in Nat
    BY RegionIs
  <2> HIDE DEF last
  <2>2. ASSUME NEW y \in B PROVE y \in 0 .. last
    <3>1. PICK c \in F : Holds(c, y)
      BY <1>2
    <3>2. PICK k \in DOMAIN Regions : InRegion(c, k)
      BY <1>1 DEF Housed
    <3>3. EndOf(c) \in Nat /\ y \in Nat
      BY <1>1, <1>2, BlockIs
    <3> QED
      BY <2>1, <3>1, <3>2, <3>3 DEF Holds, InRegion
  <2>3. IsFiniteSet(0 .. last)
    BY <2>1, FS_Interval
  <2> QED
    BY <2>2, <2>3, FS_Subset
<1>4. Cardinality(B) \in Nat
  BY <1>3, FS_CardinalityType
<1>5. ASSUME NEW b \in O
      PROVE  Cardinality(B \cup Bytes(b.addr, b.size)) = Cardinality(B) + b.size
  <2> DEFINE C == Bytes(b.addr, b.size)
  <2>1. b.addr \in Nat /\ b.size \in Nat /\ EndOf(b) = b.addr + b.size
    BY <1>1, BlockIs
  <2>2. IsFiniteSet(C) /\ Cardinality(C) = b.size
    <3> DEFINE a == b.addr
               z == b.addr + b.size - 1
    <3>1. a \in Int /\ z \in Int /\ b.size = IF a > z THEN 0 ELSE z - a + 1
      BY <2>1
    <3>2. C = a .. z
      BY DEF Bytes
    <3> HIDE DEF a, z, C
    <3>3. IsFiniteSet(a .. z) /\ Cardinality(a .. z) = IF a > z THEN 0 ELSE z - a + 1
      BY <3>1, FS_Interval
    <3> QED
      BY <3>1, <3>2, <3>3
  <2>3. B \cap C = {}
    <3>1. SUFFICES ASSUME NEW y \in B, y \in C PROVE FALSE
      OBVIOUS
    <3>2. y \in Nat /\ Holds(b, y)
      BY <3>1, <2>1 DEF Bytes, Holds
    <3>3. PICK c \in F : Holds(c, y)
      BY <1>2
    <3>4. Before(b, c) \/ Before(c, b)
      BY <1>1 DEF Disjoint
    <3>5. c.addr \in Nat /\ EndOf(c) \in Nat
      BY <1>1, BlockIs
    <3> QED
      BY <3>2, <3>3, <3>4, <3>5, <2>1 DEF Holds, Before
  <2> HIDE DEF C
  <2>4. Cardinality(B \cup C) = Cardinality(B) + Cardinality(C) - Cardinality(B \cap C)
    BY <1>3, <2>2, FS_Union
  <2>5. Cardinality(B \cap C) = 0
    BY <2>3, FS_EmptySet
  <2>6. Cardinality(B \cup C) = Cardinality(B) + b.size
    BY <2>1, <2>2, <2>4, <2>5, <1>4
  <2> QED
    BY <2>6 DEF C
<1> QED
  BY <1>3, <1>4, <1>5 DEF B

(* What vPortDefineHeapRegions counts are the bytes of the blocks it makes. *)
LEMMA SizeUpToIs ==
    /\ SizeUpTo[0] = 0
    /\ \A n \in 1 .. Len(Regions) : SizeUpTo[n] = SizeUpTo[n - 1] + FirstBlock(n).size
<1> DEFINE N == Len(Regions)
           Upto(f, n) == f[0] = 0 /\ \A k \in 1 .. n : f[k] = f[k - 1] + FirstBlock(k).size
           T == {n \in 0 .. N : \E f \in [0 .. n -> Nat] : Upto(f, n)}
           bad == (0 .. N) \ T
           m == Min(bad)
<1>1. N \in Nat /\ \A k \in 1 .. N : FirstBlock(k).size \in Nat
  BY RegionIs
<1> HIDE DEF N
<1>2. 0 \in T
  <2> DEFINE f == [k \in 0 .. 0 |-> 0]
  <2>1. f \in [0 .. 0 -> Nat] /\ Upto(f, 0)
    OBVIOUS
  <2> HIDE DEF f
  <2> QED
    BY <2>1, <1>1
<1>3. ASSUME NEW n \in 1 .. N, n - 1 \in T PROVE n \in T
  <2>1. PICK f \in [0 .. n - 1 -> Nat] : Upto(f, n - 1)
    BY <1>3
  <2> DEFINE g == [k \in 0 .. n |-> IF k = n THEN f[n - 1] + FirstBlock(n).size ELSE f[k]]
  <2>2. n \in Nat /\ n - 1 \in 0 .. n - 1 /\ 0 \in 0 .. n /\ n # 0 /\ n \in 0 .. N
    BY <1>1
  <2>3. f[n - 1] \in Nat /\ FirstBlock(n).size \in Nat
    BY <2>2, <1>1
  <2>4. g \in [0 .. n -> Nat]
    <3>1. \A k \in 0 .. n : k # n => k \in 0 .. n - 1
      BY <2>2
    <3> QED
      BY <2>3, <3>1
  <2>5. g[0] = 0
    BY <2>1, <2>2
  <2>6. ASSUME NEW k \in 1 .. n PROVE g[k] = g[k - 1] + FirstBlock(k).size
    <3>1. k - 1 # n /\ k - 1 \in 0 .. n /\ k \in 0 .. n /\ (k # n => k \in 1 .. n - 1)
      BY <2>2
    <3>2. g[k - 1] = f[k - 1]
      BY <3>1
    <3>3. CASE k = n
      BY <3>1, <3>2, <3>3
    <3>4. CASE k # n
      BY <3>1, <3>2, <3>4, <2>1
    <3> QED
      BY <3>3, <3>4
  <2> HIDE DEF g
  <2>7. Upto(g, n)
    BY <2>5, <2>6
  <2> QED
    BY <2>2, <2>4, <2>7
<1> HIDE DEF T
<1>4. bad = {}
  <2>1. SUFFICES ASSUME bad # {} PROVE FALSE
    OBVIOUS
  <2>2. bad \subseteq Nat
    BY <1>1
  <2>3. m \in bad /\ \A y \in bad : m <= y
    BY <2>1, <2>2, LeastNumber
  <2> HIDE DEF m
  <2>4. m # 0 /\ m \in 1 .. N /\ m - 1 \in 0 .. N /\ ~(m <= m - 1)
    BY <2>3, <1>1, <1>2
  <2>5. m - 1 \in T
    BY <2>3, <2>4
  <2> QED
    BY <2>3, <2>4, <2>5, <1>3
<1>5. PICK f \in [0 .. N -> Nat] : Upto(f, N)
  <2>1. N \in T
    BY <1>1, <1>4
  <2> QED
    BY <2>1 DEF T
<1>6. f = [n \in 0 .. N |-> IF n = 0 THEN 0 ELSE f[n - 1] + FirstBlock(n).size]
  <2>1. \A n \in 0 .. N : f[n] = IF n = 0 THEN 0 ELSE f[n - 1] + FirstBlock(n).size
    <3>1. \A n \in 0 .. N : n # 0 => n \in 1 .. N
      BY <1>1
    <3> QED
      BY <3>1, <1>5
  <2>2. f = [n \in 0 .. N |-> f[n]]
    BY <1>5
  <2> QED
    BY <2>1, <2>2
<1>7. SizeUpTo = [n \in 0 .. N |-> IF n = 0 THEN 0 ELSE SizeUpTo[n - 1] + FirstBlock(n).size]
  <2> DEFINE Is(g) == g = [n \in 0 .. N |-> IF n = 0 THEN 0 ELSE g[n - 1] + FirstBlock(n).size]
  <2>1. SizeUpTo = CHOOSE g : Is(g)
    BY Zenon DEF SizeUpTo, N
  <2>2. Is(f)
    BY <1>6
  <2> HIDE DEF Is
  <2>3. Is(CHOOSE g : Is(g))
    BY <2>2, Zenon
  <2>4. Is(SizeUpTo)
    BY <2>1, <2>3
  <2> QED
    BY <2>4 DEF Is
<1>8. \A n \in 0 .. N : SizeUpTo[n] = IF n = 0 THEN 0 ELSE SizeUpTo[n - 1] + FirstBlock(n).size
  BY <1>7
<1>9. 0 \in 0 .. N /\ \A n \in 1 .. N : n \in 0 .. N /\ n # 0
  BY <1>1
<1> QED
  BY <1>8, <1>9 DEF N

LEMMA NewBytes ==
    SizeUpTo[Len(Regions)] = Cardinality(BytesOf(ToSet(NewList)))
<1> DEFINE N == Len(Regions)
           S(n) == {FirstBlock(k) : k \in 1 .. n}
           bad == {n \in 0 .. N : SizeUpTo[n] # Cardinality(BytesOf(S(n)))}
           m == Min(bad)
<1>1. N \in Nat /\ DOMAIN Regions = 1 .. N
  BY RegionIs
<1>2. \A k \in 1 .. N :
         /\ FirstBlock(k) \in Blocks /\ FirstBlock(k).addr = Regions[k].addr
         /\ EndOf(FirstBlock(k)) = MarkerOf(k)
         /\ Regions[k].addr \in Nat /\ MarkerOf(k) \in Nat /\ Regions[k].addr < MarkerOf(k)
  BY <1>1, RegionIs
<1>3. SizeUpTo[0] = 0 /\ \A n \in 1 .. N : SizeUpTo[n] = SizeUpTo[n - 1] + FirstBlock(n).size
  BY SizeUpToIs
<1>4. \A j, k \in 1 .. N : j < k => Before(FirstBlock(j), FirstBlock(k))
  <2>1. \A j, k \in 1 .. N : j < k => MarkerOf(j) < Regions[k].addr
    BY <1>1, RegionIs
  <2> QED
    BY <2>1, <1>2 DEF Before
<1> HIDE DEF N
<1>5. ASSUME NEW n \in 1 .. N
      PROVE  Cardinality(BytesOf(S(n))) = Cardinality(BytesOf(S(n - 1))) + FirstBlock(n).size
  <2> DEFINE F == S(n - 1)
             b == FirstBlock(n)
  <2>0. n \in Nat /\ \A k \in 1 .. n - 1 : k \in 1 .. N /\ k < n
    BY <1>1
  <2>1. F \subseteq Blocks /\ {b} \subseteq Blocks
    BY <1>2, <2>0
  <2>2. \A c \in F : Before(c, b)
    BY <1>4, <2>0
  <2>3. b \notin F
    <3>1. b.addr \in Nat /\ ~(b.addr < b.addr)
      BY <1>2
    <3> HIDE DEF F, b
    <3> QED
      BY <2>2, <3>1 DEF Before
  <2>4. Disjoint(F \cup {b})
    <3>1. \A j, k \in 1 .. n - 1 : j = k \/ j < k \/ k < j
      BY <2>0
    <3>2. \A c, d \in F : c # d => Before(c, d) \/ Before(d, c)
      BY <2>0, <3>1, <1>4
    <3> HIDE DEF F, b
    <3> QED
      BY <2>2, <3>2 DEF Disjoint
  <2>5. Housed(F \cup {b})
    <3>1. ASSUME NEW k \in 1 .. N PROVE InRegion(FirstBlock(k), k)
      BY <1>2 DEF InRegion
    <3> QED
      BY <1>1, <2>0, <3>1 DEF Housed
  <2> HIDE DEF F
  <2>6. Cardinality(BytesOf(F) \cup Bytes(b.addr, b.size)) = Cardinality(BytesOf(F)) + b.size
    <3> HIDE DEF b
    <3>1. F \cap {b} = {}
      BY <2>3
    <3> QED
      BY <2>1, <2>4, <2>5, <3>1, Counted
  <2>7. S(n) = F \cup {b}
    <3>1. 1 .. n = (1 .. n - 1) \cup {n}
      BY <2>0
    <3> QED
      BY <3>1 DEF F
  <2>8. BytesOf(F \cup {b}) = BytesOf(F) \cup Bytes(b.addr, b.size)
    <3> HIDE DEF b
    <3> QED
      BY DEF BytesOf
  <2> QED
    BY <2>6, <2>7, <2>8 DEF F
<1>6. bad = {}
  <2>1. SUFFICES ASSUME bad # {} PROVE FALSE
    OBVIOUS
  <2>2. bad \subseteq Nat
    BY <1>1
  <2> HIDE DEF bad
  <2>3. m \in bad /\ \A y \in bad : m <= y
    BY <2>1, <2>2, LeastNumber
  <2> HIDE DEF m
  <2>4. CASE m = 0
    <3>1. S(0) = {}
      OBVIOUS
    <3>2. Cardinality(BytesOf(S(0))) = 0
      BY <3>1, FS_EmptySet DEF BytesOf
    <3> QED
      BY <2>3, <2>4, <3>2, <1>3 DEF bad
  <2>5. CASE m # 0
    <3>1. m \in 1 .. N /\ m - 1 \in 0 .. N /\ ~(m <= m - 1)
      BY <2>3, <2>5, <1>1 DEF bad
    <3>2. m - 1 \notin bad
      BY <2>3, <3>1
    <3>3. SizeUpTo[m - 1] = Cardinality(BytesOf(S(m - 1)))
      BY <3>1, <3>2 DEF bad
    <3>4. SizeUpTo[m] # Cardinality(BytesOf(S(m)))
      BY <2>3 DEF bad
    <3> HIDE DEF S
    <3> QED
      BY <3>1, <3>3, <3>4, <1>3, <1>5
  <2> QED
    BY <2>4, <2>5
<1>7. SizeUpTo[N] = Cardinality(BytesOf(S(N)))
  <2>1. N \in 0 .. N
    BY <1>1
  <2> QED
    BY <2>1, <1>6
<1>8. BytesOf(S(N)) = BytesOf(ToSet(NewList))
  <2>1. ToSet(NewList) = S(N) \cup {Block(MarkerOf(k), 0) : k \in 1 .. N}
    BY <1>1, NewListIs
  <2>2. ASSUME NEW k \in 1 .. N
        PROVE  Bytes(Block(MarkerOf(k), 0).addr, Block(MarkerOf(k), 0).size) = {}
    <3>1. MarkerOf(k) \in Nat /\ Block(MarkerOf(k), 0).addr = MarkerOf(k)
          /\ Block(MarkerOf(k), 0).size = 0
      BY <1>2, NewBlock
    <3> QED
      BY <3>1 DEF Bytes
  <2> HIDE DEF S
  <2> QED
    BY <2>1, <2>2 DEF BytesOf
<1> QED
  BY <1>7, <1>8 DEF N

-----------------------------------------------------------------------------
(* The layout of the heap.                                                 *)

(* A list in order that ends with the end marker of the last region.       *)
Walk(s) ==
    /\ s \in Seq(Blocks) /\ s # <<>> /\ Chain(s)
    /\ s[Len(s)] = Block(MarkerOf(Len(Regions)), 0)

(* What a grant does to the list and to the blocks that are lent.          *)
LEMMA CutIs ==
    ASSUME NEW s, Walk(s), NEW O, Shape(ToSet(s), O), NEW w \in Nat \ {0},
           NEW i \in 1 .. Len(s), w <= s[i].size
    PROVE  LET g == Granted(s, i, w)
               t == ListAfterGrant(s, i, w)
           IN  /\ g \in Blocks /\ w <= g.size /\ g.size <= w + heapMINIMUM_BLOCK_SIZE
               /\ g \notin O /\ Walk(t) /\ Shape(ToSet(t), O \cup {g})
               /\ BytesOf(ToSet(s)) = BytesOf(ToSet(t)) \cup Bytes(g.addr, g.size)
<1> DEFINE g == Granted(s, i, w)
           f == s[i]
           r == Rest(f, w)
           R == IF Splits(f, w) THEN {r} ELSE {}
           t == ListAfterGrant(s, i, w)
           n == Len(s)
           F == ToSet(s)
<1>1. /\ s \in Seq(Blocks) /\ s # <<>> /\ Chain(s) /\ Shape(F, O) /\ F \subseteq Blocks
      /\ s[n] = Block(MarkerOf(Len(Regions)), 0)
  BY DEF Walk, Shape
<1>2. f \in F /\ f \in Blocks
  BY <1>1, ChainItems
<1>3. i # n
  <2>1. Block(MarkerOf(Len(Regions)), 0).size = 0
    BY DEF Block
  <2> QED
    BY <2>1, <1>1
<1>4. /\ t \in Seq(Blocks) /\ t # <<>> /\ Chain(t)
      /\ t[Len(t)] = s[n]
      /\ ToSet(t) = (F \ {f}) \cup R
  BY <1>1, <1>3, ListGranted
<1>5. /\ g \in Blocks /\ g.addr = f.addr /\ w <= g.size
      /\ g.size <= w + heapMINIMUM_BLOCK_SIZE
      /\ Splits(f, w) => r \in Blocks /\ r.addr = EndOf(g) /\ EndOf(r) = EndOf(f) /\ r.size > 0
      /\ ~Splits(f, w) => g = f
  BY <1>1, GrantedIs
<1>6. Walk(t)
  BY <1>1, <1>4 DEF Walk
<1> HIDE DEF g, f, r, t, n, F
<1>7. Carved(f, g, R)
  BY <1>5 DEF Carved
<1> HIDE DEF R
<1>8. Shape((F \ {f}) \cup R, O \cup {g}) /\ g \notin O
  <2>1. g.size > 0
    BY <1>5, BlockIs
  <2> QED
    BY <2>1, <1>1, <1>2, <1>5, <1>7, ShapeGranted
<1>9. BytesOf(F) = BytesOf((F \ {f}) \cup R) \cup Bytes(g.addr, g.size)
  BY <1>1, <1>2, <1>5, <1>7, BytesGranted
<1>10. BytesOf(F) = BytesOf(ToSet(t)) \cup Bytes(g.addr, g.size)
  BY <1>4, <1>9
<1> QED
  BY <1>4, <1>5, <1>6, <1>8, <1>10 DEF g, t, F

(* What a release does.                                                    *)
LEMMA JoinIs ==
    ASSUME NEW s, Walk(s), NEW O, Shape(ToSet(s), O), NEW b \in O
    PROVE  LET t == Insert(s, b, MarkerOf(Len(Regions)))
           IN  /\ Walk(t) /\ Shape(ToSet(t), O \ {b})
               /\ BytesOf(ToSet(t)) = BytesOf(ToSet(s)) \cup Bytes(b.addr, b.size)
<1> DEFINE end == MarkerOf(Len(Regions))
           t == Insert(s, b, end)
           l == s[Len(s)]
           F == ToSet(s)
           gone == PrevOf(F, b) \cup NextOf(F, b, end)
<1>1. /\ s \in Seq(Blocks) /\ s # <<>> /\ Chain(s) /\ l = Block(end, 0) /\ Shape(F, O)
  BY DEF Walk
<1>2. end \in Nat
  BY RegionIs
<1> HIDE DEF end
<1>3. /\ F \subseteq Blocks /\ O \subseteq Blocks /\ F \cap O = {}
      /\ Disjoint(F \cup O) /\ Housed(F \cup O) /\ b.size > 0 /\ b \in Blocks
  BY <1>1 DEF Shape
<1>4. l \in F /\ l.addr = end /\ l.size = 0
  <2>1. Len(s) \in 1 .. Len(s)
    BY <1>1, EmptySeq, LenProperties
  <2>2. l \in F
    BY <2>1, <1>1, ChainItems
  <2>3. Block(end, 0).addr = end /\ Block(end, 0).size = 0
    BY DEF Block
  <2> HIDE DEF l, F
  <2> QED
    BY <2>2, <2>3, <1>1
<1>5. \A c \in F : Before(c, b) \/ Before(b, c)
  BY <1>3 DEF Disjoint
<1>6. Before(b, l)
  <2>1. b.addr \in Nat /\ EndOf(b) \in Nat /\ b.addr < EndOf(b)
    BY <1>3, BlockIs
  <2>2. PICK k \in DOMAIN Regions : InRegion(b, k)
    BY <1>3 DEF Housed
  <2>3. MarkerOf(k) <= end /\ MarkerOf(k) \in Nat
    BY RegionIs DEF end
  <2>4. EndOf(b) <= end
    BY <2>1, <2>2, <2>3, <1>2 DEF InRegion
  <2> QED
    BY <2>1, <2>4, <1>2, <1>4 DEF Before
<1>7. /\ t \in Seq(Blocks) /\ t # <<>> /\ Chain(t) /\ t[Len(t)] = l
      /\ \E x : Joined(F, b, end, x) /\ ToSet(t) = (F \ gone) \cup {x}
  <2>1. end = s[Len(s)].addr /\ Before(b, s[Len(s)])
    BY <1>4, <1>6
  <2>2. \A c \in ToSet(s) : Before(c, b) \/ Before(b, c)
    BY <1>5
  <2>3. /\ Insert(s, b, end) \in Seq(Blocks) /\ Insert(s, b, end) # <<>>
        /\ Chain(Insert(s, b, end))
        /\ Insert(s, b, end)[Len(Insert(s, b, end))] = s[Len(s)]
        /\ \E x : /\ Joined(ToSet(s), b, end, x)
                  /\ ToSet(Insert(s, b, end))
                       = (ToSet(s) \ (PrevOf(ToSet(s), b) \cup NextOf(ToSet(s), b, end))) \cup {x}
    <3>1. s \in Seq(Blocks) /\ Chain(s) /\ s # <<>> /\ b \in Blocks /\ b.size > 0
      BY <1>1, <1>3
    <3> QED
      BY <2>1, <2>2, <3>1, ListInserted
  <2> QED
    BY <2>3
<1>8. PICK x : Joined(F, b, end, x) /\ ToSet(t) = (F \ gone) \cup {x}
  BY <1>7
<1>9. Walk(t)
  BY <1>1, <1>7 DEF Walk, end
<1> HIDE DEF l, t, F
<1>10. Shape((F \ gone) \cup {x}, O \ {b})
  BY <1>1, <1>4, <1>8, ShapeInserted
<1>11. BytesOf((F \ gone) \cup {x}) = BytesOf(F) \cup Bytes(b.addr, b.size)
  BY <1>1, <1>8, BytesInserted
<1>12. Shape(ToSet(t), O \ {b}) /\ BytesOf(ToSet(t)) = BytesOf(F) \cup Bytes(b.addr, b.size)
  BY <1>8, <1>10, <1>11
<1> QED
  BY <1>9, <1>12 DEF t, F, end

Listed ==
    /\ freeList \in Seq(Blocks) /\ freeList # <<>> /\ Chain(freeList)
    /\ pxEnd = MarkerOf(Len(Regions))
    /\ freeList[Len(freeList)] = Block(pxEnd, 0)

LayoutInv ==
    /\ pxEnd = NULL => freeList = <<>> /\ allocated = {} /\ freeing = {}
    /\ pxEnd # NULL => Listed /\ Shape(Free, Owned)
    /\ allocated \cap freeing = {}

(* The sizes that are asked for, arrays included.                          *)
Asked == Requests \cup {a[1] * a[2] : a \in Arrays}

LEMMA AskedIs ==
    /\ Asked \subseteq Nat
    /\ \A n \in Asked : /\ WantedSize(n) \in Nat
                        /\ WantedSize(n) > 0 => WantedSize(n) = n + H /\ n + H <= SizeMax
                        /\ n > 0 /\ n + H <= SizeMax => WantedSize(n) = n + H
    /\ H \in Nat \ {0}
<1>1. ASSUME NEW a \in Arrays PROVE a[1] * a[2] \in Nat
  <2>1. a[1] \in Nat /\ a[2] \in Nat
    BY RequestAssumption
  <2> QED
    BY <2>1
<1>2. Asked \subseteq Nat
  BY <1>1, RequestAssumption DEF Asked
<1> QED
  BY <1>2, HeaderAssumption, WidthAssumption DEF WantedSize

(* The steps of the heap, its kinds of request taken together.             *)
LEMMA HeapSteps ==
    ASSUME FarNext
    PROVE  \/ vPortDefineHeapRegions
           \/ vPortHeapResetState
           \/ xPortResetHeapMinimumEverFreeHeapSize
           \/ pxEnd # NULL /\ \E n \in Asked : \E i \in Fit(WantedSize(n)) : \E z :
                                 Take(i, WantedSize(n), z)
           \/ UNCHANGED vars
           \/ \E b \in allocated : Write(b) \/ Release(b)
           \/ \E b \in freeing : vPortFree(b)
<1>1. \A n \in Requests : n \in Asked
  BY DEF Asked
<1>2. \A a \in Arrays : a[1] * a[2] \in Asked
  BY DEF Asked
<1> QED
  BY <1>1, <1>2 DEF FarNext, Next, pvPortMalloc, MallocFails, pvPortCalloc, farcalloc

LEMMA FitIs ==
    ASSUME freeList \in Seq(Blocks), NEW w \in Nat
    PROVE  /\ \A i \in Fit(w) : w > 0 /\ i \in 1 .. Len(freeList) /\ w <= freeList[i].size
           /\ w > 0 /\ w <= xFreeBytesRemaining
                 /\ (\E i \in 1 .. Len(freeList) : w <= freeList[i].size) => Fit(w) # {}
<1> DEFINE I == {i \in 1 .. Len(freeList) : freeList[i].size >= w}
<1>1. FirstFit(freeList, w) = IF I # {} THEN Min(I) ELSE 0
  BY DEF FirstFit, SelectInSeq
<1>2. I \subseteq Nat /\ 0 \notin I
  BY LenProperties
<1>3. I # {} => Min(I) \in I
  BY <1>2, LeastNumber
<1>4. \A i \in 1 .. Len(freeList) : freeList[i].size \in Nat
  BY BlockIs, LenProperties
<1>5. \A i \in I : i \in 1 .. Len(freeList) /\ w <= freeList[i].size
  BY <1>4
<1>6. \A i \in 1 .. Len(freeList) : w <= freeList[i].size => i \in I
  BY <1>4
<1> HIDE DEF I
<1>7. \A i \in Fit(w) : w > 0 /\ i \in I
  BY <1>1, <1>3 DEF Fit
<1>8. w > 0 /\ w <= xFreeBytesRemaining /\ I # {} => Min(I) \in Fit(w)
  BY <1>1, <1>2, <1>3 DEF Fit
<1> QED
  BY <1>5, <1>6, <1>7, <1>8

LEMMA TakeIs ==
    ASSUME LayoutInv, pxEnd # NULL, NEW w \in Nat, NEW i \in Fit(w), NEW z, Take(i, w, z)
    PROVE  LET g == Granted(freeList, i, w)
           IN  /\ g \in Blocks /\ w > 0 /\ w <= g.size /\ g.size <= w + heapMINIMUM_BLOCK_SIZE
               /\ g \notin Owned /\ Owned' = Owned \cup {g} /\ allocated' \cap freeing' = {}
               /\ Listed' /\ Shape(Free', Owned')
               /\ BytesOf(Free) = BytesOf(Free') \cup Bytes(g.addr, g.size)
<1> DEFINE g == Granted(freeList, i, w)
           t == ListAfterGrant(freeList, i, w)
<1>1. Listed /\ Shape(ToSet(freeList), Owned) /\ allocated \cap freeing = {}
  BY DEF LayoutInv, Free
<1>2. Walk(freeList) /\ freeList \in Seq(Blocks)
  BY <1>1 DEF Listed, Walk
<1>3. w \in Nat \ {0} /\ i \in 1 .. Len(freeList) /\ w <= freeList[i].size
  BY <1>2, FitIs
<1>4. /\ g \in Blocks /\ w <= g.size /\ g.size <= w + heapMINIMUM_BLOCK_SIZE
      /\ g \notin Owned /\ Walk(t) /\ Shape(ToSet(t), Owned \cup {g})
      /\ BytesOf(ToSet(freeList)) = BytesOf(ToSet(t)) \cup Bytes(g.addr, g.size)
  BY <1>1, <1>2, <1>3, CutIs
<1>5. /\ freeList' = t /\ allocated' = allocated \cup {g} /\ freeing' = freeing /\ pxEnd' = pxEnd
  BY DEF Take
<1> HIDE DEF g, t
<1>6. Owned' = Owned \cup {g} /\ allocated' \cap freeing' = {}
  BY <1>1, <1>4, <1>5 DEF Owned
<1>7. Free = ToSet(freeList) /\ Free' = ToSet(t)
  BY <1>5 DEF Free
<1>8. Listed'
  BY <1>1, <1>4, <1>5 DEF Listed, Walk
<1> QED
  BY <1>3, <1>4, <1>6, <1>7, <1>8 DEF g

LEMMA FreeIs ==
    ASSUME LayoutInv, NEW b \in freeing, vPortFree(b)
    PROVE  /\ pxEnd # NULL /\ pxEnd' = pxEnd
           /\ b \in Owned /\ Owned' = Owned \ {b} /\ allocated' \cap freeing' = {}
           /\ Listed' /\ Shape(Free', Owned')
           /\ BytesOf(Free') = BytesOf(Free) \cup Bytes(b.addr, b.size)
<1> DEFINE t == Insert(freeList, b, pxEnd)
<1>1. /\ pxEnd # NULL /\ Listed /\ Shape(ToSet(freeList), Owned) /\ allocated \cap freeing = {}
      /\ b \in Owned
  BY DEF LayoutInv, Owned, Free
<1>2. Walk(freeList) /\ pxEnd = MarkerOf(Len(Regions))
  BY <1>1 DEF Listed, Walk
<1>3. freeList' = t /\ pxEnd' = pxEnd /\ allocated' = allocated /\ freeing' = freeing \ {b}
  BY DEF vPortFree
<1>4. /\ Walk(t) /\ Shape(ToSet(t), Owned \ {b})
      /\ BytesOf(ToSet(t)) = BytesOf(ToSet(freeList)) \cup Bytes(b.addr, b.size)
  BY <1>1, <1>2, JoinIs
<1> HIDE DEF t
<1>5. Owned' = Owned \ {b} /\ allocated' \cap freeing' = {}
  BY <1>1, <1>3 DEF Owned
<1>6. Free = ToSet(freeList) /\ Free' = ToSet(t)
  BY <1>3 DEF Free
<1>7. Listed'
  BY <1>2, <1>3, <1>4 DEF Listed, Walk
<1> QED
  BY <1>1, <1>3, <1>4, <1>5, <1>6, <1>7

-----------------------------------------------------------------------------
(* The call counters wrap; their difference keeps step with the number of  *)
(* blocks lent.                                                            *)

LEMMA Residue ==
    ASSUME NEW W \in Nat \ {0}, NEW m \in 0 .. W - 1, NEW q \in Nat
    PROVE  (q * W + m) % W = m
<1> DEFINE n == q * W + m
           p == n \div W
           r == n % W
           k == q - p
<1>0. q * W \in Nat
  OBVIOUS
<1>1. n \in Nat
  BY <1>0
<1> HIDE DEF n
<1>2. p \in Nat /\ r \in 0 .. W - 1
  BY <1>1
<1>3. n = p * W + r
  BY <1>1
<1> HIDE DEF p, r
<1>4. p * W \in Nat /\ q * W + m = p * W + r
  BY <1>2, <1>3 DEF n
<1>5. q = p
  <2>1. ASSUME NEW a \in Nat, NEW b \in Nat, a < b PROVE a * W + W <= b * W
    <3>1. (b - a - 1) \in Nat
      BY <2>1
    <3>2. (b - a - 1) * W \in Nat
      BY <3>1
    <3>3. b * W = a * W + W + ((b - a - 1) * W)
      OBVIOUS
    <3>4. a * W \in Nat
      OBVIOUS
    <3> DEFINE x == a * W
               y == b * W
               z == (b - a - 1) * W
    <3>5. x \in Nat /\ z \in Nat /\ y = x + W + z
      BY <3>2, <3>3, <3>4
    <3> HIDE DEF x, y, z
    <3>6. x + W <= y
      BY <3>5
    <3> QED
      BY <3>6 DEF x, y
  <2> DEFINE x == q * W
             y == p * W
  <2>2. x \in Nat /\ y \in Nat /\ x + m = y + r
    BY <1>0, <1>4
  <2>3. ~(q < p)
    <3>1. q < p => x + W <= y
      BY <2>1, <1>2
    <3> HIDE DEF x, y
    <3> QED
      BY <3>1, <2>2, <1>2
  <2>4. ~(p < q)
    <3>1. p < q => y + W <= x
      BY <2>1, <1>2
    <3> HIDE DEF x, y
    <3> QED
      BY <3>1, <2>2, <1>2
  <2> QED
    BY <2>3, <2>4, <1>2
<1>6. m = r
  <2> DEFINE x == q * W
             y == p * W
  <2>1. x = y /\ x \in Nat /\ x + m = y + r
    BY <1>0, <1>4, <1>5
  <2> HIDE DEF x, y
  <2> QED
    BY <2>1, <1>2
<1> QED
  BY <1>6 DEF n, r

LEMMA NextResidue ==
    ASSUME NEW W \in Nat \ {0}, NEW c \in Nat
    PROVE  /\ c % W \in 0 .. W - 1
           /\ (c + 1) % W = IF c % W = W - 1 THEN 0 ELSE (c % W) + 1
<1> DEFINE q == c \div W
           r == c % W
<1>1. q \in Nat /\ r \in 0 .. W - 1
  OBVIOUS
<1>2. c = q * W + r
  OBVIOUS
<1> HIDE DEF q, r
<1>3. CASE r = W - 1
  <2>1. c + 1 = (q + 1) * W + 0
    BY <1>1, <1>2, <1>3
  <2>2. q + 1 \in Nat /\ 0 \in 0 .. W - 1
    BY <1>1
  <2>3. ((q + 1) * W + 0) % W = 0
    BY <2>2, Residue
  <2> QED
    BY <2>1, <2>3, <1>1, <1>3 DEF r
<1>4. CASE r # W - 1
  <2>1. c + 1 = q * W + (r + 1)
    BY <1>1, <1>2
  <2>2. r + 1 \in 0 .. W - 1
    BY <1>1, <1>4
  <2>3. (q * W + (r + 1)) % W = r + 1
    BY <2>2, <1>1, Residue
  <2> QED
    BY <2>1, <2>3, <1>1, <1>4 DEF r
<1> QED
  BY <1>3, <1>4

(* How many more allocations than frees the counters show.                 *)
Shown(a, f) == (a + Word - f) % Word

LEMMA ShownIs ==
    ASSUME NEW a \in 0 .. Word - 1, NEW f \in 0 .. Word - 1
    PROVE  /\ Word \in Nat \ {0}
           /\ Shown(a, f) = IF f <= a THEN a - f ELSE a - f + Word
           /\ Bump(a) = IF a = Word - 1 THEN 0 ELSE a + 1
           /\ Bump(f) = IF f = Word - 1 THEN 0 ELSE f + 1
<1>1. Word \in Nat \ {0} /\ a \in Nat /\ f \in Nat /\ a < Word /\ f < Word
  BY WidthAssumption
<1>2. Bump(a) = IF a = Word - 1 THEN 0 ELSE a + 1
  <2>1. a % Word = a
    BY <1>1
  <2> QED
    BY <2>1, <1>1, NextResidue DEF Bump
<1>3. Bump(f) = IF f = Word - 1 THEN 0 ELSE f + 1
  <2>1. f % Word = f
    BY <1>1
  <2> QED
    BY <2>1, <1>1, NextResidue DEF Bump
<1>4. Shown(a, f) = IF f <= a THEN a - f ELSE a - f + Word
  <2>1. CASE f <= a
    <3>1. a - f \in 0 .. Word - 1 /\ a + Word - f = 1 * Word + (a - f)
      BY <2>1, <1>1
    <3>2. (1 * Word + (a - f)) % Word = a - f
      BY <3>1, <1>1, Residue
    <3> QED
      BY <2>1, <3>1, <3>2 DEF Shown
  <2>2. CASE ~(f <= a)
    <3>1. a + Word - f \in 0 .. Word - 1 /\ a + Word - f = a - f + Word
      BY <2>2, <1>1
    <3>2. (a + Word - f) % Word = a + Word - f
      BY <3>1, <1>1
    <3> QED
      BY <2>2, <3>1, <3>2 DEF Shown
  <2> QED
    BY <2>1, <2>2
<1> QED
  BY <1>1, <1>2, <1>3, <1>4

LEMMA CountedUp ==
    ASSUME NEW a \in 0 .. Word - 1, NEW f \in 0 .. Word - 1, NEW c \in Nat,
           Shown(a, f) = c % Word
    PROVE  Bump(a) \in 0 .. Word - 1 /\ Shown(Bump(a), f) = (c + 1) % Word
<1>1. /\ Word \in Nat \ {0}
      /\ Shown(a, f) = IF f <= a THEN a - f ELSE a - f + Word
      /\ Bump(a) = IF a = Word - 1 THEN 0 ELSE a + 1
  BY ShownIs
<1>2. (c + 1) % Word = IF c % Word = Word - 1 THEN 0 ELSE (c % Word) + 1
  BY <1>1, NextResidue
<1> DEFINE b == Bump(a)
           r == c % Word
           s == Shown(a, f)
<1>3. b \in 0 .. Word - 1
  BY <1>1
<1>4. Shown(b, f) = IF f <= b THEN b - f ELSE b - f + Word
  BY <1>3, ShownIs
<1>5. b = IF a = Word - 1 THEN 0 ELSE a + 1
  BY <1>1
<1>6. s = r /\ s = IF f <= a THEN a - f ELSE a - f + Word
  BY <1>1
<1>7. (c + 1) % Word = IF r = Word - 1 THEN 0 ELSE r + 1
  BY <1>2
<1> HIDE DEF b, r, s
<1>8. (IF f <= b THEN b - f ELSE b - f + Word) = IF r = Word - 1 THEN 0 ELSE r + 1
  BY <1>1, <1>5, <1>6
<1> QED
  BY <1>3, <1>4, <1>7, <1>8 DEF b

LEMMA CountedDown ==
    ASSUME NEW a \in 0 .. Word - 1, NEW f \in 0 .. Word - 1, NEW c \in Nat \ {0},
           Shown(a, f) = c % Word
    PROVE  Bump(f) \in 0 .. Word - 1 /\ Shown(a, Bump(f)) = (c - 1) % Word
<1>1. /\ Word \in Nat \ {0}
      /\ Shown(a, f) = IF f <= a THEN a - f ELSE a - f + Word
      /\ Bump(f) = IF f = Word - 1 THEN 0 ELSE f + 1
  BY ShownIs
<1> DEFINE d == c - 1
           b == Bump(f)
           r == d % Word
           s == Shown(a, f)
<1>0. d \in Nat /\ d + 1 = c
  OBVIOUS
<1>2. (d + 1) % Word = (IF d % Word = Word - 1 THEN 0 ELSE (d % Word) + 1)
      /\ d % Word \in 0 .. Word - 1
  <2> HIDE DEF d
  <2> QED
    BY <1>0, <1>1, NextResidue
<1>3. b \in 0 .. Word - 1
  BY <1>1
<1>4. Shown(a, b) = IF b <= a THEN a - b ELSE a - b + Word
  BY <1>3, ShownIs
<1>5. b = IF f = Word - 1 THEN 0 ELSE f + 1
  BY <1>1
<1>6. s = (IF r = Word - 1 THEN 0 ELSE r + 1) /\ r \in 0 .. Word - 1
      /\ s = IF f <= a THEN a - f ELSE a - f + Word
  <2>1. (d + 1) % Word = c % Word
    BY <1>0
  <2> HIDE DEF d
  <2> QED
    BY <1>1, <1>2, <2>1
<1> HIDE DEF b, r, s
<1>8. (IF b <= a THEN a - b ELSE a - b + Word) = r
  BY <1>1, <1>5, <1>6
<1> QED
  BY <1>3, <1>4, <1>8 DEF b, r

-----------------------------------------------------------------------------
(* The invariant.                                                          *)

CountInv ==
    /\ xFreeBytesRemaining \in Nat /\ xMinimumEverFreeBytesRemaining \in Nat
    /\ xMinimumEverFreeBytesRemaining <= xFreeBytesRemaining
    /\ pxEnd # NULL => xFreeBytesRemaining = Cardinality(BytesOf(Free))
    /\ IsFiniteSet(Owned)
    /\ xNumberOfSuccessfulAllocations \in 0 .. Word - 1
    /\ xNumberOfSuccessfulFrees \in 0 .. Word - 1
    /\ Shown(xNumberOfSuccessfulAllocations, xNumberOfSuccessfulFrees) = Cardinality(Owned) % Word

HeapInv == LayoutInv /\ CountInv

LEMMA HeapStarts == Init => HeapInv
<1> SUFFICES ASSUME Init PROVE HeapInv
  OBVIOUS
<1>1. LayoutInv
  BY DEF Init, LayoutInv
<1>2. Owned = {}
  BY DEF Init, Owned
<1>3. IsFiniteSet({}) /\ Cardinality({}) = 0
  BY FS_EmptySet
<1>4. Word \in Nat \ {0} /\ 0 \in 0 .. Word - 1 /\ 0 % Word = 0
  BY WidthAssumption
<1>5. Shown(0, 0) = 0
  BY <1>4, ShownIs
<1>6. CountInv
  BY <1>2, <1>3, <1>4, <1>5 DEF Init, CountInv
<1> QED
  BY <1>1, <1>6 DEF HeapInv

LEMMA DefineIs ==
    ASSUME LayoutInv, vPortDefineHeapRegions
    PROVE  /\ pxEnd = NULL /\ pxEnd' # NULL /\ Listed'
           /\ Owned = {} /\ Owned' = {} /\ allocated' = {} /\ freeing' = {}
           /\ Free' = ToSet(NewList) /\ Shape(Free', Owned')
           /\ xFreeBytesRemaining' = Cardinality(BytesOf(Free'))
<1>1. /\ pxEnd = NULL /\ freeList' = NewList /\ pxEnd' = MarkerOf(Len(Regions))
      /\ allocated' = {} /\ freeing' = {} /\ allocated = {} /\ freeing = {}
      /\ xFreeBytesRemaining' = SizeUpTo[Len(Regions)]
  BY DEF LayoutInv, vPortDefineHeapRegions, NewList
<1>2. pxEnd' # NULL
  BY <1>1, RegionIs, AddressAssumption
<1>3. Listed'
  BY <1>1, NewListIs DEF Listed
<1>4. Free' = ToSet(NewList) /\ Owned' = {} /\ Owned = {}
  BY <1>1 DEF Free, Owned
<1> QED
  BY <1>1, <1>2, <1>3, <1>4, NewListIs, NewBytes

LEMMA LayoutStep == LayoutInv /\ [FarNext]_vars => LayoutInv'
<1> SUFFICES ASSUME LayoutInv, [FarNext]_vars PROVE LayoutInv'
  OBVIOUS
<1>1. CASE vPortDefineHeapRegions
  BY <1>1, DefineIs DEF LayoutInv
<1>2. CASE vPortHeapResetState
  BY <1>2 DEF vPortHeapResetState, LayoutInv
<1>3. CASE UNCHANGED heap
  BY <1>3 DEF heap, LayoutInv, Listed, Free, Owned
<1>4. ASSUME pxEnd # NULL, NEW n \in Asked, NEW i \in Fit(WantedSize(n)), NEW z,
             Take(i, WantedSize(n), z)
      PROVE  LayoutInv'
  <2>1. pxEnd' = pxEnd
    BY <1>4 DEF Take
  <2>2. WantedSize(n) \in Nat
    BY AskedIs
  <2>3. allocated' \cap freeing' = {} /\ Listed' /\ Shape(Free', Owned')
    BY <1>4, <2>2, TakeIs
  <2> QED
    BY <1>4, <2>1, <2>3 DEF LayoutInv
<1>5. ASSUME NEW b \in allocated, Release(b) PROVE LayoutInv'
  <2>1. /\ allocated' = allocated \ {b} /\ freeing' = freeing \cup {b}
        /\ freeList' = freeList /\ pxEnd' = pxEnd
    BY <1>5 DEF Release
  <2>2. Owned' = Owned /\ Free' = Free
    BY <2>1 DEF Owned, Free
  <2>3. Listed => Listed'
    BY <2>1 DEF Listed
  <2> QED
    BY <2>1, <2>2, <2>3 DEF LayoutInv
<1>6. ASSUME NEW b \in allocated, Write(b) PROVE LayoutInv'
  BY <1>6 DEF Write, LayoutInv, Listed, Free, Owned
<1>7. ASSUME NEW b \in freeing, vPortFree(b) PROVE LayoutInv'
  BY <1>7, FreeIs DEF LayoutInv
<1>8. UNCHANGED vars => UNCHANGED heap
  BY DEF vars
<1>9. xPortResetHeapMinimumEverFreeHeapSize => UNCHANGED heap
  BY DEF xPortResetHeapMinimumEverFreeHeapSize
<1> QED
  BY <1>1, <1>2, <1>3, <1>4, <1>5, <1>6, <1>7, <1>8, <1>9, HeapSteps

LEMMA CountStep == LayoutInv /\ CountInv /\ [FarNext]_vars => CountInv'
<1> SUFFICES ASSUME LayoutInv, CountInv, [FarNext]_vars PROVE CountInv'
  OBVIOUS
<1> DEFINE c == Cardinality(Owned)
<1>0. /\ IsFiniteSet(Owned) /\ c \in Nat
      /\ xFreeBytesRemaining \in Nat /\ xMinimumEverFreeBytesRemaining \in Nat
      /\ xMinimumEverFreeBytesRemaining <= xFreeBytesRemaining
      /\ xNumberOfSuccessfulAllocations \in 0 .. Word - 1
      /\ xNumberOfSuccessfulFrees \in 0 .. Word - 1
      /\ Shown(xNumberOfSuccessfulAllocations, xNumberOfSuccessfulFrees) = c % Word
  BY FS_CardinalityType DEF CountInv
<1>s. ASSUME NEW F, NEW O, Shape(F, O)
      PROVE  /\ Cardinality(BytesOf(F)) \in Nat
             /\ \A b \in O : Cardinality(BytesOf(F) \cup Bytes(b.addr, b.size))
                                = Cardinality(BytesOf(F)) + b.size
  <2>1. /\ F \subseteq Blocks /\ O \subseteq Blocks /\ F \cap O = {}
        /\ Disjoint(F \cup O) /\ Housed(F \cup O)
    BY <1>s DEF Shape
  <2> QED
    BY <2>1, Counted
<1>1. CASE vPortDefineHeapRegions
  <2>1. /\ Owned = {} /\ Owned' = {} /\ pxEnd' # NULL
        /\ xFreeBytesRemaining' = Cardinality(BytesOf(Free'))
        /\ xFreeBytesRemaining' \in Nat
    <3>1. Shape(Free', Owned') /\ xFreeBytesRemaining' = Cardinality(BytesOf(Free'))
          /\ Owned = {} /\ Owned' = {} /\ pxEnd' # NULL
      BY <1>1, DefineIs
    <3> QED
      BY <3>1, <1>s
  <2>2. /\ xMinimumEverFreeBytesRemaining' = xFreeBytesRemaining'
        /\ xNumberOfSuccessfulAllocations' = xNumberOfSuccessfulAllocations
        /\ xNumberOfSuccessfulFrees' = xNumberOfSuccessfulFrees
    BY <1>1 DEF vPortDefineHeapRegions
  <2> QED
    BY <2>1, <2>2, <1>0 DEF CountInv
<1>2. CASE vPortHeapResetState
  <2>1. /\ Owned' = {} /\ pxEnd' = NULL
        /\ xFreeBytesRemaining' = 0 /\ xMinimumEverFreeBytesRemaining' = 0
        /\ xNumberOfSuccessfulAllocations' = 0 /\ xNumberOfSuccessfulFrees' = 0
    BY <1>2 DEF vPortHeapResetState, Owned
  <2>2. IsFiniteSet({}) /\ Cardinality({}) = 0
    BY FS_EmptySet
  <2>3. Word \in Nat \ {0} /\ 0 \in 0 .. Word - 1 /\ 0 % Word = 0
    BY WidthAssumption
  <2>4. Shown(0, 0) = 0
    BY <2>3, ShownIs
  <2> QED
    BY <2>1, <2>2, <2>3, <2>4 DEF CountInv
<1>3. CASE xPortResetHeapMinimumEverFreeHeapSize
  BY <1>3, <1>0 DEF xPortResetHeapMinimumEverFreeHeapSize, heap, CountInv, Owned, Free
<1>4. ASSUME pxEnd # NULL, NEW n \in Asked, NEW i \in Fit(WantedSize(n)), NEW z,
             Take(i, WantedSize(n), z)
      PROVE  CountInv'
  <2> DEFINE g == Granted(freeList, i, WantedSize(n))
  <2>1. WantedSize(n) \in Nat
    BY AskedIs
  <2>2. /\ g \in Blocks /\ g \notin Owned /\ Owned' = Owned \cup {g}
        /\ Shape(Free', Owned')
        /\ BytesOf(Free) = BytesOf(Free') \cup Bytes(g.addr, g.size)
    BY <1>4, <2>1, TakeIs
  <2>3. /\ pxEnd' = pxEnd
        /\ xFreeBytesRemaining' = xFreeBytesRemaining - g.size
        /\ xMinimumEverFreeBytesRemaining' =
              IF xFreeBytesRemaining' < xMinimumEverFreeBytesRemaining
              THEN xFreeBytesRemaining' ELSE xMinimumEverFreeBytesRemaining
        /\ xNumberOfSuccessfulAllocations' = Bump(xNumberOfSuccessfulAllocations)
        /\ xNumberOfSuccessfulFrees' = xNumberOfSuccessfulFrees
    BY <1>4 DEF Take, LowWater
  <2> HIDE DEF g
  <2>4. /\ Cardinality(BytesOf(Free')) \in Nat
        /\ Cardinality(BytesOf(Free)) = Cardinality(BytesOf(Free')) + g.size
    BY <2>2, <1>s
  <2>5. xFreeBytesRemaining = Cardinality(BytesOf(Free)) /\ g.size \in Nat
    BY <1>4, <2>2, BlockIs DEF CountInv
  <2>6. /\ xFreeBytesRemaining' = Cardinality(BytesOf(Free')) /\ xFreeBytesRemaining' \in Nat
        /\ xMinimumEverFreeBytesRemaining' \in Nat
        /\ xMinimumEverFreeBytesRemaining' <= xFreeBytesRemaining'
    BY <2>3, <2>4, <2>5, <1>0
  <2>7. IsFiniteSet(Owned') /\ Cardinality(Owned') = c + 1
    BY <2>2, <1>0, FS_AddElement
  <2>8. /\ xNumberOfSuccessfulAllocations' \in 0 .. Word - 1
        /\ Shown(xNumberOfSuccessfulAllocations', xNumberOfSuccessfulFrees') = (c + 1) % Word
    BY <2>3, <1>0, CountedUp
  <2> QED
    BY <2>3, <2>6, <2>7, <2>8, <1>0 DEF CountInv
<1>5. ASSUME NEW b \in allocated, Write(b) \/ Release(b) PROVE CountInv'
  <2>1. Owned' = Owned /\ Free' = Free /\ pxEnd' = pxEnd /\ UNCHANGED counts
    BY <1>5 DEF Write, Release, Owned, Free
  <2> QED
    BY <2>1 DEF counts, CountInv
<1>6. ASSUME NEW b \in freeing, vPortFree(b) PROVE CountInv'
  <2>1. /\ pxEnd # NULL /\ pxEnd' = pxEnd /\ b \in Owned /\ Owned' = Owned \ {b}
        /\ BytesOf(Free') = BytesOf(Free) \cup Bytes(b.addr, b.size)
        /\ Shape(Free, Owned)
    BY <1>6, FreeIs DEF LayoutInv
  <2>2. /\ xFreeBytesRemaining' = xFreeBytesRemaining + b.size
        /\ xMinimumEverFreeBytesRemaining' = xMinimumEverFreeBytesRemaining
        /\ xNumberOfSuccessfulAllocations' = xNumberOfSuccessfulAllocations
        /\ xNumberOfSuccessfulFrees' = Bump(xNumberOfSuccessfulFrees)
    BY <1>6 DEF vPortFree
  <2>3. Cardinality(BytesOf(Free')) = Cardinality(BytesOf(Free)) + b.size
    BY <2>1, <1>s
  <2>4. b.size \in Nat
    BY <2>1, BlockIs DEF Shape
  <2>5. /\ xFreeBytesRemaining' = Cardinality(BytesOf(Free')) /\ xFreeBytesRemaining' \in Nat
        /\ xMinimumEverFreeBytesRemaining' <= xFreeBytesRemaining'
    BY <2>1, <2>2, <2>3, <2>4, <1>0 DEF CountInv
  <2>6. IsFiniteSet(Owned') /\ Cardinality(Owned') = c - 1
    BY <2>1, <1>0, FS_RemoveElement
  <2>7. c \in Nat \ {0}
    <3>1. c # 0
      BY <2>1, <1>0, FS_EmptySet
    <3> QED
      BY <3>1, <1>0
  <2>8. /\ xNumberOfSuccessfulFrees' \in 0 .. Word - 1
        /\ Shown(xNumberOfSuccessfulAllocations', xNumberOfSuccessfulFrees') = (c - 1) % Word
    BY <2>2, <2>7, <1>0, CountedDown
  <2> QED
    BY <2>1, <2>2, <2>5, <2>6, <2>8, <1>0 DEF CountInv
<1>7. CASE UNCHANGED vars
  BY <1>7 DEF vars, heap, counts, CountInv, Owned, Free
<1> QED
  BY <1>1, <1>2, <1>3, <1>4, <1>5, <1>6, <1>7, HeapSteps

LEMMA HeapInductive == FarSpec => []HeapInv
<1>1. HeapInv /\ [FarNext]_vars => HeapInv'
  BY LayoutStep, CountStep DEF HeapInv
<1> QED
  BY <1>1, HeapStarts, PTL DEF FarSpec

-----------------------------------------------------------------------------
(* What is cleared.                                                        *)

(* memset clears a whole block: the one block of a region was the largest  *)
(* that could be lent from it, and its payload fits a size_t.              *)
RegionsFitSize == \A i \in DOMAIN Regions : FirstBlock(i).size - H <= SizeMax

LEMMA ReleaseClears ==
    ASSUME RegionsFitSize, LayoutInv, NEW b \in allocated
    PROVE  Payload(b) \subseteq Bytes(b.addr + H, memsetCount(b.size - H))
<1>1. b \in Blocks /\ \E k \in DOMAIN Regions : InRegion(b, k)
  BY DEF LayoutInv, Shape, Housed, Owned
<1>2. PICK k \in DOMAIN Regions : InRegion(b, k)
  BY <1>1
<1>3. /\ b.addr \in Nat /\ b.size \in Nat /\ EndOf(b) = b.addr + b.size
      /\ H \in Nat /\ SizeMax \in Nat
  BY <1>1, BlockIs, HeaderAssumption, WidthAssumption
<1>4. /\ Regions[k].addr \in Nat /\ MarkerOf(k) \in Nat
      /\ FirstBlock(k).size = MarkerOf(k) - Regions[k].addr
  BY RegionIs
<1>5. b.size - H <= SizeMax
  <2>1. MarkerOf(k) - Regions[k].addr - H <= SizeMax
    BY <1>4 DEF RegionsFitSize
  <2>2. Regions[k].addr <= b.addr /\ b.addr + b.size <= MarkerOf(k)
    BY <1>2, <1>3 DEF InRegion
  <2> HIDE DEF InRegion
  <2> QED
    BY <1>3, <1>4, <2>1, <2>2
<1>6. CASE b.size >= H
  <2>1. memsetCount(b.size - H) = b.size - H
    BY <1>3, <1>5, <1>6 DEF memsetCount
  <2> QED
    BY <2>1 DEF Payload
<1>7. CASE b.size < H
  BY <1>3, <1>7 DEF Payload, Bytes
<1> QED
  BY <1>3, <1>6, <1>7

LEMMA DataStep ==
    ASSUME RegionsFitSize
    PROVE  LayoutInv /\ NoDataLeft /\ [FarNext]_vars => NoDataLeft'
<1> SUFFICES ASSUME LayoutInv, NoDataLeft, [FarNext]_vars PROVE NoDataLeft'
  OBVIOUS
<1>1. ASSUME data' \subseteq data, allocated \subseteq allocated' PROVE NoDataLeft'
  BY <1>1 DEF NoDataLeft
<1>2. CASE vPortDefineHeapRegions
  BY <1>1, <1>2 DEF vPortDefineHeapRegions
<1>3. CASE vPortHeapResetState
  BY <1>3 DEF vPortHeapResetState, NoDataLeft
<1>4. CASE UNCHANGED heap
  BY <1>1, <1>4 DEF heap
<1>5. ASSUME NEW i, NEW w, NEW z, Take(i, w, z) PROVE NoDataLeft'
  BY <1>1, <1>5 DEF Take
<1>6. ASSUME NEW b \in allocated, Write(b) PROVE NoDataLeft'
  <2>1. data' = data \cup Payload(b) /\ allocated' = allocated
    BY <1>6 DEF Write
  <2> QED
    BY <2>1 DEF NoDataLeft
<1>7. ASSUME NEW b \in allocated, Release(b) PROVE NoDataLeft'
  <2>1. /\ data' = data \ Bytes(b.addr + H, memsetCount(b.size - H)) /\ allocated' = allocated \ {b}
        /\ Payload(b) \subseteq Bytes(b.addr + H, memsetCount(b.size - H))
    BY <1>7, ReleaseClears DEF Release
  <2>2. ASSUME NEW y \in data' PROVE \E e \in allocated' : y \in Payload(e)
    <3>1. PICK e \in allocated : y \in Payload(e)
      BY <2>1 DEF NoDataLeft
    <3>2. e # b
      BY <2>1, <3>1
    <3> QED
      BY <2>1, <3>1, <3>2
  <2> QED
    BY <2>2 DEF NoDataLeft
<1>8. ASSUME NEW b \in freeing, vPortFree(b) PROVE NoDataLeft'
  BY <1>1, <1>8 DEF vPortFree
<1>9. /\ UNCHANGED vars => UNCHANGED heap
      /\ xPortResetHeapMinimumEverFreeHeapSize => UNCHANGED heap
  BY DEF vars, xPortResetHeapMinimumEverFreeHeapSize
<1> QED
  BY <1>2, <1>3, <1>4, <1>5, <1>6, <1>7, <1>8, <1>9, HeapSteps

-----------------------------------------------------------------------------
(* What the invariant says.                                                *)

LEMMA LayoutTiles == LayoutInv => Tiling
<1> SUFFICES ASSUME LayoutInv, SetUp PROVE Tiling
  BY DEF Tiling
<1>1. /\ Free \subseteq Blocks /\ Owned \subseteq Blocks /\ Disjoint(InUse)
      /\ Housed(InUse) /\ Covering(InUse)
  BY DEF LayoutInv, SetUp, Shape, InUse
<1>2. \A b \in InUse : \E k \in DOMAIN Regions :
         Regions[k].addr <= b.addr /\ EndOf(b) <= MarkerOf(k)
  BY <1>1 DEF Housed, InRegion
<1>3. \A b, c \in InUse : b # c => EndOf(b) <= c.addr \/ EndOf(c) <= b.addr
  BY <1>1 DEF Disjoint, Before
<1>4. BytesOf(InUse) = BytesOf({FirstBlock(k) : k \in DOMAIN Regions})
  <2> DEFINE S == {FirstBlock(k) : k \in DOMAIN Regions}
  <2>1. ASSUME NEW k \in DOMAIN Regions
        PROVE  /\ FirstBlock(k) \in Blocks /\ Regions[k].addr \in Nat /\ MarkerOf(k) \in Nat
               /\ \A y : Holds(FirstBlock(k), y) <=> Regions[k].addr <= y /\ y < MarkerOf(k)
    BY RegionIs DEF Holds
  <2>2. S \subseteq Blocks /\ InUse \subseteq Blocks
    BY <2>1, <1>1 DEF InUse
  <2>3. \A y : y \in BytesOf(InUse) <=> y \in Nat /\ \E b \in InUse : Holds(b, y)
    BY <2>2, BytesAre
  <2>4. \A y : y \in BytesOf(S) <=> y \in Nat /\ \E b \in S : Holds(b, y)
    <3> HIDE DEF S
    <3> QED
      BY <2>2, BytesAre
  <2>5. ASSUME NEW y \in BytesOf(InUse) PROVE y \in BytesOf(S)
    <3>1. PICK b \in InUse : y \in Nat /\ Holds(b, y)
      BY <2>3
    <3>2. PICK k \in DOMAIN Regions : Regions[k].addr <= b.addr /\ EndOf(b) <= MarkerOf(k)
      BY <1>2
    <3>3. b.addr \in Nat /\ EndOf(b) \in Nat
      BY <2>2, BlockIs
    <3>4. Regions[k].addr <= y /\ y < MarkerOf(k)
      BY <2>1, <3>1, <3>2, <3>3 DEF Holds
    <3> QED
      BY <2>1, <2>4, <3>1, <3>4
  <2>6. ASSUME NEW y \in BytesOf(S) PROVE y \in BytesOf(InUse)
    <3>1. PICK k \in DOMAIN Regions : y \in Nat /\ Holds(FirstBlock(k), y)
      BY <2>4
    <3>2. Regions[k].addr <= y /\ y < MarkerOf(k)
      BY <2>1, <3>1
    <3> QED
      BY <2>3, <3>1, <3>2, <1>1 DEF Covering
  <2> QED
    BY <2>5, <2>6
<1> QED
  BY <1>2, <1>3, <1>4 DEF Tiling

LEMMA ListOrdered == LayoutInv => Ordered
<1> SUFFICES ASSUME LayoutInv, SetUp PROVE Ordered
  BY DEF Ordered
<1>1. /\ freeList \in Seq(Blocks) /\ Chain(freeList)
      /\ freeList[Len(freeList)] = Block(pxEnd, 0)
  BY DEF LayoutInv, SetUp, Listed
<1>2. \A i \in 1 .. Len(freeList) - 1 : freeList[i].addr < freeList[i + 1].addr
  <2>1. \A i \in 1 .. Len(freeList) - 1 :
           i \in 1 .. Len(freeList) /\ i + 1 \in 1 .. Len(freeList) /\ i < i + 1
    BY <1>1, ChainItems
  <2> QED
    BY <2>1, <1>1, ChainItems DEF Before
<1> QED
  BY <1>1, <1>2 DEF Ordered, Last

(* A run of bytes that nobody owns lies in one free block.                 *)
LEMMA GapIsFree ==
    ASSUME NEW F, NEW O, Shape(F, O), NEW k \in DOMAIN Regions,
           NEW a \in Nat, NEW w \in Nat \ {0}, Regions[k].addr <= a, a + w <= MarkerOf(k),
           \A b \in O : a + w <= b.addr \/ EndOf(b) <= a
    PROVE  \E b \in F : b.addr <= a /\ a + w <= EndOf(b)
<1>1. /\ F \subseteq Blocks /\ O \subseteq Blocks
      /\ Disjoint(F \cup O) /\ Covering(F \cup O) /\ Merged(F)
  BY DEF Shape
<1>2. \A b \in F \cup O : b.addr \in Nat /\ b.size \in Nat /\ EndOf(b) \in Nat
                             /\ EndOf(b) = b.addr + b.size
  BY <1>1, BlockIs
<1>3. Regions[k].addr \in Nat /\ MarkerOf(k) \in Nat
  BY RegionIs
<1>4. ASSUME NEW y \in Nat, a <= y, y < a + w
      PROVE  \E b \in F : Holds(b, y)
  <2>1. PICK b \in F \cup O : Holds(b, y)
    BY <1>1, <1>3, <1>4 DEF Covering
  <2>2. b \notin O
    BY <2>1, <1>2, <1>4 DEF Holds
  <2> QED
    BY <2>1, <2>2
<1>5. PICK b \in F : Holds(b, a)
  BY <1>4
<1>6. ASSUME EndOf(b) < a + w PROVE FALSE
  <2> DEFINE e == EndOf(b)
  <2>1. e \in Nat /\ a <= e /\ e < a + w
    BY <1>2, <1>5, <1>6 DEF Holds
  <2> HIDE DEF e
  <2>2. PICK c \in F : Holds(c, e)
    BY <2>1, <1>4
  <2>3. c # b
    BY <2>2, <1>2 DEF Holds, e
  <2>4. Before(b, c) \/ Before(c, b)
    BY <2>3, <1>1 DEF Disjoint
  <2>5. ~Before(c, b)
    BY <2>1, <2>2, <1>2, <1>5 DEF Holds, Before
  <2>6. e = c.addr
    BY <2>1, <2>2, <2>4, <2>5, <1>2 DEF Holds, Before, e
  <2>7. c.size = 0
    BY <2>6, <1>1 DEF Merged, e
  <2> QED
    BY <2>1, <2>2, <2>6, <2>7, <1>2 DEF Holds
<1> QED
  BY <1>2, <1>5, <1>6 DEF Holds

LEMMA RefusalsAreDue == LayoutInv /\ CountInv => RefusesOnlyWhenFull
<1> SUFFICES ASSUME LayoutInv, CountInv, SetUp, NEW n \in Requests \ {0},
                    n + H <= SizeMax, Gap(n + H)
             PROVE  Fit(WantedSize(n)) # {}
  BY DEF RefusesOnlyWhenFull
<1> DEFINE w == n + H
<1>1. WantedSize(n) = w /\ w \in Nat \ {0}
  <2>1. n \in Asked
    BY DEF Asked
  <2>2. n \in Nat /\ n > 0
    BY RequestAssumption
  <2> QED
    BY <2>1, <2>2, AskedIs
<1>2. Shape(Free, Owned) /\ freeList \in Seq(Blocks) /\ Chain(freeList)
      /\ xFreeBytesRemaining = Cardinality(BytesOf(Free))
  BY DEF LayoutInv, Listed, SetUp, CountInv
<1>3. PICK k \in DOMAIN Regions : \E a \in Regions[k].addr .. (MarkerOf(k) - w) :
         \A b \in Owned : a + w <= b.addr \/ EndOf(b) <= a
  BY DEF Gap
<1>4. PICK a \in Regions[k].addr .. (MarkerOf(k) - w) :
         \A b \in Owned : a + w <= b.addr \/ EndOf(b) <= a
  BY <1>3
<1> HIDE DEF w
<1>5. a \in Nat /\ Regions[k].addr <= a /\ a + w <= MarkerOf(k)
  BY <1>1, RegionIs
<1>6. PICK b \in Free : b.addr <= a /\ a + w <= EndOf(b)
  BY <1>1, <1>2, <1>4, <1>5, GapIsFree
<1>7. b \in Blocks /\ b.size \in Nat /\ w <= b.size
  <2>1. b \in Blocks
    BY <1>2 DEF Shape
  <2>2. b.addr \in Nat /\ b.size \in Nat /\ EndOf(b) = b.addr + b.size
    BY <2>1, BlockIs
  <2> QED
    BY <2>1, <2>2, <1>1, <1>5, <1>6
<1>8. b.size <= xFreeBytesRemaining
  <2> DEFINE x == b.addr
             z == b.addr + b.size - 1
  <2>1. x \in Int /\ z \in Int /\ b.size = IF x > z THEN 0 ELSE z - x + 1
    BY <1>7, BlockIs
  <2>2. x .. z \subseteq BytesOf(Free)
    BY DEF BytesOf, Bytes
  <2>3. IsFiniteSet(BytesOf(Free))
    <3>1. /\ Free \subseteq Blocks /\ Owned \subseteq Blocks /\ Free \cap Owned = {}
          /\ Disjoint(Free \cup Owned) /\ Housed(Free \cup Owned)
      BY <1>2 DEF Shape
    <3> QED
      BY <3>1, Counted
  <2> HIDE DEF x, z
  <2>4. Cardinality(x .. z) = b.size
    BY <2>1, FS_Interval
  <2>5. Cardinality(x .. z) <= Cardinality(BytesOf(Free))
    BY <2>2, <2>3, FS_Subset
  <2> QED
    BY <2>4, <2>5, <1>2
<1>9. w <= xFreeBytesRemaining
  <2>1. xFreeBytesRemaining \in Nat
    BY DEF CountInv
  <2> QED
    BY <2>1, <1>1, <1>7, <1>8
<1>10. PICK i \in 1 .. Len(freeList) : b = freeList[i]
  BY <1>2, ChainItems DEF Free
<1> QED
  BY <1>1, <1>2, <1>7, <1>9, <1>10, FitIs

LEMMA CountsAgree == CountInv => Accounting
  BY DEF CountInv, Accounting, SetUp, Shown

-----------------------------------------------------------------------------
(* The list is in address order and ends with pxEnd at all times, whatever *)
(* the regions, sizes and requests: the search of                          *)
(* prvInsertBlockIntoFreeList rests on it.                                 *)
THEOREM ListStaysOrdered == FarSpec => []Ordered
  BY HeapInductive, ListOrdered, PTL DEF HeapInv

(* Every byte below an end marker is in exactly one block, free or owned:  *)
(* pvPortMalloc and vPortFree lose none and lend none twice.               *)
THEOREM BytesAreTiled == FarSpec => []Tiling
  BY HeapInductive, LayoutTiles, PTL DEF HeapInv

(* pvPortMalloc returns NULL only when no run of bytes that nobody owns is *)
(* long enough: vPortFree has joined all neighbours.                       *)
THEOREM RefusesOnlyFull == FarSpec => []RefusesOnlyWhenFull
  BY HeapInductive, RefusalsAreDue, PTL DEF HeapInv

(* xFreeBytesRemaining is the number of free bytes, its low-water mark is  *)
(* below it, and the call counters differ by the blocks lent.              *)
THEOREM CountersAgree == FarSpec => []Accounting
  BY HeapInductive, CountsAgree, PTL DEF HeapInv

(* What an application wrote is in no block but one of the application's   *)
(* (configHEAP_CLEAR_MEMORY_ON_FREE), if memset can count what a region    *)
(* holds, as it can the 64 KB of a bank.                                   *)
THEOREM FreedDataIsGone ==
    ASSUME RegionsFitSize
    PROVE  FarSpec => []NoDataLeft
<1>1. Init => NoDataLeft
  BY DEF Init, NoDataLeft
<1>2. LayoutInv /\ NoDataLeft /\ [FarNext]_vars => NoDataLeft'
  BY DataStep
<1>3. FarSpec => []LayoutInv
  BY HeapInductive, PTL DEF HeapInv
<1> QED
  BY <1>1, <1>2, <1>3, PTL DEF FarSpec

-----------------------------------------------------------------------------
(* The promise of the heap.                                                *)

LEMMA PromiseStarts == Init => Promise!Init
  BY DEF Init, Promise!Init, Owned, SetUp

LEMMA LendsAsPromised ==
    ASSUME LayoutInv, pxEnd # NULL, NEW n \in Asked, NEW i \in Fit(WantedSize(n)), NEW z,
           Take(i, WantedSize(n), z)
    PROVE  Promise!Lend(n)
<1> DEFINE w == WantedSize(n)
           g == Granted(freeList, i, w)
           extra == g.size - w
<1>1. w \in Nat
  BY AskedIs
<1>2. /\ g \in Blocks /\ w > 0 /\ w <= g.size /\ g.size <= w + heapMINIMUM_BLOCK_SIZE
      /\ g \notin Owned /\ Owned' = Owned \cup {g} /\ Shape(Free', Owned')
  BY <1>1, TakeIs
<1>3. w = n + H /\ n \in Nat /\ H \in Nat
  BY <1>2, AskedIs
<1> HIDE DEF w, g
<1>4. /\ g.addr \in Nat /\ g.size \in Nat /\ EndOf(g) = g.addr + g.size
      /\ g = [addr |-> g.addr, size |-> g.size]
  BY <1>2, BlockIs DEF Blocks
<1>5. heapMINIMUM_BLOCK_SIZE = 2 * H
  BY DEF heapMINIMUM_BLOCK_SIZE
<1>6. extra \in 0 .. heapMINIMUM_BLOCK_SIZE /\ n + H + extra = g.size
  BY <1>1, <1>2, <1>3, <1>4, <1>5
<1>7. PICK k \in DOMAIN Regions : InRegion(g, k)
  BY <1>2 DEF Shape, Housed
<1> DEFINE u == [first |-> Regions[k].addr, limit |-> MarkerOf(k)]
<1>8. /\ u \in {[first |-> Regions[j].addr, limit |-> MarkerOf(j)] : j \in DOMAIN Regions}
      /\ u.first = Regions[k].addr /\ u.limit = MarkerOf(k)
  OBVIOUS
<1> HIDE DEF u, extra
<1>9. g.addr \in u.first .. u.limit /\ g.addr + g.size <= u.limit
  <2>1. Regions[k].addr \in Nat /\ MarkerOf(k) \in Nat
    BY RegionIs
  <2> QED
    BY <2>1, <1>4, <1>7, <1>8 DEF InRegion
<1>10. \A c \in Owned : g.addr + g.size <= c.addr \/ c.addr + c.size <= g.addr
  <2>1. \A c \in Owned : c # g /\ c \in Owned' /\ g \in Owned'
    BY <1>2
  <2>2. \A c \in Owned : Before(g, c) \/ Before(c, g)
    BY <2>1, <1>2 DEF Shape, Disjoint
  <2> QED
    BY <2>2, <1>4 DEF Before, EndOf
<1>11. SetUp /\ SetUp' = SetUp
  BY DEF SetUp, Take
<1>12. [addr |-> g.addr, size |-> n + H + extra] = g
  BY <1>4, <1>6
<1>13. \E v \in {[first |-> Regions[j].addr, limit |-> MarkerOf(j)] : j \in DOMAIN Regions} :
         \E a \in v.first .. v.limit : \E x \in 0 .. heapMINIMUM_BLOCK_SIZE :
            LET b == [addr |-> a, size |-> n + H + x]
            IN  /\ b.addr + b.size <= v.limit
                /\ \A c \in Owned : b.addr + b.size <= c.addr \/ c.addr + c.size <= b.addr
                /\ Owned' = Owned \cup {b}
  <2> USE <1>6, <1>8, <1>9
  <2> WITNESS u \in {[first |-> Regions[j].addr, limit |-> MarkerOf(j)] : j \in DOMAIN Regions}
  <2> WITNESS g.addr \in u.first .. u.limit
  <2> WITNESS extra \in 0 .. heapMINIMUM_BLOCK_SIZE
  <2> QED
    BY <1>2, <1>9, <1>10, <1>12
<1> QED
  BY <1>11, <1>13 DEF Promise!Lend, Promise!Apart

LEMMA PromiseStep ==
    LayoutInv /\ [FarNext]_vars => [Promise!Next]_<<Owned, SetUp>>
<1> SUFFICES ASSUME LayoutInv, [FarNext]_vars
             PROVE  Promise!Next \/ UNCHANGED <<Owned, SetUp>>
  OBVIOUS
<1>1. ASSUME vPortDefineHeapRegions PROVE Promise!Open
  BY <1>1, DefineIs DEF Promise!Open, SetUp
<1>2. ASSUME vPortHeapResetState PROVE Promise!Close
  BY <1>2 DEF vPortHeapResetState, Promise!Close, Owned, SetUp
<1>3. ASSUME UNCHANGED heap PROVE UNCHANGED <<Owned, SetUp>>
  BY <1>3 DEF heap, Owned, SetUp
<1>4. ASSUME NEW b \in allocated, Write(b) \/ Release(b) PROVE UNCHANGED <<Owned, SetUp>>
  BY <1>4 DEF Write, Release, Owned, SetUp
<1>5. ASSUME NEW b \in freeing, vPortFree(b) PROVE b \in Owned /\ Promise!TakeBack(b)
  BY <1>5, FreeIs DEF Promise!TakeBack, SetUp
<1>6. /\ UNCHANGED vars => UNCHANGED heap
      /\ xPortResetHeapMinimumEverFreeHeapSize => UNCHANGED heap
  BY DEF vars, xPortResetHeapMinimumEverFreeHeapSize
<1>7. ASSUME pxEnd # NULL, NEW n \in Asked, NEW i \in Fit(WantedSize(n)), NEW z,
             Take(i, WantedSize(n), z)
      PROVE  \E m \in Requests \cup {a[1] * a[2] : a \in Arrays} : Promise!Lend(m)
  BY <1>7, LendsAsPromised DEF Asked
<1> QED
  BY <1>1, <1>2, <1>3, <1>4, <1>5, <1>6, <1>7, HeapSteps DEF Promise!Next

(* The heap of heap_5.c and farheap.c keeps the promise of HeapPromise:    *)
(* what pvPortMalloc lends lies inside the usable part of one region,      *)
(* apart from all that is lent, and is at most two headers too long.       *)
THEOREM HeapKeepsPromise == FarSpec => KeepsPromise
<1>1. HeapInv /\ [FarNext]_vars => [Promise!Next]_<<Owned, SetUp>>
  BY PromiseStep DEF HeapInv
<1> QED
  BY <1>1, HeapInductive, PromiseStarts, PTL DEF FarSpec, KeepsPromise, Promise!Spec

-----------------------------------------------------------------------------
(* The stack heap: one region, and a mark in the size of a block.          *)

(* The operators of FreeList are those of the region heap.                 *)
LEMMA SameOperators ==
    /\ \A a, n : Stack!Block(a, n) = Block(a, n)
    /\ \A b : Stack!EndOf(b) = EndOf(b)
    /\ \A s, i, w : Stack!Granted(s, i, w) = Granted(s, i, w)
    /\ \A s, i, w : Stack!ListAfterGrant(s, i, w) = ListAfterGrant(s, i, w)
    /\ \A s, w : Stack!FirstFit(s, w) = FirstFit(s, w)
    /\ \A s, b, end : Stack!Insert(s, b, end) = Insert(s, b, end)
<1>1. \A a, n : Stack!Block(a, n) = Block(a, n)
  BY DEF Stack!Block, Block
<1>2. \A b : Stack!EndOf(b) = EndOf(b)
  BY DEF Stack!EndOf, EndOf
<1>3. \A b, w : Stack!Splits(b, w) = Splits(b, w)
  BY DEF Stack!Splits, Splits, Stack!heapMINIMUM_BLOCK_SIZE, heapMINIMUM_BLOCK_SIZE
<1>4. \A s, i, w : Stack!Granted(s, i, w) = Granted(s, i, w)
  BY <1>1, <1>3 DEF Stack!Granted, Granted
<1>5. \A s, i, w : Stack!ListAfterGrant(s, i, w) = ListAfterGrant(s, i, w)
  BY <1>1, <1>3 DEF Stack!ListAfterGrant, ListAfterGrant, Stack!ReplaceAt, ReplaceAt, Stack!RemoveAt, RemoveAt
<1>6. \A s, w : Stack!FirstFit(s, w) = FirstFit(s, w)
  BY DEF Stack!FirstFit, FirstFit, Stack!SelectInSeq, SelectInSeq, Stack!Min, Min
<1>7. ASSUME NEW s, NEW b, NEW end PROVE Stack!Insert(s, b, end) = Insert(s, b, end)
  <2> DEFINE I == {i \in 1 .. Len(s) : s[i].addr < b.addr}
             p == IF I # {} THEN Max(I) ELSE 0
             join(q) ==
                LET joinsPrev == q # 0 /\ EndOf(s[q]) = b.addr
                    before == SubSeq(s, 1, IF joinsPrev THEN q - 1 ELSE q)
                    front  == IF joinsPrev THEN Block(s[q].addr, s[q].size + b.size) ELSE b
                    next   == s[q + 1]
                IN  IF JoinsNext(front, next, end)
                    THEN before \o <<Block(front.addr, front.size + next.size)>>
                                \o SubSeq(s, q + 2, Len(s))
                    ELSE before \o <<front>> \o SubSeq(s, q + 1, Len(s))
  <2>1. /\ SelectLastInSeq(s, LAMBDA x : x.addr < b.addr) = p
        /\ Stack!SelectLastInSeq(s, LAMBDA x : x.addr < b.addr) = p
    BY DEF SelectLastInSeq, Stack!SelectLastInSeq, Max, Stack!Max
  <2>2. Insert(s, b, end) = join(SelectLastInSeq(s, LAMBDA x : x.addr < b.addr))
    BY DEF Insert
  <2>3. \A f, n : Stack!JoinsNext(f, n, end) = JoinsNext(f, n, end)
    BY <1>2 DEF Stack!JoinsNext, JoinsNext
  <2>4. Stack!Insert(s, b, end) = join(Stack!SelectLastInSeq(s, LAMBDA x : x.addr < b.addr))
    BY <1>1, <1>2, <2>3 DEF Stack!Insert
  <2> HIDE DEF p, join
  <2> QED
    BY <2>1, <2>2, <2>4
<1> QED
  BY <1>1, <1>2, <1>4, <1>5, <1>6, <1>7

(* The memory of the stack heap is one region, below twice the mark.       *)
StackPlace == Len(Regions) = 1 /\ TopBit \in Nat /\ Regions[1].size < 2 * TopBit

(* No request is so near the mark that the block it gets would reach it.   *)
OffTheMark == \A n \in Requests : n + 3 * H < TopBit \/ n + H >= TopBit

StackInv ==
    /\ pxEnd = NULL => freeList = <<>> /\ allocated = {} /\ freeing = {}
    /\ pxEnd # NULL =>
          /\ pxEnd = MarkerOf(1)
          /\ Walk(freeList) /\ Shape(ToSet(freeList), Stack!InUse)
          /\ xFreeBytesRemaining = Cardinality(BytesOf(ToSet(freeList)))
    /\ \A b \in allocated :
          b \in Blocks /\ TopBit <= b.size /\ b.size < 2 * TopBit /\ Stack!Unmark(b) \notin freeing

(* A marked block is told from its block by the mark alone.                *)
LEMMA Marks ==
    ASSUME TopBit \in Nat, NEW b \in Blocks
    PROVE  /\ b.size < TopBit =>
                 /\ Stack!Mark(b) = Block(b.addr, b.size + TopBit)
                 /\ Stack!Mark(b) \in Blocks
                 /\ TopBit <= Stack!Mark(b).size /\ Stack!Mark(b).size < 2 * TopBit
                 /\ Stack!Unmark(Stack!Mark(b)) = b
           /\ TopBit <= b.size /\ b.size < 2 * TopBit =>
                 Stack!Unmark(b) = Block(b.addr, b.size - TopBit)
<1>1. b.addr \in Nat /\ b.size \in Nat /\ b = Block(b.addr, b.size)
  BY DEF Blocks, Block
<1>2. ASSUME NEW m \in Nat, m < TopBit PROVE (TopBit + m) % TopBit = m
  <2>1. TopBit \in Nat \ {0} /\ m \in 0 .. TopBit - 1 /\ 1 \in Nat
    BY <1>2
  <2>2. (1 * TopBit + m) % TopBit = m
    BY <2>1, Residue
  <2>3. 1 * TopBit + m = TopBit + m
    OBVIOUS
  <2> QED
    BY <2>2, <2>3
<1>3. ASSUME NEW a \in Nat, NEW m \in Nat, m < TopBit
      PROVE  Stack!Unmark(Block(a, m + TopBit)) = Block(a, m)
  <2>1. (m + TopBit) % TopBit = m
    <3>1. m + TopBit = TopBit + m
      BY <1>3
    <3> QED
      BY <3>1, <1>2, <1>3
  <2>2. Stack!Unmark(Block(a, m + TopBit)) = Block(a, (m + TopBit) % TopBit)
    BY DEF Stack!Unmark, Block
  <2> QED
    BY <2>1, <2>2
<1>4. ASSUME b.size < TopBit
      PROVE  /\ Stack!Mark(b) = Block(b.addr, b.size + TopBit)
             /\ Stack!Mark(b) \in Blocks
             /\ TopBit <= Stack!Mark(b).size /\ Stack!Mark(b).size < 2 * TopBit
             /\ Stack!Unmark(Stack!Mark(b)) = b
  <2>1. ~(b.size >= TopBit) /\ b.size + TopBit \in Nat
    BY <1>1, <1>4
  <2>2. Stack!Mark(b) = Block(b.addr, b.size + TopBit)
    BY <2>1 DEF Stack!Mark, Block, Blocks
  <2>3. /\ Block(b.addr, b.size + TopBit) \in Blocks
        /\ Block(b.addr, b.size + TopBit).size = b.size + TopBit
    BY <1>1, <2>1, NewBlock
  <2>4. TopBit <= b.size + TopBit /\ b.size + TopBit < 2 * TopBit
    BY <1>1, <1>4
  <2>5. Stack!Unmark(Block(b.addr, b.size + TopBit)) = Block(b.addr, b.size)
    BY <1>1, <1>3, <1>4
  <2> QED
    BY <1>1, <2>2, <2>3, <2>4, <2>5
<1>5. ASSUME TopBit <= b.size, b.size < 2 * TopBit
      PROVE  Stack!Unmark(b) = Block(b.addr, b.size - TopBit)
  <2>1. b.size - TopBit \in Nat /\ b.size - TopBit < TopBit /\ (b.size - TopBit) + TopBit = b.size
    BY <1>1, <1>5
  <2>2. Stack!Unmark(Block(b.addr, (b.size - TopBit) + TopBit)) = Block(b.addr, b.size - TopBit)
    BY <1>1, <1>3, <2>1
  <2> QED
    BY <1>1, <2>1, <2>2
<1> QED
  BY <1>4, <1>5

LEMMA MarkedApart ==
    ASSUME StackInv, TopBit \in Nat, NEW b \in allocated, NEW c \in allocated, b # c
    PROVE  Stack!Unmark(b) # Stack!Unmark(c)
<1>1. /\ b \in Blocks /\ TopBit <= b.size /\ b.size < 2 * TopBit
      /\ c \in Blocks /\ TopBit <= c.size /\ c.size < 2 * TopBit
  BY DEF StackInv
<1>2. /\ b.addr \in Nat /\ b.size \in Nat /\ b = Block(b.addr, b.size)
      /\ c.addr \in Nat /\ c.size \in Nat /\ c = Block(c.addr, c.size)
  BY <1>1 DEF Blocks, Block
<1>3. /\ Stack!Unmark(b) = Block(b.addr, b.size - TopBit)
      /\ Stack!Unmark(c) = Block(c.addr, c.size - TopBit)
  BY <1>1, Marks
<1>4. b.addr # c.addr \/ b.size # c.size
  BY <1>2
<1>5. b.addr # c.addr \/ b.size - TopBit # c.size - TopBit
  BY <1>2, <1>4
<1> QED
  BY <1>3, <1>5 DEF Block

(* The list that prvHeapInit builds.                                       *)
LEMMA StackBegins ==
    ASSUME StackPlace
    PROVE  /\ Walk(NewList) /\ Shape(ToSet(NewList), {})
           /\ NewList = <<Stack!Block(Regions[1].addr, Stack!Total), Stack!Block(Stack!EndMarker, 0)>>
           /\ Stack!Total = Cardinality(BytesOf(ToSet(NewList)))
           /\ Stack!EndMarker = MarkerOf(1)
           /\ FirstBlock(1) = Block(Regions[1].addr, Stack!Total)
<1>1. /\ Len(Regions) = 1 /\ 1 \in DOMAIN Regions /\ Regions[1].addr \in Nat /\ MarkerOf(1) \in Nat
      /\ FirstBlock(1) \in Blocks /\ FirstBlock(1).size = MarkerOf(1) - Regions[1].addr
      /\ FirstBlock(1).addr = Regions[1].addr
  BY RegionIs DEF StackPlace
<1>2. Walk(NewList) /\ Shape(ToSet(NewList), {})
  BY NewListIs DEF Walk
<1>3. Stack!EndMarker = MarkerOf(1) /\ Stack!Total = FirstBlock(1).size
  BY <1>1 DEF Stack!EndMarker, MarkerOf, Stack!Total
<1>4. Stack!Total = Cardinality(BytesOf(ToSet(NewList)))
  <2>1. SizeUpTo[1] = SizeUpTo[1 - 1] + FirstBlock(1).size /\ SizeUpTo[0] = 0
    BY <1>1, SizeUpToIs
  <2>2. 1 - 1 = 0 /\ FirstBlock(1).size \in Nat
    BY <1>1, BlockIs
  <2>3. SizeUpTo[1] = FirstBlock(1).size
    BY <2>1, <2>2
  <2> QED
    BY <2>3, <1>1, <1>3, NewBytes
<1>5. Block(Regions[1].addr, Stack!Total) = FirstBlock(1)
  BY <1>1, <1>3 DEF Block, FirstBlock
<1>6. NewList = <<FirstBlock(1), Block(MarkerOf(1), 0)>>
  <2> DEFINE s == <<FirstBlock(1), Block(MarkerOf(1), 0)>>
  <2>1. s \in Seq(Blocks) /\ Len(s) = 2 /\ s[1] = FirstBlock(1) /\ s[2] = Block(MarkerOf(1), 0)
    <3>1. Block(MarkerOf(1), 0) \in Blocks
      BY <1>1, NewBlock
    <3> QED
      BY <3>1, <1>1
  <2>2. /\ NewList \in Seq(Blocks) /\ Len(NewList) = 2
        /\ NewList[1] = FirstBlock(1) /\ NewList[2] = Block(MarkerOf(1), 0)
    <3>1. 2 * 1 - 1 = 1 /\ 2 * 1 = 2
      OBVIOUS
    <3>2. NewList[2 * 1 - 1] = FirstBlock(1) /\ NewList[2 * 1] = Block(MarkerOf(1), 0)
      BY <1>1, NewListItems
    <3> QED
      BY <3>1, <3>2, <1>1, NewListItems
  <2> HIDE DEF s
  <2>3. \A i \in 1 .. 2 : NewList[i] = s[i]
    BY <2>1, <2>2
  <2>4. NewList = s
    BY <2>1, <2>2, <2>3, SeqEqual
  <2> QED
    BY <2>4 DEF s
<1> QED
  BY <1>2, <1>3, <1>4, <1>5, <1>6, SameOperators

(* What a section of the stack heap finds, set up or not.                  *)
LEMMA StackFinds ==
    ASSUME StackPlace, StackInv
    PROVE  /\ Walk(Stack!List) /\ Shape(ToSet(Stack!List), Stack!InUse)
           /\ Stack!Bytes = Cardinality(BytesOf(ToSet(Stack!List)))
           /\ Stack!EndMarker = MarkerOf(1) /\ MarkerOf(1) # NULL
<1>1. Stack!EndMarker = MarkerOf(1) /\ MarkerOf(1) # NULL
  <2>1. 1 \in DOMAIN Regions
    BY RegionIs DEF StackPlace
  <2> QED
    BY <2>1, RegionIs, AddressAssumption, StackBegins
<1>2. ASSUME pxEnd = NULL
      PROVE  /\ Walk(Stack!List) /\ Shape(ToSet(Stack!List), Stack!InUse)
             /\ Stack!Bytes = Cardinality(BytesOf(ToSet(Stack!List)))
  <2>1. Stack!InUse = {}
    BY <1>2 DEF StackInv, Stack!InUse
  <2>2. Stack!List = NewList /\ Stack!Bytes = Stack!Total
    BY <1>2, StackBegins DEF Stack!List, Stack!Bytes, Stack!FirstCall
  <2> QED
    BY <2>1, <2>2, StackBegins
<1>3. ASSUME pxEnd # NULL
      PROVE  /\ Walk(Stack!List) /\ Shape(ToSet(Stack!List), Stack!InUse)
             /\ Stack!Bytes = Cardinality(BytesOf(ToSet(Stack!List)))
  <2>1. Stack!List = freeList /\ Stack!Bytes = xFreeBytesRemaining
    BY <1>3 DEF Stack!List, Stack!Bytes, Stack!FirstCall
  <2> QED
    BY <1>3, <2>1 DEF StackInv
<1> QED
  BY <1>1, <1>2, <1>3

LEMMA FirstFits ==
    ASSUME NEW s \in Seq(Blocks), NEW w \in Nat, FirstFit(s, w) # 0
    PROVE  FirstFit(s, w) \in 1 .. Len(s) /\ w <= s[FirstFit(s, w)].size
<1> DEFINE I == {i \in 1 .. Len(s) : s[i].size >= w}
<1>1. FirstFit(s, w) = IF I # {} THEN Min(I) ELSE 0
  BY DEF FirstFit, SelectInSeq
<1>2. I \subseteq Nat
  BY LenProperties
<1>3. I # {} => Min(I) \in I
  BY <1>2, LeastNumber
<1>4. \A i \in 1 .. Len(s) : s[i].size \in Nat
  BY BlockIs, LenProperties
<1>5. \A i \in I : i \in 1 .. Len(s) /\ w <= s[i].size
  BY <1>4
<1> HIDE DEF I
<1> QED
  BY <1>1, <1>3, <1>5

(* The size of a block that is granted keeps clear of the mark.            *)
LEMMA StackGrants ==
    ASSUME StackPlace, OffTheMark, StackInv, NEW n \in Requests, NEW i \in Stack!Fit(Stack!WantedSize(n))
    PROVE  LET w == Stack!WantedSize(n)
               g == Granted(Stack!List, i, w)
           IN  /\ w \in Nat \ {0} /\ i \in 1 .. Len(Stack!List) /\ w <= Stack!List[i].size
               /\ g \in Blocks /\ g.size < TopBit
<1> DEFINE w == Stack!WantedSize(n)
           g == Granted(Stack!List, i, w)
<1>1. n \in Nat /\ H \in Nat \ {0} /\ TopBit \in Nat
  BY RequestAssumption, HeaderAssumption DEF StackPlace
<1>2. w = 0 \/ w = n + H
  BY DEF Stack!WantedSize
<1>3. /\ w < TopBit /\ w > 0
      /\ i # 0 /\ i = Stack!FirstFit(Stack!List, w)
  BY DEF Stack!Fit
<1>4. w \in Nat \ {0} /\ w + 2 * H < TopBit
  BY <1>1, <1>2, <1>3 DEF OffTheMark
<1> HIDE DEF w
<1>5. Stack!List \in Seq(Blocks) /\ Walk(Stack!List) /\ Shape(ToSet(Stack!List), Stack!InUse)
  BY StackFinds DEF Walk
<1>6. i \in 1 .. Len(Stack!List) /\ w <= Stack!List[i].size
  BY <1>3, <1>4, <1>5, FirstFits, SameOperators
<1>7. g \in Blocks /\ g.size <= w + heapMINIMUM_BLOCK_SIZE
  BY <1>4, <1>5, <1>6, CutIs
<1> HIDE DEF g
<1>8. g.size < TopBit
  <2>1. g.size \in Nat /\ heapMINIMUM_BLOCK_SIZE = 2 * H
    BY <1>7, BlockIs DEF heapMINIMUM_BLOCK_SIZE
  <2> QED
    BY <2>1, <1>1, <1>4, <1>7
<1> QED
  BY <1>4, <1>6, <1>7, <1>8 DEF g, w

LEMMA StackMalloc ==
    ASSUME StackPlace, OffTheMark, StackInv, NEW n \in Requests, Stack!pvPortMallocStack(n)
    PROVE  StackInv'
<1>1. /\ Walk(Stack!List) /\ Shape(ToSet(Stack!List), Stack!InUse)
      /\ Stack!Bytes = Cardinality(BytesOf(ToSet(Stack!List)))
      /\ Stack!EndMarker = MarkerOf(1) /\ MarkerOf(1) # NULL
  BY StackFinds
<1>2. pxEnd' = MarkerOf(1) /\ freeing' = freeing
  BY <1>1 DEF Stack!pvPortMallocStack
<1>3. ASSUME freeList' = Stack!List, xFreeBytesRemaining' = Stack!Bytes, UNCHANGED allocated
      PROVE  StackInv'
  <2>1. Stack!InUse' = Stack!InUse
    BY <1>2, <1>3 DEF Stack!InUse
  <2>2. Walk(freeList') /\ Shape(ToSet(freeList'), Stack!InUse')
    BY <1>1, <1>3, <2>1
  <2>3. xFreeBytesRemaining' = Cardinality(BytesOf(ToSet(freeList')))
    BY <1>1, <1>3
  <2>4. Walk(freeList)' /\ (pxEnd = MarkerOf(1))' /\ (pxEnd # NULL)'
    BY <1>1, <1>2, <2>2 DEF Walk
  <2> QED
    BY <1>2, <1>3, <2>2, <2>3, <2>4 DEF StackInv
<1>4. ASSUME NEW i \in Stack!Fit(Stack!WantedSize(n)), NEW b,
             b = Stack!Granted(Stack!List, i, Stack!WantedSize(n)),
             freeList' = Stack!ListAfterGrant(Stack!List, i, Stack!WantedSize(n)),
             allocated' = allocated \cup {Stack!Mark(b)},
             xFreeBytesRemaining' = Stack!Bytes - b.size
      PROVE  StackInv'
  <2> DEFINE w == Stack!WantedSize(n)
             t == ListAfterGrant(Stack!List, i, w)
  <2>1. /\ w \in Nat \ {0} /\ i \in 1 .. Len(Stack!List) /\ w <= Stack!List[i].size
        /\ b \in Blocks /\ b.size < TopBit /\ b = Granted(Stack!List, i, w)
    BY <1>4, StackGrants, SameOperators
  <2>2. freeList' = t
    BY <1>4, SameOperators
  <2> HIDE DEF w
  <2>3. /\ b \notin Stack!InUse /\ Walk(t) /\ Shape(ToSet(t), Stack!InUse \cup {b})
        /\ BytesOf(ToSet(Stack!List)) = BytesOf(ToSet(t)) \cup Bytes(b.addr, b.size)
    BY <1>1, <2>1, CutIs
  <2> HIDE DEF t
  <2>4. /\ Stack!Mark(b) \in Blocks
        /\ TopBit <= Stack!Mark(b).size /\ Stack!Mark(b).size < 2 * TopBit
        /\ Stack!Unmark(Stack!Mark(b)) = b
    BY <2>1, Marks DEF StackPlace
  <2>5. Stack!InUse' = Stack!InUse \cup {b} /\ b \notin freeing
    BY <1>2, <1>4, <2>3, <2>4 DEF Stack!InUse
  <2>6. xFreeBytesRemaining' = Cardinality(BytesOf(ToSet(t)))
    <3> DEFINE F == ToSet(t)
               O == Stack!InUse \cup {b}
               cards == Cardinality(BytesOf(F))
    <3>1. /\ F \subseteq Blocks /\ O \subseteq Blocks /\ F \cap O = {}
          /\ Disjoint(F \cup O) /\ Housed(F \cup O) /\ b \in O
      BY <2>3 DEF Shape
    <3> HIDE DEF F, O
    <3>2. /\ cards \in Nat
          /\ Cardinality(BytesOf(F) \cup Bytes(b.addr, b.size)) = cards + b.size
      BY <3>1, Counted
    <3>3. Stack!Bytes = cards + b.size
      BY <1>1, <2>3, <3>2 DEF F
    <3> HIDE DEF cards
    <3>4. b.size \in Nat
      BY <2>1, BlockIs
    <3>5. xFreeBytesRemaining' = cards
      BY <1>4, <3>2, <3>3, <3>4
    <3> QED
      BY <3>5 DEF cards, F
  <2>7. (Walk(freeList) /\ Shape(ToSet(freeList), Stack!InUse))'
    BY <2>2, <2>3, <2>5
  <2>8. (xFreeBytesRemaining = Cardinality(BytesOf(ToSet(freeList))))'
    BY <2>2, <2>6
  <2>9. \A c \in allocated' : c \in Blocks /\ TopBit <= c.size /\ c.size < 2 * TopBit
                              /\ Stack!Unmark(c) \notin freeing'
    BY <1>2, <1>4, <2>4, <2>5 DEF StackInv
  <2> QED
    BY <1>1, <1>2, <2>7, <2>8, <2>9 DEF StackInv
<1> QED
  BY <1>3, <1>4 DEF Stack!pvPortMallocStack

LEMMA StackRelease ==
    ASSUME StackPlace, StackInv, NEW b \in allocated, Stack!Release(b)
    PROVE  StackInv'
<1>1. /\ allocated' = allocated \ {b} /\ freeing' = freeing \cup {Stack!Unmark(b)}
      /\ freeList' = freeList /\ pxEnd' = pxEnd /\ xFreeBytesRemaining' = xFreeBytesRemaining
  BY DEF Stack!Release
<1>2. Stack!InUse' = Stack!InUse
  BY <1>1 DEF Stack!InUse
<1>3. pxEnd # NULL
  BY DEF StackInv
<1>4. \A c \in allocated' : Stack!Unmark(c) \notin freeing'
  BY <1>1, MarkedApart DEF StackInv, StackPlace
<1>5. (Walk(freeList) /\ Shape(ToSet(freeList), Stack!InUse))'
  BY <1>1, <1>2, <1>3 DEF StackInv
<1> QED
  BY <1>1, <1>3, <1>4, <1>5 DEF StackInv

LEMMA StackFree ==
    ASSUME StackPlace, StackInv, NEW b \in freeing, Stack!vPortFreeStack(b)
    PROVE  StackInv'
<1> DEFINE t == Insert(freeList, b, pxEnd)
           F == ToSet(freeList)
           O == Stack!InUse
<1>1. /\ allocated' = allocated /\ freeing' = freeing \ {b} /\ pxEnd' = pxEnd
      /\ freeList' = t /\ xFreeBytesRemaining' = xFreeBytesRemaining + b.size
  BY SameOperators DEF Stack!vPortFreeStack
<1>2. /\ pxEnd # NULL /\ pxEnd = MarkerOf(1) /\ Walk(freeList) /\ Shape(F, O)
      /\ xFreeBytesRemaining = Cardinality(BytesOf(F))
      /\ b \in O
  BY DEF StackInv, Stack!InUse
<1>3. /\ Walk(t) /\ Shape(ToSet(t), O \ {b})
      /\ BytesOf(ToSet(t)) = BytesOf(F) \cup Bytes(b.addr, b.size)
  BY <1>2, JoinIs DEF StackPlace
<1>4. \A c \in allocated : Stack!Unmark(c) \notin freeing
  BY DEF StackInv
<1> HIDE DEF t
<1>5. Stack!InUse' = O \ {b}
  BY <1>1, <1>4 DEF Stack!InUse
<1> HIDE DEF F, O
<1>6. xFreeBytesRemaining' = Cardinality(BytesOf(ToSet(t)))
  <2>1. /\ F \subseteq Blocks /\ O \subseteq Blocks /\ F \cap O = {}
        /\ Disjoint(F \cup O) /\ Housed(F \cup O)
    BY <1>2 DEF Shape
  <2>2. Cardinality(BytesOf(F) \cup Bytes(b.addr, b.size)) = Cardinality(BytesOf(F)) + b.size
    BY <1>2, <2>1, Counted
  <2> QED
    BY <1>1, <1>2, <1>3, <2>2
<1>7. (Walk(freeList) /\ Shape(ToSet(freeList), Stack!InUse))'
  BY <1>1, <1>3, <1>5
<1>8. (xFreeBytesRemaining = Cardinality(BytesOf(ToSet(freeList))))'
  BY <1>1, <1>6
<1>9. \A c \in allocated' : c \in Blocks /\ TopBit <= c.size /\ c.size < 2 * TopBit
                            /\ Stack!Unmark(c) \notin freeing'
  BY <1>1 DEF StackInv
<1> QED
  BY <1>1, <1>2, <1>7, <1>8, <1>9 DEF StackInv

LEMMA StackStep ==
    ASSUME StackPlace, OffTheMark, StackInv, [Stack!Next]_(Stack!vars)
    PROVE  StackInv'
<1>1. ASSUME UNCHANGED <<freeList, pxEnd, allocated, freeing, xFreeBytesRemaining>>
      PROVE  StackInv'
  <2>1. Stack!InUse' = Stack!InUse
    BY <1>1 DEF Stack!InUse
  <2>2. pxEnd # NULL => (Walk(freeList) /\ Shape(ToSet(freeList), Stack!InUse))'
    BY <1>1, <2>1 DEF StackInv
  <2> QED
    BY <1>1, <2>2 DEF StackInv
<1>2. Stack!vPortHeapResetStateStack => StackInv'
  BY DEF Stack!vPortHeapResetStateStack, StackInv
<1>3. \/ UNCHANGED <<freeList, pxEnd, allocated, freeing, xFreeBytesRemaining>>
      \/ \E n \in Requests : Stack!pvPortMallocStack(n)
      \/ \E b \in allocated : Stack!Release(b)
      \/ \E b \in freeing : Stack!vPortFreeStack(b)
      \/ Stack!vPortHeapResetStateStack
  BY DEF Stack!Next, Stack!vars, Stack!xPortResetHeapMinimumEverFreeHeapSizeStack
<1> QED
  BY <1>1, <1>2, <1>3, StackMalloc, StackRelease, StackFree

LEMMA StackInductive ==
    ASSUME StackPlace, OffTheMark
    PROVE  Stack!Spec => []StackInv
<1>1. Stack!Init => StackInv
  BY DEF Stack!Init, StackInv
<1>2. StackInv /\ [Stack!Next]_(Stack!vars) => StackInv'
  BY StackStep
<1> QED
  BY <1>1, <1>2, PTL DEF Stack!Spec

(* Nothing in use: the free blocks are one block and the end marker.       *)
LEMMA AllIsBack ==
    ASSUME StackPlace, NEW s, Walk(s), Shape(ToSet(s), {})
    PROVE  s = NewList
<1> DEFINE F == ToSet(s)
           l == Block(MarkerOf(1), 0)
           n == Len(s)
<1>1. /\ F \subseteq Blocks /\ Disjoint(F) /\ Housed(F) /\ Covering(F) /\ Merged(F)
  BY DEF Shape
<1>2. /\ DOMAIN Regions = {1} /\ Regions[1].addr \in Nat /\ MarkerOf(1) \in Nat
      /\ Regions[1].addr < MarkerOf(1)
      /\ FirstBlock(1) \in Blocks /\ FirstBlock(1).addr = Regions[1].addr
      /\ EndOf(FirstBlock(1)) = MarkerOf(1)
  BY RegionIs DEF StackPlace
<1>3. \A b \in F : /\ b \in Blocks /\ b.addr \in Nat /\ EndOf(b) \in Nat /\ b.addr <= EndOf(b)
                   /\ Regions[1].addr <= b.addr /\ EndOf(b) <= MarkerOf(1)
  BY <1>1, <1>2, BlockIs DEF Housed, InRegion
<1> HIDE DEF F
<1>4. PICK b \in F : Holds(b, Regions[1].addr)
  BY <1>1, <1>2 DEF Covering
<1>5. b.addr = Regions[1].addr
  BY <1>2, <1>3, <1>4 DEF Holds
<1>6. EndOf(b) = MarkerOf(1)
  <2>1. SUFFICES ASSUME EndOf(b) < MarkerOf(1) PROVE FALSE
    BY <1>2, <1>3
  <2>2. PICK c \in F : Holds(c, EndOf(b))
    BY <2>1, <1>1, <1>2, <1>3 DEF Covering
  <2>3. c # b
    BY <2>2, <1>3 DEF Holds
  <2>4. Before(b, c) \/ Before(c, b)
    BY <2>3, <1>1 DEF Disjoint
  <2>5. c.addr = EndOf(b)
    BY <2>2, <2>4, <1>3, <1>5 DEF Holds, Before
  <2>6. c.size = 0
    BY <2>5, <1>1 DEF Merged
  <2>7. EndOf(c) = c.addr
    BY <2>6, <1>3 DEF Blocks, EndOf
  <2> QED
    BY <2>2, <2>7, <1>3 DEF Holds
<1>7. \A c, d \in Blocks : c.addr = d.addr /\ EndOf(c) = EndOf(d) => c = d
  <2>1. ASSUME NEW c \in Blocks, NEW d \in Blocks, c.addr = d.addr, EndOf(c) = EndOf(d)
        PROVE  c = d
    <3>1. /\ c.addr \in Nat /\ c.size \in Nat /\ EndOf(c) = c.addr + c.size
          /\ d.addr \in Nat /\ d.size \in Nat /\ EndOf(d) = d.addr + d.size
      BY BlockIs
    <3>2. c.size = EndOf(c) - c.addr /\ d.size = EndOf(d) - d.addr
      BY <3>1
    <3>3. c.size = d.size
      BY <2>1, <3>2
    <3> QED
      BY <2>1, <3>3 DEF Blocks
  <2> QED
    BY <2>1
<1>8. b = FirstBlock(1)
  BY <1>2, <1>3, <1>4, <1>5, <1>6, <1>7
<1>9. l \in Blocks /\ l.addr = MarkerOf(1) /\ EndOf(l) = MarkerOf(1)
  <2>1. /\ Block(MarkerOf(1), 0) \in Blocks /\ Block(MarkerOf(1), 0).addr = MarkerOf(1)
        /\ EndOf(Block(MarkerOf(1), 0)) = MarkerOf(1) + 0
    BY <1>2, NewBlock
  <2> QED
    BY <2>1, <1>2
<1> HIDE DEF l
<1>10. ASSUME NEW c \in F, c # b PROVE c = l
  <2>1. Before(b, c) \/ Before(c, b)
    BY <1>1, <1>10 DEF Disjoint
  <2>2. c.addr = MarkerOf(1) /\ EndOf(c) = MarkerOf(1)
    BY <2>1, <1>2, <1>3, <1>5, <1>6 DEF Before
  <2> QED
    BY <2>2, <1>3, <1>7, <1>9
<1>11. /\ s \in Seq(Blocks) /\ Chain(s) /\ s # <<>> /\ s[n] = l
  BY DEF Walk, StackPlace, l
<1>12. /\ n \in Nat /\ \A i \in 1 .. n : s[i] \in F
       /\ \A c \in F : \E i \in 1 .. n : c = s[i]
       /\ \A i, j \in 1 .. n : i # j => s[i] # s[j]
  BY <1>11, ChainItems DEF F
<1>13. n # 0 /\ b # l
  <2>1. n # 0
    BY <1>11, EmptySeq
  <2>2. b.addr # l.addr
    BY <1>2, <1>5, <1>9
  <2> QED
    BY <2>1, <2>2
<1> HIDE DEF n
<1>14. n = 2 /\ s[1] = b
  <2>1. PICK i \in 1 .. n : s[i] = b
    BY <1>4, <1>12
  <2>2. \A j \in 1 .. n : j = i \/ j = n
    <3>1. ASSUME NEW j \in 1 .. n, j # i PROVE j = n
      <4>1. s[j] = l
        BY <2>1, <3>1, <1>10, <1>12
      <4>2. n \in 1 .. n
        BY <1>12, <1>13
      <4> QED
        BY <4>1, <4>2, <1>11, <1>12
    <3> QED
      BY <3>1
  <2>3. i # n
    BY <2>1, <1>11, <1>13
  <2>4. i = 1
    <3>1. 1 \in 1 .. n
      BY <1>12, <1>13
    <3>2. 1 = i \/ 1 = n
      BY <2>2, <3>1
    <3> QED
      BY <2>3, <3>2, <1>12
  <2>5. n = 2
    <3>1. n > 1
      BY <2>3, <2>4, <1>12
    <3>2. 2 \in 1 .. n
      BY <3>1, <1>12
    <3> QED
      BY <2>2, <2>4, <3>2
  <2> QED
    BY <2>1, <2>4, <2>5
<1>15. s = <<b, l>>
  <2> DEFINE u == <<b, l>>
  <2>1. u \in Seq(Blocks) /\ Len(u) = 2 /\ u[1] = b /\ u[2] = l
    BY <1>3, <1>4, <1>9
  <2> HIDE DEF u
  <2>2. Len(s) = 2 /\ \A i \in 1 .. 2 : s[i] = u[i]
    BY <2>1, <1>11, <1>14 DEF n
  <2>3. s = u
    BY <2>1, <2>2, <1>11, SeqEqual
  <2> QED
    BY <2>3 DEF u
<1>16. NewList = <<FirstBlock(1), l>>
  BY StackBegins, SameOperators DEF l
<1> QED
  BY <1>8, <1>15, <1>16

(* No two blocks in use overlap, and none overlaps a free block, however   *)
(* calls of pvPortMallocStack and vPortFreeStack interleave: task stacks   *)
(* are apart.                                                              *)
LEMMA TaskStacksApart ==
    ASSUME StackPlace, OffTheMark
    PROVE  Stack!Spec => []Stack!StacksApart
<1>1. StackInv => Stack!StacksApart
  <2> SUFFICES ASSUME StackInv,
                      NEW b \in Stack!InUse \cup Stack!ToSet(freeList),
                      NEW c \in Stack!InUse \cup Stack!ToSet(freeList), b # c
               PROVE  Stack!EndOf(b) <= c.addr \/ Stack!EndOf(c) <= b.addr
    BY DEF Stack!StacksApart
  <2>1. Stack!ToSet(freeList) = ToSet(freeList)
    BY DEF Stack!ToSet, ToSet
  <2>2. pxEnd # NULL
    <3>1. SUFFICES ASSUME pxEnd = NULL PROVE FALSE
      OBVIOUS
    <3>2. Stack!InUse = {} /\ freeList = <<>>
      BY <3>1 DEF StackInv, Stack!InUse
    <3>3. ToSet(<<>>) = {}
      BY DEF ToSet
    <3> QED
      BY <2>1, <3>2, <3>3
  <2>3. Disjoint(ToSet(freeList) \cup Stack!InUse)
    BY <2>2 DEF StackInv, Shape
  <2>4. Before(b, c) \/ Before(c, b)
    BY <2>1, <2>3 DEF Disjoint
  <2> QED
    BY <2>4, SameOperators DEF Before
<1> QED
  BY <1>1, StackInductive, PTL

(* Whatever was asked for and given back in whatever order: when nothing   *)
(* is in use, the memory is one free block again, and counted whole.       *)
LEMMA StackBytesComeBack ==
    ASSUME StackPlace, OffTheMark
    PROVE  Stack!Spec => []Stack!AllBytesReturned
<1>1. StackInv => Stack!AllBytesReturned
  <2> SUFFICES ASSUME StackInv, pxEnd # NULL, Stack!InUse = {}
               PROVE  /\ freeList = <<Stack!Block(Regions[1].addr, Stack!Total),
                                      Stack!Block(Stack!EndMarker, 0)>>
                      /\ xFreeBytesRemaining = Stack!Total
    BY DEF Stack!AllBytesReturned, Stack!SetUp
  <2>1. /\ Walk(freeList) /\ Shape(ToSet(freeList), {})
        /\ xFreeBytesRemaining = Cardinality(BytesOf(ToSet(freeList)))
    BY DEF StackInv
  <2>2. freeList = NewList
    BY <2>1, AllIsBack
  <2> QED
    BY <2>1, <2>2, StackBegins
<1> QED
  BY <1>1, StackInductive, PTL
=============================================================================
