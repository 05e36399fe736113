------------------------ MODULE BusControllerProofs ------------------------
(***************************************************************************)
(* Proofs about the bus controller, for every refresh interval REFTICKS    *)
(* and every power-up value RefStart.                                      *)
(***************************************************************************)
EXTENDS BusController, TLAPS

(***************************************************************************)
(* The inductive invariant.  Every strobe is a registered output, set in   *)
(* one clock of the slot and cleared in another; Decoded says what each    *)
(* register holds between two clocks as a function of the slot position,   *)
(* the two counters and the access on the bus.  OneDevice and CycleServed  *)
(* are not inductive: a step can only be judged knowing which access set   *)
(* the strobes.                                                            *)
(***************************************************************************)
RomDecoded == rom = 0 <=> counter \in 2..6 /\ IsRomRead(access)
RasDecoded == ras = 0 <=> counter \in 2..5 /\ IsRam(access) /\ refcnt # 0
CasDecoded ==
    \A c \in Columns :
        cas[c] = 0 <=> \/ counter \in 1..2 /\ c = 0 /\ refcnt = 0
                       \/ /\ counter \in 5..6 /\ refcnt # 0
                          /\ IsRam(access) /\ c = Column(access)
IoDecoded ==
    /\ \A l \in IoLines : io[l] = 0 <=> iocnt \in 2..5 /\ l = access.sel
    /\ iocnt # 0 => IsIo(access)
    /\ IsIo(access) /\ counter \in 2..6 => iocnt # 0

Decoded == RomDecoded /\ RasDecoded /\ CasDecoded /\ IoDecoded
IInv == TypeOK /\ Decoded

\* The column an access addresses exists: the two bits a12_11.
LEMMA ColumnType == \A a \in Access : Column(a) \in Columns
BY DEF Access, Column, Columns

\* The windows of the address decoder do not overlap.
LEMMA Windows ==
    \A a \in Access : /\ IsRomRead(a) => ~IsIo(a) /\ ~IsRam(a)
                      /\ IsIo(a) => ~IsRam(a)
                      /\ IsRomRead(a) \/ IsIo(a) \/ IsRam(a)
BY DEF Access, IsRomRead, IsIo, IsRam

LEMMA InitIInv == Init => IInv
<1> SUFFICES ASSUME Init PROVE IInv
  OBVIOUS
<1> USE RefreshAssumption DEF Init
<1>1. TypeOK
  BY DEF TypeOK, Bit, Columns, IoLines, AllHigh
<1>2. Decoded
  BY DEF Decoded, RomDecoded, RasDecoded, CasDecoded, IoDecoded, AllHigh,
         Columns, IoLines
<1> QED
  BY <1>1, <1>2 DEF IInv

LEMMA TypeStep == TypeOK /\ [Next]_vars => TypeOK'
<1> SUFFICES ASSUME TypeOK, [Next]_vars PROVE TypeOK'
  OBVIOUS
<1> USE RefreshAssumption DEF TypeOK, Bit
<1>1. CASE RefreshPulse
  BY <1>1 DEF RefreshPulse, Columns
<1>2. CASE Decode
  BY <1>2 DEF Decode
<1>3. CASE ClockHigh
  BY <1>3 DEF ClockHigh, Columns
<1>4. CASE Idle
  BY <1>4 DEF Idle, outputs
<1>5. CASE ColumnStrobe
  BY <1>5, ColumnType DEF ColumnStrobe
<1>6. CASE RowEnd
  BY <1>6 DEF RowEnd
<1>7. CASE SlotEnd
  <2>1. counter' \in 0..6 /\ ras' \in Bit /\ rom' \in Bit /\ access' \in Access
    BY <1>7 DEF SlotEnd
  <2>2. phi0' \in Bit /\ phi1' \in Bit
    BY <1>7 DEF SlotEnd
  <2>3. refcnt' \in 0..REFTICKS /\ iocnt' \in 0..5
    BY <1>7 DEF SlotEnd, NextWait
  <2>4. cas' \in [Columns -> Bit]
    BY <1>7 DEF SlotEnd, AllHigh
  <2>5. io' \in [IoLines -> Bit]
    BY <1>7 DEF SlotEnd, NextIo, AllHigh
  <2> QED
    BY <2>1, <2>2, <2>3, <2>4, <2>5
<1>8. CASE UNCHANGED vars
  BY <1>8 DEF vars
<1> QED
  BY <1>1, <1>2, <1>3, <1>4, <1>5, <1>6, <1>7, <1>8 DEF Next

LEMMA DecodedStep == IInv /\ [Next]_vars => Decoded'
<1> SUFFICES ASSUME TypeOK, Decoded, [Next]_vars PROVE Decoded'
  BY DEF IInv
<1> USE RefreshAssumption DEF TypeOK, Bit, Decoded, RomDecoded, RasDecoded,
        CasDecoded, IoDecoded
<1>1. CASE RefreshPulse
  BY <1>1 DEF RefreshPulse, Columns, outputs
<1>2. CASE Decode
  BY <1>2, Windows DEF Decode
<1>3. CASE ClockHigh
  BY <1>3 DEF ClockHigh, Columns
<1>4. CASE Idle
  BY <1>4 DEF Idle, outputs
<1>5. CASE ColumnStrobe
  BY <1>5, ColumnType, Windows DEF ColumnStrobe, ColumnDue
<1>6. CASE RowEnd
  BY <1>6 DEF RowEnd
<1>7. CASE SlotEnd
  <2>1. RomDecoded' /\ RasDecoded' /\ CasDecoded'
    BY <1>7 DEF SlotEnd, AllHigh
  <2>2. \A l \in IoLines : io'[l] = 0 <=> iocnt' \in 2..5 /\ l = access'.sel
    BY <1>7 DEF SlotEnd, NextWait, NextIo, AllHigh, PhiFalls, IoLines, Access
  <2>3. iocnt' # 0 => IsIo(access')
    BY <1>7 DEF SlotEnd, NextWait, PhiFalls
  <2>4. IsIo(access') /\ counter' \in 2..6 => iocnt' # 0
    BY <1>7 DEF SlotEnd
  <2> QED
    BY <2>1, <2>2, <2>3, <2>4
<1>8. CASE UNCHANGED vars
  BY <1>8 DEF vars, IsRam, IsIo, IsRomRead, Column
<1> QED
  BY <1>1, <1>2, <1>3, <1>4, <1>5, <1>6, <1>7, <1>8 DEF Next

\* The registered outputs always agree with the access and the counters.
THEOREM Invariance == Spec => []IInv
<1>1. IInv /\ [Next]_vars => IInv'
  BY TypeStep, DecodedStep DEF IInv
<1> QED
  BY InitIInv, <1>1, PTL DEF Spec

\* Type correctness of the bus controller.
THEOREM TypeCorrect == Spec => []TypeOK
BY Invariance, PTL DEF IInv

\* Never two drivers on the data bus, for every refresh interval.
THEOREM Exclusive == Spec => []OneDevice
<1>1. IInv => OneDevice
  <2> SUFFICES ASSUME IInv PROVE OneDevice
    OBVIOUS
  <2> USE DEF IInv, Decoded, RomDecoded, RasDecoded, CasDecoded, IoDecoded,
              TypeOK, Bit
  <2>1. \A c, d \in Columns : cas[c] = 0 /\ cas[d] = 0 => c = d
    OBVIOUS
  <2>2. \A l, m \in IoLines : io[l] = 0 /\ io[m] = 0 => l = m
    OBVIOUS
  <2>3. rom = 0 => ras = 1 /\ \A l \in IoLines : io[l] = 1
    BY Windows
  <2>4. (\E l \in IoLines : io[l] = 0) => ras = 1 /\ iocnt # 0
    BY Windows
  <2> QED
    BY <2>1, <2>2, <2>3, <2>4 DEF OneDevice
<1> QED
  BY Invariance, <1>1, PTL

\* No CPU cycle ends unserved, for every refresh interval.
THEOREM EveryCycleServed == Spec => CycleServed
<1>1. IInv /\ [Next]_vars => [phi0 = 1 /\ phi0' = 0 => Served(access)]_vars
  <2> SUFFICES ASSUME IInv, Next, phi0 = 1, phi0' = 0
               PROVE  Served(access)
    OBVIOUS
  <2> USE DEF IInv, TypeOK, Decoded
  <2>1. counter = 6 /\ PhiFalls
    BY DEF Next, RefreshPulse, Decode, ClockHigh, Idle, ColumnStrobe, RowEnd,
           SlotEnd, outputs
  <2>2. CASE IsRomRead(access)
    BY <2>1, <2>2 DEF RomDecoded, Served
  <2>3. CASE IsIo(access)
    <3>1. iocnt = 5
      BY <2>1, <2>3 DEF IoDecoded, PhiFalls
    <3> QED
      BY <3>1, <2>3, Windows DEF IoDecoded, Served, Access, IoLines
  <2>4. CASE IsRam(access)
    <3>1. iocnt = 0 /\ rom = 1
      BY <2>4, Windows DEF IoDecoded, RomDecoded, Bit
    <3>2. refcnt # 0
      BY <2>1, <3>1 DEF PhiFalls, Stalled
    <3> QED
      BY <3>2, <2>1, <2>4, ColumnType, Windows DEF CasDecoded, Served
  <2> QED
    BY <2>2, <2>3, <2>4, Windows
<1> QED
  BY Invariance, <1>1, PTL DEF Spec, CycleServed

\* A column is strobed only with its row open, for every refresh interval.
THEOREM RowFirst == Spec => RowBeforeColumn
<1> DEFINE Strobe(c) == cas[c] = 1 /\ cas'[c] = 0 /\ refcnt # 0
                          => ras = 0 /\ IsRam(access) /\ c = Column(access)
<1>1. IInv /\ [Next]_vars => [\A c \in Columns : Strobe(c)]_vars
  <2> SUFFICES ASSUME IInv, Next, NEW c \in Columns,
                      cas[c] = 1, cas'[c] = 0, refcnt # 0
               PROVE  ras = 0 /\ IsRam(access) /\ c = Column(access)
    OBVIOUS
  <2> USE DEF IInv, TypeOK, Bit
  <2>1. counter = 4 /\ ColumnStrobe
    BY DEF Next, RefreshPulse, Decode, ClockHigh, Idle, RowEnd, SlotEnd,
           outputs, AllHigh, ColumnStrobe, Columns
  <2>2. rom = 1 /\ iocnt = 0 /\ c = Column(access)
    BY <2>1, ColumnType DEF ColumnStrobe, ColumnDue
  <2> QED
    BY <2>1, <2>2, Windows DEF Decoded, RasDecoded, RomDecoded, IoDecoded
<1> QED
  BY Invariance, <1>1, PTL DEF Spec, RowBeforeColumn
=============================================================================
