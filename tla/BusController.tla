--------------------------- MODULE BusController ---------------------------
(***************************************************************************)
(* The CPLD on the CPU module (cpld/cpumodule.vhd): it derives the CPU     *)
(* clock phi0 from the oscillator and, seven oscillator clocks to a slot,  *)
(* strobes DRAM (ras, cas0..cas3), the ROM or one of eight I/O selects.    *)
(* All strobes are active low: 0 selects.                                  *)
(*                                                                         *)
(* The CPU is outside the VHDL: it presents one access at a time and may   *)
(* present another only when phi0 falls.                                   *)
(*                                                                         *)
(* A definition called FaultyX is X with a plausible bug.  No action uses  *)
(* it; PROJECT.json names the property that finds it when it replaces X.   *)
(***************************************************************************)
EXTENDS Naturals

CONSTANTS REFTICKS,  \* reload value of the refresh counter (141 in the source)
          RefStart   \* its power-up value (132 in the source)

ASSUME RefreshAssumption ==
    /\ REFTICKS \in Nat \ {0}
    /\ RefStart \in Nat
    /\ RefStart <= REFTICKS

VARIABLES
    counter,  \* clock number within the slot
    refcnt,   \* slots until the next refresh slot
    iocnt,    \* wait-state number of an I/O access, 0 outside one
    ras, cas, \* DRAM row strobe, and the four column strobes
    rom, io,  \* ROM select, and the eight I/O selects
    phi0, phi1,
    access    \* what the CPU drives on bank, address and rw

outputs == <<ras, cas, rom, io, phi0, phi1>>
vars == <<counter, refcnt, iocnt, ras, cas, rom, io, phi0, phi1, access>>

Bit     == {0, 1}
Columns == 0..3
IoLines == 0..7

\* page: where bank and a15_13 point; sel: a12_11 & a10.
Access == [page: {"bank0_top", "bankff_top", "elsewhere"}, rw: Bit, sel: 0..7]

IsRomRead(a) == a.page = "bank0_top" /\ a.rw = 1
IsIo(a)      == a.page = "bankff_top"
IsRam(a)     == ~IsRomRead(a) /\ ~IsIo(a)
Column(a)    == a.sel \div 2

AllHigh(lines) == [l \in lines |-> 1]

Init ==
    /\ counter = 0
    /\ refcnt = RefStart
    /\ iocnt = 0
    /\ ras = 1 /\ rom = 1
    /\ cas = AllHigh(Columns)
    /\ io = AllHigh(IoLines)
    /\ phi0 = 1 /\ phi1 = 0
    /\ access \in Access

-----------------------------------------------------------------------------
(* One action per value of counter, on the falling edge of clk.            *)

\* "000": the refresh slot opens with a pulse on cas0.
RefreshPulse ==
    /\ counter = 0
    /\ counter' = 1
    /\ cas' = [cas EXCEPT ![0] = IF refcnt = 0 THEN 0 ELSE 1]
    /\ UNCHANGED <<refcnt, iocnt, ras, rom, io, phi0, phi1, access>>

\* "001": decode the address.
Decode ==
    /\ counter = 1
    /\ counter' = 2
    /\ \/ /\ IsRomRead(access)
          /\ rom' = 0
          /\ UNCHANGED <<iocnt, ras>>
       \/ /\ IsIo(access)
          /\ iocnt' = IF iocnt = 0 THEN 1 ELSE iocnt
          /\ UNCHANGED <<rom, ras>>
       \/ /\ IsRam(access)
          /\ ras' = IF refcnt # 0 THEN 0 ELSE ras
          /\ UNCHANGED <<rom, iocnt>>
    /\ UNCHANGED <<refcnt, cas, io, phi0, phi1, access>>

\* "010": the CPU clock rises and the refresh pulse ends.
ClockHigh ==
    /\ counter = 2
    /\ counter' = 3
    /\ phi0' = 1 /\ phi1' = 0
    /\ cas' = [cas EXCEPT ![0] = 1]
    /\ UNCHANGED <<refcnt, iocnt, ras, rom, io, access>>

\* "011": nothing happens.
Idle ==
    /\ counter = 3
    /\ counter' = 4
    /\ UNCHANGED <<refcnt, iocnt, outputs, access>>

\* "100": the column strobe of a DRAM access.
FaultyColumnDue == refcnt # 0 /\ rom = 1
ColumnDue == refcnt # 0 /\ rom = 1 /\ iocnt = 0

ColumnStrobe ==
    /\ counter = 4
    /\ counter' = 5
    /\ cas' = IF ColumnDue THEN [cas EXCEPT ![Column(access)] = 0] ELSE cas
    /\ UNCHANGED <<refcnt, iocnt, ras, rom, io, phi0, phi1, access>>

\* "101": the row strobe ends.
RowEnd ==
    /\ counter = 5
    /\ counter' = 6
    /\ ras' = 1
    /\ UNCHANGED <<refcnt, iocnt, cas, rom, io, phi0, phi1, access>>

\* In the last clock phi0 falls unless an I/O access still waits or the slot
\* was taken from a DRAM access for refresh.
FaultyStalled == refcnt = REFTICKS /\ rom = 1 /\ iocnt = 0
Stalled == refcnt = 0 /\ rom = 1 /\ iocnt = 0

FaultyPhiFalls == iocnt = 0 /\ ~Stalled
PhiFalls == iocnt \in {0, 5} /\ ~Stalled

\* The wait states of an I/O access: its line is selected at the end of the
\* first slot and released at the end of the fifth.
FaultyNextWait == IF iocnt = 0 THEN 0 ELSE iocnt + 1
NextWait == IF iocnt \in {0, 5} THEN 0 ELSE iocnt + 1

FaultyNextIo == IF iocnt = 1 THEN [io EXCEPT ![access.sel] = 0] ELSE io
NextIo == IF iocnt = 1 THEN [io EXCEPT ![access.sel] = 0]
          ELSE IF iocnt = 5 THEN AllHigh(IoLines)
          ELSE io

\* "110": the slot ends.
SlotEnd ==
    /\ counter = 6
    /\ counter' = 0
    /\ cas' = AllHigh(Columns)
    /\ rom' = 1
    /\ IF PhiFalls
       THEN phi0' = 0 /\ phi1' = 1 /\ access' \in Access
       ELSE /\ UNCHANGED access
            /\ IF Stalled THEN phi0' = 1 /\ phi1' = 0
                          ELSE UNCHANGED <<phi0, phi1>>
    /\ refcnt' = IF refcnt = 0 THEN REFTICKS ELSE refcnt - 1
    /\ iocnt' = NextWait
    /\ io' = NextIo
    /\ UNCHANGED ras

Next ==
    \/ RefreshPulse \/ Decode \/ ClockHigh \/ Idle
    \/ ColumnStrobe \/ RowEnd \/ SlotEnd

Spec == Init /\ [][Next]_vars
\* The oscillator never stops.
FairSpec == Spec /\ WF_vars(Next)

-----------------------------------------------------------------------------
(* Properties.                                                             *)

\* Type invariant.
TypeOK ==
    /\ counter \in 0..6
    /\ refcnt \in 0..REFTICKS
    /\ iocnt \in 0..5
    /\ ras \in Bit /\ rom \in Bit /\ phi0 \in Bit /\ phi1 \in Bit
    /\ cas \in [Columns -> Bit]
    /\ io \in [IoLines -> Bit]
    /\ access \in Access

\* The data bus never has two drivers: the ROM, the DRAM (open row and column)
\* and the I/O lines are never selected together, and never two columns or two
\* I/O lines.  The selects are set and cleared in different slots and by
\* different counters, which is where they could meet.
OneDevice ==
    /\ \A c, d \in Columns : cas[c] = 0 /\ cas[d] = 0 => c = d
    /\ \A l, m \in IoLines : io[l] = 0 /\ io[m] = 0 => l = m
    /\ rom = 0 => ras = 1 /\ \A l \in IoLines : io[l] = 1
    /\ (\E l \in IoLines : io[l] = 0) => ras = 1 /\ iocnt # 0

\* DRAM protocol: outside the refresh pulse a column is strobed only for the
\* access on the bus, and its row was strobed first.
RowBeforeColumn ==
    [][\A c \in Columns :
          cas[c] = 1 /\ cas'[c] = 0 /\ refcnt # 0
             => ras = 0 /\ IsRam(access) /\ c = Column(access)]_vars

\* The CPU clock never falls on an access that was not served: at the edge
\* that ends the CPU cycle the strobe of the addressed device is still active.
\* A stall (refresh) or a wait state (I/O) that ended one slot early would let
\* the CPU latch a floating bus.
Served(a) ==
    IF IsRomRead(a) THEN rom = 0
    ELSE IF IsIo(a) THEN io[a.sel] = 0
    ELSE cas[Column(a)] = 0

CycleServed ==
    [][phi0 = 1 /\ phi0' = 0 => Served(access)]_vars

\* Every CPU cycle ends: whatever the refresh counter and the wait states do,
\* phi0 keeps falling.
CpuNeverStalls == []<>(phi0 = 0) /\ []<>(phi0 = 1)

\* The comment at REFTICKS says what the counter is for: a DRAM refresh every
\* 142 slots (9.142 MHz / 0.064 MHz).  In a CAS-before-RAS refresh the row strobe
\* falls while a column strobe is low, so the slot that is taken from the CPU
\* must have opened a row when its column pulse ends.
RefreshOpensRow ==
    counter = 2 /\ refcnt = 0 /\ IsRam(access) /\ cas[0] = 0 => ras = 0
=============================================================================
