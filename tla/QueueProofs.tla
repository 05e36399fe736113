---------------------------- MODULE QueueProofs ----------------------------
(***************************************************************************)
(* Theorems about Queue: the invariant of the scheduler holds with tasks   *)
(* that wait for a queue, no call gives up before its time, and no wake-up *)
(* is lost.                                                                *)
(***************************************************************************)
EXTENDS Queue, SchedulerProofs

QueueTyped ==
    /\ uxMessagesWaiting \in 0 .. uxLength
    /\ waiting \in [Side -> Seq(Task)]
    /\ lock \in [Side -> Nat \cup {queueUNLOCKED}]
    /\ served \in [Side -> SUBSET Task]
    /\ left \in [Task -> Nat] /\ xNumOfOverflows \in Nat

(* A task that waits on a side, or was woken there and is to try again, is *)
(* in its call: it goes on to the retry.                                   *)
Entered(side) ==
    {p \in Place : /\ p.op = "retry" \/ (p.op \in Unlocks /\ p.then = "sleeps")
                   /\ WaitsAt(p.act) = side}
WaitersInCall == \A s \in Side : \A t \in ToSet(waiting[s]) : Onward(pc[t]) \in Entered(s)

(* The call of the running task holds the lock and the scheduler from its  *)
(* test to its unlock, which unlocks the receivers first, and nothing made *)
(* it ready meanwhile; where it tries the scheduler is not suspended.      *)
Enters == {"lock", "test", "inherit", "place"}
Tries  == {"retry", "suspend", "recheck", "giveUp"}
Entering == In(Enters) => pxCurrentTCB \notin xPendingReadyList
HoldsLock ==
    /\ In({"test", "inherit", "place"}) => \A s \in Side : lock[s] # queueUNLOCKED
    /\ In({"unlocked"}) => lock["receive"] = queueUNLOCKED
Trying ==
    xSchedulerRunning /\ Onward(pc[pxCurrentTCB]).op \in Tries =>
        uxSchedulerSuspended = IF At("resume") THEN 1 ELSE 0

(* What a time-out says is at least what is left: then no more than one    *)
(* round of the tick count has gone by since the task looked.              *)
InTime(c, rest) ==
    \/ rest = 0
    \/ /\ c.ticks \notin {0, portMAX_DELAY} /\ rest + xElapsedTime(c) <= c.ticks
       /\ xNumOfOverflows = IF xTickCount >= c.xTimeOnEntering THEN c.xOverflowCount
                            ELSE (c.xOverflowCount + 1) % OverflowRange
HasTime == {"retry", "recheck", "suspend", "lock", "test", "inherit", "place", "unlock", "unlocked"}
TimeKept(t) ==
    LET p == Onward(pc[t])
    IN  p.op \in HasTime =>
           /\ InTime(p.time, left[t])
           /\ p.op \in Unlocks => (p.then = "timesOut" => left[t] = 0)
TimesKept == \A t \in Task : TimeKept(t)

(* The idle task calls no queue.                                           *)
IdleIsOut == Onward(pc[Idle]).op \in Own

QueueInv ==
    /\ IInv /\ QueueTyped /\ WaitersSleep /\ LockedByRunner
    /\ WaitersInCall /\ Entering /\ HoldsLock /\ Trying /\ TimesKept /\ IdleIsOut

(* The tasks that call the queue are not deleted.                          *)
Immune   == \A w \in Waits : w[1] \notin Mortal
Immortal == \A t \in Task \ Mortal : memory[t] \in {"free", "live"} /\ t \notin xTasksWaitingTermination
Callers  == \A t \in Task : Onward(pc[t]).op \in HasTime => t \notin Mortal /\ memory[t] = "live"

(* The tasks that were woken are on their way and wait no more; and a task *)
(* goes into an event list only if what became available since it looked   *)
(* is counted, or the unlock will wake everybody.                          *)
Counted(s) == Available[s] <= Cardinality(served[s]) + Max({lock[s], 0})
ServedTry == \A s \in Side : \A t \in served[s] : t \notin Waiting /\ Onward(pc[t]) \in Entered(s)
Looked ==
    In({"inherit", "place"}) =>
        LET s == WaitsAt(pc[pxCurrentTCB].act)
        IN  Available[s] <= lock[s] \/ uxCurrentNumberOfTasks <= lock[s]
OwedAt(s) == waiting[s] # <<>> => Counted(s) \/ uxCurrentNumberOfTasks <= lock[s]
WakeInv ==
    /\ QueueInv /\ Immortal /\ Callers /\ ServedTry /\ Looked
    /\ \A s \in Side : OwedAt(s)
-----------------------------------------------------------------------------
(* Event lists.                                                            *)

LEMMA Lesser ==
    ASSUME NEW a \in Int, NEW b \in Int
    PROVE  Min({a, b}) = IF a <= b THEN a ELSE b
<1> DEFINE m == IF a <= b THEN a ELSE b
<1>1. m \in {a, b} /\ \A y \in {a, b} : m <= y
  OBVIOUS
<1>2. \A x \in {a, b} : (\A y \in {a, b} : x <= y) => x = m
  OBVIOUS
<1> HIDE DEF m
<1>3. (CHOOSE x \in {a, b} : \A y \in {a, b} : x <= y) = m
  BY <1>1, <1>2
<1> QED
  BY <1>3 DEF Min, m

(* The tasks of S leave the event lists, and the others stay.              *)
Departs(S) ==
    /\ waiting' \in [Side -> Seq(Task)]
    /\ \A s \in Side : IsInjective(waiting'[s]) /\ ToSet(waiting'[s]) = ToSet(waiting[s]) \ S

LEMMA LeaveDeparts ==
    ASSUME waiting \in [Side -> Seq(Task)], NEW S, Leave(S)
    PROVE  Departs(S)
<1>1. ASSUME NEW list \in Seq(Task), NEW rest \in Remaining(list, S)
      PROVE  rest \in Seq(Task) /\ IsInjective(rest) /\ ToSet(rest) = ToSet(list) \ S
  <2>1. ToSet(list) \subseteq Task
    BY LenProperties DEF ToSet
  <2> QED
    BY <2>1, OrderOf DEF Remaining
<1>2. PICK senders \in Remaining(waiting["send"], S), receivers \in Remaining(waiting["receive"], S) :
          waiting' = [send |-> senders, receive |-> receivers]
  BY DEF Leave
<1>3. Side = {"send", "receive"} /\ waiting["send"] \in Seq(Task) /\ waiting["receive"] \in Seq(Task)
  BY DEF Side
<1>4. waiting'["send"] = senders /\ waiting'["receive"] = receivers
  BY <1>2
<1>5. waiting' \in [Side -> Seq(Task)]
  BY <1>1, <1>2, <1>3
<1> QED
  BY <1>1, <1>3, <1>4, <1>5 DEF Departs

(* A task is put into an event list: after those that are not below it, and *)
(* before one that is.                                                     *)
LEMMA InsertCuts ==
    ASSUME NEW list \in Seq(Task), NEW t \in Task
    PROVE  \E at \in 0 .. Len(list) :
              /\ vListInsert(list, t) = SubSeq(list, 1, at) \o <<t>> \o SubSeq(list, at + 1, Len(list))
              /\ \A i \in 1 .. at : ~(uxPriority[list[i]] < uxPriority[t])
              /\ at < Len(list) => uxPriority[list[at + 1]] < uxPriority[t]
<1> DEFINE I == {i \in 1 .. Len(list) : uxPriority[list[i]] < uxPriority[t]}
           first == IF I # {} THEN Min(I) ELSE 0
           at == IF first = 0 THEN Len(list) ELSE first - 1
           next == at + 1
           A == SubSeq(list, 1, at)
           B == SubSeq(list, next, Len(list))
           one == <<t>>
<1>1. Len(list) \in Nat
  BY LenProperties
<1>2. \/ I = {} /\ first = 0
      \/ first \in I /\ first \in 1 .. Len(list) /\ \A i \in I : first <= i
  <2>1. CASE I # {}
    <3>1. I \subseteq Nat
      BY <1>1
    <3>2. Min(I) \in I /\ \A i \in I : Min(I) <= i
      BY <2>1, <3>1, LeastNumber
    <3> QED
      BY <2>1, <3>2
  <2> QED
    BY <2>1
<1>3. vListInsert(list, t) = A \o one \o B
  <2>1. SelectInSeq(list, LAMBDA u : uxPriority[u] < uxPriority[t]) = first
    BY DEF SelectInSeq
  <2>2. (IF first = 0 THEN Len(list) + 1 ELSE first) = next /\ next - 1 = at
    <3> HIDE DEF first, I
    <3> QED
      BY <1>1, <1>2
  <2> HIDE DEF first, at, next
  <2>3. vListInsert(list, t) = InsertAt(list, next, t)
    BY <2>1, <2>2 DEF vListInsert
  <2>4. InsertAt(list, next, t) = SubSeq(list, 1, next - 1) \o one \o B
    BY DEF InsertAt
  <2> QED
    BY <2>2, <2>3, <2>4
<1>4. /\ at \in 0 .. Len(list)
      /\ \A i \in 1 .. at : i \in 1 .. Len(list) /\ i \notin I
      /\ at < Len(list) => at + 1 \in I
  <2> HIDE DEF I, first
  <2> QED
    BY <1>1, <1>2
<1> HIDE DEF at
<1>5. /\ \A i \in 1 .. at : ~(uxPriority[list[i]] < uxPriority[t])
      /\ at < Len(list) => uxPriority[list[at + 1]] < uxPriority[t]
  BY <1>4
<1> HIDE DEF I
<1> QED
  BY <1>3, <1>4, <1>5

LEMMA InsertAdds ==
    ASSUME NEW list \in Seq(Task), NEW t \in Task
    PROVE  /\ vListInsert(list, t) \in Seq(Task)
           /\ ToSet(vListInsert(list, t)) = ToSet(list) \cup {t}
           /\ IsInjective(list) /\ t \notin ToSet(list) => IsInjective(vListInsert(list, t))
<1>1. PICK at \in 0 .. Len(list) :
          vListInsert(list, t) = SubSeq(list, 1, at) \o <<t>> \o SubSeq(list, at + 1, Len(list))
  BY InsertCuts
<1> DEFINE A == SubSeq(list, 1, at)
           B == SubSeq(list, at + 1, Len(list))
           one == <<t>>
<1>2. vListInsert(list, t) = A \o one \o B
  BY <1>1
<1>3. /\ A \in Seq(Task) /\ B \in Seq(Task) /\ ToSet(A) \cup ToSet(B) = ToSet(list)
      /\ IsInjective(list) => IsInjective(A) /\ IsInjective(B) /\ ToSet(A) \cap ToSet(B) = {}
  BY <1>1, Cut
<1>4. one \in Seq(Task) /\ ToSet(one) = {t} /\ IsInjective(one)
  <2>1. one \in Seq(Task) /\ Len(one) = 1 /\ one[1] = t
    OBVIOUS
  <2> QED
    BY <2>1, LenProperties DEF ToSet, IsInjective
<1> HIDE DEF A, B, one
<1>5. A \o one \in Seq(Task) /\ ToSet(A \o one) = ToSet(A) \cup {t}
  BY <1>3, <1>4, ToSetConcat, ConcatProperties
<1>6. (A \o one) \o B \in Seq(Task) /\ ToSet((A \o one) \o B) = ToSet(list) \cup {t}
  <2> DEFINE U == A \o one
  <2> HIDE DEF U
  <2>1. U \in Seq(Task) /\ B \in Seq(Task)
    BY <1>3, <1>5 DEF U
  <2>2. U \o B \in Seq(Task)
    BY <2>1, ConcatProperties
  <2>3. ToSet(U \o B) = ToSet(U) \cup ToSet(B)
    BY <2>1, ToSetConcat
  <2> QED
    BY <2>2, <2>3, <1>3, <1>5 DEF U
<1>7. ASSUME IsInjective(list), t \notin ToSet(list) PROVE IsInjective((A \o one) \o B)
  <2>1. IsInjective(A) /\ IsInjective(B) /\ ToSet(A) \cap ToSet(B) = {} /\ t \notin ToSet(A) /\ t \notin ToSet(B)
    BY <1>3, <1>7
  <2>2. IsInjective(A \o one)
    BY <2>1, <1>3, <1>4, InjectiveConcat
  <2> QED
    BY <2>1, <2>2, <1>3, <1>5, InjectiveConcat
<1> QED
  BY <1>2, <1>6, <1>7

(* The first waiters of a side are waiters of it.                          *)
LEMMA FirstWait ==
    ASSUME waiting \in [Side -> Seq(Task)], NEW s \in Side, NEW n \in Int
    PROVE  /\ FirstWaiters(s, n) \subseteq ToSet(waiting[s])
           /\ n <= 0 => FirstWaiters(s, n) = {}
           /\ waiting[s] = <<>> => FirstWaiters(s, n) = {}
           /\ n = 1 /\ waiting[s] # <<>> => /\ FirstWaiters(s, n) = {waiting[s][1]}
                                            /\ waiting[s][1] \in ToSet(waiting[s])
<1> DEFINE list == waiting[s]
           m == Min({n, Len(list)})
           len == Len(list)
<1>1. /\ list \in Seq(Task) /\ len \in Nat /\ DOMAIN list = 1 .. len
      /\ list = <<>> <=> len = 0
  BY LenProperties, EmptySeq
<1>2. m \in Int /\ m <= n /\ m <= len /\ (m = n \/ m = len)
  BY <1>1, Lesser
<1>3. FirstWaiters(s, n) = {list[i] : i \in 1 .. m}
  BY DEF FirstWaiters
<1> HIDE DEF list, m, len
<1>4. 1 .. m \subseteq DOMAIN list
  BY <1>1, <1>2
<1>5. FirstWaiters(s, n) \subseteq ToSet(list)
  BY <1>3, <1>4 DEF ToSet
<1>6. n <= 0 \/ list = <<>> => 1 .. m = {}
  BY <1>1, <1>2
<1>7. n = 1 /\ list # <<>> => 1 .. m = {1} /\ 1 \in DOMAIN list
  BY <1>1, <1>2
<1>8. n = 1 /\ list # <<>> => FirstWaiters(s, n) = {list[1]} /\ list[1] \in ToSet(list)
  BY <1>3, <1>7 DEF ToSet
<1> QED
  BY <1>3, <1>5, <1>6, <1>8 DEF list

-----------------------------------------------------------------------------
(* The places of the calls.                                                *)

CallAt(o, act, time) == [op |-> o, act |-> act, time |-> time]
UnlockAt(o, act, time, then) == [op |-> o, act |-> act, time |-> time, then |-> then]

LEMMA QueueShape ==
    ASSUME NEW p \in Place, p.op \in HasTime
    PROVE  /\ p.act \in Acts /\ p.time \in TimeOuts
           /\ p.op \notin Unlocks => p = CallAt(p.op, p.act, p.time)
           /\ p.op \in {"test", "inherit", "place"} => p.time.ticks # 0
           /\ p.op \in Unlocks => /\ p.then \in {"sleeps", "retries", "timesOut"}
                                  /\ p = UnlockAt(p.op, p.act, p.time, p.then)
<1> USE DEF CallAt, UnlockAt, Unlocks
<1>1. CASE p \in [op : {"retry", "recheck"}, act : Acts, time : TimeOuts]
  BY <1>1
<1>2. CASE p \in [op : {"suspend", "lock"}, act : Acts, time : TimeOuts]
  BY <1>2
<1>3. CASE p \in [op : {"test", "inherit", "place"}, act : Acts, time : {c \in TimeOuts : c.ticks # 0}]
  BY <1>3
<1>4. CASE p \in [op : {"unlock", "unlocked"}, act : Acts, time : TimeOuts,
                  then : {"sleeps", "retries", "timesOut"}]
  BY <1>4
<1>5. \/ p \in [op : {"retry", "recheck"}, act : Acts, time : TimeOuts]
      \/ p \in QueueCalls
  <2>1. \A q \in NotifyCalls \cup NotifyEnds : q.op \notin HasTime
    BY DEF NotifyCalls, NotifyEnds, HasTime
  <2>2. App.op \notin HasTime /\ (\A q \in [op : {"giveUp"}] : q.op \notin HasTime)
    BY DEF App, HasTime
  <2> QED
    BY <2>1, <2>2 DEF Place, Ends, Outs, Yields, Adds, QueueEnds, HasTime
<1> QED
  BY <1>1, <1>2, <1>3, <1>4, <1>5 DEF QueueCalls

LEMMA QueuePlaces ==
    ASSUME NEW a \in Acts, NEW c \in TimeOuts
    PROVE  /\ CallAt("suspend", a, c) \in Plain /\ CallAt("lock", a, c) \in Plain
           /\ c.ticks # 0 => \A o \in {"test", "inherit", "place"} : CallAt(o, a, c) \in Plain
           /\ \A o \in Unlocks, h \in {"sleeps", "retries", "timesOut"} : UnlockAt(o, a, c, h) \in Plain
           /\ CallAt("retry", a, c) \in Outs /\ CallAt("recheck", a, c) \in Outs
<1> USE DEF CallAt, UnlockAt
<1>1. CallAt("suspend", a, c) \in QueueCalls /\ CallAt("lock", a, c) \in QueueCalls
  BY DEF QueueCalls
<1>2. ASSUME c.ticks # 0, NEW o \in {"test", "inherit", "place"} PROVE CallAt(o, a, c) \in QueueCalls
  BY <1>2 DEF QueueCalls
<1>3. ASSUME NEW o \in Unlocks, NEW h \in {"sleeps", "retries", "timesOut"} PROVE UnlockAt(o, a, c, h) \in QueueCalls
  BY DEF QueueCalls, Unlocks
<1>4. CallAt("retry", a, c) \in QueueEnds /\ CallAt("recheck", a, c) \in QueueEnds
  BY DEF QueueEnds
<1> QED
  BY <1>1, <1>2, <1>3, <1>4, PlainPlaces DEF Outs

(* Where they lead.                                                        *)
LEMMA QueueOnward ==
    /\ \A p : p.op \notin {"resume", "drain", "ticks", "yield"} => Onward(p) = p
    /\ \A p : p.op \notin {"resume", "drain", "ticks", "yield"} => Onward(YieldingTo(p)) = p
    /\ \A p : p.op \notin {"resume", "drain", "ticks", "yield"} =>
          Onward(Resuming(p, p)) = p /\ Onward(Resuming(p, YieldingTo(p))) = p
  BY DEF Onward, Resuming, YieldingTo

(* A task at, or on its way to, a place of a call with a time-out.         *)
LEMMA WhereTimed ==
    ASSUME NEW p \in Place, Onward(p).op \in HasTime
    PROVE  /\ Onward(p) \in Place /\ Onward(p).time \in TimeOuts /\ Onward(p).act \in Acts
           /\ p.op \notin Own
<1>1. \A e \in Ends : Onward(e) \in Place
  <2> SUFFICES ASSUME NEW e \in Ends PROVE Onward(e) \in Place
    OBVIOUS
  <2>1. e \in Place /\ e.op \notin {"resume", "drain", "ticks"}
    BY EndShape DEF EndOps, OutOps
  <2>2. e.op = "yield" => e.next \in Place
    BY <2>1, PlaceShape, EndShape DEF Ends
  <2> QED
    BY <2>1, <2>2 DEF Onward
<1>2. p.op \in {"resume", "drain", "ticks"} => p.not \in Ends /\ p.not.op \notin {"resume", "drain", "ticks"}
  BY PlaceShape, EndShape DEF EndOps, OutOps
<1>3. p.op \in {"resume", "drain", "ticks"} => Onward(p) = Onward(p.not)
  BY <1>2 DEF Onward
<1>4. p.op = "yield" => p.next \in Place
  BY PlaceShape, EndShape DEF Ends
<1>5. Onward(p) \in Place
  BY <1>1, <1>2, <1>3, <1>4 DEF Onward
<1>6. p.op \notin Own
  BY DEF Onward, Own, HasTime
<1> QED
  BY <1>5, <1>6, QueueShape

-----------------------------------------------------------------------------
(* Times.                                                                  *)

LEMMA Elapsed ==
    ASSUME NEW a \in Tick, NEW b \in Tick
    PROVE  /\ (a - b) % TickRange = IF a >= b THEN a - b ELSE a - b + TickRange
           /\ (a - b) % TickRange \in Tick
<1> DEFINE W == TickRange
<1>1. W \in Nat /\ W > 1 /\ a \in 0 .. W - 1 /\ b \in 0 .. W - 1
  BY WidthAssumption DEF Tick
<1> HIDE DEF W
<1>2. CASE a >= b
  <2>1. (a - b) % W = a - b
    BY <1>1, <1>2
  <2> QED
    BY <1>1, <1>2, <2>1 DEF Tick, W
<1>3. CASE ~(a >= b)
  <2> DEFINE m == a - b + W
  <2>1. m \in Nat /\ m < W /\ a - b = m + (-1) * W
    BY <1>1, <1>3
  <2>2. (m + (-1) * W) % W = m
    BY <1>1, <2>1
  <2> QED
    BY <1>1, <1>3, <2>1, <2>2 DEF Tick, W
<1> QED
  BY <1>2, <1>3 DEF W

(* While no tick is counted a time-out stays in time.                      *)
LEMMA SameTime ==
    ASSUME NEW c, NEW rest, InTime(c, rest), UNCHANGED <<xTickCount, xNumOfOverflows>>
    PROVE  InTime(c, rest)'
  BY DEF InTime, xElapsedTime

(* A tick takes one from what is left.                                     *)
LEMMA OneLess ==
    ASSUME NEW rest \in Nat
    PROVE  Max({0, rest - 1}) = IF rest = 0 THEN 0 ELSE rest - 1
<1> DEFINE m == IF rest = 0 THEN 0 ELSE rest - 1
<1>1. m \in {0, rest - 1} /\ \A y \in {0, rest - 1} : y <= m
  OBVIOUS
<1>2. \A x \in {0, rest - 1} : (\A y \in {0, rest - 1} : y <= x) => x = m
  OBVIOUS
<1> HIDE DEF m
<1>3. (CHOOSE x \in {0, rest - 1} : \A y \in {0, rest - 1} : x >= y) = m
  BY <1>1, <1>2
<1> QED
  BY <1>3 DEF Max, m

LEMMA TickInTime ==
    ASSUME NEW c \in TimeOuts, NEW rest \in Nat, InTime(c, rest), xTickCount \in Tick, xTickCount' = NextTick,
           CountOverflows
    PROVE  InTime(c, Max({0, rest - 1}))'
<1> DEFINE e == c.xTimeOnEntering
           n == c.ticks
           T == xTickCount
           U == xTickCount'
           W == TickRange
           spent == (T - e) % W
<1>1. /\ e \in Tick /\ n \in Tick /\ W \in Nat /\ W > 1 /\ Tick = 0 .. W - 1 /\ U \in Tick
      /\ U = IF T = W - 1 THEN 0 ELSE T + 1
  BY NextTickIs, WidthAssumption DEF TimeOuts, Tick
<1>2. /\ spent = IF T >= e THEN T - e ELSE T - e + W
      /\ (U - e) % W = IF U >= e THEN U - e ELSE U - e + W
  BY <1>1, Elapsed
<1>3. Max({0, rest - 1}) = IF rest = 0 THEN 0 ELSE rest - 1
  BY OneLess
<1>4. CASE rest = 0
  BY <1>3, <1>4 DEF InTime
<1>5. CASE rest # 0
  <2>1. /\ n \notin {0, W - 1} /\ rest + spent <= n
        /\ xNumOfOverflows = IF T >= e THEN c.xOverflowCount ELSE (c.xOverflowCount + 1) % OverflowRange
    BY <1>5 DEF InTime, xElapsedTime, portMAX_DELAY
  <2>2. /\ spent \in Nat /\ spent + 2 < W /\ n < W - 1 /\ T \in 0 .. W - 1 /\ e \in 0 .. W - 1
    <3>1. spent \in Tick /\ T \in Tick
      BY <1>1, Elapsed
    <3> HIDE DEF spent, e, n, T, U, W
    <3> QED
      BY <1>1, <3>1, <1>5, <2>1
  <2>3. (U - e) % W = spent + 1 /\ (T >= e /\ U < e <=> U < T) /\ (T < e => U < e /\ U >= T)
    <3> HIDE DEF spent, e, n, T, U, W
    <3> QED
      BY <1>1, <1>2, <2>2
  <2>4. xNumOfOverflows' = IF U < T THEN (xNumOfOverflows + 1) % OverflowRange ELSE xNumOfOverflows
    BY DEF CountOverflows
  <2>5. xNumOfOverflows' = IF U >= e THEN c.xOverflowCount ELSE (c.xOverflowCount + 1) % OverflowRange
    <3>1. CASE T >= e /\ U < e
      BY <3>1, <2>1, <2>2, <2>3, <2>4, <1>1
    <3>2. CASE T >= e /\ U >= e
      BY <3>2, <2>1, <2>2, <2>3, <2>4, <1>1
    <3>3. CASE T < e
      BY <3>3, <2>1, <2>2, <2>3, <2>4, <1>1
    <3> QED
      BY <3>1, <3>2, <3>3, <1>1, <2>2
  <2>6. rest - 1 + (spent + 1) <= n
    <3> HIDE DEF spent, n
    <3> QED
      BY <2>1, <2>2
  <2> QED
    BY <1>3, <1>5, <2>1, <2>3, <2>5, <2>6 DEF InTime, xElapsedTime, portMAX_DELAY
<1> QED
  BY <1>4, <1>5

(* A task whose time is over has nothing left.                             *)
LEMMA OverMeansNothingLeft ==
    ASSUME NEW c \in TimeOuts, NEW rest \in Nat, InTime(c, rest), xTickCount \in Tick, TimedOut(c)
    PROVE  rest = 0
<1> SUFFICES ASSUME rest # 0 PROVE FALSE
  OBVIOUS
<1>1. /\ c.ticks \in Nat /\ rest + xElapsedTime(c) <= c.ticks
      /\ xTickCount >= c.xTimeOnEntering => xNumOfOverflows = c.xOverflowCount
  BY DEF InTime, TimeOuts, Tick
<1>2. xElapsedTime(c) \in Nat
  <2>1. c.xTimeOnEntering \in Tick
    BY DEF TimeOuts
  <2>2. xElapsedTime(c) \in Tick
    BY <2>1, Elapsed DEF xElapsedTime
  <2> QED
    BY <2>2 DEF Tick
<1>3. ~(xElapsedTime(c) >= c.ticks)
  BY <1>1, <1>2
<1> QED
  BY <1>1, <1>3 DEF TimedOut

(* What vTaskInternalSetTimeOutState records.                              *)
LEMMA SetInTime ==
    ASSUME NEW n \in Tick, NEW rest \in Nat, xTickCount \in Tick, xNumOfOverflows \in Nat,
           rest = 0 \/ (n \notin {0, portMAX_DELAY} /\ rest <= n)
    PROVE  /\ vTaskInternalSetTimeOutState(n) \in TimeOuts
           /\ vTaskInternalSetTimeOutState(n).ticks = n
           /\ InTime(vTaskInternalSetTimeOutState(n), rest)
<1> DEFINE c == vTaskInternalSetTimeOutState(n)
<1>1. 0 \in Tick /\ Tick \subseteq Nat
  BY WidthAssumption DEF Tick
<1>2. c.ticks = n /\ c \in TimeOuts
  BY <1>1 DEF vTaskInternalSetTimeOutState, TimeOuts
<1>3. CASE rest = 0
  BY <1>2, <1>3 DEF InTime
<1>4. CASE rest # 0
  <2>1. n \notin {0, portMAX_DELAY} /\ rest <= n
    BY <1>4
  <2>2. c.xTimeOnEntering = xTickCount /\ c.xOverflowCount = xNumOfOverflows
    BY <2>1 DEF vTaskInternalSetTimeOutState
  <2>3. xElapsedTime(c) = 0
    <3>1. (xTickCount - xTickCount) % TickRange = xTickCount - xTickCount
      BY <1>1, Elapsed
    <3>2. xTickCount - xTickCount = 0
      BY <1>1
    <3> HIDE DEF c
    <3> QED
      BY <2>2, <3>1, <3>2 DEF xElapsedTime
  <2>4. xTickCount >= xTickCount /\ rest + 0 <= n
    BY <1>1, <2>1
  <2> HIDE DEF c
  <2>5. c.ticks \notin {0, portMAX_DELAY} /\ rest + xElapsedTime(c) <= c.ticks
    BY <1>2, <2>1, <2>3, <2>4
  <2> QED
    BY <1>2, <2>2, <2>4, <2>5 DEF InTime, c
<1> QED
  BY <1>2, <1>3, <1>4

(* The time-out that xTaskCheckForTimeOut leaves.                          *)
LEMMA CheckedInTime ==
    ASSUME NEW c \in TimeOuts, NEW rest \in Nat, InTime(c, rest), xTickCount \in Tick, xNumOfOverflows \in Nat
    PROVE  /\ Checked(c) \in TimeOuts /\ InTime(Checked(c), rest)
           /\ ~TimedOut(c) => Checked(c).ticks # 0
<1>1. /\ c.ticks \in Tick /\ Tick \subseteq Nat /\ 0 \in Tick /\ portMAX_DELAY # 0 /\ portMAX_DELAY \in Tick
      /\ \A a, b \in Tick : b < a => a - b \in Tick /\ a - b # 0 /\ (b >= 0)
  BY WidthAssumption DEF TimeOuts, Tick, portMAX_DELAY
<1>2. xElapsedTime(c) \in Tick
  BY Elapsed DEF xElapsedTime, TimeOuts
<1>3. CASE c.ticks = portMAX_DELAY
  BY <1>1, <1>3 DEF Checked
<1>4. CASE TimedOut(c)
  <2>1. Checked(c) = vTaskInternalSetTimeOutState(0) /\ rest = 0
    BY <1>4, OverMeansNothingLeft DEF Checked, TimedOut
  <2> QED
    BY <1>1, <1>4, <2>1, SetInTime
<1>5. CASE c.ticks # portMAX_DELAY /\ ~TimedOut(c)
  <2> DEFINE spent == xElapsedTime(c)
             n == c.ticks - spent
  <2>1. Checked(c) = vTaskInternalSetTimeOutState(n)
    BY <1>5 DEF Checked
  <2>2. ~(spent >= c.ticks)
    BY <1>5 DEF TimedOut
  <2> HIDE DEF spent
  <2>3. spent \in Tick /\ spent < c.ticks
    <3>1. spent \in Tick /\ spent \in Nat /\ c.ticks \in Nat
      BY <1>1, <1>2 DEF spent
    <3> QED
      BY <2>2, <3>1
  <2>4. n \in Tick /\ n # 0
    BY <1>1, <2>3
  <2>5. n # portMAX_DELAY
    BY <1>1, <1>5, <2>3 DEF portMAX_DELAY, Tick
  <2>6. rest = 0 \/ rest <= n
    <3>1. rest = 0 \/ rest + spent <= c.ticks
      BY DEF InTime, spent
    <3>2. spent \in Nat /\ c.ticks \in Nat
      BY <1>1, <2>3
    <3> QED
      BY <3>1, <3>2
  <2> HIDE DEF n
  <2> QED
    BY <2>1, <2>4, <2>5, <2>6, SetInTime
<1> QED
  BY <1>3, <1>4, <1>5

-----------------------------------------------------------------------------
(* What the steps of the scheduler do to tasks that wait.                  *)

LEMMA TickOrNot ==
    ASSUME IInv, Next
    PROVE  /\ xTickCount \in Tick /\ NextTick # xTickCount
           /\ xTickCount' = xTickCount \/ xTickCount' = NextTick
           /\ TickCounts \/ ResumeTicks => xTickCount' = NextTick
<1>1. xTickCount \in Tick /\ xTickCount \in Nat
  BY WidthAssumption DEF IInv, Typed, Tick
<1>2. NextTick # xTickCount
  BY <1>1, NextTickIs, WidthAssumption
<1>3. TickCounts \/ ResumeTicks => xTickCount' = NextTick
  BY DEF TickCounts, ResumeTicks, TickLists
<1>4. Quiet \/ KernelSteps => UNCHANGED xTickCount \/ ResumeTicks
  BY DEF Quiet, SuspendAll, ResumeAll, vTaskDelay, xTaskCatchUpTicks, CatchUpPends,
     xTaskResumeAll, TickPends, CreateReturns, prvIdleTask, ResumeDrained, SuspendReturns,
     prvCheckTasksWaitingTermination, KernelSteps, DelaySleeps, CreateAdds, prvDeleteTCB, ResumeDrains,
     ResumeReturns, vPortYield, timeVars
<1>5. ASSUME NEW t \in Task,
             \/ vTaskSuspend(t) \/ vTaskDelete(t) \/ vTaskResume(t) \/ xTaskResumeFromISR(t)
             \/ \E p \in Priority : xTaskCreate(t, p) \/ vTaskPrioritySet(t, p)
      PROVE  UNCHANGED xTickCount
  BY <1>5 DEF vTaskSuspend, vTaskDelete, vTaskResume, xTaskResumeFromISR, xTaskCreate, vTaskPrioritySet, timeVars
<1>6. xTaskCreateInMain \/ vTaskStartScheduler => UNCHANGED xTickCount
  BY DEF xTaskCreateInMain, CreateBeforeStart, vTaskStartScheduler
<1>7. xTickCount' = xTickCount \/ xTickCount' = NextTick
  BY <1>3, <1>4, <1>5, <1>6, BoundAssumption
  DEF Next, AppCalls, Interrupts, vPortYieldFromTick, Quiet
<1> QED
  BY <1>1, <1>2, <1>3, <1>7

(* A task that sleeps or is suspended, and is not pending, stays so, or it *)
(* leaves its event list too, or it is resumed.                            *)
Asleep == (Sleeping \cup xSuspendedTaskList) \ xPendingReadyList
LEMMA StayAsleep == IInv /\ Next => \A t \in Asleep : t \in Dropped \cup Resumed \/ t \in Asleep'
<1> SUFFICES ASSUME IInv, Next, NEW t \in Asleep PROVE t \in Dropped \cup Resumed \/ t \in Asleep'
  OBVIOUS
<1>1. /\ t \in Task /\ t \notin xPendingReadyList /\ t \notin Ready
      /\ t \in pxDelayedTaskList \/ t \in pxOverflowDelayedTaskList \/ t \in xSuspendedTaskList
  BY DEF Asleep, Sleeping, IInv, Typed, Homes
<1> USE DEF Asleep, Sleeping, NotListed, sleepVars, timeVars
<1>2. CASE UNCHANGED <<pxDelayedTaskList, pxOverflowDelayedTaskList, xSuspendedTaskList, xPendingReadyList>>
  BY <1>2
<1>3. CASE xTaskCreateInMain \/ vTaskStartScheduler \/ Quiet \/ CreateAdds \/ prvDeleteTCB
           \/ ResumeReturns \/ vPortYield
  BY <1>2, <1>3 DEF xTaskCreateInMain, CreateBeforeStart, vTaskStartScheduler, Quiet, SuspendAll, ResumeAll,
     vTaskDelay, xTaskCatchUpTicks, CatchUpPends, xTaskResumeAll, TickPends, CreateReturns, prvIdleTask,
     ResumeDrained, SuspendReturns, prvCheckTasksWaitingTermination, CreateAdds, prvDeleteTCB,
     ResumeReturns, vPortYield
<1>4. ASSUME NEW u \in Task, NEW p \in Priority, xTaskCreate(u, p) \/ vTaskPrioritySet(u, p)
      PROVE  t \in Asleep'
  BY <1>4 DEF xTaskCreate, vTaskPrioritySet
<1>5. CASE DelaySleeps
  BY <1>5 DEF DelaySleeps, prvAddCurrentTaskToDelayedList
<1>6. ASSUME NEW u \in Task, ResumeDrains(u) PROVE t \in Asleep'
  BY <1>1, <1>6 DEF ResumeDrains
<1>7. ASSUME NEW u \in Task, vTaskSuspend(u) \/ vTaskDelete(u) PROVE t \in Dropped \/ t \in Asleep'
  <2>1. CASE t # u
    BY <1>7, <2>1 DEF vTaskSuspend, vTaskDelete, Unlink
  <2>2. CASE t = u
    <3>1. At("app") /\ pxCurrentTCB \in Ready /\ xTickCount' = xTickCount /\ pxCurrentTCB \in Task
      BY <1>7, InApp DEF vTaskSuspend, vTaskDelete, Calling
    <3>2. u # pxCurrentTCB
      BY <1>1, <2>2, <3>1
    <3>3. pc \in [Task -> Place]
      BY DEF IInv, Typed
    <3>4. \/ pc'[pxCurrentTCB] = [op |-> "suspended", who |-> u]
          \/ pc'[pxCurrentTCB] = [op |-> "free", who |-> u]
      BY <1>7, <3>1, <3>2, <3>3 DEF vTaskSuspend, vTaskDelete, Goto
    <3>5. pc'[pxCurrentTCB].op \in {"suspended", "free"} /\ pc'[pxCurrentTCB].who = u
      BY <3>4
    <3> QED
      BY <1>1, <2>2, <3>1, <3>5 DEF Dropped
  <2> QED
    BY <2>1, <2>2
<1>8. ASSUME NEW u \in Task, vTaskResume(u) \/ xTaskResumeFromISR(u) PROVE t \in Resumed \/ t \in Asleep'
  <2>1. CASE t # u
    BY <1>8, <2>1 DEF vTaskResume, xTaskResumeFromISR
  <2>2. CASE t = u
    <3>1. u \in Ready' \/ u \in xPendingReadyList'
      <4>1. vTaskResume(u) => u \in Ready'
        BY ResumeReady DEF Switches, ReadyBecomes
      <4>2. xTaskResumeFromISR(u) /\ uxSchedulerSuspended = 0 => u \in Ready'
        BY ResumeFromISRReady DEF ReadyBecomes
      <4>3. xTaskResumeFromISR(u) /\ uxSchedulerSuspended # 0 => u \in xPendingReadyList'
        BY DEF xTaskResumeFromISR
      <4> QED
        BY <1>8, <4>1, <4>2, <4>3
    <3>2. u \in xSuspendedTaskList \ xPendingReadyList
      BY <1>8 DEF vTaskResume, xTaskResumeFromISR, prvTaskIsTaskSuspended
    <3> QED
      BY <2>2, <3>1, <3>2 DEF Resumed
  <2> QED
    BY <2>1, <2>2
<1>9. CASE TickCounts \/ ResumeTicks
  <2>1. Dropped = Woken
    BY <1>9, TickOrNot DEF Dropped
  <2>2. TickLists /\ UNCHANGED xSuspendedTaskList
    BY <1>9 DEF TickCounts, ResumeTicks
  <2>3. DueList \cup LaterList = Sleeping
    BY DEF DueList, LaterList
  <2> QED
    BY <1>1, <2>1, <2>2, <2>3 DEF TickLists
<1> QED
  BY <1>3, <1>4, <1>5, <1>6, <1>7, <1>8, <1>9, BoundAssumption
  DEF Next, AppCalls, KernelSteps, Interrupts, vPortYieldFromTick, Quiet

-----------------------------------------------------------------------------
(* The steps of the scheduler keep the invariant.                          *)

LEMMA SchedulerSleepers ==
    ASSUME QueueInv, SchedulerSteps
    PROVE  IInv' /\ QueueTyped' /\ Departs(Dropped) /\ WaitersSleep' /\ WaitersInCall'
<1> USE DEF QueueInv, SchedulerSteps
<1>1. IInv'
  BY StepKeeps
<1>2. Departs(Dropped)
  BY LeaveDeparts DEF QueueTyped
<1>3. QueueTyped'
  <2>1. left' \in [Task -> Nat]
    <3>1. \A t \in Task : left[t] \in Nat
      BY DEF QueueTyped
    <3>2. \A t \in Task : Max({0, left[t] - 1}) \in Nat
      BY <3>1, OneLess
    <3> QED
      BY <3>1, <3>2
  <2>2. xNumOfOverflows' \in Nat
    <3>1. xNumOfOverflows \in Nat
      BY DEF QueueTyped
    <3>2. (xNumOfOverflows + 1) % OverflowRange \in Nat
      BY <3>1, OverflowAssumption
    <3> QED
      BY <3>1, <3>2 DEF CountOverflows
  <2> QED
    BY <1>2, <2>1, <2>2 DEF QueueTyped, Departs
<1>4. ASSUME NEW t \in Waiting' PROVE t \in Waiting \ Dropped
  BY <1>2, <1>4 DEF Departs, Waiting
<1>5. ASSUME NEW t \in Waiting' PROVE t \in Asleep'
  <2>1. t \in Asleep /\ t \notin Resumed /\ t \notin Dropped
    BY <1>4, <1>5 DEF WaitersSleep, Asleep
  <2> QED
    BY <2>1, StayAsleep
<1>6. WaitersSleep'
  BY <1>2, <1>5 DEF WaitersSleep, Asleep, Departs, Side
<1>7. WaitersInCall'
  <2> SUFFICES ASSUME NEW s \in Side, NEW t \in ToSet(waiting'[s]) PROVE Onward(pc'[t]) \in Entered(s)
    BY DEF WaitersInCall, Entered
  <2>1. t \in ToSet(waiting[s]) /\ t \in Waiting /\ t \in Waiting'
    BY <1>2 DEF Departs, Waiting
  <2>2. Onward(pc[t]) \in Entered(s)
    BY <2>1 DEF WaitersInCall
  <2>3. Onward(pc[t]).op \in {"retry", "unlock", "unlocked"}
    BY <2>2 DEF Entered, Unlocks
  <2>4. t \in Task /\ memory[t] = "live" /\ memory'[t] = "live"
    <3>1. t \in Asleep /\ t \in Asleep'
      BY <1>5, <2>1 DEF WaitersSleep, Asleep
    <3> QED
      BY <1>1, <3>1 DEF Asleep, IInv, Homes, Live
  <2>5. GoesOn(t)
    BY <2>4, OneWayKept
  <2>6. ~Ahead(pc[t])
    BY <2>3 DEF Ahead, Own
  <2> QED
    BY <2>2, <2>4, <2>5, <2>6 DEF GoesOn
<1> QED
  BY <1>1, <1>2, <1>3, <1>6, <1>7

(* The running task has these places of a call to itself.                  *)
LEMMA OneUrgent ==
    ASSUME IInv, Next, NEW ops \in SUBSET (CallOps \cap Urgent), In(ops)'
    PROVE  pxCurrentTCB' = pxCurrentTCB /\ In(ops) /\ pc'[pxCurrentTCB'] = pc[pxCurrentTCB]
<1>1. In(CallOps)'
  BY DEF In
<1>2. /\ pxCurrentTCB' \in Task /\ pc'[pxCurrentTCB'] = pc[pxCurrentTCB'] /\ xSchedulerRunning
  BY <1>1, StillInCall
<1>3. pc[pxCurrentTCB'].op \in Urgent
  BY <1>2 DEF In
<1>4. pxCurrentTCB' = pxCurrentTCB
  BY <1>2, <1>3 DEF IInv, Suspension
<1> QED
  BY <1>2, <1>4 DEF In

LEMMA SchedulerLocks ==
    ASSUME QueueInv, SchedulerSteps
    PROVE  LockedByRunner' /\ Entering' /\ HoldsLock'
<1> USE DEF QueueInv, SchedulerSteps
<1>1. LockedByRunner'
  <2> SUFFICES ASSUME NEW s \in Side, lock'[s] # queueUNLOCKED
               PROVE  /\ uxSchedulerSuspended' > 0
                      /\ pc'[pxCurrentTCB'].op \in {"test", "inherit", "place", "unlock", "unlocked"}
    BY DEF LockedByRunner
  <2>1. uxSchedulerSuspended > 0 /\ pc[pxCurrentTCB].op \in {"test", "inherit", "place", "unlock", "unlocked"}
    BY DEF LockedByRunner
  <2>2. uxSchedulerSuspended # 0
    BY <2>1 DEF IInv, Typed
  <2>3. In(CallOps)
    BY <2>1, <2>2 DEF In, CallOps, IInv, Alive, NotStarted
  <2> QED
    BY <2>1, <2>2, <2>3, HeldInCall
<1>2. HoldsLock'
  <2>1. {"test", "inherit", "place"} \in SUBSET (CallOps \cap Urgent) /\ {"unlocked"} \in SUBSET (CallOps \cap Urgent)
    BY DEF CallOps, Urgent, AboutToSleep, Unlocks
  <2>2. In({"test", "inherit", "place"})' => In({"test", "inherit", "place"})
    BY <2>1, OneUrgent
  <2>3. In({"unlocked"})' => In({"unlocked"})
    BY <2>1, OneUrgent
  <2> QED
    BY <2>2, <2>3 DEF HoldsLock
<1>3. Entering'
  <2> SUFFICES ASSUME In(Enters)' PROVE pxCurrentTCB' \notin xPendingReadyList'
    BY DEF Entering
  <2>1. Enters \in SUBSET (CallOps \cap Urgent) /\ Enters \subseteq AboutToSleep
    BY DEF CallOps, Urgent, AboutToSleep, Enters
  <2>2. In(Enters) /\ pxCurrentTCB' = pxCurrentTCB
    BY <2>1, OneUrgent
  <2>3. In(CallOps) /\ uxSchedulerSuspended # 0 /\ pxCurrentTCB \in Ready
    BY <2>1, <2>2, SleepsFromReady DEF In
  <2>4. pxCurrentTCB \notin xPendingReadyList \cup xSuspendedTaskList
    BY <2>2, <2>3 DEF Entering, IInv, Homes
  <2> QED
    BY <2>2, <2>3, <2>4, HeldInCall
<1> QED
  BY <1>1, <1>2, <1>3

LEMMA SchedulerTries ==
    ASSUME QueueInv, SchedulerSteps
    PROVE  Trying'
<1> USE DEF QueueInv, SchedulerSteps
<1> DEFINE t == pxCurrentTCB'
<1> SUFFICES ASSUME xSchedulerRunning', Onward(pc'[t]).op \in Tries
             PROVE  uxSchedulerSuspended' = IF At("resume")' THEN 1 ELSE 0
  BY DEF Trying
<1>1. IInv' /\ t \in Task /\ pc \in [Task -> Place] /\ pc' \in [Task -> Place] /\ GoesOn(t)
  <2>1. IInv'
    BY StepKeeps
  <2>2. t \in Task
    BY <2>1 DEF IInv, Alive, Live
  <2> QED
    BY <2>1, <2>2, OneWayKept DEF IInv, Typed
<1>2. App.op \notin Tries /\ Onward(App) = App /\ Tries \cap Own = {}
  BY DEF App, Onward, Tries, Own
<1>3. Onward(pc'[t]) = Onward(pc[t])
  BY <1>1, <1>2 DEF GoesOn, Ahead
<1>4. xSchedulerRunning /\ pc[t].op \notin Own
  <2>1. pc[t] # App
    BY <1>2, <1>3
  <2>2. pc[t].op \in Own => Onward(pc[t]) = pc[t]
    BY DEF Onward, Own
  <2> QED
    BY <1>1, <1>2, <1>3, <2>1, <2>2 DEF IInv, Alive, NotStarted
<1>5. CASE t # pxCurrentTCB
  <2>1. uxSchedulerSuspended' = 0
    BY <1>5, SwitchesUnsuspended
  <2>2. ~At("resume")'
    BY <1>1, <2>1 DEF IInv, Suspension
  <2> QED
    BY <2>1, <2>2
<1>6. CASE t = pxCurrentTCB
  <2>1. uxSchedulerSuspended = (IF At("resume") THEN 1 ELSE 0) /\ (HandsOn \/ Interrupts)
    BY <1>3, <1>4, <1>6, OnItsWay DEF Trying
  <2>2. CASE Interrupts
    BY <1>6, <2>1, <2>2 DEF Interrupts, vPortYieldFromTick, TickPends, TickCounts, xTaskResumeFromISR, lifeVars, At
  <2>3. CASE xTaskResumeAll
    <3>1. pc'[t].op = "drain" /\ uxSchedulerSuspended' = 0
      BY <1>1, <1>6, <2>1, <2>3 DEF xTaskResumeAll, Goto
    <3> QED
      BY <3>1 DEF At
  <2>4. ASSUME NEW u \in Task, ResumeDrains(u) PROVE uxSchedulerSuspended' = IF At("resume")' THEN 1 ELSE 0
    <3>1. pc'[t].op = "drain" /\ uxSchedulerSuspended' = 0
      BY <1>1, <1>6, <2>1, <2>4 DEF ResumeDrains, At
    <3> QED
      BY <3>1 DEF At
  <2>5. CASE ResumeDrained \/ ResumeTicks
    <3>1. CASE ResumeDrained
      <4>1. pc'[t].op = "ticks" /\ At("drain")
        BY <1>1, <1>6, <3>1 DEF ResumeDrained, Goto
      <4>2. uxSchedulerSuspended' = 0
        BY <2>1, <3>1, <4>1 DEF ResumeDrained, At
      <4> QED
        BY <4>1, <4>2 DEF At
    <3>2. CASE ResumeTicks
      <4>1. pc'[t].op = "ticks" /\ At("ticks")
        BY <1>1, <1>6, <3>2 DEF ResumeTicks, At
      <4>2. uxSchedulerSuspended' = 0
        BY <2>1, <3>2, <4>1 DEF ResumeTicks, At
      <4> QED
        BY <4>1, <4>2 DEF At
    <3> QED
      BY <2>5, <3>1, <3>2
  <2>6. CASE ResumeReturns \/ vPortYield
    <3>1. /\ pc[t].op = "ticks" => pc'[t] \in {pc[t].yielded, pc[t].not}
          /\ pc[t].op = "yield" => pc'[t] = pc[t].next
          /\ pc[t].op \in {"ticks", "yield"} /\ uxSchedulerSuspended' = 0
      BY <1>1, <1>6, <2>1, <2>6 DEF ResumeReturns, vPortYield, At, Goto
    <3>2. pc'[t] \in Ends
      BY <1>1, <3>1, PlaceShape DEF Ends
    <3>3. pc'[t].op # "resume"
      BY <3>2, EndShape DEF EndOps, OutOps
    <3> QED
      BY <3>1, <3>3 DEF At
  <2> QED
    BY <2>1, <2>2, <2>3, <2>4, <2>5, <2>6 DEF HandsOn
<1> QED
  BY <1>5, <1>6

LEMMA SchedulerTimes ==
    ASSUME QueueInv, SchedulerSteps
    PROVE  TimesKept' /\ IdleIsOut'
<1> USE DEF QueueInv, SchedulerSteps
<1>1. /\ App.op \in Own /\ Onward(App) = App /\ HasTime \cap Own = {}
      /\ pc \in [Task -> Place] /\ \A t \in Task : GoesOn(t)
  BY OneWayKept DEF App, Onward, HasTime, Own, IInv, Typed
<1>2. IdleIsOut'
  <2>1. Idle \in Task /\ GoesOn(Idle)
    BY <1>1, TaskAssumption
  <2> QED
    BY <1>1, <2>1 DEF IdleIsOut, GoesOn, Ahead
<1>3. ASSUME NEW t \in Task, Onward(pc'[t]).op \in HasTime
      PROVE  TimeKept(t)'
  <2> DEFINE p == Onward(pc[t])
  <2>1. Onward(pc'[t]) = p
    BY <1>1, <1>3 DEF GoesOn, Ahead
  <2>2. /\ p.op \in HasTime /\ InTime(p.time, left[t]) /\ left[t] \in Nat /\ p.time \in TimeOuts
        /\ p.op \in Unlocks => (p.then = "timesOut" => left[t] = 0)
    BY <1>1, <1>3, <2>1, WhereTimed DEF TimesKept, TimeKept, QueueTyped
  <2> HIDE DEF p
  <2>3. PICK c \in TimeOuts, rest \in Nat : c = p.time /\ rest = left[t] /\ InTime(c, rest)
    BY <2>2
  <2>4. left'[t] = (IF xTickCount' # xTickCount THEN Max({0, rest - 1}) ELSE rest) /\ (rest = 0 => left'[t] = 0)
    BY <2>3, OneLess
  <2>5. InTime(c, left[t])'
    <3>1. CASE xTickCount' = xTickCount
      <4>1. xNumOfOverflows' = xNumOfOverflows
        <5>1. xTickCount \in Nat
          BY TickOrNot DEF Tick
        <5>2. ~(xTickCount' < xTickCount)
          BY <3>1, <5>1
        <5> QED
          BY <5>2 DEF CountOverflows
      <4>2. InTime(c, rest)'
        BY <2>3, <3>1, <4>1, SameTime
      <4> QED
        BY <2>4, <3>1, <4>2 DEF InTime
    <3>2. CASE xTickCount' # xTickCount
      <4>1. InTime(c, Max({0, rest - 1}))'
        BY <2>3, <3>2, TickOrNot, TickInTime
      <4> QED
        BY <2>4, <3>2, <4>1 DEF InTime
    <3> QED
      BY <3>1, <3>2
  <2>6. Onward(pc'[t]).time = c
    BY <2>1, <2>3
  <2>7. InTime(Onward(pc[t]).time, left[t])'
    BY <2>5, <2>6 DEF InTime, xElapsedTime
  <2> QED
    BY <2>1, <2>2, <2>3, <2>4, <2>7 DEF TimeKept
<1> QED
  BY <1>2, <1>3 DEF TimesKept, TimeKept

LEMMA SchedulerKeepsQueue == QueueInv /\ SchedulerSteps => QueueInv'
  BY SchedulerSleepers, SchedulerLocks, SchedulerTries, SchedulerTimes DEF QueueInv

-----------------------------------------------------------------------------
(* What the steps of the queue have in common.                             *)

(* A task that waits is not ready.                                         *)
LEMMA WaitersAreNotReady ==
    ASSUME QueueInv
    PROVE  Waiting \cap Ready = {} /\ Waiting \subseteq Live \ xTasksWaitingTermination
  BY DEF QueueInv, WaitersSleep, IInv, Homes

(* The tasks of S and P leave their event lists.                           *)
LEMMA WaitersKept ==
    ASSUME QueueInv, NEW S, NEW P, Rearranges(S, P), Departs(S \cup P),
           \A t \in Waiting : \A s \in Side : Onward(pc[t]) \in Entered(s) => Onward(pc'[t]) \in Entered(s)
    PROVE  WaitersSleep' /\ WaitersInCall'
<1>1. ASSUME NEW s \in Side, NEW t \in ToSet(waiting'[s])
      PROVE  t \in ToSet(waiting[s]) /\ t \in Waiting /\ t \notin S \cup P
  BY <1>1 DEF Departs, Waiting
<1>2. ASSUME NEW t \in Waiting' PROVE t \in Asleep'
  <2>1. t \in Asleep /\ t \notin S \cup P
    BY <1>1, <1>2 DEF QueueInv, WaitersSleep, Asleep, Waiting
  <2> QED
    BY <2>1 DEF Rearranges, Asleep, Sleeping
<1>3. WaitersSleep'
  <2>1. ToSet(waiting["send"])' \cap ToSet(waiting["receive"])' = {}
    BY <1>1 DEF QueueInv, WaitersSleep, Side
  <2> QED
    BY <1>2, <2>1 DEF WaitersSleep, Asleep, Departs
<1>4. WaitersInCall'
  <2> SUFFICES ASSUME NEW s \in Side, NEW t \in ToSet(waiting'[s]) PROVE Onward(pc'[t]) \in Entered(s)
    BY DEF WaitersInCall, Entered
  <2> QED
    BY <1>1 DEF QueueInv, WaitersInCall
<1> QED
  BY <1>3, <1>4

(* The times of the tasks that do nothing.                                 *)
LEMMA TimesStand ==
    ASSUME QueueInv, UNCHANGED <<xTickCount, xNumOfOverflows>>, NEW t \in Task,
           pc'[t] = pc[t], left'[t] = left[t]
    PROVE  TimeKept(t)'
<1>1. TimeKept(t)
  BY DEF QueueInv, TimesKept
<1> QED
  BY <1>1 DEF TimeKept, InTime, xElapsedTime

(* The running task goes on in its call, to a place that fits.             *)
LEMMA GoesTo ==
    ASSUME QueueInv, xSchedulerRunning, pxCurrentTCB # Idle, NEW S, NEW P, Rearranges(S, P), Departs(S \cup P),
           NEW place, Moves(place), IInv', QueueTyped', UNCHANGED xNumOfOverflows,
           \A t \in Task \ {pxCurrentTCB} : left'[t] = left[t],
           \/ pxCurrentTCB \in Ready
           \/ \A s \in Side : Onward(pc[pxCurrentTCB]) \in Entered(s) => Onward(place) \in Entered(s),
           \A s \in Side : lock'[s] # queueUNLOCKED =>
              /\ uxSchedulerSuspended' > 0
              /\ place.op \in {"test", "inherit", "place", "unlock", "unlocked"},
           place.op \in Enters => pxCurrentTCB \notin xPendingReadyList',
           place.op \in {"test", "inherit", "place"} => \A s \in Side : lock'[s] # queueUNLOCKED,
           place.op = "unlocked" => lock'["receive"] = queueUNLOCKED,
           Onward(place).op \in Tries => uxSchedulerSuspended' = IF place.op = "resume" THEN 1 ELSE 0,
           Onward(place).op \in HasTime =>
              /\ InTime(Onward(place).time, left'[pxCurrentTCB])
              /\ Onward(place).op \in Unlocks => (Onward(place).then = "timesOut" => left'[pxCurrentTCB] = 0)
    PROVE  QueueInv'
<1> DEFINE me == pxCurrentTCB
<1>1. /\ me \in Task /\ me' = me /\ pc \in [Task -> Place] /\ pc' = [pc EXCEPT ![me] = place]
      /\ pc'[me] = place /\ \A t \in Task : t # me => pc'[t] = pc[t]
  BY Here DEF QueueInv, Moves, Stays
<1>2. UNCHANGED <<xSchedulerRunning, xTickCount>>
  BY DEF Rearranges, lifeVars, timeVars
<1> HIDE DEF me
<1>3. WaitersSleep' /\ WaitersInCall'
  <2>1. me \in Ready => me \notin Waiting
    BY WaitersAreNotReady
  <2>2. Waiting \subseteq Task
    BY WaitersAreNotReady DEF Live
  <2>3. ASSUME NEW t \in Waiting, NEW s \in Side, Onward(pc[t]) \in Entered(s) PROVE Onward(pc'[t]) \in Entered(s)
    BY <1>1, <2>1, <2>2, <2>3 DEF me
  <2> QED
    BY <2>3, WaitersKept
<1>4. LockedByRunner' /\ Entering' /\ HoldsLock'
  BY <1>1, <1>2 DEF LockedByRunner, Entering, HoldsLock, In, me
<1>5. Trying'
  BY <1>1, <1>2 DEF Trying, At, me
<1>6. TimesKept'
  <2>1. ASSUME NEW t \in Task, t = me PROVE TimeKept(t)'
    BY <2>1, <1>1, <1>2 DEF TimeKept, InTime, xElapsedTime, me
  <2>2. ASSUME NEW t \in Task, t # me PROVE TimeKept(t)'
    BY <1>1, <1>2, <2>2, TimesStand DEF me
  <2> QED
    BY <2>1, <2>2 DEF TimesKept, TimeKept
<1>7. IdleIsOut'
  BY <1>1, TaskAssumption DEF QueueInv, IdleIsOut, me
<1> QED
  BY <1>3, <1>4, <1>5, <1>6, <1>7 DEF QueueInv

(* The running task is done with its call, and may be with the CPU.        *)
LEMMA GivesWay ==
    ASSUME QueueInv, xSchedulerRunning, pxCurrentTCB \in Ready, NEW S, NEW P, Rearranges(S, P), Departs(S \cup P),
           MayGive(App), IInv', QueueTyped', UNCHANGED <<uxSchedulerSuspended, left, xNumOfOverflows>>,
           \A s \in Side : lock'[s] = queueUNLOCKED
    PROVE  QueueInv'
<1> DEFINE me == pxCurrentTCB
<1>1. /\ me \in Task /\ pc \in [Task -> Place] /\ pc' = [pc EXCEPT ![me] = App]
      /\ pc'[me] = App /\ \A t \in Task : t # me => pc'[t] = pc[t]
  BY Here DEF QueueInv, MayGive
<1>2. UNCHANGED <<xSchedulerRunning, xTickCount>>
  BY DEF Rearranges, lifeVars, timeVars
<1>3. /\ Onward(App) = App /\ App.op \in Own /\ App.op \notin Tries /\ App.op \notin HasTime
  BY DEF Onward, App, Own, Tries, HasTime
<1>4. pxCurrentTCB' \in Task /\ (uxSchedulerSuspended # 0 => pxCurrentTCB' = me)
  <2>1. pxCurrentTCB' \in Live'
    BY <1>2 DEF IInv, Alive
  <2> QED
    BY <2>1 DEF Live, Rearranges, Switches
<1>5. pc'[pxCurrentTCB'].op \notin Urgent
  BY <1>4, UrgentGone DEF QueueInv
<1> HIDE DEF me
<1>6. WaitersSleep' /\ WaitersInCall'
  <2>1. Waiting \subseteq Task /\ me \notin Waiting
    BY WaitersAreNotReady DEF Live, me
  <2>2. ASSUME NEW t \in Waiting, NEW s \in Side, Onward(pc[t]) \in Entered(s) PROVE Onward(pc'[t]) \in Entered(s)
    BY <1>1, <2>1, <2>2
  <2> QED
    BY <2>2, WaitersKept
<1>7. LockedByRunner' /\ Entering' /\ HoldsLock'
  BY <1>5 DEF LockedByRunner, Entering, HoldsLock, In, Urgent, AboutToSleep, Enters, Unlocks
<1>8. Trying'
  <2> SUFFICES ASSUME Onward(pc'[pxCurrentTCB']).op \in Tries
               PROVE  uxSchedulerSuspended' = IF At("resume")' THEN 1 ELSE 0
    BY DEF Trying
  <2>1. pxCurrentTCB' # me
    BY <1>1, <1>3
  <2> QED
    BY <1>4, <1>5, <2>1 DEF At, Urgent
<1>9. TimesKept'
  <2>1. ASSUME NEW t \in Task, t = me PROVE TimeKept(t)'
    BY <2>1, <1>1, <1>3 DEF TimeKept
  <2>2. ASSUME NEW t \in Task, t # me PROVE TimeKept(t)'
    BY <1>1, <1>2, <2>2, TimesStand
  <2> QED
    BY <2>1, <2>2 DEF TimesKept, TimeKept
<1>10. IdleIsOut'
  BY <1>1, <1>3, TaskAssumption DEF QueueInv, IdleIsOut
<1> QED
  BY <1>6, <1>7, <1>8, <1>9, <1>10 DEF QueueInv

(* An interrupt: nobody goes on, and the lock stays.                       *)
LEMMA InterruptKeeps ==
    ASSUME QueueInv, xSchedulerRunning, NEW S, NEW P, Rearranges(S, P), Departs(S \cup P), P \subseteq Waiting,
           Stays, IInv', QueueTyped', UNCHANGED <<pc, uxSchedulerSuspended, left, xNumOfOverflows>>,
           \A s \in Side : lock'[s] = queueUNLOCKED <=> lock[s] = queueUNLOCKED
    PROVE  QueueInv'
<1>1. UNCHANGED <<xSchedulerRunning, xTickCount, pxCurrentTCB>>
  BY DEF Rearranges, lifeVars, timeVars, Stays
<1>2. WaitersSleep' /\ WaitersInCall'
  BY WaitersKept
<1>3. LockedByRunner' /\ HoldsLock'
  BY <1>1 DEF QueueInv, LockedByRunner, HoldsLock, In, Side
<1>4. Entering'
  <2> SUFFICES ASSUME In(Enters) PROVE pxCurrentTCB \notin xPendingReadyList'
    BY <1>1 DEF Entering, In
  <2>1. pxCurrentTCB \in Ready
    BY SleepsFromReady DEF QueueInv, In, Enters, AboutToSleep
  <2>2. pxCurrentTCB \notin P /\ pxCurrentTCB \notin xPendingReadyList
    BY <2>1, WaitersAreNotReady DEF QueueInv, Entering
  <2> QED
    BY <2>2 DEF Rearranges
<1>5. Trying'
  BY <1>1 DEF QueueInv, Trying, At
<1>6. TimesKept'
  BY <1>1, TimesStand DEF TimesKept, TimeKept
<1>7. IdleIsOut'
  BY DEF QueueInv, IdleIsOut
<1> QED
  BY <1>2, <1>3, <1>4, <1>5, <1>6, <1>7 DEF QueueInv

-----------------------------------------------------------------------------
(* The steps that wake the first waiter of a side.                         *)

(* It is made ready, or pending while the scheduler is suspended.          *)
MadeReady(side)   == IF uxSchedulerSuspended = 0 THEN FirstWaiters(side, 1) ELSE {}
MadePending(side) == IF uxSchedulerSuspended = 0 THEN {} ELSE FirstWaiters(side, 1)

LEMMA PopTyped ==
    ASSUME QueueInv, NEW side \in Side, NEW n \in Int, NEW tries, Pop(side, n, tries)
    PROVE  /\ FirstWaiters(side, n) \subseteq Waiting
           /\ FirstWaiters(side, n) \subseteq Live \ xTasksWaitingTermination
           /\ Departs(FirstWaiters(side, n)) /\ served' \in [Side -> SUBSET Task]
<1>1. waiting \in [Side -> Seq(Task)] /\ served \in [Side -> SUBSET Task]
  BY DEF QueueInv, QueueTyped
<1>2. FirstWaiters(side, n) \subseteq Waiting
  BY <1>1, FirstWait DEF Waiting
<1>3. FirstWaiters(side, n) \subseteq Live \ xTasksWaitingTermination
  BY <1>2, WaitersAreNotReady
<1>4. Departs(FirstWaiters(side, n))
  BY <1>1, LeaveDeparts DEF Pop
<1>5. served' \in [Side -> SUBSET Task]
  BY <1>1, <1>3 DEF Pop, Live
<1> QED
  BY <1>2, <1>3, <1>4, <1>5

LEMMA WakesFirst ==
    ASSUME QueueInv, xSchedulerRunning, NEW side \in Side, NEW tries, WakeFirst(side, tries)
    PROVE  LET S == MadeReady(side)
               P == MadePending(side)
           IN  /\ S \cup P \subseteq Waiting /\ S \cup P \subseteq Live \ xTasksWaitingTermination
               /\ P = {} \/ uxSchedulerSuspended # 0
               /\ Departs(S \cup P) /\ served' \in [Side -> SUBSET Task]
               /\ Holds(Moved(side, pxReadyTasksLists), Ready \cup S, uxPriority)
               /\ Covers(Ready \cup S, uxPriority, MovedTop(side))
               /\ pxDelayedTaskList' = pxDelayedTaskList \ S
               /\ pxOverflowDelayedTaskList' = pxOverflowDelayedTaskList \ S
               /\ xSuspendedTaskList' = xSuspendedTaskList \ S
               /\ xPendingReadyList' = xPendingReadyList \cup P
               /\ UNCHANGED xItemValue
<1> DEFINE S == MadeReady(side)
           P == MadePending(side)
           first == FirstWaiters(side, 1)
<1>1. S \cup P = first /\ (P = {} \/ uxSchedulerSuspended # 0)
  BY DEF MadeReady, MadePending
<1>2. Pop(side, 1, tries)
  BY DEF WakeFirst
<1>3. /\ first \subseteq Waiting /\ first \subseteq Live \ xTasksWaitingTermination
      /\ Departs(first) /\ served' \in [Side -> SUBSET Task]
  BY <1>2, PopTyped
<1>4. /\ waiting[side] = <<>> => first = {}
      /\ waiting[side] # <<>> => first = {waiting[side][1]} /\ waiting[side][1] \in Task
  <2>1. waiting \in [Side -> Seq(Task)]
    BY DEF QueueInv, QueueTyped
  <2> QED
    BY <1>3, <2>1, FirstWait DEF Live
<1>5. IInv /\ Ready \in SUBSET Task /\ uxPriority \in [Task -> Priority]
  BY ReadyFacts DEF QueueInv
<1> HIDE DEF first
<1>6. CASE waiting[side] # <<>> /\ uxSchedulerSuspended = 0
  <2> DEFINE t == waiting[side][1]
  <2>1. S = {t} /\ P = {} /\ t \in Task /\ first = {t}
    BY <1>4, <1>6 DEF MadeReady, MadePending, first
  <2>2. Unblock(t) /\ UNCHANGED xPendingReadyList
    BY <1>6 DEF WakeFirst
  <2>3. /\ Moved(side, pxReadyTasksLists) = prvAddTaskToReadyList(Without(pxReadyTasksLists, t), t, uxPriority)
        /\ MovedTop(side) = taskRECORD_READY_PRIORITY({t}, uxPriority)
    BY <1>6, <2>1 DEF Moved, MovedTop, first
  <2> HIDE DEF t, S, P
  <2>4. Holds(Moved(side, pxReadyTasksLists), Ready \cup S, uxPriority) /\ Covers(Ready \cup S, uxPriority, MovedTop(side))
    BY <1>5, <2>1, <2>3, MoveReady
  <2> QED
    BY <1>1, <1>3, <2>1, <2>2, <2>4 DEF Unblock, S, P
<1>7. CASE ~(waiting[side] # <<>> /\ uxSchedulerSuspended = 0)
  <2>1. S = {} /\ P = first
    BY <1>1, <1>4, <1>7 DEF MadeReady, MadePending, first
  <2>2. xPendingReadyList' = xPendingReadyList \cup P /\ UNCHANGED <<sleepVars, xSuspendedTaskList>>
    BY <1>7, <2>1 DEF WakeFirst, first
  <2>3. Moved(side, pxReadyTasksLists) = pxReadyTasksLists
    BY <1>7 DEF Moved
  <2>4. Holds(Moved(side, pxReadyTasksLists), Ready \cup S, uxPriority)
    BY <1>5, <2>1, <2>3, ReadyFacts
  <2>5. Covers(Ready \cup S, uxPriority, MovedTop(side))
    <3>1. CASE uxSchedulerSuspended = 0
      <4>1. first = {} /\ MovedTop(side) = taskRECORD_READY_PRIORITY({}, uxPriority)
        BY <1>4, <1>7, <3>1 DEF MovedTop, first
      <4>2. \A u \in Ready : uxPriority[u] <= uxTopReadyPriority
        BY <1>5, ReadyFacts DEF Covers
      <4>3. Covers(Ready \cup {}, uxPriority, taskRECORD_READY_PRIORITY({}, uxPriority))
        BY <1>5, <4>2, RecordCovers
      <4> QED
        BY <2>1, <4>1, <4>3
    <3>2. CASE uxSchedulerSuspended # 0
      BY <1>5, <2>1, <3>2, ReadyFacts DEF MovedTop
    <3> QED
      BY <3>1, <3>2
  <2> HIDE DEF S, P
  <2> QED
    BY <1>1, <1>3, <2>1, <2>2, <2>4, <2>5 DEF sleepVars, S, P
<1> QED
  BY <1>6, <1>7

(* What a call or an interrupt leaves in the queue.                        *)
LEMMA CountFits ==
    ASSUME QueueTyped, NEW act \in {"send", "overwrite", "receive", "peek"}, Possible(act)
    PROVE  Count(act) \in 0 .. uxLength /\ Wakes(act) \in Side
<1>1. uxMessagesWaiting \in Nat /\ uxLength \in Nat /\ uxMessagesWaiting <= uxLength
  BY QueueAssumption DEF QueueTyped
<1>2. act = "send" => uxMessagesWaiting < uxLength
  BY DEF Possible
<1>3. act = "receive" => uxMessagesWaiting > 0
  BY DEF Possible
<1>4. Count(act) \in 0 .. uxLength
  BY <1>1, <1>2, <1>3 DEF Count
<1> QED
  BY <1>4 DEF Wakes, Side

(* The running task does what it came for, or resets the queue.            *)
LEMMA RunnerWakes ==
    ASSUME QueueInv, xSchedulerRunning, pxCurrentTCB \in Ready, ~Masked,
           NEW side \in Side, NEW tries, WakeFirst(side, tries), MayGive(App),
           \/ vTaskSwitchContext(Moved(side, pxReadyTasksLists), MovedTop(side))
           \/ Keep(Moved(side, pxReadyTasksLists), MovedTop(side)),
           uxMessagesWaiting' \in 0 .. uxLength, \A s \in Side : lock'[s] = queueUNLOCKED,
           lock' \in [Side -> Nat \cup {queueUNLOCKED}],
           UNCHANGED <<left, xNextTaskUnblockTime, uxSchedulerSuspended, Unconcerned>>
    PROVE  QueueInv'
<1> DEFINE S == MadeReady(side)
           P == MadePending(side)
           lists == Moved(side, pxReadyTasksLists)
           top == MovedTop(side)
<1>1. /\ S \cup P \subseteq Live \ xTasksWaitingTermination
      /\ P = {} \/ uxSchedulerSuspended # 0
      /\ Departs(S \cup P) /\ served' \in [Side -> SUBSET Task]
      /\ Holds(lists, Ready \cup S, uxPriority) /\ Covers(Ready \cup S, uxPriority, top)
      /\ pxDelayedTaskList' = pxDelayedTaskList \ S
      /\ pxOverflowDelayedTaskList' = pxOverflowDelayedTaskList \ S
      /\ xSuspendedTaskList' = xSuspendedTaskList \ S
      /\ xPendingReadyList' = xPendingReadyList \cup P
      /\ UNCHANGED xItemValue
  BY WakesFirst
<1>2. vTaskSwitchContext(lists, top) \/ Keep(lists, top)
  OBVIOUS
<1> HIDE DEF S, P, lists, top
<1>3. /\ IInv /\ UNCHANGED <<uxPriority, lifeVars, timeVars, notifyVars, xNumOfOverflows, uxSchedulerSuspended>>
      /\ uxPriority \in [Task -> Priority] /\ uxPriority[Idle] = 0
  BY ReadyFacts DEF QueueInv, Unconcerned, timeVars
<1>4. Ready \cup S \in SUBSET Task /\ Ready \cup S # {}
  BY <1>1, <1>3, ReadyFacts DEF Live
<1>5. Switches(Ready \cup S)
  BY <1>1, <1>2, <1>3, <1>4, SwitchReady
<1>6. Rearranges(S, P)
  BY <1>1, <1>3, <1>5 DEF Rearranges, notifyVars, IInv, Typed
<1>7. App \in Plain
  BY PlainPlaces
<1>8. IInv'
  BY <1>1, <1>3, <1>6, <1>7, CallGives
<1>9. QueueTyped'
  BY <1>1, <1>3 DEF QueueTyped, QueueInv, Departs
<1> QED
  BY <1>1, <1>3, <1>6, <1>8, <1>9, GivesWay

(* A task in application code: the queue is not locked.                    *)
LEMMA InAppUnlocked ==
    ASSUME QueueInv, xSchedulerRunning,
           pc[pxCurrentTCB].op \notin {"test", "inherit", "place", "unlock", "unlocked"}
    PROVE  \A s \in Side : lock[s] = queueUNLOCKED
  BY DEF QueueInv, LockedByRunner

LEMMA PerformKeeps ==
    ASSUME QueueInv, xSchedulerRunning, pxCurrentTCB \in Ready, pc[pxCurrentTCB].op \in {"app", "retry"},
           NEW act \in {"send", "overwrite", "receive", "peek"}, Perform(act)
    PROVE  QueueInv'
<1>1. \A s \in Side : lock'[s] = queueUNLOCKED
  BY InAppUnlocked DEF Perform
<1>2. lock' \in [Side -> Nat \cup {queueUNLOCKED}]
  BY DEF Perform, QueueInv, QueueTyped
<1>3. ~Masked /\ MayGive(App)
  BY DEF Masked, MayGive, Perform, Goto, App, Urgent, AboutToSleep, Unlocks
<1>4. uxMessagesWaiting' \in 0 .. uxLength /\ Wakes(act) \in Side
  BY CountFits DEF Perform, QueueInv
<1> DEFINE side == Wakes(act)
<1>5. /\ WakeFirst(side, {pxCurrentTCB})
      /\ \/ vTaskSwitchContext(Moved(side, pxReadyTasksLists), MovedTop(side))
         \/ Keep(Moved(side, pxReadyTasksLists), MovedTop(side))
      /\ UNCHANGED <<left, xNextTaskUnblockTime, uxSchedulerSuspended, Unconcerned>>
  BY DEF Perform
<1> HIDE DEF side
<1> QED
  BY <1>1, <1>2, <1>3, <1>4, <1>5, RunnerWakes DEF side

LEMMA CallSucceedsKeeps == QueueInv /\ CallSucceeds => QueueInv'
<1> SUFFICES ASSUME QueueInv, CallSucceeds PROVE QueueInv'
  OBVIOUS
<1>1. At("app")
  BY DEF CallSucceeds, Calling
<1>2. xSchedulerRunning /\ pxCurrentTCB \in Ready /\ pc[pxCurrentTCB].op \in {"app", "retry"}
  BY <1>1, InApp DEF QueueInv, App
<1> QED
  BY <1>2, PerformKeeps DEF CallSucceeds

(* A task that tries is ready and is not the idle task, and the scheduler  *)
(* is not suspended.                                                       *)
LEMMA TriesWhenReady ==
    ASSUME QueueInv, NEW o \in {"retry", "suspend", "recheck"}, At(o)
    PROVE  /\ xSchedulerRunning /\ pxCurrentTCB \in Task /\ pxCurrentTCB \in Ready /\ pxCurrentTCB # Idle
           /\ uxSchedulerSuspended = 0 /\ xPendingReadyList = {} /\ xPendedTicks = 0
           /\ pc[pxCurrentTCB] \in Place /\ pc[pxCurrentTCB].op = o
           /\ pc[pxCurrentTCB] = CallAt(o, pc[pxCurrentTCB].act, pc[pxCurrentTCB].time)
           /\ pc[pxCurrentTCB].act \in Acts /\ pc[pxCurrentTCB].time \in TimeOuts
           /\ InTime(pc[pxCurrentTCB].time, left[pxCurrentTCB])
           /\ \A s \in Side : lock[s] = queueUNLOCKED
<1> DEFINE me == pc[pxCurrentTCB]
<1>1. xSchedulerRunning /\ me.op = o /\ pxCurrentTCB \in Task /\ me \in Place
  BY Here DEF QueueInv, At
<1>2. Onward(me) = me
  BY <1>1 DEF Onward
<1>3. pxCurrentTCB \in Ready
  BY <1>1 DEF QueueInv, IInv, Away, Leaving, In, Unlocks, At
<1>4. pxCurrentTCB # Idle
  BY <1>1, <1>2 DEF QueueInv, IdleIsOut, Own
<1>5. uxSchedulerSuspended = 0
  BY <1>1, <1>2 DEF QueueInv, Trying, At, Tries
<1>6. xPendingReadyList = {} /\ xPendedTicks = 0
  BY <1>1, <1>5 DEF QueueInv, IInv, Suspension, NothingLeftPending, Masked
<1>7. me = CallAt(o, me.act, me.time) /\ me.act \in Acts /\ me.time \in TimeOuts
  BY <1>1, QueueShape DEF HasTime, Unlocks
<1>8. InTime(me.time, left[pxCurrentTCB])
  BY <1>1, <1>2 DEF QueueInv, TimesKept, TimeKept, HasTime
<1>9. \A s \in Side : lock[s] = queueUNLOCKED
  BY <1>1, InAppUnlocked
<1> QED
  BY <1>1, <1>3, <1>4, <1>5, <1>6, <1>7, <1>8, <1>9

LEMMA RetrySucceedsKeeps == QueueInv /\ RetrySucceeds => QueueInv'
<1> SUFFICES ASSUME QueueInv, RetrySucceeds PROVE QueueInv'
  OBVIOUS
<1>1. /\ xSchedulerRunning /\ pxCurrentTCB \in Ready /\ pc[pxCurrentTCB].op = "retry"
      /\ pc[pxCurrentTCB].act \in Acts
  BY TriesWhenReady DEF RetrySucceeds
<1> QED
  BY <1>1, PerformKeeps DEF RetrySucceeds, Acts, Call

LEMMA ResetKeeps == QueueInv /\ xQueueGenericReset => QueueInv'
<1> SUFFICES ASSUME QueueInv, xQueueGenericReset PROVE QueueInv'
  OBVIOUS
<1>1. At("app")
  BY DEF xQueueGenericReset, Calling
<1>2. /\ xSchedulerRunning /\ pxCurrentTCB \in Ready /\ pc[pxCurrentTCB] = App
      /\ pc = [pc EXCEPT ![pxCurrentTCB] = App]
  BY <1>1, InApp DEF QueueInv
<1>3. ~Masked /\ MayGive(App)
  BY <1>2 DEF Masked, MayGive, xQueueGenericReset, App, Urgent, AboutToSleep, Unlocks
<1>4. /\ uxMessagesWaiting' \in 0 .. uxLength /\ "send" \in Side
      /\ lock' \in [Side -> Nat \cup {queueUNLOCKED}] /\ \A s \in Side : lock'[s] = queueUNLOCKED
  BY QueueAssumption DEF xQueueGenericReset, Side
<1>5. /\ WakeFirst("send", {})
      /\ \/ vTaskSwitchContext(Moved("send", pxReadyTasksLists), MovedTop("send"))
         \/ Keep(Moved("send", pxReadyTasksLists), MovedTop("send"))
      /\ UNCHANGED <<left, xNextTaskUnblockTime, uxSchedulerSuspended, Unconcerned>>
  BY DEF xQueueGenericReset
<1> QED
  BY <1>2, <1>3, <1>4, <1>5, RunnerWakes

LEMMA NobodyLeaves ==
    ASSUME QueueInv, UNCHANGED waiting
    PROVE  Departs({})
  BY DEF QueueInv, QueueTyped, WaitersSleep, Departs

LEMMA FromISRKeeps ==
    ASSUME QueueInv, NEW act \in {"send", "receive"}, FromISR(act)
    PROVE  QueueInv'
<1> DEFINE side == Wakes(act)
<1>1. /\ xSchedulerRunning /\ ~Masked /\ side \in Side /\ uxMessagesWaiting' \in 0 .. uxLength
      /\ UNCHANGED <<xNextTaskUnblockTime, pxCurrentTCB, uxSchedulerSuspended, left, pc, Unconcerned>>
  BY CountFits DEF FromISR, QueueInv
<1>2. /\ IInv /\ UNCHANGED <<uxPriority, lifeVars, timeVars, notifyVars, xNumOfOverflows>> /\ Stays
      /\ uxPriority \in [Task -> Priority] /\ uxPriority[Idle] = 0
  BY <1>1, ReadyFacts DEF QueueInv, Unconcerned, timeVars, Stays
<1>3. CASE lock[side] = queueUNLOCKED
  <2> DEFINE S == MadeReady(side)
             P == MadePending(side)
             lists == Moved(side, pxReadyTasksLists)
             top == MovedTop(side)
  <2>1. /\ WakeFirst(side, {}) /\ pxReadyTasksLists' = lists /\ uxTopReadyPriority' = top
        /\ xYieldPendings' \in BOOLEAN /\ UNCHANGED lock
    BY <1>3 DEF FromISR, QueueInv, IInv, Typed
  <2> HIDE DEF side
  <2>2. /\ S \cup P \subseteq Waiting /\ S \cup P \subseteq Live \ xTasksWaitingTermination
        /\ P = {} \/ uxSchedulerSuspended # 0
        /\ Departs(S \cup P) /\ served' \in [Side -> SUBSET Task]
        /\ Holds(lists, Ready \cup S, uxPriority) /\ Covers(Ready \cup S, uxPriority, top)
        /\ pxDelayedTaskList' = pxDelayedTaskList \ S
        /\ pxOverflowDelayedTaskList' = pxOverflowDelayedTaskList \ S
        /\ xSuspendedTaskList' = xSuspendedTaskList \ S
        /\ xPendingReadyList' = xPendingReadyList \cup P
        /\ UNCHANGED xItemValue
    BY <1>1, <2>1, WakesFirst
  <2> HIDE DEF S, P, lists, top
  <2>3. Switches(Ready \cup S)
    <3>1. Ready \cup S \in SUBSET Task
      BY <1>2, <2>2, ReadyFacts DEF Live
    <3> QED
      BY <1>1, <1>2, <2>1, <2>2, <3>1, Becomes DEF Switches
  <2>4. Rearranges(S, P)
    BY <1>2, <2>2, <2>3 DEF Rearranges, notifyVars, IInv, Typed
  <2>5. IInv'
    BY <1>1, <1>2, <2>2, <2>4, Interrupted
  <2>6. QueueTyped'
    BY <1>1, <1>2, <2>1, <2>2 DEF QueueTyped, QueueInv, Departs
  <2> QED
    BY <1>1, <1>2, <2>1, <2>2, <2>4, <2>5, <2>6, InterruptKeeps
<1>4. CASE lock[side] # queueUNLOCKED
  <2>1. /\ prvIncrementQueueLock(side)
        /\ UNCHANGED <<sleepVars, xSuspendedTaskList, xPendingReadyList, readyVars, xYieldPendings, waiting, served>>
    BY <1>4 DEF FromISR
  <2> HIDE DEF side
  <2>2. Rearranges({}, {})
    BY <1>1, <1>2, <2>1, NothingMoves DEF NotListed, timeVars, notifyVars, IInv, Typed
  <2>3. IInv'
    BY <1>1, <1>2, <2>2, Interrupted
  <2>4. Departs({}) /\ {} \cup {} = {}
    BY <2>1, NobodyLeaves
  <2>5. /\ lock' \in [Side -> Nat \cup {queueUNLOCKED}]
        /\ \A s \in Side : lock'[s] = queueUNLOCKED <=> lock[s] = queueUNLOCKED
    <3>1. lock \in [Side -> Nat \cup {queueUNLOCKED}] /\ lock[side] \in Nat
      BY <1>1, <1>4 DEF QueueInv, QueueTyped
    <3>2. lock[side] + 1 \in Nat /\ lock[side] + 1 # queueUNLOCKED
      BY <3>1 DEF queueUNLOCKED
    <3> QED
      BY <1>4, <2>1, <3>1, <3>2 DEF prvIncrementQueueLock
  <2>6. QueueTyped'
    BY <1>1, <1>2, <2>1, <2>5 DEF QueueTyped, QueueInv
  <2> QED
    BY <1>1, <1>2, <2>2, <2>3, <2>4, <2>5, <2>6, InterruptKeeps
<1> QED
  BY <1>3, <1>4

-----------------------------------------------------------------------------
(* The steps of the running task on its way into an event list.            *)

(* It goes on to a place of its call that fits the lock, the suspension of *)
(* the scheduler and its time.                                             *)
Held == {"lock", "test", "inherit", "place", "unlock"}
LEMMA CallGoes ==
    ASSUME QueueInv, xSchedulerRunning, pxCurrentTCB # Idle, pxCurrentTCB \in Ready, NEW place \in Plain, Goto(place),
           UNCHANGED <<NotListed, readyVars, switchVars, Unconcerned, uxMessagesWaiting>>,
           Departs({}), lock' \in [Side -> Nat \cup {queueUNLOCKED}],
           served' \in [Side -> SUBSET Task], left' \in [Task -> Nat],
           \A t \in Task \ {pxCurrentTCB} : left'[t] = left[t],
           place.op \in Held \cup Tries \cup {"app"},
           uxSchedulerSuspended' = IF place.op \in Held THEN 1 ELSE 0,
           place.op \notin Held => xPendingReadyList = {} /\ xPendedTicks = 0,
           place.op \in Enters => pxCurrentTCB \notin xPendingReadyList,
           place.op \in {"test", "inherit", "place"} => \A s \in Side : lock'[s] # queueUNLOCKED,
           place.op \notin Held \ {"lock"} => \A s \in Side : lock'[s] = queueUNLOCKED,
           place.op \in HasTime => InTime(place.time, left'[pxCurrentTCB]),
           place.op \in Unlocks => (place.then = "timesOut" => left'[pxCurrentTCB] = 0)
    PROVE  QueueInv'
<1>1. /\ IInv /\ Onward(place) = place /\ place.op \notin {"resume", "drain", "ticks", "catchup", "yield", "unlocked"}
      /\ AboutToSleep \cap Tries = {} /\ Unlocks \cap (Tries \cup {"app"}) = {}
  BY DEF QueueInv, Onward, Held, Tries, AboutToSleep, Unlocks
<1>2. Moves(place) /\ UNCHANGED <<lifeVars, uxPriority, xTickCount, xPendedTicks, xNumOfOverflows>>
  BY DEF Moves, Stays, Goto, switchVars, Unconcerned
<1>3. Rearranges({}, {}) /\ {} \cup {} = {}
  BY <1>1, <1>2, NothingMoves DEF Unconcerned, switchVars, notifyVars, IInv, Typed
<1>4. QueueTyped'
  BY <1>2 DEF QueueTyped, QueueInv, Departs
<1>5. /\ place.op \in AboutToSleep \cup Unlocks => uxSchedulerSuspended' = 1
      /\ uxSchedulerSuspended' \in Nat
      /\ uxSchedulerSuspended' = 0 => xPendingReadyList' = {} /\ xPendedTicks' = 0
  <2>1. xPendingReadyList' = xPendingReadyList /\ xPendedTicks' = xPendedTicks
    BY <1>2 DEF NotListed
  <2>2. place.op \in AboutToSleep \cup Unlocks => place.op \in Held
    BY <1>1 DEF AboutToSleep, Unlocks, Held, Tries
  <2> QED
    BY <2>1, <2>2
<1>6. IInv'
  BY <1>1, <1>2, <1>3, <1>5, CallMoves
<1>7. \A s \in Side : lock'[s] # queueUNLOCKED =>
         /\ uxSchedulerSuspended' > 0
         /\ place.op \in {"test", "inherit", "place", "unlock", "unlocked"}
  BY DEF Held
<1>8. place.op \in Enters => pxCurrentTCB \notin xPendingReadyList'
  BY DEF NotListed
<1>9. place.op \in Tries => uxSchedulerSuspended' = 0
  BY DEF Held, Tries
<1> QED
  BY <1>1, <1>2, <1>3, <1>4, <1>6, <1>7, <1>8, <1>9, GoesTo

LEMMA CallMustWaitKeeps == QueueInv /\ CallMustWait => QueueInv'
<1> SUFFICES ASSUME QueueInv, CallMustWait PROVE QueueInv'
  OBVIOUS
<1> DEFINE me == pxCurrentTCB
<1>1. /\ At("app") /\ me # Idle /\ uxSchedulerSuspended = 0
      /\ UNCHANGED <<NotListed, readyVars, switchVars, uxMessagesWaiting, waiting, lock, served,
                     uxSchedulerSuspended, Unconcerned>>
  BY DEF CallMustWait, Calling, MayBlock
<1>2. /\ xSchedulerRunning /\ me \in Ready /\ me \in Task /\ pc[me] = App
      /\ xPendingReadyList = {} /\ xPendedTicks = 0
  BY <1>1, InApp DEF QueueInv
<1>3. PICK act \in Acts, n \in Tick \ {0} :
         /\ Goto(CallAt("suspend", act, vTaskInternalSetTimeOutState(n)))
         /\ left' = [left EXCEPT ![me] = IF n = portMAX_DELAY THEN 0 ELSE n]
  BY DEF CallMustWait, Acts, CallAt
<1> DEFINE rest == IF n = portMAX_DELAY THEN 0 ELSE n
           c == vTaskInternalSetTimeOutState(n)
           place == CallAt("suspend", act, c)
<1>4. rest \in Nat /\ (rest = 0 \/ (n \notin {0, portMAX_DELAY} /\ rest <= n))
  BY WidthAssumption DEF Tick
<1>5. left \in [Task -> Nat] /\ lock \in [Side -> Nat \cup {queueUNLOCKED}] /\ served \in [Side -> SUBSET Task]
  BY DEF QueueInv, QueueTyped
<1>6. left' \in [Task -> Nat] /\ left'[me] = rest /\ \A t \in Task \ {me} : left'[t] = left[t]
  BY <1>2, <1>3, <1>4, <1>5
<1>7. c \in TimeOuts /\ InTime(c, rest)
  <2>1. xTickCount \in Tick /\ xNumOfOverflows \in Nat
    BY DEF QueueInv, QueueTyped, IInv, Typed
  <2> QED
    BY <1>4, <2>1, SetInTime
<1>8. place \in Plain /\ place.op = "suspend" /\ place.time = c
  BY <1>7, QueuePlaces DEF CallAt
<1>9. \A s \in Side : lock[s] = queueUNLOCKED
  BY <1>2, InAppUnlocked DEF App
<1>10. /\ "suspend" \notin Held /\ "suspend" \notin Enters /\ "suspend" \notin Unlocks /\ "suspend" \in Tries
  BY DEF Held, Enters, Unlocks, Tries
<1>11. Goto(place)
  BY <1>3
<1> HIDE DEF place, rest, c
<1>12. Departs({}) /\ UNCHANGED lock /\ UNCHANGED served
  BY <1>1, NobodyLeaves
<1>13. InTime(place.time, left'[me])
  BY <1>6, <1>7, <1>8
<1> QED
  BY <1>1, <1>2, <1>5, <1>6, <1>8, <1>9, <1>10, <1>11, <1>12, <1>13, CallGoes

(* A call that tries again in vain goes on to wait, or out.                *)
LEMMA VainTry ==
    ASSUME RetryMustWait \/ RetryFails
    PROVE  /\ At("retry") /\ ~Possible(pc[pxCurrentTCB].act) /\ Pop("send", 0, {pxCurrentTCB})
           /\ Goto([pc[pxCurrentTCB] EXCEPT !.op = "suspend"]) \/ Goto(App)
           /\ UNCHANGED <<lock, NotListed, readyVars, switchVars, uxMessagesWaiting, waiting,
                          uxSchedulerSuspended, left, Unconcerned>>
  BY DEF RetryMustWait, RetryFails, TriesInVain, Stay, Call

LEMMA VainTryKeeps == QueueInv /\ (RetryMustWait \/ RetryFails) => QueueInv'
<1> SUFFICES ASSUME QueueInv, RetryMustWait \/ RetryFails PROVE QueueInv'
  OBVIOUS
<1> DEFINE me == pxCurrentTCB
           c == pc[me].time
           wait == CallAt("suspend", pc[me].act, c)
<1>1. /\ xSchedulerRunning /\ me \in Task /\ me \in Ready /\ me # Idle
      /\ uxSchedulerSuspended = 0 /\ xPendingReadyList = {} /\ xPendedTicks = 0
      /\ pc[me] = CallAt("retry", pc[me].act, c) /\ pc[me].act \in Acts /\ c \in TimeOuts
      /\ InTime(c, left[me]) /\ \A s \in Side : lock[s] = queueUNLOCKED
  BY VainTry, TriesWhenReady
<1>2. /\ Goto([pc[me] EXCEPT !.op = "suspend"]) \/ Goto(App)
      /\ Pop("send", 0, {me}) /\ UNCHANGED lock
      /\ UNCHANGED <<NotListed, readyVars, switchVars, uxMessagesWaiting, uxSchedulerSuspended, left, Unconcerned>>
  BY VainTry
<1>3. [pc[me] EXCEPT !.op = "suspend"] = wait
  BY <1>1 DEF CallAt
<1>4. wait \in Plain /\ wait.op = "suspend" /\ wait.time = c
  BY <1>1, QueuePlaces DEF CallAt
<1>5. App \in Plain /\ App.op = "app"
  BY PlainPlaces DEF App
<1>6. /\ {"suspend", "app"} \cap (Held \cup Enters \cup Unlocks) = {} /\ "suspend" \in Tries
      /\ "app" \notin HasTime
  BY DEF Held, Enters, Unlocks, Tries, HasTime
<1>7. left \in [Task -> Nat] /\ lock \in [Side -> Nat \cup {queueUNLOCKED}]
  BY DEF QueueInv, QueueTyped
<1>8. Departs({}) /\ served' \in [Side -> SUBSET Task]
  <2>1. FirstWaiters("send", 0) = {} /\ "send" \in Side
    BY FirstWait DEF Side, QueueInv, QueueTyped
  <2>2. Departs(FirstWaiters("send", 0)) /\ served' \in [Side -> SUBSET Task]
    BY <1>2, <2>1, PopTyped
  <2> QED
    BY <2>1, <2>2
<1> HIDE DEF c, wait
<1>9. PICK place \in {wait, App} : Goto(place)
  BY <1>2, <1>3
<1>10. /\ place \in Plain /\ place.op \in {"suspend", "app"}
       /\ place.op \in HasTime => InTime(place.time, left[me])
  BY <1>1, <1>4, <1>5, <1>6, <1>9
<1>11. /\ place.op \notin Held /\ place.op \notin Enters /\ place.op \notin Unlocks
       /\ place.op \in Held \cup Tries \cup {"app"} /\ place.op \notin {"test", "inherit", "place"}
  BY <1>6, <1>10
<1> QED
  BY <1>1, <1>2, <1>7, <1>8, <1>9, <1>10, <1>11, CallGoes

LEMMA SuspendsAllKeeps == QueueInv /\ SuspendsAll => QueueInv'
<1> SUFFICES ASSUME QueueInv, SuspendsAll PROVE QueueInv'
  OBVIOUS
<1> DEFINE me == pxCurrentTCB
           c == pc[me].time
           place == CallAt("lock", pc[me].act, c)
<1>1. /\ xSchedulerRunning /\ me \in Task /\ me \in Ready /\ me # Idle
      /\ uxSchedulerSuspended = 0 /\ xPendingReadyList = {} /\ xPendedTicks = 0
      /\ pc[me] = CallAt("suspend", pc[me].act, c) /\ pc[me].act \in Acts /\ c \in TimeOuts
      /\ InTime(c, left[me]) /\ \A s \in Side : lock[s] = queueUNLOCKED
  BY TriesWhenReady DEF SuspendsAll
<1>2. /\ Goto([pc[me] EXCEPT !.op = "lock"]) /\ uxSchedulerSuspended' = uxSchedulerSuspended + 1
      /\ UNCHANGED <<NotListed, readyVars, switchVars, uxMessagesWaiting, waiting, lock, served, left, Unconcerned>>
  BY DEF SuspendsAll, vTaskSuspendAll, Call
<1>3. [pc[me] EXCEPT !.op = "lock"] = place
  BY <1>1 DEF CallAt
<1>4. place \in Plain /\ place.op = "lock" /\ place.time = c
  BY <1>1, QueuePlaces DEF CallAt
<1>5. "lock" \in Held /\ "lock" \notin Unlocks /\ uxSchedulerSuspended' = 1
  BY <1>1, <1>2 DEF Held, Unlocks
<1>6. left \in [Task -> Nat] /\ lock \in [Side -> Nat \cup {queueUNLOCKED}] /\ served \in [Side -> SUBSET Task]
  BY DEF QueueInv, QueueTyped
<1>7. Goto(place) /\ Departs({})
  BY <1>2, <1>3, NobodyLeaves
<1> HIDE DEF place, c
<1> QED
  BY <1>1, <1>2, <1>4, <1>5, <1>6, <1>7, CallGoes

(* A task that has suspended the scheduler, and is not in an event list    *)
(* yet.                                                                    *)
LEMMA EntersWhenReady ==
    ASSUME QueueInv, NEW o \in {"lock", "test", "inherit", "place"}, At(o)
    PROVE  /\ xSchedulerRunning /\ pxCurrentTCB \in Task /\ pxCurrentTCB \in Ready /\ pxCurrentTCB # Idle
           /\ uxSchedulerSuspended = 1 /\ pxCurrentTCB \notin xPendingReadyList
           /\ pc[pxCurrentTCB] = CallAt(o, pc[pxCurrentTCB].act, pc[pxCurrentTCB].time)
           /\ pc[pxCurrentTCB].act \in Acts /\ pc[pxCurrentTCB].time \in TimeOuts
           /\ o # "lock" => /\ pc[pxCurrentTCB].time.ticks # 0
                            /\ \A s \in Side : lock[s] # queueUNLOCKED
           /\ InTime(pc[pxCurrentTCB].time, left[pxCurrentTCB])
<1> DEFINE me == pc[pxCurrentTCB]
<1>1. xSchedulerRunning /\ me.op = o /\ pxCurrentTCB \in Task /\ me \in Place
  BY Here DEF QueueInv, At
<1>2. Onward(me) = me
  BY <1>1 DEF Onward
<1>3. uxSchedulerSuspended = 1 /\ pxCurrentTCB \in Ready /\ pxCurrentTCB # Idle
  BY <1>1, SleepsFromReady DEF QueueInv, AboutToSleep
<1>4. pxCurrentTCB \notin xPendingReadyList
  BY <1>1 DEF QueueInv, Entering, In, Enters
<1>5. /\ me = CallAt(o, me.act, me.time) /\ me.act \in Acts /\ me.time \in TimeOuts
      /\ o # "lock" => me.time.ticks # 0
  BY <1>1, QueueShape DEF HasTime, Unlocks
<1>6. InTime(me.time, left[pxCurrentTCB])
  BY <1>1, <1>2 DEF QueueInv, TimesKept, TimeKept, HasTime
<1>7. o # "lock" => \A s \in Side : lock[s] # queueUNLOCKED
  BY <1>1 DEF QueueInv, HoldsLock, In
<1> QED
  BY <1>1, <1>3, <1>4, <1>5, <1>6, <1>7

LEMMA LocksKeeps == QueueInv /\ Locks => QueueInv'
<1> SUFFICES ASSUME QueueInv, Locks PROVE QueueInv'
  OBVIOUS
<1> DEFINE me == pxCurrentTCB
           c == pc[me].time
           d == Checked(c)
           a == pc[me].act
<1>1. /\ xSchedulerRunning /\ me \in Task /\ me \in Ready /\ me # Idle
      /\ uxSchedulerSuspended = 1 /\ me \notin xPendingReadyList
      /\ pc[me] = CallAt("lock", a, c) /\ a \in Acts /\ c \in TimeOuts /\ InTime(c, left[me])
  BY EntersWhenReady DEF Locks
<1>2. left \in [Task -> Nat] /\ lock \in [Side -> Nat \cup {queueUNLOCKED}] /\ served \in [Side -> SUBSET Task]
  BY DEF QueueInv, QueueTyped
<1>3. /\ lock' \in [Side -> Nat \cup {queueUNLOCKED}] /\ \A s \in Side : lock'[s] # queueUNLOCKED
  BY <1>2 DEF Locks, prvLockQueue, queueUNLOCKED, queueLOCKED_UNMODIFIED
<1>4. /\ UNCHANGED <<NotListed, readyVars, switchVars, uxMessagesWaiting, waiting, served, uxSchedulerSuspended,
                     left, Unconcerned>>
      /\ Goto(IF TimedOut(c) THEN [Unlocking("timesOut") EXCEPT !.time = d]
              ELSE [op |-> "test", act |-> a, time |-> d])
  BY <1>1 DEF Locks, Stay, Call, CallAt
<1>5. /\ d \in TimeOuts /\ InTime(d, left[me]) /\ (~TimedOut(c) => d.ticks # 0) /\ (TimedOut(c) => left[me] = 0)
  <2>1. xTickCount \in Tick /\ xNumOfOverflows \in Nat /\ left[me] \in Nat
    BY <1>1, <1>2 DEF QueueInv, QueueTyped, IInv, Typed
  <2> QED
    BY <1>1, <2>1, CheckedInTime, OverMeansNothingLeft
<1> HIDE DEF d
<1>6. [Unlocking("timesOut") EXCEPT !.time = d] = UnlockAt("unlock", a, d, "timesOut")
  BY DEF Unlocking, UnlockAt, Call
<1>7. [op |-> "test", act |-> a, time |-> d] = CallAt("test", a, d)
  BY DEF CallAt
<1>8. Departs({})
  BY <1>4, NobodyLeaves
<1> HIDE DEF a, c
<1>9. CASE TimedOut(c)
  <2> DEFINE place == UnlockAt("unlock", a, d, "timesOut")
  <2>1. Goto(place)
    BY <1>4, <1>6, <1>9
  <2>2. place \in Plain /\ place.op = "unlock" /\ place.time = d
    BY <1>1, <1>5, QueuePlaces DEF UnlockAt, Unlocks
  <2>3. "unlock" \in Held \ {"lock"} /\ "unlock" \notin Enters
    BY DEF Held, Enters
  <2> HIDE DEF place
  <2> QED
    BY <1>1, <1>2, <1>3, <1>4, <1>5, <1>8, <1>9, <2>1, <2>2, <2>3, CallGoes
<1>10. CASE ~TimedOut(c)
  <2> DEFINE place == CallAt("test", a, d)
  <2>1. Goto(place)
    BY <1>4, <1>7, <1>10
  <2>2. place \in Plain /\ place.op = "test" /\ place.time = d
    BY <1>1, <1>5, <1>10, QueuePlaces DEF CallAt
  <2>3. "test" \in Held \ {"lock"} /\ "test" \notin Unlocks
    BY DEF Held, Unlocks
  <2> HIDE DEF place
  <2> QED
    BY <1>1, <1>2, <1>3, <1>4, <1>5, <1>8, <2>1, <2>2, <2>3, CallGoes
<1> QED
  BY <1>9, <1>10

LEMMA TestsKeeps ==
    ASSUME QueueInv, NEW next \in {"inherit", "place"}, Tests(next)
    PROVE  QueueInv'
<1> DEFINE me == pxCurrentTCB
           c == pc[me].time
           a == pc[me].act
<1>1. /\ xSchedulerRunning /\ me \in Task /\ me \in Ready /\ me # Idle
      /\ uxSchedulerSuspended = 1 /\ me \notin xPendingReadyList
      /\ pc[me] = CallAt("test", a, c) /\ a \in Acts /\ c \in TimeOuts /\ c.ticks # 0 /\ InTime(c, left[me])
      /\ \A s \in Side : lock[s] # queueUNLOCKED
  BY EntersWhenReady DEF Tests
<1>2. left \in [Task -> Nat] /\ lock \in [Side -> Nat \cup {queueUNLOCKED}] /\ served \in [Side -> SUBSET Task]
  BY DEF QueueInv, QueueTyped
<1>3. /\ UNCHANGED <<NotListed, readyVars, switchVars, uxMessagesWaiting, waiting, lock, served, uxSchedulerSuspended,
                     left, Unconcerned>>
      /\ Goto(Unlocking("retries")) \/ Goto([pc[me] EXCEPT !.op = next])
  BY DEF Tests, Stay, Call
<1>4. Unlocking("retries") = UnlockAt("unlock", a, c, "retries") /\ [pc[me] EXCEPT !.op = next] = CallAt(next, a, c)
  BY <1>1 DEF Unlocking, UnlockAt, Call, CallAt
<1>5. Departs({})
  BY <1>3, NobodyLeaves
<1> HIDE DEF a, c
<1>6. CASE Goto(Unlocking("retries"))
  <2> DEFINE place == UnlockAt("unlock", a, c, "retries")
  <2>1. Goto(place)
    BY <1>4, <1>6
  <2>2. place \in Plain /\ place.op = "unlock" /\ place.time = c /\ place.then # "timesOut"
    BY <1>1, QueuePlaces DEF UnlockAt, Unlocks
  <2>3. "unlock" \in Held \ {"lock"} /\ "unlock" \notin Enters
    BY DEF Held, Enters
  <2> HIDE DEF place
  <2> QED
    BY <1>1, <1>2, <1>3, <1>5, <2>1, <2>2, <2>3, CallGoes
<1>7. CASE Goto([pc[me] EXCEPT !.op = next])
  <2> DEFINE place == CallAt(next, a, c)
  <2>1. Goto(place)
    BY <1>4, <1>7
  <2>2. place \in Plain /\ place.op \in {"inherit", "place"} /\ place.time = c
    BY <1>1, QueuePlaces DEF CallAt
  <2>3. place.op \in Held \ {"lock"} /\ place.op \notin Unlocks
    BY <2>2 DEF Held, Unlocks
  <2> HIDE DEF place
  <2> QED
    BY <1>1, <1>2, <1>3, <1>5, <2>1, <2>2, <2>3, CallGoes
<1> QED
  BY <1>3, <1>6, <1>7

LEMMA RechecksKeeps ==
    ASSUME QueueInv, NEW end \in {App, [op |-> "giveUp"]}, Rechecks(end)
    PROVE  QueueInv'
<1> DEFINE me == pxCurrentTCB
           c == pc[me].time
           a == pc[me].act
<1>1. /\ xSchedulerRunning /\ me \in Task /\ me \in Ready /\ me # Idle
      /\ uxSchedulerSuspended = 0 /\ xPendingReadyList = {} /\ xPendedTicks = 0
      /\ a \in Acts /\ c \in TimeOuts /\ InTime(c, left[me]) /\ \A s \in Side : lock[s] = queueUNLOCKED
  BY TriesWhenReady DEF Rechecks
<1>2. left \in [Task -> Nat] /\ lock \in [Side -> Nat \cup {queueUNLOCKED}] /\ served \in [Side -> SUBSET Task]
  BY DEF QueueInv, QueueTyped
<1>3. PICK place \in {end, CallAt("retry", a, c)} : Goto(place)
  BY DEF Rechecks, Back, Call, CallAt
<1>4. UNCHANGED <<NotListed, readyVars, switchVars, uxMessagesWaiting, waiting, lock, served, uxSchedulerSuspended,
                  left, Unconcerned>>
  BY DEF Rechecks, Stay
<1>5. place \in Plain /\ place.op \in {"app", "giveUp", "retry"} /\ (place.op \in HasTime => place.time = c)
  <2>1. CallAt("retry", a, c) \in Outs
    BY <1>1, QueuePlaces
  <2>2. end \in Outs
    BY DEF Outs, QueueEnds
  <2>3. Outs \subseteq Plain
    BY PlainPlaces
  <2> QED
    BY <2>1, <2>2, <2>3 DEF CallAt, App, HasTime
<1>6. place.op \in Tries \cup {"app"} /\ place.op \notin Held /\ place.op \notin Enters /\ place.op \notin Unlocks
  BY <1>5 DEF Tries, Held, Enters, Unlocks
<1>7. Departs({})
  BY <1>4, NobodyLeaves
<1> HIDE DEF a, c
<1> QED
  BY <1>1, <1>2, <1>3, <1>4, <1>5, <1>6, <1>7, CallGoes

(* The running task gets in line and goes to sleep.                        *)
LEMMA PlacesKeeps == QueueInv /\ vTaskPlaceOnEventList => QueueInv'
<1> SUFFICES ASSUME QueueInv, vTaskPlaceOnEventList PROVE QueueInv'
  OBVIOUS
<1> DEFINE me == pxCurrentTCB
           c == pc[me].time
           a == pc[me].act
           side == WaitsAt(a)
           place == UnlockAt("unlock", a, c, "sleeps")
<1>1. /\ xSchedulerRunning /\ me \in Task /\ me \in Ready /\ me # Idle
      /\ uxSchedulerSuspended = 1 /\ me \notin xPendingReadyList
      /\ pc[me] = CallAt("place", a, c) /\ a \in Acts /\ c \in TimeOuts /\ c.ticks # 0 /\ InTime(c, left[me])
      /\ \A s \in Side : lock[s] # queueUNLOCKED
  BY EntersWhenReady DEF vTaskPlaceOnEventList
<1>2. /\ waiting' = [waiting EXCEPT ![side] = vListInsert(waiting[side], me)]
      /\ prvAddCurrentTaskToDelayedList(c.ticks, TRUE)
      /\ UNCHANGED <<uxTopReadyPriority, xPendingReadyList, switchVars, uxMessagesWaiting, lock, served, left,
                     uxSchedulerSuspended, Unconcerned>>
  BY DEF vTaskPlaceOnEventList, Call
<1>3. Goto(place)
  <2>1. Unlocking("sleeps") = place
    BY DEF Unlocking, UnlockAt, Call
  <2> QED
    BY <2>1 DEF vTaskPlaceOnEventList
<1>4. /\ place \in Plain /\ place.op = "unlock" /\ place.act = a /\ place.time = c /\ place.then = "sleeps"
      /\ Onward(place) = place /\ side \in Side
  BY <1>1, QueuePlaces DEF UnlockAt, Unlocks, Onward, WaitsAt, Side
<1>5. c.ticks \in 1 .. portMAX_DELAY /\ IInv /\ In(AboutToSleep)
  BY <1>1, WidthAssumption DEF TimeOuts, Tick, portMAX_DELAY, QueueInv, In, AboutToSleep, CallAt
<1> HIDE DEF place, side, a, c
<1>6. UNCHANGED <<notifyVars, lifeVars, uxPriority, xTickCount, xPendedTicks, xNumOfOverflows>>
  BY <1>2 DEF Unconcerned
<1>7. IInv'
  BY <1>2, <1>3, <1>4, <1>5, <1>6, CallSleeps
<1>8. \/ /\ xSuspendedTaskList' = xSuspendedTaskList \cup {me}
         /\ UNCHANGED <<pxDelayedTaskList, pxOverflowDelayedTaskList>>
      \/ /\ pxDelayedTaskList' = pxDelayedTaskList \cup {me}
         /\ UNCHANGED <<xSuspendedTaskList, pxOverflowDelayedTaskList>>
      \/ /\ pxOverflowDelayedTaskList' = pxOverflowDelayedTaskList \cup {me}
         /\ UNCHANGED <<xSuspendedTaskList, pxDelayedTaskList>>
  BY <1>2, <1>5, <1>6, FallsAsleep
<1>9. /\ me' = me /\ pc'[me] = place /\ \A t \in Task : t # me => pc'[t] = pc[t]
      /\ xSchedulerRunning' = xSchedulerRunning
  BY <1>1, <1>2, <1>3, <1>6 DEF QueueInv, IInv, Typed, Goto, switchVars, lifeVars
<1> HIDE DEF me
<1>10. /\ waiting \in [Side -> Seq(Task)] /\ waiting[side] \in Seq(Task) /\ IsInjective(waiting[side])
       /\ me \notin Waiting /\ me \notin ToSet(waiting[side]) /\ Waiting \subseteq Task
  BY <1>1, <1>4, WaitersAreNotReady DEF QueueInv, QueueTyped, WaitersSleep, Waiting, Live, me
<1>11. /\ waiting'[side] \in Seq(Task) /\ ToSet(waiting'[side]) = ToSet(waiting[side]) \cup {me}
       /\ IsInjective(waiting'[side])
  <2> DEFINE list == waiting[side]
             more == vListInsert(list, me)
  <2>1. more \in Seq(Task) /\ ToSet(more) = ToSet(list) \cup {me} /\ IsInjective(more)
    BY <1>1, <1>10, InsertAdds
  <2> HIDE DEF more
  <2>2. waiting'[side] = more
    BY <1>2, <1>4, <1>10 DEF more, me
  <2> QED
    BY <2>1, <2>2
<1>12. \A s \in Side : s # side => waiting'[s] = waiting[s]
  BY <1>2, <1>10
<1>13. waiting' \in [Side -> Seq(Task)]
  <2>1. vListInsert(waiting[side], me) = waiting'[side]
    BY <1>2, <1>4, <1>10 DEF me
  <2> QED
    BY <1>2, <1>4, <1>10, <1>11, <2>1 DEF me
<1>14. QueueTyped'
  BY <1>2, <1>6, <1>13 DEF QueueTyped, QueueInv
<1>15. ASSUME NEW s \in Side, NEW t \in ToSet(waiting'[s])
       PROVE  IF t = me THEN s = side ELSE t \in ToSet(waiting[s])
  BY <1>10, <1>11, <1>12, <1>15 DEF Waiting
<1>16. WaitersSleep'
  <2>1. \A s \in Side : IsInjective(waiting'[s])
    BY <1>11, <1>12 DEF QueueInv, WaitersSleep
  <2>2. ToSet(waiting'["send"]) \cap ToSet(waiting'["receive"]) = {}
    BY <1>15 DEF QueueInv, WaitersSleep, Side
  <2>3. ASSUME NEW t \in Waiting' PROVE t \in (Sleeping' \cup xSuspendedTaskList') \ xPendingReadyList'
    <3>1. t = me \/ t \in Waiting
      BY <1>15 DEF Waiting
    <3>2. t \in Waiting => t \in (Sleeping \cup xSuspendedTaskList) \ xPendingReadyList
      BY DEF QueueInv, WaitersSleep
    <3> QED
      BY <1>1, <1>2, <1>8, <3>1, <3>2 DEF Sleeping, me
  <2> QED
    BY <2>1, <2>2, <2>3 DEF WaitersSleep
<1>17. WaitersInCall'
  <2> SUFFICES ASSUME NEW s \in Side, NEW t \in ToSet(waiting'[s]) PROVE Onward(pc'[t]) \in Entered(s)
    BY DEF WaitersInCall, Entered
  <2>1. CASE t = me
    BY <1>4, <1>9, <1>15, <2>1 DEF Entered, Unlocks, Plain, side
  <2>2. CASE t # me
    BY <1>9, <1>10, <1>15, <2>2 DEF QueueInv, WaitersInCall, Waiting
  <2> QED
    BY <2>1, <2>2
<1>18. LockedByRunner' /\ Entering' /\ HoldsLock'
  BY <1>1, <1>2, <1>4, <1>9 DEF LockedByRunner, Entering, HoldsLock, In, Enters, me
<1>19. Trying'
  BY <1>4, <1>9 DEF Trying, Tries, me
<1>20. TimesKept'
  <2>1. ASSUME NEW t \in Task, t = me PROVE TimeKept(t)'
    BY <1>1, <1>2, <1>4, <1>6, <1>9, <2>1 DEF TimeKept, InTime, xElapsedTime, me
  <2>2. ASSUME NEW t \in Task, t # me PROVE TimeKept(t)'
    BY <1>2, <1>6, <1>9, <2>2, TimesStand
  <2> QED
    BY <2>1, <2>2 DEF TimesKept, TimeKept
<1>21. IdleIsOut'
  BY <1>1, <1>9, TaskAssumption DEF QueueInv, IdleIsOut, me
<1> QED
  BY <1>7, <1>14, <1>16, <1>17, <1>18, <1>19, <1>20, <1>21 DEF QueueInv

-----------------------------------------------------------------------------
(* The unlock.                                                             *)

(* The runner has the scheduler, and is ready unless it is about to sleep. *)
LEMMA UnlocksInCall ==
    ASSUME QueueInv, NEW o \in Unlocks, At(o)
    PROVE  LET me == pc[pxCurrentTCB]
           IN  /\ xSchedulerRunning /\ pxCurrentTCB \in Task /\ pxCurrentTCB # Idle
               /\ uxSchedulerSuspended = 1
               /\ me = UnlockAt(o, me.act, me.time, me.then) /\ me.op = o
               /\ me.act \in Acts /\ me.time \in TimeOuts /\ me.then \in {"sleeps", "retries", "timesOut"}
               /\ InTime(me.time, left[pxCurrentTCB])
               /\ me.then = "timesOut" => left[pxCurrentTCB] = 0
               /\ pxCurrentTCB \in Ready \/ me.then = "sleeps"
               /\ Onward(me) = me
<1> DEFINE me == pc[pxCurrentTCB]
<1>1. xSchedulerRunning /\ me.op = o /\ pxCurrentTCB \in Task /\ me \in Place /\ o \in {"unlock", "unlocked"}
  BY Here DEF QueueInv, At, Unlocks
<1>2. Onward(me) = me
  BY <1>1 DEF Onward
<1>3. pxCurrentTCB # Idle
  BY <1>1, <1>2 DEF QueueInv, IdleIsOut, Own
<1>4. uxSchedulerSuspended = 1
  BY <1>1 DEF QueueInv, IInv, Suspension, In
<1>5. /\ me = UnlockAt(o, me.act, me.time, me.then)
      /\ me.act \in Acts /\ me.time \in TimeOuts /\ me.then \in {"sleeps", "retries", "timesOut"}
  BY <1>1, QueueShape DEF HasTime
<1>6. InTime(me.time, left[pxCurrentTCB]) /\ (me.then = "timesOut" => left[pxCurrentTCB] = 0)
  BY <1>1, <1>2 DEF QueueInv, TimesKept, TimeKept, HasTime
<1>7. pxCurrentTCB \in Ready \/ me.then = "sleeps"
  BY <1>1 DEF QueueInv, IInv, Away, Leaving, At
<1> QED
  BY <1>1, <1>2, <1>3, <1>4, <1>5, <1>6, <1>7

LEMMA UnlockWakes ==
    ASSUME QueueInv, xSchedulerRunning, NEW side \in Side, Wake(side)
    PROVE  /\ \E P : Rearranges({}, P) /\ Departs({} \cup P)
           /\ QueueTyped' /\ Stays /\ UNCHANGED <<uxSchedulerSuspended, left, xNumOfOverflows>>
           /\ lock'[side] = queueUNLOCKED /\ \A s \in Side : s # side => lock'[s] = lock[s]
<1> DEFINE P == FirstWaiters(side, lock[side])
<1>1. lock \in [Side -> Nat \cup {queueUNLOCKED}] /\ lock[side] \in Int
  BY DEF QueueInv, QueueTyped, queueUNLOCKED
<1>2. /\ Pop(side, lock[side], {}) /\ xPendingReadyList' = xPendingReadyList \cup P
      /\ xYieldPendings' \in BOOLEAN /\ lock' = [lock EXCEPT ![side] = queueUNLOCKED]
      /\ UNCHANGED <<sleepVars, xSuspendedTaskList, xNextTaskUnblockTime, readyVars, pxCurrentTCB,
                     uxMessagesWaiting, uxSchedulerSuspended, left, Unconcerned>>
  BY DEF Wake, Unlocked, QueueInv, IInv, Typed
<1>3. P \subseteq Live \ xTasksWaitingTermination /\ Departs(P) /\ served' \in [Side -> SUBSET Task]
  BY <1>1, <1>2, PopTyped
<1> HIDE DEF P
<1>4. /\ IInv /\ UNCHANGED <<uxPriority, lifeVars, timeVars, notifyVars, xNumOfOverflows>>
      /\ uxPriority \in [Task -> Priority] /\ uxPriority[Idle] = 0
  BY <1>2 DEF QueueInv, Unconcerned, timeVars, IInv, Typed, Alive
<1>5. Switches(Ready \cup {})
  <2>1. ReadyBecomes(Ready)
    BY <1>2, <1>4, SameReady
  <2> QED
    BY <1>2, <2>1 DEF Switches
<1>6. Rearranges({}, P)
  BY <1>2, <1>3, <1>4, <1>5 DEF Rearranges, sleepVars, notifyVars, IInv, Typed
<1>7. QueueTyped'
  BY <1>1, <1>2, <1>3, <1>4 DEF QueueTyped, QueueInv, Departs
<1>8. {} \cup P = P
  OBVIOUS
<1> QED
  BY <1>1, <1>2, <1>3, <1>4, <1>6, <1>7, <1>8 DEF Stays

LEMMA UnlocksReceiversKeeps == QueueInv /\ UnlocksReceivers => QueueInv'
<1> SUFFICES ASSUME QueueInv, UnlocksReceivers PROVE QueueInv'
  OBVIOUS
<1> DEFINE me == pxCurrentTCB
           here == pc[me]
           place == UnlockAt("unlocked", here.act, here.time, here.then)
<1>1. /\ xSchedulerRunning /\ me \in Task /\ me # Idle /\ uxSchedulerSuspended = 1
      /\ here = UnlockAt("unlock", here.act, here.time, here.then)
      /\ here.act \in Acts /\ here.time \in TimeOuts /\ here.then \in {"sleeps", "retries", "timesOut"}
      /\ InTime(here.time, left[me]) /\ (here.then = "timesOut" => left[me] = 0)
      /\ me \in Ready \/ here.then = "sleeps"
      /\ Onward(here) = here
  BY UnlocksInCall DEF UnlocksReceivers, Unlocks
<1>2. PICK P : Rearranges({}, P) /\ Departs({} \cup P)
  BY <1>1, UnlockWakes DEF UnlocksReceivers, Side
<1>3. /\ QueueTyped' /\ Stays /\ UNCHANGED <<uxSchedulerSuspended, left, xNumOfOverflows>>
      /\ lock'["receive"] = queueUNLOCKED
  BY <1>1, UnlockWakes DEF UnlocksReceivers, Side
<1>4. pc' = [pc EXCEPT ![me] = place]
  <2>1. [here EXCEPT !.op = "unlocked"] = place
    <3>1. \A x, y, z : [UnlockAt("unlock", x, y, z) EXCEPT !.op = "unlocked"] = UnlockAt("unlocked", x, y, z)
      BY DEF UnlockAt
    <3> HIDE DEF here
    <3> QED
      BY <1>1, <3>1
  <2> QED
    BY <2>1 DEF UnlocksReceivers, Goto, Call
<1>5. /\ place \in Plain /\ place \in Place /\ place.op = "unlocked" /\ place.act = here.act
      /\ place.time = here.time /\ place.then = here.then /\ Onward(place) = place
  BY <1>1, QueuePlaces DEF UnlockAt, Unlocks, Onward, Plain
<1>6. Moves(place) /\ IInv /\ pc \in [Task -> Place]
  BY <1>3, <1>4 DEF Moves, QueueInv, IInv, Typed
<1> HIDE DEF place, here
<1>7. me \in Ready \/ Leaving'
  <2>1. pc'[me] = place /\ me' = me /\ xSchedulerRunning'
    BY <1>1, <1>2, <1>3, <1>4, <1>6 DEF Stays, Rearranges, lifeVars
  <2> QED
    BY <1>1, <1>3, <1>5, <2>1 DEF Leaving, In, Unlocks
<1>8. /\ uxSchedulerSuspended' = 1
      /\ place.op \notin {"resume", "drain", "ticks", "catchup", "test", "inherit", "place"}
      /\ place.op \notin AboutToSleep /\ place.op \notin Enters /\ place.op \notin Tries
      /\ Unlocks \cap Tries = {}
  BY <1>1, <1>3, <1>5 DEF AboutToSleep, Enters, Tries, Unlocks
<1>9. IInv'
  BY <1>1, <1>2, <1>5, <1>6, <1>7, <1>8, CallMoves
<1>10. ASSUME NEW s \in Side, Onward(pc[me]) \in Entered(s) PROVE Onward(place) \in Entered(s)
  BY <1>1, <1>5, <1>10 DEF Entered, Unlocks, UnlockAt, here
<1>11. left'[me] = left[me]
  BY <1>3
<1> QED
  BY <1>1, <1>2, <1>3, <1>5, <1>6, <1>8, <1>9, <1>10, <1>11, GoesTo

(* It goes on to resume the scheduler, and then to sleep if it waits now.  *)
LEMMA UnlockedGoes ==
    ASSUME QueueInv, UnlocksSenders
    PROVE  LET here  == pc[pxCurrentTCB]
               retry == CallAt("retry", here.act, here.time)
           IN  \E p \in {App, retry, CallAt("recheck", here.act, here.time)} :
                  /\ Goto(Resuming(p, IF here.then = "sleeps" THEN YieldingTo(p) ELSE p))
                  /\ here.then = "sleeps" => p = retry
                  /\ here.act # "send" => p # App
<1> DEFINE here == pc[pxCurrentTCB]
           a == here.act
           c == here.time
           retry == CallAt("retry", a, c)
           over == CallAt("recheck", a, c)
<1>1. Back(Call) = retry
  BY DEF Back, Call, CallAt
<1>2. [Back(Call) EXCEPT !.op = "recheck"] = over
  <2>1. \A x, y : [CallAt("retry", x, y) EXCEPT !.op = "recheck"] = CallAt("recheck", x, y)
    BY DEF CallAt
  <2> QED
    BY <1>1, <2>1
<1>3. Call.then = here.then /\ Call.act = here.act
  BY DEF Call
<1>4. retry # App /\ over # App
  <2>1. retry.op = "retry" /\ over.op = "recheck" /\ App.op = "app"
    BY DEF CallAt, App
  <2> QED
    BY <2>1
<1> HIDE DEF here, retry, over
<1>5. CASE here.then = "sleeps"
  <2>1. Goto(Resuming(retry, YieldingTo(retry)))
    BY <1>1, <1>3, <1>5 DEF UnlocksSenders
  <2> QED
    BY <1>4, <1>5, <2>1 DEF here, retry
<1>6. CASE here.then # "sleeps"
  <2>1. PICK p \in {App, retry, over} : Goto(Resuming(p, p)) /\ (here.act # "send" => p # App)
    BY <1>1, <1>2, <1>3, <1>4, <1>6 DEF UnlocksSenders
  <2> QED
    BY <1>6, <2>1 DEF here, retry, over
<1> QED
  BY <1>5, <1>6

LEMMA UnlocksSendersKeeps == QueueInv /\ UnlocksSenders => QueueInv'
<1> SUFFICES ASSUME QueueInv, UnlocksSenders PROVE QueueInv'
  OBVIOUS
<1> DEFINE me == pxCurrentTCB
           here == pc[me]
           retry == CallAt("retry", here.act, here.time)
           over == CallAt("recheck", here.act, here.time)
<1>1. /\ xSchedulerRunning /\ me \in Task /\ me # Idle /\ uxSchedulerSuspended = 1
      /\ here = UnlockAt("unlocked", here.act, here.time, here.then)
      /\ here.act \in Acts /\ here.time \in TimeOuts
      /\ InTime(here.time, left[me])
      /\ me \in Ready \/ here.then = "sleeps"
      /\ Onward(here) = here /\ At("unlocked")
  BY UnlocksInCall DEF UnlocksSenders, Unlocks
<1>2. PICK P : Rearranges({}, P) /\ Departs({} \cup P)
  BY <1>1, UnlockWakes DEF UnlocksSenders, Side
<1>3. /\ QueueTyped' /\ Stays /\ UNCHANGED <<uxSchedulerSuspended, left, xNumOfOverflows>>
      /\ \A s \in Side : lock'[s] = queueUNLOCKED
  <2>1. lock["receive"] = queueUNLOCKED
    BY <1>1 DEF QueueInv, HoldsLock, In, At
  <2> QED
    BY <1>1, <2>1, UnlockWakes DEF UnlocksSenders, Side
<1>4. PICK p \in {App, retry, over} :
          /\ Goto(Resuming(p, IF here.then = "sleeps" THEN YieldingTo(p) ELSE p))
          /\ here.then = "sleeps" => p = retry
  BY UnlockedGoes
<1> DEFINE not == IF here.then = "sleeps" THEN YieldingTo(p) ELSE p
           place == Resuming(p, not)
<1>5. /\ p \in Outs /\ not \in Outs \cup Yields
      /\ p.op \in {"app", "retry", "recheck"} /\ (p.op # "app" => p.time = here.time)
      /\ here.then = "sleeps" => not.op = "yield"
  <2>1. App \in Outs /\ retry \in Outs /\ over \in Outs
    BY <1>1, QueuePlaces DEF Outs
  <2>2. p \in Outs /\ p.op \in {"app", "retry", "recheck"} /\ (p.op # "app" => p.time = here.time)
    BY <2>1 DEF App, CallAt
  <2> QED
    BY <2>2 DEF YieldingTo, Yields
<1>6. Onward(p) = p /\ Onward(not) = p /\ Onward(place) = p
  BY <1>5, QueueOnward
<1>7. /\ place \in Plain /\ place.op = "resume" /\ place.not = not /\ place.yielded = p
      /\ \A s \in Side : Onward(here) \in Entered(s) => p \in Entered(s)
  <2>1. place \in Plain
    BY <1>5, PlainPlaces
  <2>2. place.op = "resume" /\ place.not = not /\ place.yielded = p
    BY DEF Resuming
  <2>3. ASSUME NEW s \in Side, Onward(here) \in Entered(s) PROVE p \in Entered(s)
    <3>1. here.then = "sleeps" /\ WaitsAt(here.act) = s /\ p = retry
      BY <1>1, <1>4, <2>3 DEF Entered, At
    <3>2. p \in Place
      BY <1>5 DEF Place, Ends
    <3> QED
      BY <3>1, <3>2 DEF Entered, CallAt
  <2> QED
    BY <2>1, <2>2, <2>3
<1>8. Moves(place) /\ IInv
  BY <1>3, <1>4 DEF Moves, QueueInv, Goto
<1>9. me \in Ready \/ Leaving'
  <2>1. pc'[me] = place /\ me' = me /\ xSchedulerRunning'
    BY <1>1, <1>2, <1>3, <1>4 DEF Stays, Rearranges, lifeVars, QueueInv, IInv, Typed, Goto
  <2> HIDE DEF place, not
  <2> QED
    BY <1>1, <1>3, <1>5, <1>7, <2>1 DEF Leaving, At
<1> HIDE DEF place, not, here
<1>10. place.op \notin AboutToSleep /\ place.op \notin Unlocks /\ place.op \notin Enters
  BY <1>7 DEF AboutToSleep, Unlocks, Enters
<1>11. uxSchedulerSuspended' = 1
  BY <1>1, <1>3
<1>12. IInv'
  BY <1>1, <1>2, <1>6, <1>7, <1>8, <1>9, <1>10, <1>11, CallMoves
<1>13. /\ p.op \notin Unlocks /\ left'[me] = left[me]
       /\ p.op \in HasTime => InTime(p.time, left'[me])
  BY <1>1, <1>3, <1>5 DEF Unlocks, HasTime
<1> HIDE DEF me
<1> QED
  BY <1>1, <1>2, <1>3, <1>6, <1>7, <1>8, <1>10, <1>11, <1>12, <1>13, GoesTo DEF me, here

-----------------------------------------------------------------------------
(* Every behaviour of QueueSpec.                                           *)

LEMMA QueueInitHolds == QueueInit => QueueInv
<1> SUFFICES ASSUME QueueInit PROVE QueueInv
  OBVIOUS
<1>1. IInv
  BY InitHolds DEF QueueInit
<1>2. /\ uxMessagesWaiting = 0 /\ lock = [s \in Side |-> queueUNLOCKED] /\ served = [s \in Side |-> {}]
      /\ left = [t \in Task |-> 0] /\ xNumOfOverflows = 0 /\ waiting = [s \in Side |-> <<>>]
      /\ pc = [t \in Task |-> App] /\ ~xSchedulerRunning
  BY DEF QueueInit, Init
<1>3. <<>> \in Seq(Task) /\ ToSet(<<>>) = {} /\ IsInjective(<<>>)
  BY EmptySeq DEF ToSet, IsInjective
<1>4. Waiting = {}
  BY <1>2, <1>3 DEF Waiting
<1>5. QueueTyped
  BY <1>2, <1>3, QueueAssumption DEF QueueTyped
<1>6. WaitersSleep
  BY <1>2, <1>3, <1>4 DEF WaitersSleep, Side
<1>7. WaitersInCall /\ LockedByRunner
  BY <1>2, <1>3 DEF WaitersInCall, LockedByRunner
<1>8. Entering /\ HoldsLock /\ Trying
  BY <1>2 DEF Entering, HoldsLock, Trying, In
<1>9. Onward(App) = App /\ App.op \in Own /\ App.op \notin HasTime
  BY DEF Onward, App, Own, HasTime
<1>10. TimesKept /\ IdleIsOut
  BY <1>2, <1>9, TaskAssumption DEF TimesKept, TimeKept, IdleIsOut
<1> QED
  BY <1>1, <1>5, <1>6, <1>7, <1>8, <1>10 DEF QueueInv

LEMMA QueueStutter == QueueInv /\ UNCHANGED queueAll => QueueInv'
<1> SUFFICES ASSUME QueueInv, UNCHANGED queueAll PROVE QueueInv'
  OBVIOUS
<1>1. UNCHANGED vars /\ UNCHANGED <<uxMessagesWaiting, waiting, lock, served, left, xNumOfOverflows>>
  BY DEF queueAll, queueVars
<1>2. IInv'
  BY <1>1, StutterKeeps DEF QueueInv
<1>3. /\ UNCHANGED <<pxDelayedTaskList, pxOverflowDelayedTaskList, xSuspendedTaskList, xPendingReadyList>>
      /\ UNCHANGED <<xSchedulerRunning, xTickCount, pc, pxCurrentTCB, uxSchedulerSuspended>>
  BY <1>1 DEF vars, sleepVars, lifeVars, timeVars, switchVars
<1>4. QueueTyped' /\ WaitersSleep' /\ LockedByRunner' /\ WaitersInCall'
  BY <1>1, <1>3 DEF QueueInv, QueueTyped, WaitersSleep, LockedByRunner, WaitersInCall, Waiting, Sleeping
<1>5. Entering' /\ HoldsLock' /\ Trying' /\ IdleIsOut'
  BY <1>1, <1>3 DEF QueueInv, Entering, HoldsLock, Trying, IdleIsOut, In, At
<1>6. TimesKept'
  BY <1>1, <1>3 DEF QueueInv, TimesKept, TimeKept, InTime, xElapsedTime
<1> QED
  BY <1>2, <1>4, <1>5, <1>6 DEF QueueInv

LEMMA QueueStepKeeps == QueueInv /\ [QueueNext]_queueAll => QueueInv'
<1> SUFFICES ASSUME QueueInv, [QueueNext]_queueAll PROVE QueueInv'
  OBVIOUS
<1>1. CASE \/ CallSucceeds \/ CallMustWait \/ RetrySucceeds \/ RetryMustWait \/ RetryFails
           \/ xQueueGenericReset
  BY <1>1, CallSucceedsKeeps, CallMustWaitKeeps, RetrySucceedsKeeps, VainTryKeeps, ResetKeeps
<1>2. CASE SuspendsAll \/ Locks \/ Tests("place") \/ vTaskPlaceOnEventList \/ Rechecks(App)
  BY <1>2, SuspendsAllKeeps, LocksKeeps, TestsKeeps, PlacesKeeps, RechecksKeeps
<1>3. CASE UnlocksReceivers \/ UnlocksSenders
  BY <1>3, UnlocksReceiversKeeps, UnlocksSendersKeeps
<1>4. CASE \E act \in {"send", "receive"} : FromISR(act)
  BY <1>4, FromISRKeeps
<1>5. CASE SchedulerSteps
  BY <1>5, SchedulerKeepsQueue
<1>6. CASE UNCHANGED queueAll
  BY <1>6, QueueStutter
<1> QED
  BY <1>1, <1>2, <1>3, <1>4, <1>5, <1>6 DEF QueueNext, QueueSteps

(* QueueInv is inductive; with it the invariant of the scheduler holds     *)
(* while tasks and interrupts send and receive.                            *)
THEOREM QueueInductive == QueueSpec => []QueueInv
<1>1. QueueInit => QueueInv
  BY QueueInitHolds
<1>2. QueueInv /\ [QueueNext]_queueAll => QueueInv'
  BY QueueStepKeeps
<1> QED
  BY <1>1, <1>2, PTL DEF QueueSpec

(* A task waits in one event list of the queue, once, and sleeps while it  *)
(* does, whatever wakes it (xTaskRemoveFromEventList, prvUnlockQueue,      *)
(* xTaskIncrementTick, vTaskSuspend, vTaskDelete).                         *)
THEOREM WaitersAlwaysSleep == QueueSpec => []WaitersSleep
<1>1. QueueInv => WaitersSleep
  BY DEF QueueInv
<1> QED
  BY QueueInductive, <1>1, PTL

(* The queue is locked only within a call of the running task, with the    *)
(* scheduler suspended (prvLockQueue, prvUnlockQueue).                     *)
THEOREM LockIsTheRunners == QueueSpec => []LockedByRunner
<1>1. QueueInv => LockedByRunner
  BY DEF QueueInv
<1> QED
  BY QueueInductive, <1>1, PTL

(* What the invariant says of the time of a call.                          *)
LEMMA CallsHaveTime == QueueInv => GivesUpInTime
<1> SUFFICES ASSUME QueueInv, NEW t \in Task
             PROVE  /\ pc[t].op \in {"unlock", "unlocked"} /\ pc[t].then = "timesOut" => left[t] = 0
                    /\ pc[t].op \in {"retry", "test", "inherit", "place"} => pc[t].time.ticks >= left[t]
  BY DEF GivesUpInTime
<1> DEFINE p == pc[t]
<1>1. p.op \in {"unlock", "unlocked", "retry", "test", "inherit", "place"} => Onward(p) = p /\ p.op \in HasTime
  BY DEF Onward, HasTime
<1>2. p \in Place /\ left[t] \in Nat /\ xTickCount \in Tick /\ TimeKept(t)
  BY DEF QueueInv, QueueTyped, IInv, Typed, TimesKept
<1>3. ASSUME p.op \in {"unlock", "unlocked"}, p.then = "timesOut" PROVE left[t] = 0
  BY <1>1, <1>2, <1>3 DEF TimeKept, Unlocks
<1>4. ASSUME p.op \in {"retry", "test", "inherit", "place"} PROVE p.time.ticks >= left[t]
  <2>1. p.time \in TimeOuts /\ InTime(p.time, left[t])
    BY <1>1, <1>2, <1>4, WhereTimed DEF TimeKept
  <2>2. p.time.ticks \in Nat /\ p.time.xTimeOnEntering \in Tick
    BY <2>1 DEF TimeOuts, Tick
  <2> HIDE DEF p
  <2>3. xElapsedTime(p.time) \in Tick
    BY <1>2, <2>2, Elapsed DEF xElapsedTime
  <2>4. xElapsedTime(p.time) \in Nat
    BY <2>3, WidthAssumption DEF Tick
  <2> QED
    BY <1>2, <2>1, <2>2, <2>4 DEF InTime
<1> QED
  BY <1>3, <1>4

(* A call gives up only when its time is over, and never sleeps for less   *)
(* than what is left of it, also across overflows of the tick count and of *)
(* the count of overflows (xTaskCheckForTimeOut).                          *)
THEOREM CallsGiveUpInTime == QueueSpec => []GivesUpInTime
  BY QueueInductive, CallsHaveTime, PTL

(* Each TCB is in one list, once, in the list of its priority if it is     *)
(* ready, also while tasks wait for the queue and interrupts wake them.    *)
THEOREM QueueingHasOneHome == QueueSpec => []OneHome
<1>1. QueueInv => OneHome
  BY HomesAreOne DEF QueueInv
<1> QED
  BY QueueInductive, <1>1, PTL

-----------------------------------------------------------------------------
(* No wake-up is lost.  What is counted.                                   *)

LEMMA LockCounts ==
    ASSUME NEW n \in Nat \cup {queueUNLOCKED}
    PROVE  Max({n, 0}) = IF n = queueUNLOCKED THEN 0 ELSE n
<1> DEFINE m == IF n = queueUNLOCKED THEN 0 ELSE n
<1>1. n \in Nat \/ n = -1
  BY DEF queueUNLOCKED
<1>2. m \in {n, 0} /\ \A y \in {n, 0} : y <= m
  BY <1>1 DEF queueUNLOCKED
<1>3. \A x \in {n, 0} : (\A y \in {n, 0} : y <= x) => x = m
  BY <1>1 DEF queueUNLOCKED
<1> HIDE DEF m
<1>4. (CHOOSE x \in {n, 0} : \A y \in {n, 0} : x >= y) = m
  BY <1>1, <1>2, <1>3 DEF queueUNLOCKED
<1> QED
  BY <1>4 DEF Max, m

(* A set of tasks that grows by others.                                    *)
LEMMA MoreTasks ==
    ASSUME NEW A \in SUBSET Task, NEW B \in SUBSET Task, A \cap B = {}
    PROVE  /\ Cardinality(A) \in Nat /\ Cardinality(B) \in Nat
           /\ Cardinality(A \cup B) = Cardinality(A) + Cardinality(B)
<1>1. IsFiniteSet(A) /\ IsFiniteSet(B)
  BY TaskAssumption, FS_Subset
<1>2. Cardinality(A) \in Nat /\ Cardinality(B) \in Nat
  BY <1>1, FS_CardinalityType
<1>3. Cardinality(A \cap B) = 0
  BY FS_EmptySet
<1>4. Cardinality(A \cup B) = Cardinality(A) + Cardinality(B) - Cardinality(A \cap B)
  BY <1>1, FS_Union
<1> QED
  BY <1>2, <1>3, <1>4

LEMMA OneTask ==
    ASSUME NEW A \in SUBSET Task, NEW t
    PROVE  /\ Cardinality(A) \in Nat
           /\ Cardinality(A \cup {t}) = IF t \in A THEN Cardinality(A) ELSE Cardinality(A) + 1
           /\ Cardinality(A \ {t}) = IF t \in A THEN Cardinality(A) - 1 ELSE Cardinality(A)
<1>1. IsFiniteSet(A)
  BY TaskAssumption, FS_Subset
<1> QED
  BY <1>1, FS_CardinalityType, FS_AddElement, FS_RemoveElement

(* How many are the first waiters of a side; no more wait than there are   *)
(* tasks.                                                                  *)
LEMMA FirstCount ==
    ASSUME QueueInv, NEW s \in Side, NEW n \in Nat
    PROVE  /\ FirstWaiters(s, n) \in SUBSET Task /\ Len(waiting[s]) \in Nat
           /\ Cardinality(FirstWaiters(s, n)) = IF n <= Len(waiting[s]) THEN n ELSE Len(waiting[s])
           /\ Len(waiting[s]) <= n => FirstWaiters(s, n) = ToSet(waiting[s])
           /\ Len(waiting[s]) <= uxCurrentNumberOfTasks
<1> DEFINE list == waiting[s]
           len == Len(list)
           m == Min({n, len})
<1>1. /\ list \in Seq(Task) /\ len \in Nat /\ DOMAIN list = 1 .. len /\ IsInjective(list)
      /\ \A i \in 1 .. len : list[i] \in Task
  BY LenProperties DEF QueueInv, QueueTyped, WaitersSleep
<1>2. m = IF n <= len THEN n ELSE len
  BY <1>1, Lesser
<1>3. FirstWaiters(s, n) = {list[i] : i \in 1 .. m}
  BY DEF FirstWaiters
<1> HIDE DEF list, m
<1>4. ASSUME NEW k \in Nat, k <= len
      PROVE  /\ {list[i] : i \in 1 .. k} \in SUBSET Task
             /\ Cardinality({list[i] : i \in 1 .. k}) = k
  <2> DEFINE S == {list[i] : i \in 1 .. k}
             f == [i \in 1 .. k |-> list[i]]
  <2>1. 1 .. k \subseteq 1 .. len
    BY <1>1, <1>4
  <2>2. S \in SUBSET Task
    BY <1>1, <2>1
  <2>3. f \in Surjection(1 .. k, S)
    BY DEF Surjection
  <2>4. f \in Injection(1 .. k, S)
    BY <1>1, <2>1 DEF Injection, IsInjective
  <2>5. f \in Bijection(1 .. k, S)
    BY <2>3, <2>4 DEF Bijection
  <2>6. IsFiniteSet(1 .. k) /\ Cardinality(1 .. k) = k
    <3>1. 1 \in Int /\ k \in Int /\ (IF 1 > k THEN 0 ELSE k - 1 + 1) = k
      BY <1>4
    <3> QED
      BY <3>1, FS_Interval
  <2>7. ExistsBijection(1 .. k, S)
    BY <2>5 DEF ExistsBijection
  <2> HIDE DEF S
  <2>8. Cardinality(S) = k
    BY <2>6, <2>7, FS_Bijection
  <2> QED
    BY <2>2, <2>8 DEF S
<1>5. m \in Nat /\ m <= len
  <2>1. len \in Nat
    BY <1>1
  <2> HIDE DEF len
  <2> QED
    BY <1>2, <2>1
<1>6. ToSet(list) = {list[i] : i \in 1 .. len}
  BY <1>1 DEF ToSet
<1>7. len <= uxCurrentNumberOfTasks
  <2>1. ToSet(list) \subseteq Live
    BY WaitersAreNotReady DEF Waiting, list
  <2>2. IsFiniteSet(Live)
    BY TaskAssumption, FS_Subset DEF Live
  <2>3. Cardinality(ToSet(list)) <= Cardinality(Live)
    BY <2>1, <2>2, FS_Subset
  <2>4. Cardinality(ToSet(list)) = len
    BY <1>1, <1>4, <1>6
  <2> QED
    BY <2>3, <2>4 DEF QueueInv, IInv, CountsAgree
<1> QED
  BY <1>1, <1>2, <1>3, <1>4, <1>5, <1>6, <1>7 DEF list

-----------------------------------------------------------------------------
(* Tasks that are not deleted.                                             *)

Endures ==
    /\ Immortal'
    /\ \A t \in Task \ Mortal : memory[t] = "live" => memory'[t] = "live"
    /\ xSchedulerRunning /\ pc[pxCurrentTCB].op \notin {"app", "add"} => UNCHANGED uxCurrentNumberOfTasks

LEMMA ImmortalEndure == IInv /\ Immortal /\ Next => Endures
<1> SUFFICES ASSUME IInv, Immortal, Next PROVE Endures
  OBVIOUS
<1> USE DEF lifeVars
<1>1. ASSUME NEW u \in Task, NEW m \in {"free", "new", "live", "dying"}, memory' = [memory EXCEPT ![u] = m],
             u \in Mortal \/ m = "live",
             \A t \in Task \ Mortal : t \in xTasksWaitingTermination' => t \in xTasksWaitingTermination,
             xSchedulerRunning /\ pc[pxCurrentTCB].op \notin {"app", "add"} => UNCHANGED uxCurrentNumberOfTasks
      PROVE  Endures
  <2>1. \A t \in Task : memory'[t] = IF t = u THEN m ELSE memory[t]
    BY <1>1 DEF IInv, Typed
  <2> QED
    BY <1>1, <2>1 DEF Endures, Immortal
<1>2. ASSUME UNCHANGED <<memory, uxCurrentNumberOfTasks>>, xTasksWaitingTermination' \subseteq xTasksWaitingTermination
      PROVE  Endures
  BY <1>2 DEF Endures, Immortal
<1>3. CASE xTaskCreateInMain
  <2>1. PICK t \in Task \ {Idle}, p \in Priority : CreateBeforeStart(t, p)
    BY <1>3 DEF xTaskCreateInMain
  <2> QED
    BY <1>1, <1>3, <2>1 DEF CreateBeforeStart, AddNew, xTaskCreateInMain
<1>4. CASE vTaskStartScheduler
  BY <1>1, <1>4, TaskAssumption DEF vTaskStartScheduler, AddNew
<1>5. CASE prvCheckTasksWaitingTermination
  <2>1. PICK t \in xTasksWaitingTermination :
          /\ xTasksWaitingTermination' = xTasksWaitingTermination \ {t}
          /\ memory' = [memory EXCEPT ![t] = "dying"]
    BY <1>5 DEF prvCheckTasksWaitingTermination
  <2>2. t \in Task /\ t \in Mortal
    BY DEF IInv, Homes, Live, Immortal
  <2>3. pc[pxCurrentTCB].op = "app"
    BY <1>5 DEF prvCheckTasksWaitingTermination, At
  <2> QED
    BY <1>1, <2>1, <2>2, <2>3
<1>6. CASE Quiet /\ ~prvCheckTasksWaitingTermination
  BY <1>2, <1>6
  DEF Quiet, SuspendAll, ResumeAll, vTaskDelay, xTaskCatchUpTicks, CatchUpPends, xTaskResumeAll,
      TickPends, CreateReturns, prvIdleTask, ResumeDrained, SuspendReturns
<1>7. ASSUME NEW t \in Mortal, NEW p \in Priority, xTaskCreate(t, p) PROVE Endures
  <2>1. t \in Task /\ UNCHANGED <<xTasksWaitingTermination, uxCurrentNumberOfTasks>>
    BY <1>7, BoundAssumption DEF xTaskCreate
  <2>2. CASE memory' = [memory EXCEPT ![t] = "new"]
    BY <1>1, <1>7, <2>1, <2>2
  <2>3. CASE UNCHANGED memory
    BY <1>2, <2>1, <2>3
  <2> QED
    BY <1>7, <2>2, <2>3 DEF xTaskCreate
<1>8. CASE CreateAdds
  <2> DEFINE u == pc[pxCurrentTCB].who
  <2>1. u \in Task
    BY <1>8, CreateAddsReady DEF CreateAdds, Live
  <2>2. pc[pxCurrentTCB].op = "add" /\ AddNew(u, uxPriority) /\ UNCHANGED xTasksWaitingTermination
    BY <1>8 DEF CreateAdds, At
  <2> HIDE DEF u
  <2> QED
    BY <1>1, <2>1, <2>2 DEF AddNew
<1>9. ASSUME NEW t \in Task, vTaskDelete(t) PROVE Endures
  <2>1. t \in Mortal /\ pc[pxCurrentTCB].op = "app"
    BY <1>9 DEF vTaskDelete, Calling, At
  <2>2. CASE t = pxCurrentTCB
    <3>1. UNCHANGED memory /\ xTasksWaitingTermination' = xTasksWaitingTermination \cup {t}
      BY <1>9, <2>2 DEF vTaskDelete
    <3> QED
      BY <2>1, <3>1 DEF Endures, Immortal
  <2>3. CASE t # pxCurrentTCB
    <3>1. memory' = [memory EXCEPT ![t] = "dying"] /\ UNCHANGED xTasksWaitingTermination
      BY <1>9, <2>3 DEF vTaskDelete
    <3> QED
      BY <1>1, <2>1, <3>1
  <2> QED
    BY <2>2, <2>3
<1>10. CASE prvDeleteTCB
  <2> DEFINE u == pc[pxCurrentTCB].who
  <2>1. u \in Task /\ memory[u] = "dying"
    BY <1>10, DeleteTCBReady
  <2>2. /\ memory' = [memory EXCEPT ![u] = "free"]
        /\ UNCHANGED <<xTasksWaitingTermination, uxCurrentNumberOfTasks>>
    BY <1>10 DEF prvDeleteTCB
  <2>3. u \in Mortal
    BY <2>1 DEF Immortal
  <2> HIDE DEF u
  <2> QED
    BY <1>1, <2>1, <2>2, <2>3
<1>11. ASSUME NEW t \in Task,
              \/ vTaskSuspend(t) \/ vTaskResume(t) \/ ResumeDrains(t) \/ xTaskResumeFromISR(t)
              \/ \E p \in Priority : vTaskPrioritySet(t, p)
       PROVE  Endures
  BY <1>2, <1>11 DEF vTaskSuspend, vTaskResume, ResumeDrains, xTaskResumeFromISR, vTaskPrioritySet
<1>12. CASE DelaySleeps \/ ResumeTicks \/ TickCounts \/ ResumeReturns \/ vPortYield
  BY <1>2, <1>12 DEF DelaySleeps, ResumeTicks, TickCounts, ResumeReturns, vPortYield
<1> QED
  BY <1>3, <1>4, <1>5, <1>6, <1>7, <1>8, <1>9, <1>10, <1>11, <1>12, BoundAssumption
  DEF Next, AppCalls, KernelSteps, Interrupts, vPortYieldFromTick, Quiet

(* The callers of the queue are among them.                                *)
LEMMA SchedulerCallers ==
    ASSUME QueueInv, Immortal, Callers, SchedulerSteps
    PROVE  Immortal' /\ Callers'
<1>1. /\ App.op \in Own /\ Onward(App) = App /\ HasTime \cap Own = {} /\ \A t \in Task : GoesOn(t)
  BY OneWayKept DEF App, Onward, HasTime, Own, QueueInv, SchedulerSteps
<1>2. Endures
  BY ImmortalEndure DEF QueueInv, SchedulerSteps
<1>3. ASSUME NEW t \in Task, Onward(pc'[t]).op \in HasTime PROVE t \notin Mortal /\ memory'[t] = "live"
  <2>1. Onward(pc'[t]) = Onward(pc[t])
    BY <1>1, <1>3 DEF GoesOn, Ahead
  <2> QED
    BY <1>2, <1>3, <2>1 DEF Callers, Endures
<1> QED
  BY <1>2, <1>3 DEF Endures, Callers, HasTime

LEMMA QueueCallers ==
    ASSUME Immune, QueueInv, Immortal, Callers, QueueSteps
    PROVE  Immortal' /\ Callers'
<1>1. UNCHANGED <<memory, xTasksWaitingTermination>>
  BY VainTry DEF QueueSteps, CallSucceeds, CallMustWait, RetrySucceeds, Perform, Stay, SuspendsAll, Locks, Tests,
     vTaskPlaceOnEventList, UnlocksReceivers, UnlocksSenders, Wake, Rechecks, FromISR, xQueueGenericReset, Unconcerned,
     lifeVars
<1>2. pc \in [Task -> Place] /\ (xSchedulerRunning => pxCurrentTCB \in Task /\ memory[pxCurrentTCB] = "live")
  BY DEF QueueInv, IInv, Typed, Alive, Live
<1>3. ASSUME NEW place, Goto(place), xSchedulerRunning,
             Onward(place).op \in HasTime => /\ pxCurrentTCB \notin Mortal
      PROVE  Callers'
  <2>1. \A t \in Task : pc'[t] = IF t = pxCurrentTCB THEN place ELSE pc[t]
    BY <1>2, <1>3 DEF Goto
  <2> QED
    BY <1>1, <1>2, <1>3, <2>1 DEF Callers, HasTime
<1>4. ASSUME UNCHANGED pc PROVE Callers'
  BY <1>1, <1>4 DEF Callers
<1>5. ASSUME CallMustWait PROVE Callers'
  <2>1. PICK act \in {"send", "receive", "peek"}, n \in Tick \ {0} : <<pxCurrentTCB, act, n>> \in Waits
    BY <1>5 DEF CallMustWait
  <2>2. pxCurrentTCB \notin Mortal
    BY <2>1 DEF Immune
  <2>3. xSchedulerRunning /\ \E place : Goto(place)
    BY <1>5 DEF CallMustWait, Calling, At
  <2> QED
    BY <1>3, <2>2, <2>3
<1>6. ASSUME CallSucceeds PROVE Callers'
  <2>1. xSchedulerRunning /\ Goto(App) /\ Onward(App).op \notin HasTime
    BY <1>6 DEF CallSucceeds, Calling, At, Perform, Onward, App, HasTime
  <2> QED
    BY <1>3, <2>1
<1>7. ASSUME NEW o \in HasTime, At(o), NEW place, Goto(place) PROVE Callers'
  <2>1. Onward(pc[pxCurrentTCB]).op \in HasTime /\ xSchedulerRunning
    BY <1>7 DEF At, Onward, HasTime
  <2> QED
    BY <1>2, <1>3, <1>7, <2>1 DEF Callers
<1>8. ASSUME \/ RetrySucceeds \/ RetryMustWait \/ RetryFails
             \/ SuspendsAll \/ Locks \/ Tests("place") \/ vTaskPlaceOnEventList
      PROVE  Callers'
  <2>1. \E o \in HasTime : At(o) /\ \E place : Goto(place)
    BY <1>8, VainTry DEF RetrySucceeds, Perform, SuspendsAll, Locks, Tests, vTaskPlaceOnEventList, HasTime
  <2> QED
    BY <1>7, <2>1
<1>9. ASSUME UnlocksReceivers \/ UnlocksSenders \/ Rechecks(App) PROVE Callers'
  <2>1. \E o \in HasTime : At(o) /\ \E place : Goto(place)
    BY <1>9 DEF UnlocksReceivers, UnlocksSenders, Rechecks, HasTime
  <2> QED
    BY <1>7, <2>1
<1>10. ASSUME xQueueGenericReset \/ \E act \in {"send", "receive"} : FromISR(act) PROVE Callers'
  BY <1>4, <1>10 DEF xQueueGenericReset, FromISR
<1>11. Callers'
  BY <1>5, <1>6, <1>8, <1>9, <1>10 DEF QueueSteps
<1> QED
  BY <1>1, <1>11 DEF Immortal

-----------------------------------------------------------------------------
(* Those who were woken try.                                               *)

LEMMA TryKept ==
    ASSUME QueueInv, ServedTry, NEW S, Departs(S),
           \A s \in Side : \A t \in served'[s] :
              /\ t \in served[s] \/ (t \in S /\ t \in ToSet(waiting[s]))
              /\ Onward(pc[t]) \in Entered(s) => Onward(pc'[t]) \in Entered(s)
    PROVE  ServedTry'
<1>1. ASSUME NEW t \in Waiting' PROVE t \in Waiting /\ t \notin S
  BY <1>1 DEF Departs, Waiting
<1>2. ASSUME NEW s \in Side, NEW t \in served'[s] PROVE t \notin Waiting' /\ Onward(pc'[t]) \in Entered(s)
  <2>1. Onward(pc[t]) \in Entered(s)
    BY <1>2 DEF ServedTry, QueueInv, WaitersInCall
  <2>2. t \notin Waiting'
    BY <1>1, <1>2 DEF ServedTry
  <2> QED
    BY <1>2, <2>1, <2>2
<1> QED
  BY <1>2 DEF ServedTry, Entered

LEMMA PopTry ==
    ASSUME QueueInv, ServedTry, NEW side \in Side, NEW n \in Int, NEW tries, Pop(side, n, tries),
           \A t \in Task \ tries : \A s \in Side : Onward(pc[t]) \in Entered(s) => Onward(pc'[t]) \in Entered(s)
    PROVE  ServedTry'
<1> DEFINE S == FirstWaiters(side, n)
<1>1. Departs(S) /\ served' \in [Side -> SUBSET Task]
  BY PopTyped
<1>2. S \subseteq ToSet(waiting[side])
  BY FirstWait DEF QueueInv, QueueTyped
<1>3. ASSUME NEW s \in Side, NEW t \in served'[s]
      PROVE  t \in served[s] \/ (t \in S /\ t \in ToSet(waiting[s]))
  <2>1. t \in (served[s] \cup IF s = side THEN S ELSE {}) \ tries
    BY <1>3 DEF Pop
  <2> HIDE DEF S
  <2> QED
    BY <1>2, <2>1
<1>4. ASSUME NEW s \in Side, NEW t \in served'[s] PROVE t \in Task \ tries
  <2>1. t \in Task
    BY <1>1, <1>4
  <2>2. t \notin tries
    BY <1>4 DEF Pop
  <2> QED
    BY <2>1, <2>2
<1> HIDE DEF S
<1> QED
  BY <1>1, <1>3, <1>4, TryKept

(* Nobody looks at an unlocked queue.                                      *)
LEMMA NotLooking ==
    ASSUME QueueInv', NEW s \in Side, lock'[s] = queueUNLOCKED
    PROVE  Looked'
  BY DEF QueueInv, HoldsLock, Looked, In

-----------------------------------------------------------------------------
(* What is owed is counted.                                                *)

Sums ==
    \A s \in Side :
        /\ Available[s] \in Nat /\ Cardinality(served[s]) \in Nat /\ served[s] \in SUBSET Task
        /\ uxCurrentNumberOfTasks \in Nat
        /\ lock[s] = queueUNLOCKED \/ (lock[s] \in Nat /\ lock[s] # queueUNLOCKED)
        /\ Counted(s) <=> Available[s] <= Cardinality(served[s]) + (IF lock[s] = queueUNLOCKED THEN 0 ELSE lock[s])

LEMMA Counting == QueueInv => Sums
<1> SUFFICES ASSUME QueueInv, NEW s \in Side
             PROVE  /\ Available[s] \in Nat /\ Cardinality(served[s]) \in Nat /\ served[s] \in SUBSET Task
                    /\ uxCurrentNumberOfTasks \in Nat
                    /\ lock[s] = queueUNLOCKED \/ (lock[s] \in Nat /\ lock[s] # queueUNLOCKED)
                    /\ Counted(s) <=> Available[s] <= Cardinality(served[s])
                                         + (IF lock[s] = queueUNLOCKED THEN 0 ELSE lock[s])
  BY DEF Sums
<1>1. uxMessagesWaiting \in Nat /\ uxLength \in Nat /\ uxMessagesWaiting <= uxLength
  BY QueueAssumption DEF QueueInv, QueueTyped
<1>2. Available[s] \in Nat
  BY <1>1 DEF Available, Side
<1>3. served[s] \in SUBSET Task /\ Cardinality(served[s]) \in Nat
  <2>1. served[s] \in SUBSET Task
    BY DEF QueueInv, QueueTyped
  <2> QED
    BY <2>1, OneTask
<1>4. lock[s] \in Nat \cup {queueUNLOCKED} /\ queueUNLOCKED \notin Nat
  BY DEF QueueInv, QueueTyped, queueUNLOCKED
<1>5. uxCurrentNumberOfTasks \in Nat
  <2>1. IsFiniteSet(Live)
    BY TaskAssumption, FS_Subset DEF Live
  <2> QED
    BY <2>1, FS_CardinalityType DEF QueueInv, IInv, CountsAgree
<1> QED
  BY <1>2, <1>3, <1>4, <1>5, LockCounts DEF Counted

LEMMA Counting2 == QueueInv' => Sums'
  BY Counting, PTL

LEMMA NoneWait ==
    ASSUME NEW list \in Seq(Task)
    PROVE  list = <<>> <=> ToSet(list) = {}
<1>1. Len(list) \in Nat /\ DOMAIN list = 1 .. Len(list) /\ (list = <<>> <=> Len(list) = 0)
  BY LenProperties, EmptySeq
<1>2. CASE Len(list) = 0
  BY <1>1, <1>2 DEF ToSet
<1>3. CASE Len(list) # 0
  <2>1. 1 \in DOMAIN list
    BY <1>1, <1>3
  <2>2. list[1] \in ToSet(list)
    BY <2>1 DEF ToSet
  <2> QED
    BY <1>1, <1>3, <2>2
<1> QED
  BY <1>2, <1>3

LEMMA StillWait ==
    ASSUME QueueInv, NEW S, Departs(S), NEW s \in Side, waiting'[s] # <<>>
    PROVE  /\ waiting[s] # <<>>
           /\ ~(ToSet(waiting[s]) \subseteq S)
<1>1. waiting[s] \in Seq(Task) /\ waiting'[s] \in Seq(Task)
  BY DEF QueueInv, QueueTyped, Departs
<1>2. ToSet(waiting'[s]) # {} /\ ToSet(waiting'[s]) = ToSet(waiting[s]) \ S
  BY <1>1, NoneWait DEF Departs
<1> QED
  BY <1>1, <1>2, NoneWait

(* Nothing comes in and nobody is woken.                                   *)
LEMMA OwedStands ==
    ASSUME QueueInv, QueueInv', NEW s \in Side, OwedAt(s), UNCHANGED uxMessagesWaiting, served'[s] = served[s],
           lock[s] = queueUNLOCKED \/ (lock'[s] = lock[s] /\ UNCHANGED uxCurrentNumberOfTasks),
           waiting'[s] # <<>> => waiting[s] # <<>>
    PROVE  OwedAt(s)'
<1> SUFFICES ASSUME waiting'[s] # <<>> PROVE Counted(s)' \/ uxCurrentNumberOfTasks' <= lock'[s]
  BY DEF OwedAt
<1>1. Counted(s) \/ uxCurrentNumberOfTasks <= lock[s]
  BY DEF OwedAt
<1>2. Available'[s] = Available[s]
  BY DEF Available
<1> DEFINE A == Available[s]
           C == Cardinality(served[s])
           l == lock[s]
           m == lock'[s]
           N == uxCurrentNumberOfTasks
<1>3. /\ A \in Nat /\ C \in Nat /\ N \in Nat /\ (l = queueUNLOCKED \/ l \in Nat)
      /\ Counted(s) <=> A <= C + (IF l = queueUNLOCKED THEN 0 ELSE l)
  BY Counting DEF Sums
<1>4. /\ m = queueUNLOCKED \/ m \in Nat
      /\ Counted(s)' <=> A <= C + (IF m = queueUNLOCKED THEN 0 ELSE m)
  BY <1>2, Counting2 DEF Sums
<1>5. l = queueUNLOCKED \/ (m = l /\ N' = N)
  OBVIOUS
<1> HIDE DEF A, C, l, m, N
<1>6. CASE l = queueUNLOCKED
  <2>1. ~(N <= l)
    BY <1>3, <1>6 DEF queueUNLOCKED
  <2>2. A <= C
    BY <1>1, <1>3, <1>6, <2>1 DEF l, N
  <2> QED
    BY <1>3, <1>4, <2>2
<1>7. CASE m = l /\ N' = N
  <2>1. Counted(s)' <=> Counted(s)
    BY <1>3, <1>4, <1>7
  <2> QED
    BY <1>1, <1>7, <2>1 DEF l, m, N
<1> QED
  BY <1>5, <1>6, <1>7

(* The ways a step keeps them so: nobody is woken, or the first waiters of *)
(* a side are.                                                             *)
LEMMA TryStands ==
    ASSUME QueueInv, ServedTry, xSchedulerRunning, UNCHANGED served, NEW place, Goto(place),
           \A s \in Side : Onward(pc[pxCurrentTCB]) \notin Entered(s),
           Waiting' \subseteq Waiting \cup {pxCurrentTCB}
    PROVE  ServedTry'
<1>1. pc \in [Task -> Place] /\ served \in [Side -> SUBSET Task]
  BY DEF QueueInv, QueueTyped, IInv, Typed
<1>2. ASSUME NEW s \in Side, NEW t \in served[s] PROVE t \notin Waiting' /\ Onward(pc'[t]) \in Entered(s)
  <2>1. t \in Task /\ t \notin Waiting /\ Onward(pc[t]) \in Entered(s)
    BY <1>1, <1>2 DEF ServedTry
  <2>2. t # pxCurrentTCB
    BY <2>1
  <2>3. pc'[t] = pc[t]
    BY <1>1, <2>1, <2>2 DEF Goto
  <2> QED
    BY <2>1, <2>2, <2>3
<1> QED
  BY <1>2 DEF ServedTry, Entered

(* The running task unlocks, and goes on to its retry if it waits now.     *)
LEMMA UnlocksStayEntered ==
    ASSUME QueueInv, UnlocksReceivers \/ UnlocksSenders, NEW t \in Task, NEW s \in Side,
           Onward(pc[t]) \in Entered(s)
    PROVE  Onward(pc'[t]) \in Entered(s)
<1> DEFINE me == pxCurrentTCB
           here == pc[me]
<1>1. pc \in [Task -> Place] /\ me \in Task
  BY Here DEF QueueInv, IInv, Typed, UnlocksReceivers, UnlocksSenders, At
<1>2. CASE t # me
  <2>1. \E place : Goto(place)
    BY DEF UnlocksReceivers, UnlocksSenders
  <2> QED
    BY <1>1, <1>2, <2>1 DEF Goto
<1>3. CASE t = me /\ UnlocksReceivers
  <2> DEFINE place == UnlockAt("unlocked", here.act, here.time, here.then)
  <2>1. /\ here = UnlockAt("unlock", here.act, here.time, here.then) /\ Onward(here) = here
        /\ here.act \in Acts /\ here.time \in TimeOuts /\ here.then \in {"sleeps", "retries", "timesOut"}
    BY <1>3, UnlocksInCall DEF UnlocksReceivers, Unlocks
  <2>2. [here EXCEPT !.op = "unlocked"] = place
    BY <2>1 DEF UnlockAt
  <2>3. pc'[me] = place
    BY <1>1, <1>3, <2>2 DEF UnlocksReceivers, Goto, Call
  <2>4. here.then = "sleeps" /\ WaitsAt(here.act) = s
    BY <1>3, <2>1 DEF Entered, UnlockAt
  <2>5. place \in Plain
    BY <2>1, QueuePlaces DEF Unlocks
  <2>6. Onward(place) = place /\ place \in Place
    BY <2>5 DEF Onward, UnlockAt, Plain
  <2>7. place \in Entered(s)
    BY <2>4, <2>6 DEF Entered, UnlockAt, Unlocks
  <2> HIDE DEF place
  <2> QED
    BY <1>3, <2>3, <2>6, <2>7
<1>4. CASE t = me /\ UnlocksSenders
  <2> DEFINE p == CallAt("retry", here.act, here.time)
  <2>1. /\ here = UnlockAt("unlocked", here.act, here.time, here.then) /\ Onward(here) = here
        /\ here.act \in Acts /\ here.time \in TimeOuts
    BY <1>4, UnlocksInCall DEF UnlocksSenders, Unlocks
  <2>2. here.then = "sleeps" /\ WaitsAt(here.act) = s
    BY <1>4, <2>1 DEF Entered, UnlockAt
  <2>3. Goto(Resuming(p, YieldingTo(p)))
    BY <1>4, <2>2, UnlockedGoes
  <2>4. pc'[me] = Resuming(p, YieldingTo(p))
    BY <1>1, <2>3 DEF Goto
  <2>5. p \in Outs /\ p.op = "retry" /\ p.act = here.act
    BY <2>1, QueuePlaces DEF Outs, CallAt
  <2> HIDE DEF p
  <2>6. YieldingTo(p) \in Outs \cup Yields
    BY <2>5 DEF YieldingTo, Yields
  <2>7. Onward(p) = p /\ Onward(YieldingTo(p)) = p /\ Onward(Resuming(p, YieldingTo(p))) = p
    BY <2>5, <2>6, QueueOnward DEF YieldingTo
  <2>8. p \in Place
    BY <2>5 DEF Place, Ends
  <2> QED
    BY <1>4, <2>2, <2>4, <2>5, <2>7, <2>8 DEF Entered
<1> QED
  BY <1>2, <1>3, <1>4

LEMMA SchedulerTry ==
    ASSUME QueueInv, Immortal, Callers, ServedTry, SchedulerSteps
    PROVE  ServedTry'
<1>1. Departs(Dropped) /\ served' = served /\ served \in [Side -> SUBSET Task]
  BY SchedulerSleepers DEF SchedulerSteps, QueueInv, QueueTyped
<1>2. Endures
  BY ImmortalEndure DEF QueueInv, SchedulerSteps
<1>3. ASSUME NEW s \in Side, NEW t \in served'[s] PROVE t \in served[s] /\ Onward(pc'[t]) \in Entered(s)
  <2>1. t \in served[s] /\ t \in Task
    BY <1>1, <1>3
  <2>2. Onward(pc[t]) \in Entered(s)
    BY <2>1 DEF ServedTry
  <2>3. Onward(pc[t]).op \in {"retry", "unlock", "unlocked"}
    BY <2>2 DEF Entered, Unlocks
  <2>4. memory[t] = "live" /\ memory'[t] = "live"
    BY <1>2, <2>1, <2>3 DEF Callers, Endures, HasTime
  <2>5. GoesOn(t)
    BY <2>1, OneWayKept DEF QueueInv, SchedulerSteps
  <2>6. ~Ahead(pc[t])
    BY <2>3 DEF Ahead, Own
  <2> QED
    BY <2>1, <2>2, <2>4, <2>5, <2>6 DEF GoesOn
<1> QED
  BY <1>1, <1>3, TryKept

LEMMA QueueTries ==
    ASSUME QueueInv, ServedTry, QueueSteps
    PROVE  ServedTry'
<1> DEFINE me == pxCurrentTCB
<1>1. /\ pc \in [Task -> Place] /\ waiting \in [Side -> Seq(Task)] /\ lock \in [Side -> Nat \cup {queueUNLOCKED}]
      /\ (xSchedulerRunning => me \in Task) /\ "send" \in Side /\ "receive" \in Side
  BY Here DEF QueueInv, QueueTyped, IInv, Typed, Side
<1>2. ASSUME NEW place, Goto(place), NEW t \in Task \ {me} PROVE pc'[t] = pc[t]
  BY <1>1, <1>2 DEF Goto
<1>3. ASSUME NEW act \in {"send", "overwrite", "receive", "peek"}, Perform(act) PROVE ServedTry'
  <2>1. Pop(Wakes(act), 1, {me}) /\ Goto(App) /\ Wakes(act) \in Side
    BY <1>3 DEF Perform, WakeFirst, Wakes, Side
  <2> QED
    BY <1>2, <2>1, PopTry
<1>4. ASSUME CallSucceeds \/ RetrySucceeds PROVE ServedTry'
  <2>1. RetrySucceeds => pc[me].act \in Acts
    BY TriesWhenReady DEF RetrySucceeds
  <2> QED
    BY <1>3, <1>4, <2>1 DEF CallSucceeds, RetrySucceeds, Acts, Call
<1>5. ASSUME RetryMustWait \/ RetryFails PROVE ServedTry'
  <2>1. Pop("send", 0, {me}) /\ "send" \in Side /\ 0 \in Int
    BY <1>1, <1>5, VainTry
  <2>2. PICK place : Goto(place)
    BY <1>5, VainTry
  <2>3. \A t \in Task \ {me} : pc'[t] = pc[t]
    BY <1>2, <2>2
  <2>4. \A t \in Task \ {me} : \A s \in Side : Onward(pc[t]) \in Entered(s) => Onward(pc'[t]) \in Entered(s)
    BY <2>3
  <2> QED
    BY <2>1, <2>4, PopTry
<1>6. ASSUME UnlocksReceivers \/ UnlocksSenders PROVE ServedTry'
  <2>1. PICK side \in Side : Pop(side, lock[side], {})
    BY <1>1, <1>6 DEF UnlocksReceivers, UnlocksSenders, Wake
  <2>2. lock[side] \in Int
    BY <1>1 DEF queueUNLOCKED
  <2>3. \A t \in Task \ {} : \A s \in Side : Onward(pc[t]) \in Entered(s) => Onward(pc'[t]) \in Entered(s)
    BY <1>6, UnlocksStayEntered
  <2> QED
    BY <2>1, <2>2, <2>3, PopTry
<1>7. ASSUME NEW act \in {"send", "receive"}, FromISR(act) PROVE ServedTry'
  <2>1. UNCHANGED pc /\ Wakes(act) \in Side
    BY <1>7 DEF FromISR, Wakes, Side
  <2>2. CASE Pop(Wakes(act), 1, {})
    BY <2>1, <2>2, PopTry
  <2>3. CASE UNCHANGED <<waiting, served>>
    BY <2>1, <2>3 DEF ServedTry, Waiting
  <2> QED
    BY <1>7, <2>2, <2>3 DEF FromISR, WakeFirst
<1>8. ASSUME xQueueGenericReset PROVE ServedTry'
  <2>1. UNCHANGED pc /\ Pop("send", 1, {})
    BY <1>8 DEF xQueueGenericReset, WakeFirst
  <2> QED
    BY <1>1, <2>1, PopTry
<1>9. ASSUME NEW o \in {"app", "suspend", "lock", "test", "place", "recheck"}, At(o), UNCHANGED served,
             NEW place, Goto(place), UNCHANGED waiting \/ waiting'= [waiting EXCEPT ![WaitsAt(pc[me].act)] = vListInsert(@, me)]
      PROVE  ServedTry'
  <2>1. Onward(pc[me]) = pc[me] /\ pc[me].op = o /\ xSchedulerRunning /\ me \in Task
    BY <1>1, <1>9 DEF At, Onward
  <2>2. \A s \in Side : Onward(pc[me]) \notin Entered(s)
    BY <2>1 DEF Entered, Unlocks
  <2>3. Waiting' \subseteq Waiting \cup {me}
    <3>1. CASE UNCHANGED waiting
      BY <3>1 DEF Waiting
    <3>2. CASE waiting' = [waiting EXCEPT ![WaitsAt(pc[me].act)] = vListInsert(@, me)]
      <4> DEFINE w == WaitsAt(pc[me].act)
      <4>1. w \in Side
        BY DEF WaitsAt, Side
      <4>2. waiting[w] \in Seq(Task) /\ waiting'[w] = vListInsert(waiting[w], me) /\ \A s \in Side : s # w => waiting'[s] = waiting[s]
        BY <1>1, <3>2, <4>1
      <4> HIDE DEF w
      <4>3. ToSet(waiting'[w]) = ToSet(waiting[w]) \cup {me}
        BY <2>1, <4>2, InsertAdds
      <4> QED
        BY <4>1, <4>2, <4>3 DEF Waiting
    <3> QED
      BY <1>9, <3>1, <3>2
  <2> QED
    BY <1>9, <2>1, <2>2, <2>3, TryStands
<1>10. ASSUME CallMustWait \/ SuspendsAll \/ Locks \/ Tests("place") \/ Rechecks(App) PROVE ServedTry'
  <2>1. /\ \E o \in {"app", "suspend", "lock", "test", "place", "recheck"} : At(o)
        /\ (\E place : Goto(place)) /\ UNCHANGED <<served, waiting>>
    BY <1>10 DEF CallMustWait, Calling, SuspendsAll, Locks, Tests, Rechecks, Stay
  <2> QED
    BY <1>9, <2>1
<1>11. ASSUME vTaskPlaceOnEventList PROVE ServedTry'
  <2>1. /\ At("place") /\ (\E place : Goto(place)) /\ UNCHANGED served
        /\ waiting' = [waiting EXCEPT ![WaitsAt(pc[me].act)] = vListInsert(@, me)]
    BY <1>11 DEF vTaskPlaceOnEventList, Call
  <2> QED
    BY <1>9, <2>1
<1> QED
  BY <1>4, <1>5, <1>6, <1>7, <1>8, <1>10, <1>11 DEF QueueSteps

-----------------------------------------------------------------------------
(* What becomes available between the look and the event list is counted.  *)

LEMMA NoneAvailable ==
    ASSUME QueueInv, NEW act \in Acts, ~Possible(act)
    PROVE  Available[WaitsAt(act)] = 0
<1>1. uxMessagesWaiting \in Nat /\ uxLength \in Nat /\ uxMessagesWaiting <= uxLength
  BY QueueAssumption DEF QueueInv, QueueTyped
<1>2. CASE act = "send"
  BY <1>1, <1>2 DEF Possible, Available, WaitsAt
<1>3. CASE act # "send"
  BY <1>1, <1>3 DEF Possible, Available, WaitsAt
<1> QED
  BY <1>2, <1>3

(* A call or an interrupt adds at most one on the side it wakes, and takes *)
(* one on its own side unless it peeks.                                    *)
LEMMA AvailableMoves ==
    ASSUME QueueInv, NEW act \in {"send", "overwrite", "receive", "peek"}, Possible(act),
           uxMessagesWaiting' = Count(act), NEW s \in Side
    PROVE  /\ Available[s] \in Nat /\ Available'[s] \in Nat
           /\ Available'[s] <= Available[s] + (IF s = Wakes(act) THEN 1 ELSE 0)
           /\ act # "overwrite" /\ s = WaitsAt(act) =>
                 Available'[s] + 1 <= Available[s] + (IF s = Wakes(act) THEN 1 ELSE 0)
<1>1. uxMessagesWaiting \in Nat /\ uxLength \in Nat /\ uxMessagesWaiting <= uxLength /\ uxLength > 0
  BY QueueAssumption DEF QueueInv, QueueTyped
<1>2. act = "send" => uxMessagesWaiting < uxLength
  BY DEF Possible
<1>3. act = "receive" => uxMessagesWaiting > 0
  BY DEF Possible
<1>4. /\ Available["receive"] = uxMessagesWaiting /\ Available["send"] = uxLength - uxMessagesWaiting
      /\ Available'["receive"] = Count(act) /\ Available'["send"] = uxLength - Count(act)
  BY DEF Available
<1>5. CASE act = "receive"
  BY <1>1, <1>3, <1>4, <1>5 DEF Count, Side, Wakes, WaitsAt
<1>6. CASE act = "send"
  BY <1>1, <1>2, <1>4, <1>6 DEF Count, Side, Wakes, WaitsAt
<1>7. CASE act = "peek"
  BY <1>1, <1>4, <1>7 DEF Count, Side, Wakes, WaitsAt
<1>8. CASE act = "overwrite"
  BY <1>1, <1>4, <1>8 DEF Count, Side, Wakes, WaitsAt
<1> QED
  BY <1>5, <1>6, <1>7, <1>8

(* An interrupt that finds the queue locked counts it.                     *)
LEMMA InterruptCounts ==
    ASSUME QueueInv, NEW act \in {"send", "receive"}, FromISR(act), lock[Wakes(act)] # queueUNLOCKED, NEW s \in Side
    PROVE  /\ UNCHANGED <<waiting, served, uxCurrentNumberOfTasks, pc, pxCurrentTCB, xSchedulerRunning>>
           /\ (lock[s] = queueUNLOCKED <=> lock'[s] = queueUNLOCKED)
           /\ lock[s] \in Nat \cup {queueUNLOCKED} /\ lock'[s] \in Nat \cup {queueUNLOCKED}
           /\ uxCurrentNumberOfTasks \in Nat /\ Available[s] \in Nat /\ Available'[s] \in Nat
           /\ \/ Available'[s] <= Available[s] /\ lock'[s] = lock[s]
              \/ Available'[s] <= Available[s] + 1 /\ lock[s] # queueUNLOCKED /\ lock'[s] = lock[s] + 1
              \/ uxCurrentNumberOfTasks <= lock[s] /\ lock'[s] = lock[s]
<1> DEFINE side == Wakes(act)
           N == uxCurrentNumberOfTasks
<1>1. /\ lock \in [Side -> Nat \cup {queueUNLOCKED}] /\ side \in Side /\ N \in Nat
  <2>1. N \in Nat
    BY Counting DEF Sums, Side
  <2> QED
    BY <2>1 DEF QueueInv, QueueTyped, Wakes, Side
<1>2. /\ lock' = [lock EXCEPT ![side] = IF @ < N THEN @ + 1 ELSE @]
      /\ UNCHANGED <<waiting, served, uxCurrentNumberOfTasks, pc, pxCurrentTCB, xSchedulerRunning>>
  BY DEF FromISR, prvIncrementQueueLock, Unconcerned, lifeVars
<1>3. /\ Available[s] \in Nat /\ Available'[s] \in Nat
      /\ Available'[s] <= Available[s] + (IF s = side THEN 1 ELSE 0)
  BY AvailableMoves DEF FromISR
<1> DEFINE A == Available[s]
           B == Available'[s]
<1>4. A \in Nat /\ B \in Nat /\ B <= A + (IF s = side THEN 1 ELSE 0)
  BY <1>3
<1> HIDE DEF A, B, N, side
<1>5. CASE s # side
  <2>1. lock'[s] = lock[s] /\ B <= A
    BY <1>1, <1>2, <1>4, <1>5
  <2> QED
    BY <1>1, <1>2, <1>3, <2>1 DEF A, B, N
<1>6. CASE s = side
  <2>1. lock[s] \in Nat /\ lock[s] # queueUNLOCKED
    BY <1>1, <1>6 DEF side
  <2>2. lock'[s] = IF lock[s] < N THEN lock[s] + 1 ELSE lock[s]
    BY <1>1, <1>2, <1>6
  <2>3. B <= A + 1
    BY <1>4, <1>6
  <2>4. lock'[s] \in Nat /\ lock'[s] # queueUNLOCKED /\ (lock'[s] = lock[s] + 1 \/ (N <= lock[s] /\ lock'[s] = lock[s]))
    BY <1>1, <2>1, <2>2 DEF queueUNLOCKED
  <2> QED
    BY <1>1, <1>2, <1>3, <2>1, <2>3, <2>4 DEF A, B, N
<1> QED
  BY <1>5, <1>6

LEMMA LookedKeeps ==
    ASSUME QueueInv, Looked, QueueInv', QueueNext
    PROVE  Looked'
<1> DEFINE me == pxCurrentTCB
<1>1. /\ pc \in [Task -> Place] /\ (xSchedulerRunning => me \in Task) /\ "send" \in Side /\ "receive" \in Side
      /\ lock \in [Side -> Nat \cup {queueUNLOCKED}]
  BY Here DEF QueueInv, QueueTyped, IInv, Typed, Side
<1>2. ASSUME xSchedulerRunning, pc[me].op \notin {"test", "inherit", "place", "unlock", "unlocked"}, UNCHANGED lock
      PROVE  Looked'
  <2>1. lock'["send"] = queueUNLOCKED
    BY <1>1, <1>2, InAppUnlocked
  <2> QED
    BY <1>1, <2>1, NotLooking
<1>3. ASSUME \/ CallSucceeds \/ CallMustWait \/ RetrySucceeds \/ RetryMustWait \/ RetryFails
             \/ SuspendsAll \/ Rechecks(App)
      PROVE  Looked'
  BY <1>2, <1>3, VainTry DEF CallSucceeds, CallMustWait, RetrySucceeds, Perform, SuspendsAll, Rechecks, Calling, At
<1>4. ASSUME NEW place, Goto(place), UNCHANGED pxCurrentTCB, xSchedulerRunning, place.op \notin {"inherit", "place"}
      PROVE  Looked'
  <2>1. pc'[me'] = place
    BY <1>1, <1>4 DEF Goto
  <2> QED
    BY <1>4, <2>1 DEF Looked, In
<1>5. ASSUME Locks PROVE Looked'
  <2>1. \/ Goto([Unlocking("timesOut") EXCEPT !.time = Checked(Call.time)])
        \/ Goto([op |-> "test", act |-> Call.act, time |-> Checked(Call.time)])
    BY <1>5 DEF Locks
  <2>2. [Unlocking("timesOut") EXCEPT !.time = Checked(Call.time)].op = "unlock"
    BY DEF Unlocking
  <2>3. xSchedulerRunning /\ UNCHANGED pxCurrentTCB
    BY <1>5 DEF Locks, At, Stay, switchVars
  <2>4. \E place : Goto(place) /\ place.op \notin {"inherit", "place"}
    BY <2>1, <2>2
  <2> QED
    BY <1>4, <2>3, <2>4
<1>6. ASSUME Tests("place") PROVE Looked'
  <2> DEFINE c == pc[me].time
             a == pc[me].act
             w == WaitsAt(a)
  <2>1. /\ xSchedulerRunning /\ me \in Task /\ pc[me] = CallAt("test", a, c) /\ a \in Acts
        /\ \A s \in Side : lock[s] # queueUNLOCKED
    BY <1>6, EntersWhenReady DEF Tests
  <2>2. UNCHANGED <<pxCurrentTCB, lock, uxMessagesWaiting>>
    BY <1>6 DEF Tests, Stay, switchVars
  <2>3. CASE Possible(Call.act)
    <3>1. Goto(Unlocking("retries")) /\ Unlocking("retries").op = "unlock"
      BY <1>6, <2>3 DEF Tests, Unlocking
    <3> QED
      BY <1>4, <2>1, <2>2, <3>1
  <2>4. CASE ~Possible(Call.act)
    <3>1. [Call EXCEPT !.op = "place"] = CallAt("place", a, c)
      BY <2>1 DEF Call, CallAt
    <3>2. pc'[me'] = CallAt("place", a, c)
      BY <1>1, <1>6, <2>1, <2>2, <2>4, <3>1 DEF Tests, Goto
    <3>3. pc'[me'].act = a
      BY <3>2 DEF CallAt
    <3>4. Available[w] = 0
      BY <2>1, <2>4, NoneAvailable DEF Call
    <3>5. Available'[w] = 0
      BY <2>2, <3>4 DEF Available
    <3>6. lock'[w] \in Nat
      BY <1>1, <2>1, <2>2 DEF w, WaitsAt
    <3> HIDE DEF w
    <3>7. Available'[w] <= lock'[w]
      BY <3>5, <3>6
    <3> QED
      BY <3>3, <3>7 DEF Looked, w
  <2> QED
    BY <2>3, <2>4
<1>7. ASSUME vTaskPlaceOnEventList PROVE Looked'
  <2>1. Goto(Unlocking("sleeps")) /\ Unlocking("sleeps").op = "unlock"
    BY <1>7 DEF vTaskPlaceOnEventList, Unlocking
  <2>2. xSchedulerRunning /\ UNCHANGED pxCurrentTCB
    BY <1>7 DEF vTaskPlaceOnEventList, At, switchVars
  <2> QED
    BY <1>4, <2>1, <2>2
<1>8. ASSUME UnlocksReceivers \/ UnlocksSenders \/ xQueueGenericReset PROVE Looked'
  <2>1. lock'["receive"] = queueUNLOCKED \/ lock'["send"] = queueUNLOCKED
    BY <1>1, <1>8 DEF UnlocksReceivers, UnlocksSenders, Wake, Unlocked, xQueueGenericReset
  <2> QED
    BY <1>1, <2>1, NotLooking
<1>9. ASSUME NEW act \in {"send", "receive"}, FromISR(act) PROVE Looked'
  <2>1. Wakes(act) \in Side
    BY DEF Wakes, Side
  <2>2. CASE lock[Wakes(act)] = queueUNLOCKED
    <3>1. lock'[Wakes(act)] = queueUNLOCKED
      BY <1>9, <2>2 DEF FromISR
    <3> QED
      BY <2>1, <3>1, NotLooking
  <2>3. CASE lock[Wakes(act)] # queueUNLOCKED
    <3> DEFINE s == WaitsAt(pc[me].act)
               N == uxCurrentNumberOfTasks
               A == Available[s]
               B == Available'[s]
               l == lock[s]
               m == lock'[s]
    <3> SUFFICES ASSUME In({"inherit", "place"})'
                 PROVE  LET w == WaitsAt(pc'[pxCurrentTCB'].act)
                        IN  Available'[w] <= lock'[w] \/ uxCurrentNumberOfTasks' <= lock'[w]
      BY DEF Looked
    <3>1. s \in Side
      BY DEF WaitsAt, Side
    <3>2. /\ UNCHANGED <<uxCurrentNumberOfTasks, pc, pxCurrentTCB, xSchedulerRunning>>
          /\ l \in Nat \cup {queueUNLOCKED} /\ m \in Nat \cup {queueUNLOCKED}
          /\ N \in Nat /\ A \in Nat /\ B \in Nat
          /\ \/ B <= A /\ m = l
             \/ B <= A + 1 /\ l # queueUNLOCKED /\ m = l + 1
             \/ N <= l /\ m = l
      BY <1>9, <2>3, <3>1, InterruptCounts
    <3>3. In({"inherit", "place"})
      BY <3>2 DEF In
    <3>4. A <= l \/ N <= l
      BY <3>3 DEF Looked
    <3>5. l # queueUNLOCKED
      BY <3>1, <3>3 DEF QueueInv, HoldsLock, In
    <3>6. WaitsAt(pc'[pxCurrentTCB'].act) = s /\ N' = N
      BY <3>2
    <3> HIDE DEF s, N, A, B, l, m
    <3>7. B <= m \/ N <= m
      BY <3>2, <3>4, <3>5
    <3> QED
      BY <3>6, <3>7 DEF N, B, m
  <2> QED
    BY <2>2, <2>3
<1>10. ASSUME SchedulerSteps PROVE Looked'
  <2> SUFFICES ASSUME In({"inherit", "place"})' PROVE Looked'
    BY DEF Looked
  <2>1. {"inherit", "place"} \in SUBSET (CallOps \cap Urgent)
    BY DEF CallOps, Urgent, AboutToSleep, Unlocks
  <2>2. UNCHANGED pxCurrentTCB /\ In({"inherit", "place"}) /\ pc'[pxCurrentTCB'] = pc[pxCurrentTCB]
    BY <1>10, <2>1, OneUrgent DEF QueueInv, SchedulerSteps
  <2>3. lock["send"] # queueUNLOCKED
    BY <1>1, <2>2 DEF QueueInv, HoldsLock, In
  <2>4. uxSchedulerSuspended # 0 /\ In(CallOps)
    <3>1. uxSchedulerSuspended > 0
      BY <1>1, <2>3 DEF QueueInv, LockedByRunner
    <3> QED
      BY <2>1, <2>2, <3>1 DEF QueueInv, IInv, Typed, In
  <2>5. UNCHANGED <<uxCurrentNumberOfTasks, lock, uxMessagesWaiting>>
    BY <1>10, <2>4, HeldInCall DEF QueueInv, SchedulerSteps, lifeVars
  <2> QED
    BY <2>2, <2>5 DEF Looked, Available
<1> QED
  BY <1>3, <1>5, <1>6, <1>7, <1>8, <1>9, <1>10 DEF QueueNext, QueueSteps

-----------------------------------------------------------------------------
(* Who waits is owed no more than is counted.                              *)

(* The first waiters of a side are woken: that they are in served makes up *)
(* for what came in or for what the unlock takes out of the count.         *)
LEMMA PopOwed ==
    ASSUME QueueInv, QueueInv', ServedTry, NEW s \in Side, OwedAt(s), UNCHANGED uxCurrentNumberOfTasks,
           NEW side \in Side, NEW n \in Nat \cup {queueUNLOCKED}, NEW tries, Pop(side, n, tries),
           tries \cap Waiting = {},
           lock'[s] = lock[s] \/ (s = side /\ n = lock[s]),
           LET k == IF s = side /\ n # queueUNLOCKED THEN n ELSE 0
               l == IF lock[s] = queueUNLOCKED THEN 0 ELSE lock[s]
               m == IF lock'[s] = queueUNLOCKED THEN 0 ELSE lock'[s]
           IN  \/ Available'[s] = 0
               \/ Available'[s] + Cardinality(served[s] \cap tries) + l <= Available[s] + k + m
    PROVE  OwedAt(s)'
<1> SUFFICES ASSUME waiting'[s] # <<>> PROVE Counted(s)' \/ uxCurrentNumberOfTasks' <= lock'[s]
  BY DEF OwedAt
<1> DEFINE F == FirstWaiters(side, n)
           S == IF s = side THEN F ELSE {}
           k == IF s = side /\ n # queueUNLOCKED THEN n ELSE 0
           l == IF lock[s] = queueUNLOCKED THEN 0 ELSE lock[s]
           m == IF lock'[s] = queueUNLOCKED THEN 0 ELSE lock'[s]
           N == uxCurrentNumberOfTasks
           A == Available[s]
           B == Available'[s]
           C == Cardinality(served[s])
           D == Cardinality(served'[s])
           c == Cardinality(served[s] \cap tries)
<1>1. /\ waiting \in [Side -> Seq(Task)] /\ n \in Int /\ served[s] \in SUBSET Task
  BY DEF QueueInv, QueueTyped, queueUNLOCKED
<1>2. /\ F \subseteq Waiting /\ F \subseteq Task /\ Departs(F)
      /\ served'[s] = (served[s] \cup S) \ tries
  <2>1. F \subseteq Waiting /\ F \subseteq Live /\ Departs(F)
    BY <1>1, PopTyped
  <2>2. served'[s] = (served[s] \cup S) \ tries
    BY DEF Pop
  <2> HIDE DEF F
  <2> QED
    BY <2>1, <2>2 DEF Live
<1>3. waiting[s] # <<>> /\ ~(ToSet(waiting[s]) \subseteq F)
  BY <1>2, StillWait
<1>4. /\ S \in SUBSET Task /\ S \cap served[s] = {} /\ S \cap tries = {}
  <2> HIDE DEF F
  <2> QED
    BY <1>2 DEF ServedTry
<1>5. /\ Cardinality(S) = k /\ k \in Nat
      /\ s = side /\ n # queueUNLOCKED => /\ n \in Nat /\ Len(waiting[s]) \in Nat /\ n < Len(waiting[s])
                                          /\ Len(waiting[s]) <= N
  <2>1. CASE s # side
    BY <2>1, FS_EmptySet
  <2>2. CASE s = side /\ n = queueUNLOCKED
    <3>1. F = {}
      BY <1>1, <2>2, FirstWait DEF queueUNLOCKED
    <3> QED
      BY <2>2, <3>1, FS_EmptySet
  <2>3. CASE s = side /\ n # queueUNLOCKED
    <3>1. n \in Nat
      BY <2>3
    <3>2. /\ Cardinality(F) = IF n <= Len(waiting[s]) THEN n ELSE Len(waiting[s])
          /\ Len(waiting[s]) <= n => F = ToSet(waiting[s])
          /\ Len(waiting[s]) \in Nat /\ Len(waiting[s]) <= N
      BY <2>3, <3>1, FirstCount
    <3>3. ~(Len(waiting[s]) <= n)
      BY <1>3, <3>2
    <3>4. n < Len(waiting[s]) /\ n <= Len(waiting[s])
      <4> DEFINE len == Len(waiting[s])
      <4>1. len \in Nat
        BY <3>2
      <4> HIDE DEF len
      <4>2. ~(len <= n) => n < len /\ n <= len
        BY <3>1, <4>1
      <4> QED
        BY <3>3, <4>2 DEF len
    <3> HIDE DEF F, N
    <3> QED
      BY <2>3, <3>1, <3>2, <3>4
  <2> QED
    BY <2>1, <2>2, <2>3
<1> HIDE DEF S
<1>6. C = c + Cardinality(served[s] \ tries) /\ c \in Nat /\ Cardinality(served[s] \ tries) \in Nat
  <2>1. /\ served[s] \cap tries \in SUBSET Task /\ served[s] \ tries \in SUBSET Task
        /\ (served[s] \cap tries) \cap (served[s] \ tries) = {}
        /\ (served[s] \cap tries) \cup (served[s] \ tries) = served[s]
    BY <1>1
  <2> QED
    BY <2>1, MoreTasks
<1>7. D = Cardinality(served[s] \ tries) + k
  <2>1. /\ served[s] \ tries \in SUBSET Task /\ (served[s] \ tries) \cap S = {}
        /\ served'[s] = (served[s] \ tries) \cup S
    BY <1>1, <1>2, <1>4
  <2> QED
    BY <1>4, <1>5, <2>1, MoreTasks
<1>8. /\ A \in Nat /\ N \in Nat /\ lock[s] \in Nat \cup {queueUNLOCKED} /\ l \in Nat
      /\ Counted(s) <=> A <= C + l
  BY Counting DEF Sums
<1>9. /\ B \in Nat /\ lock'[s] \in Nat \cup {queueUNLOCKED} /\ m \in Nat
      /\ Counted(s)' <=> B <= D + m
  BY Counting2 DEF Sums
<1>10. B = 0 \/ B + c + l <= A + k + m
  OBVIOUS
<1>11. Counted(s) \/ N <= lock[s]
  BY <1>3 DEF OwedAt
<1>12. CASE Counted(s)
  <2>1. A <= C + l
    BY <1>8, <1>12
  <2> DEFINE r == Cardinality(served[s] \ tries)
  <2>2. C = c + r /\ D = r + k /\ c \in Nat /\ r \in Nat /\ k \in Nat
    BY <1>5, <1>6, <1>7
  <2>3. A \in Nat /\ B \in Nat /\ l \in Nat /\ m \in Nat
    BY <1>8, <1>9
  <2> HIDE DEF A, B, C, D, k, l, m, c, r
  <2>4. B <= D + m
    BY <1>10, <2>1, <2>2, <2>3
  <2> QED
    BY <1>9, <2>4
<1>13. CASE N <= lock[s]
  <2>1. lock[s] \in Nat
    <3>1. ~(N <= queueUNLOCKED)
      BY <1>8 DEF queueUNLOCKED
    <3> QED
      BY <1>8, <1>13, <3>1
  <2>2. CASE lock'[s] = lock[s]
    BY <1>13, <2>2
  <2>3. CASE s = side /\ n = lock[s]
    <3>1. n # queueUNLOCKED
      BY <2>1, <2>3 DEF queueUNLOCKED
    <3> DEFINE len == Len(waiting[s])
    <3>2. n \in Nat /\ len \in Nat /\ n < len /\ len <= N /\ N <= n
      BY <1>5, <1>13, <2>3, <3>1
    <3> HIDE DEF len, N
    <3> QED
      BY <1>8, <3>2
  <2> QED
    BY <2>2, <2>3
<1> QED
  BY <1>11, <1>12, <1>13

(* The running task does what it came for: if it was woken for that, it    *)
(* takes what it was owed.                                                 *)
LEMMA PerformOwes ==
    ASSUME QueueInv, QueueInv', ServedTry, xSchedulerRunning, pxCurrentTCB \in Ready,
           NEW act \in {"send", "overwrite", "receive", "peek"}, Perform(act),
           \/ pc[pxCurrentTCB] = App
           \/ At("retry") /\ pc[pxCurrentTCB].act = act /\ act # "overwrite",
           NEW s \in Side, OwedAt(s)
    PROVE  OwedAt(s)'
<1> DEFINE me == pxCurrentTCB
           side == Wakes(act)
           c == Cardinality(served[s] \cap {me})
<1>1. Pop(side, 1, {me}) /\ UNCHANGED <<lock, uxCurrentNumberOfTasks>> /\ uxMessagesWaiting' = Count(act) /\ Possible(act)
  BY DEF Perform, WakeFirst, Unconcerned, lifeVars
<1>2. side \in Side /\ 1 # queueUNLOCKED
  BY DEF Wakes, Side, queueUNLOCKED
<1>3. {me} \cap Waiting = {}
  BY WaitersAreNotReady
<1>4. /\ lock[s] = queueUNLOCKED /\ lock'[s] = queueUNLOCKED
  <2>1. pc[me].op \in {"app", "retry"}
    BY DEF App, At
  <2> QED
    BY <1>1, <2>1, InAppUnlocked
<1>5. /\ Available[s] \in Nat /\ Available'[s] \in Nat
      /\ Available'[s] <= Available[s] + (IF s = side THEN 1 ELSE 0)
      /\ act # "overwrite" /\ s = WaitsAt(act) =>
            Available'[s] + 1 <= Available[s] + (IF s = side THEN 1 ELSE 0)
  BY <1>1, AvailableMoves
<1>6. c \in {0, 1} /\ (c # 0 => me \in served[s])
  <2>1. CASE me \in served[s]
    <3>1. served[s] \cap {me} = {me}
      BY <2>1
    <3> QED
      BY <2>1, <3>1, FS_Singleton
  <2>2. CASE me \notin served[s]
    <3>1. served[s] \cap {me} = {}
      BY <2>2
    <3> QED
      BY <3>1, FS_EmptySet
  <2> QED
    BY <2>1, <2>2
<1>7. c # 0 => act # "overwrite" /\ s = WaitsAt(act)
  <2> SUFFICES ASSUME me \in served[s] PROVE act # "overwrite" /\ s = WaitsAt(act)
    BY <1>6
  <2>1. Onward(pc[me]) \in Entered(s)
    BY DEF ServedTry
  <2>2. pc[me] # App
    BY <2>1 DEF App, Onward, Entered, Unlocks
  <2>3. At("retry") /\ pc[me].act = act /\ act # "overwrite"
    BY <2>2
  <2>4. Onward(pc[me]) = pc[me]
    BY <2>3 DEF At, Onward
  <2> QED
    BY <2>1, <2>3, <2>4 DEF Entered
<1>8. Available'[s] + c + 0 <= Available[s] + (IF s = side THEN 1 ELSE 0) + 0
  <2> DEFINE A == Available[s]
             B == Available'[s]
             k == IF s = side THEN 1 ELSE 0
  <2>1. A \in Nat /\ B \in Nat /\ k \in Nat /\ B <= A + k /\ (c # 0 => B + 1 <= A + k) /\ c \in {0, 1}
    BY <1>5, <1>6, <1>7
  <2> HIDE DEF A, B, k, c
  <2>2. B + c + 0 <= A + k + 0
    BY <2>1
  <2> QED
    BY <2>2 DEF A, B, k
<1> HIDE DEF side, me, c
<1> QED
  BY <1>1, <1>2, <1>3, <1>4, <1>8, PopOwed DEF c

LEMMA RetryOwes ==
    ASSUME QueueInv, QueueInv', ServedTry, RetryMustWait \/ RetryFails, NEW s \in Side, OwedAt(s)
    PROVE  OwedAt(s)'
<1> DEFINE me == pxCurrentTCB
           a == pc[me].act
           c == Cardinality(served[s] \cap {me})
<1>1. /\ xSchedulerRunning /\ me \in Ready /\ a \in Acts /\ pc[me].op = "retry"
      /\ \A side \in Side : lock[side] = queueUNLOCKED
  BY VainTry, TriesWhenReady
<1>2. /\ Pop("send", 0, {me}) /\ ~Possible(a)
      /\ UNCHANGED <<lock, uxMessagesWaiting, uxCurrentNumberOfTasks>>
  BY VainTry DEF Unconcerned, lifeVars
<1>3. {me} \cap Waiting = {} /\ "send" \in Side /\ 0 # queueUNLOCKED
  BY <1>1, WaitersAreNotReady DEF Side, queueUNLOCKED
<1>4. Available'[s] = Available[s] /\ Available[s] \in Nat
  BY <1>2, Counting DEF Available, Sums
<1>5. Available'[s] = 0 \/ c = 0
  <2>1. CASE s = WaitsAt(a)
    BY <1>1, <1>2, <1>4, <2>1, NoneAvailable
  <2>2. CASE s # WaitsAt(a)
    <3>1. Onward(pc[me]) = pc[me]
      BY <1>1 DEF Onward
    <3>2. me \notin served[s]
      BY <2>2, <3>1 DEF ServedTry, Entered
    <3>3. served[s] \cap {me} = {}
      BY <3>2
    <3> QED
      BY <3>3, FS_EmptySet
  <2> QED
    BY <2>1, <2>2
<1>6. /\ lock[s] = queueUNLOCKED /\ lock'[s] = queueUNLOCKED
      /\ (IF s = "send" /\ 0 # queueUNLOCKED THEN 0 ELSE 0) = 0
      /\ Available'[s] = 0 \/ Available'[s] + c + 0 <= Available[s] + 0 + 0
  BY <1>1, <1>2, <1>4, <1>5
<1> HIDE DEF me, c
<1> QED
  BY <1>2, <1>3, <1>6, PopOwed DEF c

LEMMA UnlockOwes ==
    ASSUME QueueInv, QueueInv', ServedTry, NEW side \in Side, Wake(side), NEW s \in Side, OwedAt(s)
    PROVE  OwedAt(s)'
<1> DEFINE n == lock[side]
           k == IF s = side /\ n # queueUNLOCKED THEN n ELSE 0
           l == IF lock[s] = queueUNLOCKED THEN 0 ELSE lock[s]
           m == IF lock'[s] = queueUNLOCKED THEN 0 ELSE lock'[s]
           c == Cardinality(served[s] \cap {})
<1>1. /\ Pop(side, n, {}) /\ lock' = [lock EXCEPT ![side] = queueUNLOCKED]
      /\ UNCHANGED <<uxMessagesWaiting, uxCurrentNumberOfTasks>>
      /\ lock \in [Side -> Nat \cup {queueUNLOCKED}]
  BY DEF Wake, Unlocked, Unconcerned, lifeVars, QueueInv, QueueTyped
<1>2. Available'[s] = Available[s] /\ Available[s] \in Nat
  BY <1>1, Counting DEF Available, Sums
<1>3. c = 0
  <2>1. served[s] \cap {} = {}
    OBVIOUS
  <2> QED
    BY <2>1, FS_EmptySet
<1>4. /\ lock'[s] = lock[s] \/ (s = side /\ n = lock[s])
      /\ l = k + m /\ l \in Nat /\ k \in Nat /\ m \in Nat
  <2>1. CASE s = side
    BY <1>1, <2>1
  <2>2. CASE s # side
    BY <1>1, <2>2
  <2> QED
    BY <2>1, <2>2
<1>5. n \in Nat \cup {queueUNLOCKED} /\ {} \cap Waiting = {}
  BY <1>1
<1> DEFINE A == Available[s]
           B == Available'[s]
<1>6. B + c + l <= A + k + m
  <2>1. A \in Nat /\ B = A
    BY <1>2
  <2> HIDE DEF A, B, c, k, l, m
  <2> QED
    BY <1>3, <1>4, <2>1
<1> HIDE DEF c
<1>7. Available'[s] + c + l <= Available[s] + k + m
  BY <1>6
<1> QED
  BY <1>1, <1>4, <1>5, <1>7, PopOwed DEF c

(* An interrupt wakes the first waiter, or counts it if the queue is       *)
(* locked.                                                                 *)
LEMMA InterruptOwes ==
    ASSUME QueueInv, QueueInv', ServedTry, NEW act \in {"send", "receive"}, FromISR(act), NEW s \in Side, OwedAt(s)
    PROVE  OwedAt(s)'
<1> DEFINE side == Wakes(act)
           A == Available[s]
           B == Available'[s]
<1>1. side \in Side /\ 1 # queueUNLOCKED
  BY DEF Wakes, Side, queueUNLOCKED
<1>2. CASE lock[side] = queueUNLOCKED
  <2> DEFINE c == Cardinality(served[s] \cap {})
             k == IF s = side /\ 1 # queueUNLOCKED THEN 1 ELSE 0
             l == IF lock[s] = queueUNLOCKED THEN 0 ELSE lock[s]
             m == IF lock'[s] = queueUNLOCKED THEN 0 ELSE lock'[s]
  <2>1. Pop(side, 1, {}) /\ UNCHANGED <<lock, uxCurrentNumberOfTasks>>
    BY <1>2 DEF FromISR, WakeFirst, Unconcerned, lifeVars
  <2>2. A \in Nat /\ B \in Nat /\ B <= A + k
    BY <1>1, AvailableMoves DEF FromISR
  <2>3. c = 0
    <3>1. served[s] \cap {} = {}
      OBVIOUS
    <3> QED
      BY <3>1, FS_EmptySet
  <2>4. lock'[s] = lock[s] /\ m = l /\ l \in Nat /\ k \in Nat /\ {} \cap Waiting = {}
    BY <2>1 DEF QueueInv, QueueTyped
  <2>5. B + c + l <= A + k + m
    <3> HIDE DEF A, B, c, k, l, m
    <3> QED
      BY <2>2, <2>3, <2>4
  <2> HIDE DEF c, side
  <2>6. Available'[s] + c + l <= Available[s] + k + m
    BY <2>5
  <2> QED
    BY <1>1, <2>1, <2>4, <2>6, PopOwed DEF c
<1>3. CASE lock[side] # queueUNLOCKED
  <2> SUFFICES ASSUME waiting'[s] # <<>> PROVE Counted(s)' \/ uxCurrentNumberOfTasks' <= lock'[s]
    BY DEF OwedAt
  <2> DEFINE N == uxCurrentNumberOfTasks
             C == Cardinality(served[s])
             l == lock[s]
             m == lock'[s]
  <2>1. /\ UNCHANGED <<waiting, served>> /\ N' = N
        /\ (l = queueUNLOCKED <=> m = queueUNLOCKED)
        /\ l \in Nat \cup {queueUNLOCKED} /\ m \in Nat \cup {queueUNLOCKED}
        /\ N \in Nat /\ A \in Nat /\ B \in Nat
        /\ \/ B <= A /\ m = l
           \/ B <= A + 1 /\ l # queueUNLOCKED /\ m = l + 1
           \/ N <= l /\ m = l
    BY <1>3, InterruptCounts
  <2>2. Counted(s) \/ N <= l
    BY <2>1 DEF OwedAt
  <2>3. C \in Nat /\ (Counted(s) <=> A <= C + (IF l = queueUNLOCKED THEN 0 ELSE l))
    BY Counting DEF Sums
  <2>4. Counted(s)' <=> B <= C + (IF m = queueUNLOCKED THEN 0 ELSE m)
    BY <2>1, Counting2 DEF Sums
  <2>5. l # queueUNLOCKED => l \in Nat
    BY <2>1
  <2> HIDE DEF N, A, B, C, l, m
  <2>6. CASE Counted(s)
    <3>1. A <= C + (IF l = queueUNLOCKED THEN 0 ELSE l)
      BY <2>3, <2>6
    <3>2. B <= C + (IF m = queueUNLOCKED THEN 0 ELSE m) \/ N <= m
      BY <2>1, <2>3, <2>5, <3>1
    <3> QED
      BY <2>1, <2>4, <3>2 DEF N, m
  <2>7. CASE N <= l
    <3>1. l \in Nat
      BY <2>1, <2>7 DEF queueUNLOCKED
    <3>2. N <= m
      BY <2>1, <2>7, <3>1
    <3> QED
      BY <2>1, <3>2 DEF N, m
  <2> QED
    BY <2>2, <2>6, <2>7
<1> QED
  BY <1>2, <1>3

(* A reset frees every place and wakes one sender: enough if the queue has *)
(* one place.                                                              *)
LEMMA ResetOwes ==
    ASSUME QueueInv, QueueInv', ServedTry, Resets = {} \/ uxLength = 1, xQueueGenericReset, NEW s \in Side, OwedAt(s)
    PROVE  OwedAt(s)'
<1> DEFINE A == Available[s]
           B == Available'[s]
           c == Cardinality(served[s] \cap {})
           k == IF s = "send" /\ 1 # queueUNLOCKED THEN 1 ELSE 0
<1>1. uxLength = 1 /\ xSchedulerRunning /\ pc[pxCurrentTCB].op = "app"
  BY DEF xQueueGenericReset, Calling, At
<1>2. /\ Pop("send", 1, {}) /\ uxMessagesWaiting' = 0 /\ UNCHANGED uxCurrentNumberOfTasks
      /\ lock' = [side \in Side |-> queueUNLOCKED]
  BY DEF xQueueGenericReset, WakeFirst, Unconcerned, lifeVars
<1>3. lock[s] = queueUNLOCKED /\ lock'[s] = queueUNLOCKED
  BY <1>1, <1>2, InAppUnlocked
<1>4. A \in Nat
  BY Counting DEF Sums
<1>5. B = k
  BY <1>1, <1>2 DEF Available, Side, queueUNLOCKED
<1>6. c = 0
  <2>1. served[s] \cap {} = {}
    OBVIOUS
  <2> QED
    BY <2>1, FS_EmptySet
<1>7. k \in Nat
  OBVIOUS
<1>8. B + c + 0 <= A + k + 0
  <2> HIDE DEF A, B, c, k
  <2> QED
    BY <1>4, <1>5, <1>6, <1>7
<1>9. "send" \in Side /\ 1 # queueUNLOCKED /\ {} \cap Waiting = {}
  BY DEF Side, queueUNLOCKED
<1> HIDE DEF c
<1>10. Available'[s] + c + 0 <= Available[s] + k + 0
  BY <1>8
<1> QED
  BY <1>2, <1>3, <1>9, <1>10, PopOwed DEF c

LEMMA PlacesOwes ==
    ASSUME QueueInv, QueueInv', Looked, vTaskPlaceOnEventList, NEW s \in Side, OwedAt(s)
    PROVE  OwedAt(s)'
<1> DEFINE a == pc[pxCurrentTCB].act
<1>1. /\ waiting' = [waiting EXCEPT ![WaitsAt(a)] = vListInsert(@, pxCurrentTCB)]
      /\ UNCHANGED <<uxMessagesWaiting, lock, served, uxCurrentNumberOfTasks>>
      /\ In({"inherit", "place"})
  BY DEF vTaskPlaceOnEventList, Call, Unconcerned, lifeVars, In, At
<1>2. CASE s # WaitsAt(a)
  <2>1. waiting'[s] = waiting[s] /\ served'[s] = served[s] /\ lock'[s] = lock[s]
    BY <1>1, <1>2 DEF QueueInv, QueueTyped
  <2> QED
    BY <1>1, <2>1, OwedStands
<1>3. CASE s = WaitsAt(a)
  <2> DEFINE A == Available[s]
             l == lock[s]
             C == Cardinality(served[s])
             N == uxCurrentNumberOfTasks
  <2>1. A <= l \/ N <= l
    BY <1>1, <1>3 DEF Looked
  <2>2. A \in Nat /\ C \in Nat /\ l \in Nat \cup {queueUNLOCKED} /\ l # queueUNLOCKED
    BY <1>1, Counting DEF Sums, QueueInv, HoldsLock, In
  <2>3. Counted(s)' <=> A <= C + (IF l = queueUNLOCKED THEN 0 ELSE l)
    <3>1. Available'[s] = A
      BY <1>1 DEF Available
    <3> QED
      BY <1>1, <3>1, Counting2 DEF Sums
  <2>4. N' = N /\ lock'[s] = l
    BY <1>1
  <2> HIDE DEF A, l, C, N
  <2>5. Counted(s)' \/ N' <= lock'[s]
    BY <2>1, <2>2, <2>3, <2>4
  <2> QED
    BY <2>5 DEF OwedAt, N
<1> QED
  BY <1>2, <1>3

LEMMA OwedKeeps ==
    ASSUME QueueInv, QueueInv', ServedTry, Looked, Resets = {} \/ uxLength = 1, QueueNext, NEW s \in Side, OwedAt(s)
    PROVE  OwedAt(s)'
<1> DEFINE me == pxCurrentTCB
<1>1. ASSUME CallSucceeds PROVE OwedAt(s)'
  <2>1. xSchedulerRunning /\ me \in Ready /\ pc[me] = App
    BY <1>1, InApp DEF CallSucceeds, Calling, QueueInv
  <2> QED
    BY <1>1, <2>1, PerformOwes DEF CallSucceeds
<1>2. ASSUME RetrySucceeds PROVE OwedAt(s)'
  <2>1. xSchedulerRunning /\ me \in Ready /\ pc[me].act \in {"send", "receive", "peek"} /\ At("retry")
    BY <1>2, TriesWhenReady DEF RetrySucceeds, Acts
  <2>2. PICK act \in {"send", "overwrite", "receive", "peek"} : act = pc[me].act /\ act # "overwrite"
    BY <2>1
  <2> QED
    BY <1>2, <2>1, <2>2, PerformOwes DEF RetrySucceeds, Call
<1>3. ASSUME UNCHANGED <<uxMessagesWaiting, waiting, served, uxCurrentNumberOfTasks>>, UNCHANGED lock \/ prvLockQueue
      PROVE  OwedAt(s)'
  <2>1. lock[s] = queueUNLOCKED \/ lock'[s] = lock[s]
    BY <1>3 DEF prvLockQueue
  <2> QED
    BY <1>3, <2>1, OwedStands
<1>4. ASSUME CallMustWait \/ SuspendsAll \/ Locks \/ Tests("place") \/ Rechecks(App) PROVE OwedAt(s)'
  BY <1>3, <1>4 DEF CallMustWait, SuspendsAll, Locks, Tests, Rechecks, Stay, Unconcerned, lifeVars
<1>5. ASSUME UnlocksReceivers \/ UnlocksSenders PROVE OwedAt(s)'
  BY <1>5, UnlockOwes DEF UnlocksReceivers, UnlocksSenders, Side
<1>6. ASSUME SchedulerSteps PROVE OwedAt(s)'
  <2>1. UNCHANGED <<uxMessagesWaiting, lock, served>> /\ IInv /\ Next
    BY <1>6 DEF SchedulerSteps, QueueInv
  <2>2. waiting'[s] # <<>> => waiting[s] # <<>>
    BY <1>6, SchedulerSleepers, StillWait
  <2>3. lock[s] # queueUNLOCKED => UNCHANGED uxCurrentNumberOfTasks
    <3> SUFFICES ASSUME lock[s] # queueUNLOCKED PROVE UNCHANGED uxCurrentNumberOfTasks
      OBVIOUS
    <3>1. uxSchedulerSuspended # 0 /\ pc[me].op \in {"test", "inherit", "place", "unlock", "unlocked"}
      BY DEF QueueInv, LockedByRunner, IInv, Typed
    <3>2. In(CallOps)
      BY <3>1 DEF In, CallOps, QueueInv, IInv, Alive, NotStarted
    <3> QED
      BY <2>1, <3>1, <3>2, HeldInCall DEF lifeVars
  <2> QED
    BY <2>1, <2>2, <2>3, OwedStands
<1> QED
  BY <1>1, <1>2, <1>4, <1>5, <1>6, RetryOwes, InterruptOwes, ResetOwes, PlacesOwes DEF QueueNext, QueueSteps

-----------------------------------------------------------------------------
(* Every behaviour of QueueSpec.                                           *)

LEMMA WakeInit == QueueInit => WakeInv
<1> SUFFICES ASSUME QueueInit PROVE WakeInv
  OBVIOUS
<1>1. QueueInv
  BY QueueInitHolds
<1>2. /\ served = [s \in Side |-> {}] /\ waiting = [s \in Side |-> <<>>] /\ ~xSchedulerRunning
      /\ pc = [t \in Task |-> App] /\ memory = [t \in Task |-> "free"] /\ xTasksWaitingTermination = {}
  BY DEF QueueInit, Init
<1>3. Onward(App).op \notin HasTime
  BY DEF Onward, App, HasTime
<1>4. Immortal /\ Callers
  BY <1>2, <1>3 DEF Immortal, Callers
<1>5. ServedTry /\ Looked /\ \A s \in Side : OwedAt(s)
  BY <1>2 DEF ServedTry, Looked, OwedAt, In
<1> QED
  BY <1>1, <1>4, <1>5 DEF WakeInv

LEMMA WakeStutter == WakeInv /\ UNCHANGED queueAll => WakeInv'
<1> SUFFICES ASSUME WakeInv, UNCHANGED queueAll PROVE WakeInv'
  OBVIOUS
<1>1. UNCHANGED vars /\ UNCHANGED <<uxMessagesWaiting, waiting, lock, served>>
  BY DEF queueAll, queueVars
<1>2. UNCHANGED <<xSchedulerRunning, pc, pxCurrentTCB, memory, xTasksWaitingTermination, uxCurrentNumberOfTasks>>
  BY <1>1 DEF vars, lifeVars, switchVars
<1>3. QueueInv'
  BY QueueStutter DEF WakeInv
<1>4. Immortal' /\ Callers' /\ Looked'
  BY <1>1, <1>2 DEF WakeInv, Immortal, Callers, Looked, In, Available
<1>5. ServedTry' /\ \A s \in Side : OwedAt(s)'
  BY <1>1, <1>2 DEF WakeInv, ServedTry, OwedAt, Counted, Available, Waiting
<1> QED
  BY <1>3, <1>4, <1>5 DEF WakeInv

LEMMA WakeStep ==
    ASSUME Immune, Resets = {} \/ uxLength = 1
    PROVE  WakeInv /\ [QueueNext]_queueAll => WakeInv'
<1> SUFFICES ASSUME WakeInv, [QueueNext]_queueAll PROVE WakeInv'
  OBVIOUS
<1>1. CASE UNCHANGED queueAll
  BY <1>1, WakeStutter
<1>2. CASE QueueNext
  <2>1. QueueInv /\ Immortal /\ Callers /\ ServedTry /\ Looked /\ \A s \in Side : OwedAt(s)
    BY DEF WakeInv
  <2>2. QueueInv'
    BY <2>1, QueueStepKeeps
  <2>3. Immortal' /\ Callers' /\ ServedTry'
    BY <1>2, <2>1, QueueCallers, SchedulerCallers, QueueTries, SchedulerTry DEF QueueNext
  <2>4. Looked'
    BY <1>2, <2>1, <2>2, LookedKeeps
  <2>5. \A s \in Side : OwedAt(s)'
    BY <1>2, <2>1, <2>2, OwedKeeps
  <2> QED
    BY <2>2, <2>3, <2>4, <2>5 DEF WakeInv
<1> QED
  BY <1>1, <1>2

(* No wake-up is lost between the calls, the interrupts and the unlock     *)
(* (xQueueGenericSend, xQueueGenericSendFromISR, prvUnlockQueue), for      *)
(* every length of the queue and any number of tasks, if the tasks that    *)
(* wait are not deleted, and a queue that is reset has one place.          *)
THEOREM WakeUpsAreNotLost ==
    ASSUME Immune, Resets = {} \/ uxLength = 1
    PROVE  QueueSpec => []NoWakeUpLost
<1>1. QueueInit => WakeInv
  BY WakeInit
<1>2. WakeInv /\ [QueueNext]_queueAll => WakeInv'
  BY WakeStep
<1>3. WakeInv => NoWakeUpLost
  <2> SUFFICES ASSUME WakeInv, NEW s \in Side, waiting[s] # <<>>
               PROVE  \/ Available[s] <= Cardinality(served[s]) + Max({lock[s], 0})
                      \/ Len(waiting[s]) <= lock[s]
    BY DEF NoWakeUpLost
  <2>1. Counted(s) \/ uxCurrentNumberOfTasks <= lock[s]
    BY DEF WakeInv, OwedAt
  <2>2. QueueInv /\ lock[s] \in Nat \cup {queueUNLOCKED} /\ 0 \in Nat
    BY DEF WakeInv, QueueInv, QueueTyped
  <2>3. Len(waiting[s]) \in Nat /\ Len(waiting[s]) <= uxCurrentNumberOfTasks /\ uxCurrentNumberOfTasks \in Nat
    BY <2>2, FirstCount, Counting DEF Sums
  <2> DEFINE len == Len(waiting[s])
             N == uxCurrentNumberOfTasks
             l == lock[s]
  <2>4. len \in Nat /\ len <= N /\ N \in Nat /\ (l \in Nat \/ l = -1)
    BY <2>2, <2>3 DEF queueUNLOCKED
  <2> HIDE DEF len, N, l
  <2>5. N <= l => len <= l
    BY <2>4
  <2> QED
    BY <2>1, <2>5 DEF Counted, len, N, l
<1> QED
  BY <1>1, <1>2, <1>3, PTL DEF QueueSpec
=============================================================================
