----------------------- MODULE InterruptEndpointProofs -----------------------
(***************************************************************************)
(* The ring of a watched interrupt endpoint is a queue that stays in its   *)
(* buffer, for any number of QTDs, any page size and any number of         *)
(* packets.                                                                *)
(***************************************************************************)
EXTENDS InterruptEndpoint, Integers, TLAPS

\* Every leaf goes to Zenon unless it names another prover.
USE ZenonT(30)

Setup == {"watch", "request", "qtds", "unhalt"}
Watching == {"peek", "wait", "asleep", "have"}

\* The variables have their types, and the index counts the packets consumed.
InterruptTypeOK ==
  /\ n \in Nat \ {0} /\ base \in 0..(Page - 1)
  /\ step \in Setup \cup Watching /\ written \in 0..n
  /\ linked \in BOOLEAN /\ listed \in BOOLEAN /\ halted \in BOOLEAN
  /\ qtd \in [Ring -> [active : BOOLEAN, page : Nat, offset : Nat, packet : Nat]]
  /\ consumed \in Nat /\ sent \in Nat /\ completed_packets \in {0, 1}
  /\ Idx \in Ring /\ Idx = consumed % n /\ hc \in Ring
  /\ DOMAIN mem = Memory

\* Until watch has written and linked the ring, the controller cannot use it.
SetupInv ==
  /\ step \in {"watch", "request"} => ~listed
  /\ linked <=> step \in {"unhalt"} \cup Watching
  /\ linked => written = n
  /\ step \in {"request", "qtds", "unhalt"} => halted
  /\ step \in Setup =>
       /\ sent = 0 /\ consumed = 0 /\ hc = 0 /\ completed_packets = 0
       /\ \A i \in Ring : i < written => qtd[i].active
  /\ step = "have" => completed_packets = 1

\* In a buffer within a page every QTD points into the buffer, and once it was
\* given back, to its own place there.
BufferInv ==
  base + n <= Page =>
    /\ \A i \in Ring : i < written =>
         /\ qtd[i].page = 0 /\ qtd[i].offset \in base..(base + n - 1)
         /\ i < consumed => qtd[i].offset = base + i
    /\ \A a \in Memory : mem[a] # 0 => a \in base..(base + n - 1)

\* A packet that peek has counted was sent.
CountedInv == NoneFailed /\ completed_packets = 1 => consumed < sent

\* From the second round on the unread packets are in their places.
PlacesInv ==
  NoneFailed /\ base + n <= Page =>
    \A k \in (consumed + 1)..sent : k > n \/ n = 1 => mem[base + ((k - 1) % n)] = k

InterruptInv ==
  /\ InterruptTypeOK /\ SetupInv /\ BufferInv
  /\ RingHoldsUnread /\ CountedInv /\ PlacesInv /\ PresentsThePacket

-----------------------------------------------------------------------------
\* Counting modulo the number of QTDs.
LEMMA Remainder ==
  ASSUME NEW m \in Nat \ {0}, NEW a \in Nat
  PROVE  a % m \in 0..(m - 1) /\ a \div m \in Nat /\ a = (m * (a \div m)) + (a % m)
BY SMTT(20)

\* The remainder of a number given as multiple and rest.
LEMMA RemainderOf ==
  ASSUME NEW m \in Nat \ {0}, NEW q \in Nat, NEW r \in 0..(m - 1)
  PROVE  ((m * q) + r) % m = r
BY SMTT(20)

\* Below m there is nothing to take off.
LEMMA SmallRemainder ==
  ASSUME NEW m \in Nat \ {0}, NEW a \in Nat, a < m
  PROVE  a % m = a /\ a \div m = 0
BY SMTT(20)

\* Counting one further, with the wrap-around that NextIndex does.
LEMMA NextRemainder ==
  ASSUME NEW m \in Nat \ {0}, NEW a \in Nat
  PROVE  /\ (a + 1) % m = IF (a % m) + 1 = m THEN 0 ELSE (a % m) + 1
         /\ ((a % m) + 1) % m = (a + 1) % m
<1> DEFINE q == a \div m
           r == a % m
<1>1. q \in Nat /\ r \in 0..(m - 1) /\ a = (m * q) + r
  BY Remainder, ZenonT(30)
<1> HIDE DEF q, r
<1>2. CASE r + 1 = m
  <2>1. q + 1 \in Nat /\ 0 \in 0..(m - 1) /\ 1 \in Nat
    BY <1>1, SMTT(30)
  <2>2. a + 1 = (m * (q + 1)) + 0 /\ r + 1 = (m * 1) + 0
    BY <1>1, <1>2, SMTT(30)
  <2>3. ((m * (q + 1)) + 0) % m = 0 /\ ((m * 1) + 0) % m = 0
    BY <2>1, RemainderOf
  <2>4. (a + 1) % m = 0 /\ (r + 1) % m = 0
    BY <2>2, <2>3
  <2> QED
    BY <1>2, <2>4 DEF r
<1>3. CASE r + 1 # m
  <2>1. r + 1 \in 0..(m - 1)
    BY <1>1, <1>3, SMTT(30)
  <2>2. a + 1 = (m * q) + (r + 1)
    BY <1>1, SMTT(30)
  <2>3. ((m * q) + (r + 1)) % m = r + 1
    BY <1>1, <2>1, RemainderOf
  <2>4. (r + 1) % m = r + 1
    BY <2>1, SmallRemainder, SMTT(30)
  <2>5. (a + 1) % m = r + 1
    BY <2>2, <2>3
  <2> QED
    BY <1>3, <2>4, <2>5 DEF r
<1> QED
  BY <1>2, <1>3

\* A round further is the same place.
LEMMA RoundRemainder ==
  ASSUME NEW m \in Nat \ {0}, NEW a \in Nat
  PROVE  (a + m) % m = a % m
<1> DEFINE q == a \div m
           r == a % m
<1>1. q \in Nat /\ r \in 0..(m - 1) /\ a = (m * q) + r
  BY Remainder, ZenonT(30)
<1> HIDE DEF q, r
<1>2. a + m = (m * (q + 1)) + r /\ q + 1 \in Nat
  BY <1>1, SMTT(30)
<1>3. ((m * (q + 1)) + r) % m = r
  BY <1>1, <1>2, RemainderOf
<1>4. (a + m) % m = r
  BY <1>2, <1>3
<1> QED
  BY <1>4 DEF r

\* No multiple of m lies between 0 and m.
LEMMA NoMultipleBetween ==
  ASSUME NEW m \in Nat \ {0}, NEW d \in Int, 0 < m * d, m * d < m
  PROVE  FALSE
BY SMTT(20)

\* Less than a round apart are different places.
LEMMA WindowIsInjective ==
  ASSUME NEW m \in Nat \ {0}, NEW a \in Nat, NEW b \in Nat, a < b, b < a + m
  PROVE  a % m # b % m
<1> SUFFICES ASSUME a % m = b % m PROVE FALSE
  OBVIOUS
<1> DEFINE p == a \div m
           q == b \div m
           r == a % m
<1>1. p \in Nat /\ q \in Nat /\ r \in 0..(m - 1) /\ a = (m * p) + r /\ b = (m * q) + r
  BY Remainder, ZenonT(30)
<1> HIDE DEF p, q, r
<1>2. q - p \in Int /\ m * (q - p) = b - a
  BY <1>1, SMTT(30)
<1>3. 0 < m * (q - p) /\ m * (q - p) < m
  BY <1>2, SMTT(30)
<1> QED
  BY <1>2, <1>3, NoMultipleBetween

-----------------------------------------------------------------------------
\* Initially nothing is written, and the ring is empty.
LEMMA InterruptBegins == Init => InterruptInv
<1> SUFFICES ASSUME Init PROVE InterruptInv
  OBVIOUS
<1>1. n \in Nat \ {0} /\ base \in 0..(Page - 1) /\ 0 % n = 0
  BY InterruptAssumption, SmallRemainder, SMTT(30) DEF Init
<1>2a. qtd \in [Ring -> [active : BOOLEAN, page : Nat, offset : Nat, packet : Nat]]
  BY DEF Init
<1>2b. 0 \in Ring
  BY <1>1, SMTT(30) DEF Ring
<1>2c. DOMAIN mem = Memory
  BY DEF Init
<1>2d. linked \in BOOLEAN /\ listed \in BOOLEAN /\ halted \in BOOLEAN
  BY ZenonT(30) DEF Init
<1>2e. step = "watch" /\ written = 0 /\ consumed = 0 /\ sent = 0 /\ completed_packets = 0 /\ Idx = 0 /\ hc = 0
  BY DEF Init, Idx
<1>2f. 0 \in 0..n /\ 0 \in Nat
  BY <1>1, SMTT(30)
<1>2. InterruptTypeOK
  BY <1>1, <1>2a, <1>2b, <1>2c, <1>2d, <1>2e, <1>2f DEF InterruptTypeOK, Setup, Watching
<1>3. SetupInv /\ BufferInv
  BY <1>1, SMTT(30) DEF Init, SetupInv, BufferInv, Setup, Watching, Ring, Idx, Memory
<1> QED
  BY <1>2, <1>3 DEF Init, InterruptInv, RingHoldsUnread, CountedInv, PlacesInv, PresentsThePacket, NoneFailed

\* Before the driver peeks there is nothing to show of the ring.
LEMMA SetupShowsNothing ==
  ASSUME step' \in Setup
  PROVE  RingHoldsUnread' /\ CountedInv' /\ PlacesInv' /\ PresentsThePacket'
BY DEF Setup, RingHoldsUnread, CountedInv, PlacesInv, PresentsThePacket, NoneFailed

\* watch halts the queue head.
LEMMA WatchKeeps == InterruptInv /\ watch => InterruptInv'
<1> SUFFICES ASSUME InterruptInv, watch PROVE InterruptInv'
  OBVIOUS
<1>1. InterruptTypeOK'
  BY DEF InterruptInv, watch, InterruptTypeOK, Setup, Watching, Ring, Idx, Memory, watchVars, userVars, hcVars
<1>2. SetupInv'
  BY DEF InterruptInv, watch, InterruptTypeOK, SetupInv, Setup, Watching, Ring, watchVars, userVars, hcVars
<1>3. BufferInv'
  BY DEF InterruptInv, watch, BufferInv, Ring, Memory, watchVars, userVars, hcVars
<1>4. step' \in Setup
  BY DEF watch, Setup
<1> QED
  BY <1>1, <1>2, <1>3, <1>4, SetupShowsNothing DEF InterruptInv

\* The runner adds it.
LEMMA AddQhKeeps == InterruptInv /\ AddQh => InterruptInv'
<1> SUFFICES ASSUME InterruptInv, AddQh PROVE InterruptInv'
  OBVIOUS
<1>1. InterruptTypeOK'
  BY DEF InterruptInv, AddQh, InterruptTypeOK, Setup, Watching, Ring, Idx, Memory, watchVars, userVars, hcVars
<1>2. SetupInv'
  BY DEF InterruptInv, AddQh, InterruptTypeOK, SetupInv, Setup, Watching, Ring, watchVars, userVars, hcVars
<1>3. BufferInv'
  BY DEF InterruptInv, AddQh, BufferInv, Ring, Memory, watchVars, userVars, hcVars
<1>4. step' \in Setup
  BY DEF AddQh, Setup
<1> QED
  BY <1>1, <1>2, <1>3, <1>4, SetupShowsNothing DEF InterruptInv

\* The ring is linked when all of it is written.
LEMMA LinkQtdsKeeps == InterruptInv /\ LinkQtds => InterruptInv'
<1> SUFFICES ASSUME InterruptInv, LinkQtds PROVE InterruptInv'
  OBVIOUS
<1>1. InterruptTypeOK'
  BY DEF InterruptInv, LinkQtds, InterruptTypeOK, Setup, Watching, Ring, Idx, Memory, watchVars, userVars, hcVars
<1>2. SetupInv'
  BY DEF InterruptInv, LinkQtds, InterruptTypeOK, SetupInv, Setup, Watching, Ring, watchVars, userVars, hcVars
<1>3. BufferInv'
  BY DEF InterruptInv, LinkQtds, BufferInv, Ring, Memory, watchVars, userVars, hcVars
<1>4. step' \in Setup
  BY DEF LinkQtds, Setup
<1> QED
  BY <1>1, <1>2, <1>3, <1>4, SetupShowsNothing DEF InterruptInv

\* A QTD is written with the start of the buffer.
LEMMA WriteQtdKeeps == InterruptInv /\ WriteQtd => InterruptInv'
<1> SUFFICES ASSUME InterruptInv, WriteQtd PROVE InterruptInv'
  OBVIOUS
<1>1. /\ n \in Nat \ {0} /\ base \in 0..(Page - 1) /\ written \in 0..n /\ written < n
      /\ qtd \in [Ring -> [active : BOOLEAN, page : Nat, offset : Nat, packet : Nat]]
  BY DEF InterruptInv, InterruptTypeOK, WriteQtd
<1>2. base \div Page = 0 /\ base % Page = base
  BY <1>1, InterruptAssumption, SmallRemainder, SMTT(30)
<1>3. /\ qtd' = [qtd EXCEPT ![written] = [active |-> TRUE, page |-> 0, offset |-> base, packet |-> 0]]
      /\ written' = written + 1 /\ step = "qtds"
      /\ UNCHANGED <<n, base, step, linked, listed, halted, userVars, hcVars>>
  BY <1>2, ZenonT(30) DEF WriteQtd
<1>4. written \in Ring /\ base \in Nat
  BY <1>1, SMTT(30) DEF Ring
<1>5. /\ qtd' \in [Ring -> [active : BOOLEAN, page : Nat, offset : Nat, packet : Nat]]
      /\ qtd'[written].active /\ qtd'[written].page = 0 /\ qtd'[written].offset = base
      /\ \A i \in Ring \ {written} : qtd'[i] = qtd[i]
  BY <1>1, <1>3, <1>4
<1>r. /\ Ring' = Ring /\ Memory' = Memory /\ Idx' = Idx
      /\ UNCHANGED <<consumed, sent, completed_packets, hc, mem>>
  BY <1>3 DEF Ring, Memory, Idx, userVars, hcVars
<1>6. InterruptTypeOK'
  <2>1. written' \in 0..n
    BY <1>1, <1>3, SMTT(30)
  <2> QED
    BY <1>3, <1>5, <1>r, <2>1 DEF InterruptInv, InterruptTypeOK
<1>7. SetupInv'
  BY <1>1, <1>3, <1>4, <1>5, SMTT(30) DEF InterruptInv, SetupInv, Setup, Watching, Ring, userVars, hcVars
<1>8. BufferInv'
  <2>1. consumed = 0
    BY <1>3 DEF InterruptInv, SetupInv, Setup
  <2> SUFFICES ASSUME base + n <= Page PROVE BufferInv'
    BY <1>3 DEF BufferInv
  <2>2. /\ \A i \in Ring : i < written => qtd[i].page = 0 /\ qtd[i].offset \in base..(base + n - 1)
        /\ \A a \in Memory : mem[a] # 0 => a \in base..(base + n - 1)
    BY DEF InterruptInv, BufferInv
  <2>3. base \in base..(base + n - 1)
    BY <1>1, SMTT(30)
  <2>4. ASSUME NEW i \in Ring, i < written + 1
        PROVE  qtd'[i].page = 0 /\ qtd'[i].offset \in base..(base + n - 1) /\ ~(i < consumed)
    <3>1. i = written \/ (i # written /\ i < written)
      BY <1>1, <2>4, SMTT(30) DEF Ring
    <3>2. ~(i < consumed)
      BY <1>1, <2>1, SMTT(30) DEF Ring
    <3> QED
      BY <1>5, <2>2, <2>3, <3>1, <3>2
  <2> QED
    BY <1>3, <1>r, <2>2, <2>4 DEF BufferInv
<1>9. step' \in Setup
  BY <1>3 DEF Setup
<1> QED
  BY <1>6, <1>7, <1>8, <1>9, SetupShowsNothing DEF InterruptInv

\* The halted bit is cleared: the ring is written and empty.
LEMMA UnhaltKeeps == InterruptInv /\ Unhalt => InterruptInv'
<1> SUFFICES ASSUME InterruptInv, Unhalt PROVE InterruptInv'
  OBVIOUS
<1>1. InterruptTypeOK'
  BY ZenonT(30) DEF InterruptInv, Unhalt, InterruptTypeOK, Setup, Watching, Ring, Idx, Memory, watchVars, userVars, hcVars
<1>2. SetupInv'
  BY DEF InterruptInv, Unhalt, InterruptTypeOK, SetupInv, Setup, Watching, Ring, watchVars, userVars, hcVars
<1>3. BufferInv'
  BY DEF InterruptInv, Unhalt, BufferInv, Ring, Memory, watchVars, userVars, hcVars
<1>4. /\ n \in Nat \ {0} /\ sent = 0 /\ consumed = 0 /\ hc = 0 /\ completed_packets = 0
      /\ Idx = consumed % n /\ \A i \in Ring : qtd[i].active
  BY SMTT(30) DEF InterruptInv, Unhalt, InterruptTypeOK, SetupInv, Setup, Ring
<1>5. UNCHANGED <<n, sent, consumed, hc, completed_packets, completed_packets_index, qtd>> /\ step' = "peek"
  BY DEF Unhalt, watchVars, userVars, hcVars
<1>6. 0 % n = 0 /\ (consumed + 1)..sent = {}
  BY <1>4, SmallRemainder, SMTT(30)
<1>7. RingHoldsUnread'
  BY <1>4, <1>5, <1>6, SMTT(30) DEF RingHoldsUnread, Ring, Idx
<1> QED
  BY <1>1, <1>2, <1>3, <1>4, <1>5, <1>6, <1>7, SMTT(30) DEF InterruptInv, CountedInv, PlacesInv, PresentsThePacket

\* Steps that only move the driver between peeking and waiting.
LEMMA QuietKeeps ==
  ASSUME InterruptInv, UNCHANGED <<n, base, watchVars, halted, qtd, userVars, hcVars>>,
         \/ step' = step
         \/ step \in Watching \ {"have"} /\ step' \in Watching \ {"have"}
  PROVE  InterruptInv'
<1>1. InterruptTypeOK'
  BY DEF InterruptInv, InterruptTypeOK, Ring, Idx, Memory, watchVars, userVars, hcVars
<1>2. SetupInv'
  BY DEF InterruptInv, SetupInv, Setup, Watching, Ring, watchVars, userVars, hcVars
<1>3. BufferInv'
  BY DEF InterruptInv, BufferInv, Ring, Memory, watchVars, userVars, hcVars
<1>4. NoneFailed' <=> NoneFailed
  BY DEF NoneFailed, Watching
<1>5. RingHoldsUnread'
  BY <1>4 DEF InterruptInv, RingHoldsUnread, Ring, Idx, watchVars, userVars, hcVars
<1>6. CountedInv' /\ PlacesInv'
  BY <1>4 DEF InterruptInv, CountedInv, PlacesInv, watchVars, userVars, hcVars
<1>7. PresentsThePacket'
  BY DEF InterruptInv, PresentsThePacket, Watching, watchVars, userVars, hcVars
<1> QED
  BY <1>1, <1>2, <1>3, <1>5, <1>6, <1>7 DEF InterruptInv

\* peek counts a packet when the QTD is inactive: then it was sent.
LEMMA PeekReadsKeeps == InterruptInv /\ PeekReads => InterruptInv'
<1> SUFFICES ASSUME InterruptInv, PeekReads PROVE InterruptInv'
  OBVIOUS
<1>1. CASE qtd[Idx].active
  <2>1. UNCHANGED <<n, base, watchVars, halted, qtd, userVars, hcVars>> /\ step = "peek" /\ step' = "wait"
    BY <1>1 DEF PeekReads, userVars
  <2> QED
    BY <2>1, QuietKeeps DEF Watching
<1>2. CASE ~qtd[Idx].active
  <2>1. /\ UNCHANGED <<n, base, step, written, linked, listed, halted, qtd, completed_packets_index, consumed, shown, hc, mem, sent>>
        /\ step = "peek" /\ completed_packets' = 1
    BY <1>2, SMTT(30) DEF PeekReads, watchVars, hcVars
  <2>2. InterruptTypeOK'
    BY <2>1 DEF InterruptInv, InterruptTypeOK, Ring, Idx, Memory
  <2>3. SetupInv'
    BY <2>1 DEF InterruptInv, SetupInv, Setup, Watching, Ring
  <2>4. BufferInv'
    BY <2>1 DEF InterruptInv, BufferInv, Ring, Memory
  <2>5. RingHoldsUnread'
    BY <2>1 DEF InterruptInv, RingHoldsUnread, NoneFailed, Ring, Idx
  <2>6. CountedInv'
    <3> SUFFICES ASSUME NoneFailed PROVE consumed < sent
      BY <2>1 DEF CountedInv, NoneFailed
    <3>1. PICK k \in (consumed + 1)..sent : (k - 1) % n = Idx
      BY <1>2, ZenonT(30) DEF InterruptInv, RingHoldsUnread, InterruptTypeOK
    <3> QED
      BY <3>1, SMTT(30) DEF InterruptInv, InterruptTypeOK
  <2>7. PlacesInv' /\ PresentsThePacket'
    BY <2>1 DEF InterruptInv, PlacesInv, PresentsThePacket, NoneFailed
  <2> QED
    BY <2>2, <2>3, <2>4, <2>5, <2>6, <2>7 DEF InterruptInv
<1> QED
  BY <1>1, <1>2

\* peek shows the oldest unread packet.
LEMMA PeekReturnsKeeps == InterruptInv /\ PeekReturns => InterruptInv'
<1> SUFFICES ASSUME InterruptInv, PeekReturns PROVE InterruptInv'
  OBVIOUS
<1>1. /\ UNCHANGED <<n, base, written, linked, listed, halted, qtd, completed_packets_index, completed_packets, consumed, hc, mem, sent>>
      /\ step = "peek" /\ step' = "have" /\ completed_packets = 1 /\ shown' = mem[base + Idx]
  BY SMTT(30) DEF InterruptInv, InterruptTypeOK, PeekReturns, watchVars, hcVars
<1>2. InterruptTypeOK'
  BY <1>1 DEF InterruptInv, InterruptTypeOK, Setup, Watching, Ring, Idx, Memory
<1>3. SetupInv'
  BY <1>1 DEF InterruptInv, SetupInv, Setup, Watching, Ring
<1>4. BufferInv'
  BY <1>1 DEF InterruptInv, BufferInv, Ring, Memory
<1>5. NoneFailed' <=> NoneFailed
  BY <1>1 DEF NoneFailed
<1>6. RingHoldsUnread'
  BY <1>1, <1>5 DEF InterruptInv, RingHoldsUnread, Ring, Idx
<1>7. CountedInv' /\ PlacesInv'
  BY <1>1, <1>5 DEF InterruptInv, CountedInv, PlacesInv
<1>8. PresentsThePacket'
  <2> SUFFICES ASSUME ~halted, base + n <= Page, n = 1 \/ consumed >= n PROVE mem[base + Idx] = consumed + 1
    BY <1>1 DEF PresentsThePacket
  <2>1. NoneFailed /\ consumed < sent /\ consumed \in Nat /\ sent \in Nat /\ n \in Nat \ {0} /\ Idx = consumed % n
    BY <1>1 DEF InterruptInv, CountedInv, NoneFailed, InterruptTypeOK
  <2>2. consumed + 1 \in (consumed + 1)..sent /\ (consumed + 1 > n \/ n = 1) /\ (consumed + 1) - 1 = consumed
    BY <2>1, SMTT(30)
  <2>3. mem[base + (((consumed + 1) - 1) % n)] = consumed + 1
    BY <2>1, <2>2 DEF InterruptInv, PlacesInv
  <2> QED
    BY <2>1, <2>2, <2>3
<1> QED
  BY <1>2, <1>3, <1>4, <1>6, <1>7, <1>8 DEF InterruptInv

-----------------------------------------------------------------------------
\* advance gives the QTD of the oldest packet back, pointing to its own place.
LEMMA AdvanceKeeps == InterruptInv /\ advance => InterruptInv'
<1> SUFFICES ASSUME InterruptInv, advance PROVE InterruptInv'
  OBVIOUS
<1>1. /\ UNCHANGED <<n, base, written, linked, listed, halted, shown, hc, mem, sent>>
      /\ step = "have" /\ step' = "peek" /\ consumed' = consumed + 1
      /\ Idx' = NextIndex(Idx) /\ completed_packets' = completed_packets - 1
  BY DEF advance, watchVars, hcVars, Idx
<1>2. /\ n \in Nat \ {0} /\ consumed \in Nat /\ sent \in Nat /\ Idx \in Ring /\ Idx = consumed % n
      /\ base \in Nat /\ completed_packets = 1 /\ Page \in Nat \ {0}
  BY <1>1, InterruptAssumption, SMTT(30) DEF InterruptInv, InterruptTypeOK, SetupInv
<1>3. Idx' = (consumed + 1) % n /\ Idx' \in Ring
  <2>1. (consumed + 1) % n = IF (consumed % n) + 1 = n THEN 0 ELSE (consumed % n) + 1
    BY <1>2, NextRemainder, ZenonT(30)
  <2> QED
    BY <1>1, <1>2, <2>1, SMTT(30) DEF NextIndex, Ring
<1>4. (base + Idx) % Page \in Nat
  BY <1>2, Remainder, SMTT(30) DEF Ring
<1>5. /\ qtd' \in [Ring -> [active : BOOLEAN, page : Nat, offset : Nat, packet : Nat]]
      /\ qtd'[Idx].active /\ qtd'[Idx].offset = (base + Idx) % Page
      /\ \A i \in Ring : qtd'[i].packet = qtd[i].packet /\ qtd'[i].page = qtd[i].page
      /\ \A i \in Ring : i # Idx => qtd'[i] = qtd[i]
  BY <1>2, <1>4 DEF advance, ResetOffset, InterruptInv, InterruptTypeOK
<1>6. InterruptTypeOK'
  <2>1. /\ base \in 0..(Page - 1) /\ written \in 0..n /\ linked \in BOOLEAN /\ listed \in BOOLEAN
        /\ halted \in BOOLEAN /\ hc \in Ring /\ DOMAIN mem = Memory
    BY DEF InterruptInv, InterruptTypeOK
  <2>2. step' \in Setup \cup Watching /\ completed_packets' \in {0, 1} /\ consumed' \in Nat
    BY <1>1, <1>2, SMTT(30) DEF Watching
  <2>3. Ring' = Ring /\ Memory' = Memory
    BY <1>1 DEF Ring, Memory
  <2> QED
    BY <1>1, <1>2, <1>3, <1>5, <2>1, <2>2, <2>3 DEF InterruptTypeOK
<1>7. SetupInv'
  BY <1>1, <1>2 DEF InterruptInv, SetupInv, Setup, Watching
<1>8. BufferInv'
  <2> SUFFICES ASSUME base + n <= Page, NEW i \in Ring, i < written
               PROVE  /\ qtd'[i].page = 0 /\ qtd'[i].offset \in base..(base + n - 1)
                      /\ i < consumed + 1 => qtd'[i].offset = base + i
    BY <1>1 DEF InterruptInv, BufferInv, Ring, Memory
  <2>0. /\ qtd[i].page = 0 /\ qtd[i].offset \in base..(base + n - 1)
        /\ i < consumed => qtd[i].offset = base + i
    BY DEF InterruptInv, BufferInv
  <2>1. CASE i = Idx
    <3>1. (base + Idx) % Page = base + Idx
      BY <1>2, SmallRemainder, SMTT(30) DEF Ring
    <3>2. qtd'[i].page = 0 /\ qtd'[i].offset = base + i
      BY <2>0, <2>1, <3>1, <1>5
    <3>3. i \in 0..(n - 1) /\ base \in Nat /\ n \in Nat
      BY <1>2 DEF Ring
    <3> QED
      BY ONLY <3>2, <3>3, SMTT(30)
  <2>2. CASE i # Idx
    <3>1. i # consumed
      BY <2>2, <1>2, SmallRemainder, SMTT(30) DEF Ring
    <3>2. qtd'[i] = qtd[i]
      BY <2>2, <1>5
    <3>3. i \in Int /\ consumed \in Nat
      BY <1>2, SMTT(30) DEF Ring
    <3> QED
      BY ONLY <2>0, <3>1, <3>2, <3>3, SMTT(30)
  <2> QED
    BY <2>1, <2>2
<1>9. RingHoldsUnread'
  <2> SUFFICES ASSUME NoneFailed
               PROVE  /\ sent - (consumed + 1) \in 0..n
                      /\ \A k \in (consumed + 2)..sent : qtd'[(k - 1) % n].packet = k
                      /\ \A i \in Ring : qtd'[i].active <=> (\A k \in (consumed + 2)..sent : (k - 1) % n # i)
                      /\ hc = sent % n
    BY <1>1, <1>2, <1>3, SMTT(30) DEF RingHoldsUnread, NoneFailed, Ring
  <2>1. /\ consumed < sent /\ sent - consumed \in 0..n /\ hc = sent % n
        /\ \A k \in (consumed + 1)..sent : qtd[(k - 1) % n].packet = k
        /\ \A i \in Ring : qtd[i].active <=> (\A k \in (consumed + 1)..sent : (k - 1) % n # i)
    BY <1>2 DEF InterruptInv, CountedInv, RingHoldsUnread
  <2>2. ASSUME NEW k \in (consumed + 2)..sent PROVE qtd'[(k - 1) % n].packet = k
    <3>1. (k - 1) % n \in Ring
      BY <1>2, Remainder, SMTT(30) DEF Ring
    <3> QED
      BY <3>1, <1>2, <1>5, <2>1, SMTT(30)
  <2>3. ASSUME NEW i \in Ring
        PROVE  qtd'[i].active <=> (\A k \in (consumed + 2)..sent : (k - 1) % n # i)
    <3>1. CASE i = Idx
      <4> SUFFICES ASSUME NEW k \in (consumed + 2)..sent PROVE (k - 1) % n # consumed % n
        BY <3>1, <1>2, <1>5
      <4>1. k - 1 \in Nat /\ consumed < k - 1 /\ k - 1 < consumed + n
        BY <1>2, <2>1, SMTT(30)
      <4> QED
        BY <4>1, <1>2, WindowIsInjective, ZenonT(30)
    <3>2. CASE i # Idx
      <4>1. (consumed + 1) - 1 = consumed /\ (consumed % n) # i
        BY <3>2, <1>2, SMTT(30)
      <4>2. (\A k \in (consumed + 1)..sent : (k - 1) % n # i) <=> (\A k \in (consumed + 2)..sent : (k - 1) % n # i)
        <5>1. (consumed + 1)..sent = {consumed + 1} \cup ((consumed + 2)..sent)
          BY <1>2, <2>1, SMTT(30)
        <5> QED
          BY <4>1, <5>1
      <4> QED
        BY <3>2, <4>2, <1>5, <2>1
    <3> QED
      BY <3>1, <3>2
  <2>4. sent - (consumed + 1) \in 0..n
    BY <2>1, <1>2, SMTT(30)
  <2> QED
    BY <2>1, <2>2, <2>3, <2>4
<1>10. CountedInv'
  BY <1>1, <1>2, SMTT(30) DEF CountedInv
<1>11. PlacesInv'
  <2> SUFFICES ASSUME NoneFailed, base + n <= Page, NEW k \in (consumed + 2)..sent, k > n \/ n = 1
               PROVE  mem[base + ((k - 1) % n)] = k
    BY <1>1, <1>2, SMTT(30) DEF PlacesInv, NoneFailed
  <2>1. k \in (consumed + 1)..sent
    BY <1>2, SMTT(30)
  <2> QED
    BY <2>1 DEF InterruptInv, PlacesInv
<1>12. PresentsThePacket'
  BY <1>1 DEF PresentsThePacket
<1> QED
  BY <1>6, <1>7, <1>8, <1>9, <1>10, <1>11, <1>12 DEF InterruptInv

\* The controller works on the ring only once the driver peeks.
LEMMA ReadyMeansWatching ==
  ASSUME InterruptInv, HcReady
  PROVE  NoneFailed /\ step \in Watching /\ written = n /\ qtd[hc].active
BY DEF InterruptInv, SetupInv, InterruptTypeOK, HcReady, Setup, Watching, NoneFailed

\* A failed transfer halts the queue head and leaves the memory alone.
LEMMA HcFailsKeeps == InterruptInv /\ HcFails => InterruptInv'
<1> SUFFICES ASSUME InterruptInv, HcFails PROVE InterruptInv'
  OBVIOUS
<1>1. /\ UNCHANGED <<n, base, step, written, linked, listed, completed_packets_index, completed_packets, consumed, shown, hc, mem, sent>>
      /\ halted' = TRUE
  BY DEF HcFails, watchVars, userVars, hcVars
<1>2. step \in Watching /\ hc \in Ring
  BY ReadyMeansWatching DEF HcFails, InterruptInv, InterruptTypeOK
<1>3. /\ qtd' \in [Ring -> [active : BOOLEAN, page : Nat, offset : Nat, packet : Nat]]
      /\ \A i \in Ring : qtd'[i].page = qtd[i].page /\ qtd'[i].offset = qtd[i].offset
  BY <1>2, ZenonT(30) DEF HcFails, InterruptInv, InterruptTypeOK
<1>4. InterruptTypeOK'
  BY <1>1, <1>3 DEF InterruptInv, InterruptTypeOK, Ring, Idx, Memory
<1>5. SetupInv'
  BY <1>1, <1>2 DEF InterruptInv, SetupInv, Setup, Watching
<1>6. BufferInv'
  BY <1>1, <1>3 DEF InterruptInv, BufferInv, Ring, Memory
<1>7. ~NoneFailed' /\ halted'
  BY <1>1 DEF NoneFailed
<1>8. RingHoldsUnread' /\ CountedInv' /\ PlacesInv' /\ PresentsThePacket'
  BY <1>7 DEF RingHoldsUnread, CountedInv, PlacesInv, PresentsThePacket
<1> QED
  BY <1>4, <1>5, <1>6, <1>8 DEF InterruptInv

\* The controller puts the next packet behind the unread ones.
LEMMA HcReceivesKeeps == InterruptInv /\ HcReceives => InterruptInv'
<1> SUFFICES ASSUME InterruptInv, HcReceives PROVE InterruptInv'
  OBVIOUS
<1>1. /\ UNCHANGED <<n, base, step, written, linked, listed, halted, completed_packets_index, completed_packets, consumed, shown>>
      /\ sent' = sent + 1 /\ hc' = (hc + 1) % n
      /\ mem' = [mem EXCEPT ![Target(hc)] = sent + 1]
  BY DEF HcReceives, watchVars, userVars
<1>2. NoneFailed /\ step \in Watching /\ written = n /\ qtd[hc].active
  BY ReadyMeansWatching DEF HcReceives
<1>3. /\ n \in Nat \ {0} /\ consumed \in Nat /\ sent \in Nat /\ base \in Nat /\ Page \in Nat \ {0}
      /\ MaxQtds \in Nat /\ hc \in Ring /\ hc = sent % n /\ sent - consumed \in 0..n
  BY <1>2, InterruptAssumption, SMTT(30) DEF InterruptInv, InterruptTypeOK, RingHoldsUnread
<1>4. \A k \in (consumed + 1)..sent : (k - 1) % n # hc /\ qtd[(k - 1) % n].packet = k
  BY <1>2, <1>3 DEF InterruptInv, RingHoldsUnread
<1>5. sent - consumed < n
  <2> SUFFICES ASSUME sent = consumed + n PROVE FALSE
    BY <1>3, SMTT(30)
  <2>1. consumed + 1 \in (consumed + 1)..sent /\ (consumed + 1) - 1 = consumed
    BY <1>3, SMTT(30)
  <2>2. consumed % n = hc
    BY <1>3, RoundRemainder, ZenonT(30)
  <2> QED
    BY <2>1, <2>2, <1>4
<1>6. hc' = (sent + 1) % n /\ hc' \in Ring
  <2>1. ((sent % n) + 1) % n = (sent + 1) % n
    BY <1>3, NextRemainder, ZenonT(30)
  <2>2. (sent + 1) % n \in 0..(n - 1)
    BY <1>3, Remainder, SMTT(30)
  <2> QED
    BY <1>1, <1>3, <2>1, <2>2 DEF Ring
<1>7. /\ qtd' \in [Ring -> [active : BOOLEAN, page : Nat, offset : Nat, packet : Nat]]
      /\ ~qtd'[hc].active /\ qtd'[hc].packet = sent + 1
      /\ \A i \in Ring : qtd'[i].page = qtd[i].page /\ qtd'[i].offset = qtd[i].offset
      /\ \A i \in Ring : i # hc => qtd'[i] = qtd[i]
  <2>1. qtd' = [qtd EXCEPT ![hc].active = FALSE, ![hc].packet = sent + 1]
    BY DEF HcReceives
  <2>2. /\ qtd \in [Ring -> [active : BOOLEAN, page : Nat, offset : Nat, packet : Nat]]
        /\ hc \in Ring /\ sent + 1 \in Nat
    BY <1>3, SMTT(30) DEF InterruptInv, InterruptTypeOK
  <2> QED
    BY ONLY <2>1, <2>2, ZenonT(30)
<1>8. DOMAIN mem = Memory /\ DOMAIN mem' = Memory /\ Memory' = Memory /\ Ring' = Ring
  BY <1>1 DEF InterruptInv, InterruptTypeOK, Memory, Ring
<1>9. InterruptTypeOK'
  <2>1. /\ base \in 0..(Page - 1) /\ step \in Setup \cup Watching /\ written \in 0..n
        /\ linked \in BOOLEAN /\ listed \in BOOLEAN /\ halted \in BOOLEAN
        /\ completed_packets \in {0, 1} /\ Idx \in Ring /\ Idx = consumed % n
    BY DEF InterruptInv, InterruptTypeOK
  <2>2. sent' \in Nat /\ Idx' = Idx
    BY <1>1, <1>3, SMTT(30) DEF Idx
  <2> QED
    BY <1>1, <1>3, <1>6, <1>7, <1>8, <2>1, <2>2 DEF InterruptTypeOK
<1>10. SetupInv'
  BY <1>1, <1>2 DEF InterruptInv, SetupInv, Setup, Watching
<1>11. ASSUME base + n <= Page
       PROVE  Target(hc) \in base..(base + n - 1)
  <2>1. hc < written
    BY <1>2, <1>3, SMTT(30) DEF Ring
  <2>2. qtd[hc].page = 0 /\ qtd[hc].offset \in base..(base + n - 1)
    BY <1>3, <1>11, <2>1 DEF InterruptInv, BufferInv
  <2> QED
    BY <1>3, <2>2, SMTT(30) DEF Target
<1>12. BufferInv'
  <2> SUFFICES ASSUME base + n <= Page
               PROVE  /\ \A i \in Ring : i < written =>
                           /\ qtd'[i].page = 0 /\ qtd'[i].offset \in base..(base + n - 1)
                           /\ i < consumed => qtd'[i].offset = base + i
                      /\ \A a \in Memory : mem'[a] # 0 => a \in base..(base + n - 1)
    BY <1>1, <1>8 DEF BufferInv
  <2>1. /\ \A i \in Ring : i < written =>
             /\ qtd[i].page = 0 /\ qtd[i].offset \in base..(base + n - 1)
             /\ i < consumed => qtd[i].offset = base + i
        /\ \A a \in Memory : mem[a] # 0 => a \in base..(base + n - 1)
    BY DEF InterruptInv, BufferInv
  <2>2. \A a \in Memory : mem'[a] # 0 => a \in base..(base + n - 1)
    BY <2>1, <1>1, <1>8, <1>11
  <2> QED
    BY <2>1, <2>2, <1>7
<1>13. RingHoldsUnread'
  <2> DEFINE W == (consumed + 1)..sent
             V == (consumed + 1)..(sent + 1)
  <2>1. V = W \cup {sent + 1} /\ (sent + 1) - 1 = sent /\ (sent + 1) - consumed \in 0..n
    BY <1>3, <1>5, SMTT(30)
  <2>2. ASSUME NEW k \in V PROVE qtd'[(k - 1) % n].packet = k
    <3>1. CASE k = sent + 1
      BY <3>1, <2>1, <1>3, <1>7
    <3>2. CASE k \in W
      <4>1. (k - 1) % n \in Ring
        BY <3>2, <1>3, Remainder, SMTT(30) DEF Ring
      <4> QED
        BY <3>2, <4>1, <1>4, <1>7
    <3> QED
      BY <3>1, <3>2, <2>1
  <2>3. ASSUME NEW i \in Ring PROVE qtd'[i].active <=> (\A k \in V : (k - 1) % n # i)
    <3>1. CASE i = hc
      BY <3>1, <2>1, <1>3, <1>7, ZenonT(30)
    <3>2. CASE i # hc
      <4>1. qtd'[i].active <=> (\A k \in W : (k - 1) % n # i)
        BY <3>2, <1>2, <1>7 DEF InterruptInv, RingHoldsUnread
      <4>2. (\A k \in V : (k - 1) % n # i) <=> (\A k \in W : (k - 1) % n # i)
        BY <3>2, <2>1, <1>3
      <4> QED
        BY <4>1, <4>2
    <3> QED
      BY <3>1, <3>2
  <2>4. Idx = consumed % n /\ Idx' = Idx
    BY <1>1 DEF InterruptInv, InterruptTypeOK, Idx
  <2> HIDE DEF W
  <2> QED
    BY <2>1, <2>2, <2>3, <2>4, <1>1, <1>6, <1>8 DEF RingHoldsUnread
<1>14. CountedInv'
  BY <1>1, <1>2, <1>3, SMTT(30) DEF InterruptInv, CountedInv
<1>15. ASSUME base + n <= Page, n = 1 \/ sent >= n
       PROVE  Target(hc) = base + hc /\ base + hc \in Memory
  <2>1. base + hc \in Memory
    BY <1>3, <1>15, SMTT(30) DEF Ring, Memory
  <2>2. CASE n = 1
    BY <2>1, <2>2, <1>3, <1>11, <1>15, SMTT(30) DEF Ring
  <2>3. CASE sent >= n
    <3>1. hc < consumed
      <4>1. CASE consumed >= n
        BY <4>1, <1>3, SMTT(30) DEF Ring
      <4>2. CASE consumed < n
        <5>1. sent - n \in Nat /\ sent - n < n /\ (sent - n) + n = sent
          BY <4>2, <2>3, <1>3, <1>5, SMTT(30)
        <5>2. ((sent - n) + n) % n = (sent - n) % n /\ (sent - n) % n = sent - n
          BY <5>1, <1>3, RoundRemainder, SmallRemainder, ZenonT(30)
        <5>3. hc = sent - n
          BY <5>1, <5>2, <1>3
        <5> QED
          BY <5>3, <1>3, <1>5, SMTT(30)
      <4> QED
        BY <4>1, <4>2, <1>3, SMTT(30)
    <3>2. hc < written
      BY <1>2, <1>3, SMTT(30) DEF Ring
    <3>3. qtd[hc].page = 0 /\ qtd[hc].offset = base + hc
      BY <3>1, <3>2, <1>3, <1>15 DEF InterruptInv, BufferInv
    <3>4. hc \in Nat
      BY <1>3, SMTT(30) DEF Ring
    <3> QED
      BY <2>1, <3>3, <3>4, <1>3, SMTT(30) DEF Target
  <2> QED
    BY <2>2, <2>3, <1>15
<1>16. PlacesInv'
  <2> SUFFICES ASSUME base + n <= Page, NEW k \in (consumed + 1)..(sent + 1), k > n \/ n = 1
               PROVE  mem'[base + ((k - 1) % n)] = k
    BY <1>1 DEF PlacesInv
  <2>1. n = 1 \/ sent >= n
    BY <1>3, SMTT(30)
  <2>2. mem' = [mem EXCEPT ![base + hc] = sent + 1] /\ base + hc \in DOMAIN mem
    BY <2>1, <1>1, <1>8, <1>15, ZenonT(30)
  <2>3. CASE k = sent + 1
    <3>1. (k - 1) % n = hc
      BY <2>3, <1>3, SMTT(30)
    <3> QED
      BY <2>2, <2>3, <3>1
  <2>4. CASE k # sent + 1
    <3>1. k \in (consumed + 1)..sent
      BY <2>4, <1>3, SMTT(30)
    <3>2a. k - 1 \in Nat
      BY <3>1, <1>3, SMTT(30)
    <3>2b. (k - 1) % n \in Ring
      BY <3>2a, <1>3, Remainder DEF Ring
    <3>2. (k - 1) % n \in Ring /\ (k - 1) % n # hc
      BY <3>1, <3>2b, <1>4
    <3>3. mem[base + ((k - 1) % n)] = k
      BY <3>1, <1>2 DEF InterruptInv, PlacesInv
    <3>4. base + ((k - 1) % n) # base + hc /\ base + ((k - 1) % n) \in Memory
      BY <3>2, <1>3, SMTT(30) DEF Ring, Memory
    <3> QED
      BY <2>2, <3>3, <3>4, <1>8
  <2> QED
    BY <2>3, <2>4
<1>17. PresentsThePacket'
  BY <1>1 DEF InterruptInv, PresentsThePacket
<1> QED
  BY <1>9, <1>10, <1>12, <1>13, <1>14, <1>16, <1>17 DEF InterruptInv

-----------------------------------------------------------------------------
\* The inductive invariant: set-up order, buffer, ring and what peek shows.
THEOREM InterruptInvariant == Spec => []InterruptInv
<1>1. InterruptInv /\ [Next]_vars => InterruptInv'
  <2> SUFFICES ASSUME InterruptInv, [Next]_vars PROVE InterruptInv'
    OBVIOUS
  <2>1. CASE WatchSteps
    BY <2>1, WatchKeeps, WriteQtdKeeps, LinkQtdsKeeps, UnhaltKeeps DEF WatchSteps
  <2>2. CASE AddQh
    BY <2>2, AddQhKeeps
  <2>3. CASE PeekReturns \/ PeekReads \/ advance
    BY <2>3, PeekReturnsKeeps, PeekReadsKeeps, AdvanceKeeps
  <2>4. CASE PeekWaits
    <3>1. /\ UNCHANGED <<n, base, watchVars, halted, qtd, userVars, hcVars>>
          /\ step \in Watching \ {"have"} /\ step' \in Watching \ {"have"}
      BY <2>4 DEF PeekWaits, Watching
    <3> QED
      BY <3>1, QuietKeeps
  <2>5. CASE FanOut
    <3>1. /\ UNCHANGED <<n, base, watchVars, halted, qtd, userVars, hcVars>>
          /\ step' = step \/ (step \in Watching \ {"have"} /\ step' \in Watching \ {"have"})
      BY <2>5 DEF FanOut, Watching
    <3> QED
      BY <3>1, QuietKeeps
  <2>6. CASE HcReceives \/ HcFails
    BY <2>6, HcReceivesKeeps, HcFailsKeeps
  <2>7. CASE UNCHANGED vars
    BY <2>7, QuietKeeps DEF vars
  <2> QED
    BY <2>1, <2>2, <2>3, <2>4, <2>5, <2>6, <2>7 DEF Next, PeekSteps
<1> QED
  BY <1>1, InterruptBegins, PTL DEF Spec

\* watch hands over a written ring, and the controller writes nothing outside
\* a buffer that lies within a page.
THEOREM ControllerStaysInRing == Spec => []HcStaysInRing
<1>1. InterruptInv => HcStaysInRing
  BY DEF InterruptInv, SetupInv, BufferInv, InterruptTypeOK, HcStaysInRing, HcFindsWrittenRing, Setup, Watching
<1> QED
  BY <1>1, InterruptInvariant, PTL

\* peek and advance keep the ring a queue of the unread packets.
THEOREM RingIsAQueue == Spec => []RingHoldsUnread
<1>1. InterruptInv => RingHoldsUnread
  BY DEF InterruptInv
<1> QED
  BY <1>1, InterruptInvariant, PTL

\* peek presents the oldest unread packet.
THEOREM PeekShowsTheOldest == Spec => []PresentsThePacket
<1>1. InterruptInv => PresentsThePacket
  BY DEF InterruptInv
<1> QED
  BY <1>1, InterruptInvariant, PTL
=============================================================================
