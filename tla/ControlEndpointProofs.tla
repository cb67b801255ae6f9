------------------------ MODULE ControlEndpointProofs ------------------------
(***************************************************************************)
(* What a control transfer returns, and that the controller is through     *)
(* with its QTDs then, for any number and size of buffers and packets, any *)
(* number of transfers and any answer of the device: all of the answer in  *)
(* the first transfer on an endpoint if its toggles are in step, and never *)
(* more than it.                                                           *)
(***************************************************************************)
EXTENDS ControlEndpoint, WellFoundedInduction, TLAPS

\* Every leaf goes to Zenon unless it names another prover.
USE ZenonT(30)

Quiet == {"idle", "attach", "returned"}
InFlight == {"token", "check", "wait", "asleep"}
Toggle == {0, 1}
QtdType == [active : BOOLEAN, toggle : Toggle, rem : Nat, next : Int, alt : Int]
OverlayType ==
  [active : BOOLEAN, halted : BOOLEAN, toggle : Toggle, rem : Nat, cur : Int, next : Int, alt : Int]

ControlTypeOK ==
  /\ step \in Quiet \cup InFlight /\ transfers \in Nat
  /\ n \in 0..MaxBuffers /\ size \in Nat /\ len \in 0..(n * size)
  /\ transfers # 0 => size > 0
  /\ overlay \in OverlayType /\ qtd \in [Qtd -> QtdType]
  /\ left \in Int /\ left >= Invalid /\ toggle \in Toggle

\* The controller has taken up a QTD of the transfer; the SETUP stage is over,
\* or was wiped out by the write of the token.
Begun == overlay.next # 0
SetupOver == Begun /\ (overlay.cur # 0 \/ ~overlay.active)

\* Outside a transfer the overlay leads nowhere and the device is in no data
\* stage; an endpoint without a finished transfer is halted.
QuietInv ==
  /\ step \in Quiet => /\ ~overlay.active /\ overlay.next = Invalid /\ overlay.alt = Invalid
                       /\ left = Invalid
  /\ step = "attach" => \A q \in 0..Status : qtd[q] = WriteQtd(q, n, size)
  /\ transfers = 0 \/ (transfers = 1 /\ step \in {"attach", "token"}) => overlay.halted
  /\ transfers = 0 => step = "idle"
  /\ transfers = 1 /\ step = "token" => ~Begun

\* During one, the QTDs after the one at work are as they were written, and so
\* is that one until it retires.
RingInv ==
  step \in InFlight =>
    /\ \A q \in 0..Status : /\ qtd[q].next = WriteQtd(q, n, size).next
                            /\ qtd[q].alt = WriteQtd(q, n, size).alt
    /\ ~Begun => /\ ~overlay.active /\ overlay.alt = Invalid
                 /\ \A q \in 0..Status : qtd[q] = WriteQtd(q, n, size)
    /\ Begun => /\ overlay.cur \in 0..Status
                /\ overlay.next = qtd[overlay.cur].next /\ overlay.alt = qtd[overlay.cur].alt
                /\ \A q \in (overlay.cur + 1)..Status : qtd[q] = WriteQtd(q, n, size)
                /\ overlay.active => /\ qtd[overlay.cur] = WriteQtd(overlay.cur, n, size)
                                     /\ overlay.rem <= WriteQtd(overlay.cur, n, size).rem
                                     /\ ~overlay.halted

\* The bytes in the buffer at work, which its QTD does not count yet, and the
\* bytes the device has still to send.
Held == IF overlay.active /\ overlay.cur \in 1..n THEN size - overlay.rem ELSE 0
Unsent == IF left = Invalid THEN 0 ELSE left

\* No more is read than the device sent, whatever the write of the token wiped
\* out and whatever packets were dropped.
AtMostInv ==
  step \in InFlight =>
    /\ BytesRead + Held <= len
    /\ left # Invalid => SetupOver /\ BytesRead + Held + left <= len
    /\ ~qtd[Status].active => left = Invalid

\* So many bytes are left of a buffer of whole pairs of packets when t is the
\* toggle of the next packet.
InPairs(rem, t) == \E k \in 0..rem : rem = k * (2 * MaxPacket) + (IF t = 1 THEN 0 ELSE MaxPacket)

\* In the first transfer, with the toggles in step, the device and the
\* controller agree on the toggle, and every byte sent is in a buffer.
ExactInv ==
  step \in InFlight /\ transfers = 1 /\ TogglesInStep /\ SetupOver =>
    /\ ~overlay.halted => BytesRead + Held + Unsent = len
    /\ overlay.cur = 0 => left # Invalid /\ toggle = 1 /\ BytesRead = 0
    /\ overlay.cur \in 1..n /\ overlay.active =>
         /\ BytesRead = (overlay.cur - 1) * size
         /\ overlay.toggle = toggle /\ overlay.rem > 0
         /\ n > 1 => InPairs(overlay.rem, toggle)
    /\ overlay.cur \in 1..n /\ ~overlay.active /\ ~overlay.halted =>
         IF overlay.rem = 0
           THEN BytesRead = overlay.cur * size /\ (n > 1 => toggle = 1)
           ELSE left = Invalid
    /\ overlay.cur = Status => BytesRead = len

ControlInv ==
  ControlTypeOK /\ QuietInv /\ RingInv /\ AtMostInv /\ ExactInv /\ ReturnsBytesRead
-----------------------------------------------------------------------------
\* A set of naturals that is not empty has a least member.
LEMMA Least ==
  ASSUME NEW S \in SUBSET Nat, S # {}
  PROVE  \E m \in S : \A k \in S : m <= k
<1> DEFINE R == OpToRel(<, Nat)
<1>1. \A x, y \in Nat : <<x, y>> \in R <=> x < y
  BY DEF OpToRel
<1>2. IsWellFoundedOn(R, Nat)
  BY NatLessThanWellFounded, ZenonT(30)
<1> HIDE DEF R
<1>3. PICK m \in S : \A y \in S : ~ (<<y, m>> \in R)
  BY <1>2, WFMin, ZenonT(30)
<1>4. ASSUME NEW k \in S PROVE m <= k
  <2>1. ~(<<k, m>> \in R) /\ k \in Nat /\ m \in Nat
    BY <1>3
  <2> QED
    BY <2>1, <1>1, SMTT(30)
<1> QED
  BY <1>3, <1>4

\* The sums of the code's loop, one for every number of buffers it has passed.
IsRead(f, qtds, m, sz) ==
  /\ f \in [0..m -> Int] /\ f[0] = 0
  /\ \A q \in 1..m : f[q] = f[q - 1] + (sz - qtds[q].rem)

\* There are such sums.
LEMMA SumsExist ==
  ASSUME NEW m \in Nat, NEW sz \in Int, NEW qtds, \A q \in 1..m : qtds[q].rem \in Int
  PROVE  \E f : IsRead(f, qtds, m, sz)
<1> DEFINE S == {k \in 0..m : \A f \in [0..k -> Int] : ~IsRead(f, qtds, k, sz)}
<1>1. S = {}
  <2> SUFFICES ASSUME S # {} PROVE FALSE
    OBVIOUS
  <2>1. S \in SUBSET Nat /\ S \subseteq 0..m
    BY SMTT(30)
  <2>2. \A k \in S : \A f \in [0..k -> Int] : ~IsRead(f, qtds, k, sz)
    OBVIOUS
  <2>3. \A k \in 0..m : k \notin S => \E f \in [0..k -> Int] : IsRead(f, qtds, k, sz)
    OBVIOUS
  <2> HIDE DEF S
  <2>4. PICK k \in S : \A h \in S : k <= h
    BY <2>1, Least, ZenonT(30)
  <2>5. k \in 0..m
    BY <2>1
  <2>6. CASE k = 0
    <3> DEFINE f == [q \in 0..0 |-> 0]
    <3>1. f \in [0..0 -> Int] /\ f[0] = 0
      BY SMTT(30)
    <3> HIDE DEF f
    <3>2. IsRead(f, qtds, 0, sz)
      BY <3>1, SMTT(30) DEF IsRead
    <3>3. f \in [0..k -> Int] /\ IsRead(f, qtds, k, sz)
      BY <2>6, <3>1, <3>2
    <3> QED
      BY <2>2, <3>3, ZenonT(30)
  <2>7. CASE k # 0
    <3>1. k - 1 \in 0..m /\ ~(k <= k - 1) /\ k \in 1..m
      BY <2>5, <2>7, SMTT(30)
    <3>2. PICK f \in [0..(k - 1) -> Int] : IsRead(f, qtds, k - 1, sz)
      BY <2>3, <2>4, <3>1
    <3> DEFINE g == [q \in 0..k |-> IF q = k THEN f[k - 1] + (sz - qtds[k].rem) ELSE f[q]]
    <3>3. f[k - 1] \in Int /\ qtds[k].rem \in Int /\ sz \in Int
      BY <3>1, <3>2, SMTT(30)
    <3>4. ASSUME NEW q \in 0..k PROVE g[q] \in Int
      <4>1. q = k \/ q \in 0..(k - 1)
        BY <3>1, SMTT(30)
      <4> QED
        BY <3>2, <3>3, <4>1, SMTT(30)
    <3>5. g \in [0..k -> Int]
      BY <3>4
    <3>6. g[0] = 0
      BY <3>1, <3>2, SMTT(30) DEF IsRead
    <3>7. ASSUME NEW q \in 1..k PROVE g[q] = g[q - 1] + (sz - qtds[q].rem)
      <4>1. q \in 0..k /\ q - 1 \in 0..k /\ q - 1 # k /\ g[q - 1] = f[q - 1]
        BY <3>1, SMTT(30)
      <4>2. CASE q = k
        BY <4>1, <4>2
      <4>3. CASE q # k
        <5>1. q \in 1..(k - 1) /\ g[q] = f[q]
          BY <3>1, <4>1, <4>3, SMTT(30)
        <5>2. f[q] = f[q - 1] + (sz - qtds[q].rem)
          BY <3>2, <5>1 DEF IsRead
        <5> QED
          BY ONLY <4>1, <5>1, <5>2, SMTT(30)
      <4> QED
        BY <4>2, <4>3
    <3>8. IsRead(g, qtds, k, sz)
      BY <3>5, <3>6, <3>7 DEF IsRead
    <3> QED
      BY <2>2, <3>5, <3>8
  <2> QED
    BY <2>6, <2>7
<1>2. m \in 0..m
  BY SMTT(30)
<1> QED
  BY <1>1, <1>2

\* ReadBy is the last of them.
LEMMA ReadByIsSum ==
  ASSUME NEW m \in Nat, NEW sz \in Int, NEW qtds, \A q \in 1..m : qtds[q].rem \in Int
  PROVE  \E f : IsRead(f, qtds, m, sz) /\ ReadBy(qtds, m, sz) = f[m]
<1> DEFINE R(f) == f = [q \in 0..m |-> IF q = 0 THEN 0 ELSE f[q - 1] + (sz - qtds[q].rem)]
           read == CHOOSE f : R(f)
<1>1. PICK g : IsRead(g, qtds, m, sz)
  BY SumsExist
<1>2. R(g)
  <2>1. \A q \in 0..m : g[q] = IF q = 0 THEN 0 ELSE g[q - 1] + (sz - qtds[q].rem)
    <3> SUFFICES ASSUME NEW q \in 0..m
                 PROVE  g[q] = IF q = 0 THEN 0 ELSE g[q - 1] + (sz - qtds[q].rem)
      OBVIOUS
    <3>1. q = 0 \/ q \in 1..m
      BY SMTT(30)
    <3> QED
      BY <1>1, <3>1 DEF IsRead
  <2>2. g = [q \in 0..m |-> g[q]]
    BY <1>1 DEF IsRead
  <2> QED
    BY <2>1, <2>2
<1>3. R(read)
  <2> HIDE DEF R
  <2> QED
    BY <1>2, ZenonT(30)
<1>4. read[0] = 0 /\ \A q \in 1..m : read[q] = read[q - 1] + (sz - qtds[q].rem)
  <2> HIDE DEF read
  <2> QED
    BY <1>3, SMTT(30)
<1>5. ReadBy(qtds, m, sz) = read[m]
  BY DEF ReadBy
<1> HIDE DEF read
<1> DEFINE S == {k \in 0..m : read[k] # g[k]}
<1>6. S = {}
  <2> SUFFICES ASSUME S # {} PROVE FALSE
    OBVIOUS
  <2>1. S \in SUBSET Nat /\ S \subseteq 0..m
    BY SMTT(30)
  <2>2. \A k \in S : read[k] # g[k]
    OBVIOUS
  <2>3. \A k \in 0..m : k \notin S => read[k] = g[k]
    OBVIOUS
  <2> HIDE DEF S
  <2>4. PICK k \in S : \A h \in S : k <= h
    BY <2>1, Least, ZenonT(30)
  <2>5. k \in 1..m
    BY <1>1, <1>4, <2>1, <2>2, SMTT(30) DEF IsRead
  <2>6. k - 1 \in 0..m /\ ~(k <= k - 1)
    BY <2>5, SMTT(30)
  <2>7. read[k - 1] = g[k - 1]
    BY <2>3, <2>4, <2>6
  <2>8. read[k] = read[k - 1] + (sz - qtds[k].rem)
    BY <1>4, <2>5
  <2>9. g[k] = g[k - 1] + (sz - qtds[k].rem)
    BY <1>1, <2>5 DEF IsRead
  <2> QED
    BY <2>2, <2>7, <2>8, <2>9
<1>7. read[m] = g[m]
  <2>1. m \in 0..m
    BY SMTT(30)
  <2> QED
    BY <1>6, <2>1
<1> QED
  BY <1>1, <1>5, <1>7

\* Of the QTDs 1..m only c has other bytes left, fewer by d.
Fewer(a, b, m, c, d) ==
  \A q \in 1..m : /\ a[q].rem \in Int /\ b[q].rem \in Int
                  /\ a[q].rem - b[q].rem = IF q = c THEN d ELSE 0

\* A change of the bytes left of one QTD changes the sum by as much.
LEMMA ReadChange ==
  ASSUME NEW m \in Nat, NEW sz \in Int, NEW a, NEW b, NEW c \in 1..(m + 1), NEW d \in Int,
         Fewer(a, b, m, c, d)
  PROVE  /\ ReadBy(a, m, sz) \in Int
         /\ ReadBy(b, m, sz) = ReadBy(a, m, sz) + (IF c <= m THEN d ELSE 0)
<1>0. \A q \in 1..m : /\ a[q].rem \in Int /\ b[q].rem \in Int
                       /\ a[q].rem - b[q].rem = IF q = c THEN d ELSE 0
  BY DEF Fewer
<1>1. PICK f : IsRead(f, a, m, sz) /\ ReadBy(a, m, sz) = f[m]
  BY <1>0, ReadByIsSum
<1>2. PICK g : IsRead(g, b, m, sz) /\ ReadBy(b, m, sz) = g[m]
  BY <1>0, ReadByIsSum
<1>3. \A q \in 0..m : f[q] \in Int /\ g[q] \in Int
  BY <1>1, <1>2 DEF IsRead
<1> DEFINE S == {k \in 0..m : g[k] # f[k] + (IF c <= k THEN d ELSE 0)}
<1>4. S = {}
  <2> SUFFICES ASSUME S # {} PROVE FALSE
    OBVIOUS
  <2>1. S \in SUBSET Nat /\ S \subseteq 0..m
    BY SMTT(30)
  <2>2. \A k \in S : g[k] # f[k] + (IF c <= k THEN d ELSE 0)
    OBVIOUS
  <2>3. \A k \in 0..m : k \notin S => g[k] = f[k] + (IF c <= k THEN d ELSE 0)
    OBVIOUS
  <2> HIDE DEF S
  <2>4. PICK k \in S : \A h \in S : k <= h
    BY <2>1, Least, ZenonT(30)
  <2>5. k \in 1..m
    <3>1. f[0] = 0 /\ g[0] = 0
      BY <1>1, <1>2 DEF IsRead
    <3> QED
      BY <2>1, <2>2, <3>1, SMTT(30)
  <2>6. k - 1 \in 0..m /\ ~(k <= k - 1) /\ k \in 0..m
    BY <2>5, SMTT(30)
  <2>7. g[k - 1] = f[k - 1] + (IF c <= k - 1 THEN d ELSE 0)
    BY <2>3, <2>4, <2>6
  <2>8. f[k] = f[k - 1] + (sz - a[k].rem) /\ g[k] = g[k - 1] + (sz - b[k].rem)
    BY <1>1, <1>2, <2>5 DEF IsRead
  <2>9. /\ f[k] \in Int /\ g[k] \in Int /\ f[k - 1] \in Int /\ g[k - 1] \in Int
        /\ a[k].rem \in Int /\ b[k].rem \in Int /\ sz \in Int
        /\ a[k].rem - b[k].rem = IF k = c THEN d ELSE 0
    BY <1>0, <1>3, <2>5, <2>6, SMTT(30)
  <2>10. g[k] = f[k] + (IF c <= k THEN d ELSE 0)
    <3>1. CASE k = c
      BY <2>5, <2>7, <2>8, <2>9, <3>1, SMTT(30)
    <3>2. CASE k # c
      BY <2>5, <2>7, <2>8, <2>9, <3>2, SMTT(30)
    <3> QED
      BY <3>1, <3>2
  <2> QED
    BY <2>2, <2>10
<1>5. g[m] = f[m] + (IF c <= m THEN d ELSE 0)
  <2>1. m \in 0..m
    BY SMTT(30)
  <2> QED
    BY <1>4, <2>1
<1> QED
  BY <1>1, <1>2, <1>3, <1>5, SMTT(30)

\* Nothing is read while every QTD has all of its bytes left.
LEMMA ReadNothing ==
  ASSUME NEW m \in Nat, NEW sz \in Int, NEW a, \A q \in 1..m : a[q].rem = sz
  PROVE  ReadBy(a, m, sz) = 0
<1>1. PICK f : IsRead(f, a, m, sz) /\ ReadBy(a, m, sz) = f[m]
  BY ReadByIsSum
<1> DEFINE S == {k \in 0..m : f[k] # 0}
<1>2. S = {}
  <2> SUFFICES ASSUME S # {} PROVE FALSE
    OBVIOUS
  <2>1. S \in SUBSET Nat /\ S \subseteq 0..m
    BY SMTT(30)
  <2>2. \A k \in S : f[k] # 0
    OBVIOUS
  <2>3. \A k \in 0..m : k \notin S => f[k] = 0
    OBVIOUS
  <2> HIDE DEF S
  <2>4. PICK k \in S : \A h \in S : k <= h
    BY <2>1, Least, ZenonT(30)
  <2>5. k \in 1..m
    BY <1>1, <2>1, <2>2, SMTT(30) DEF IsRead
  <2>6. k - 1 \in 0..m /\ ~(k <= k - 1)
    BY <2>5, SMTT(30)
  <2>7. f[k - 1] = 0
    BY <2>3, <2>4, <2>6
  <2>8. f[k] = f[k - 1] + (sz - a[k].rem) /\ a[k].rem = sz
    BY <1>1, <2>5 DEF IsRead
  <2> QED
    BY <2>2, <2>7, <2>8, SMTT(30)
<1>3. m \in 0..m
  BY SMTT(30)
<1> QED
  BY <1>1, <1>2, <1>3

-----------------------------------------------------------------------------
\* The fields of a QTD as it is written.
LEMMA Written ==
  ASSUME NEW m \in Nat, NEW sz \in Nat, NEW q \in 0..(m + 1)
  PROVE  /\ WriteQtd(q, m, sz) \in QtdType /\ WriteQtd(q, m, sz).active
         /\ WriteQtd(q, m, sz).toggle = IF q = 0 THEN 0 ELSE 1
         /\ q \in 1..m => /\ WriteQtd(q, m, sz).rem = sz /\ WriteQtd(q, m, sz).alt = m + 1
                          /\ WriteQtd(q, m, sz).next = q + 1
         /\ q = 0 => /\ WriteQtd(q, m, sz).rem = 0 /\ WriteQtd(q, m, sz).alt = Invalid
                     /\ WriteQtd(q, m, sz).next = 1
         /\ q = m + 1 => /\ WriteQtd(q, m, sz).rem = 0 /\ WriteQtd(q, m, sz).alt = Invalid
                         /\ WriteQtd(q, m, sz).next = Invalid
<1> DEFINE w == WriteQtd(q, m, sz)
<1>2. w \in QtdType
  BY SMTT(30) DEF WriteQtd, QtdType, Invalid, Toggle
<1>3. w.active /\ w.toggle = IF q = 0 THEN 0 ELSE 1
  BY DEF WriteQtd
<1>4. /\ w.rem = IF q \in 1..m THEN sz ELSE 0
      /\ w.next = IF q = m + 1 THEN Invalid ELSE q + 1
      /\ w.alt = IF q \in 1..m THEN m + 1 ELSE Invalid
  BY DEF WriteQtd
<1> HIDE DEF w
<1>5. /\ q \in 1..m => q # m + 1
      /\ q = 0 => q \notin 1..m /\ q # m + 1 /\ q + 1 = 1
      /\ q = m + 1 => q \notin 1..m
  BY SMTT(30)
<1>6. ASSUME q \in 1..m PROVE w.rem = sz /\ w.alt = m + 1 /\ w.next = q + 1
  BY <1>4, <1>5, <1>6, ZenonT(30)
<1>7. ASSUME q = 0 PROVE w.rem = 0 /\ w.alt = Invalid /\ w.next = 1
  BY <1>4, <1>5, <1>7, ZenonT(30)
<1>8. ASSUME q = m + 1 PROVE w.rem = 0 /\ w.alt = Invalid /\ w.next = Invalid
  BY <1>4, <1>5, <1>8, ZenonT(30)
<1> QED
  BY <1>2, <1>3, <1>6, <1>7, <1>8, ZenonT(30) DEF w

\* The QTDs a transfer with m buffers writes.
LEMMA QtdsOf ==
  ASSUME NEW m \in 0..MaxBuffers
  PROVE  /\ m \in Nat
         /\ \A q \in Qtd : q <= m + 1 => q \in 0..(m + 1)
         /\ \A q \in 0..(m + 1) : q \in Qtd /\ q <= m + 1
<1>1. m \in Nat /\ MaxBuffers \in Nat /\ m <= MaxBuffers
  BY ControlAssumption, SMTT(30)
<1> QED
  BY <1>1, SMTT(30) DEF Qtd

\* The bounds of n and of the QTDs of the transfer.
LEMMA Bounds ==
  ASSUME ControlTypeOK
  PROVE  /\ n \in Nat /\ Status \in Nat /\ Status = n + 1 /\ len \in Nat /\ len <= n * size
         /\ size \in Nat /\ 0..Status \subseteq Qtd /\ 1..n \subseteq Qtd
         /\ Invalid = -1 /\ left \in Int /\ overlay.rem \in Nat
         /\ \A q \in Qtd : qtd[q] \in QtdType /\ qtd[q].rem \in Nat
<1>1. /\ MaxBuffers \in Nat /\ size \in Nat /\ n \in 0..MaxBuffers /\ left \in Int
      /\ qtd \in [Qtd -> QtdType] /\ overlay \in OverlayType
  BY ControlAssumption DEF ControlTypeOK
<1>2. n * size \in Nat /\ n \in Nat
  BY <1>1, SMTT(30)
<1>3. len \in Nat /\ len <= n * size
  BY <1>2, SMTT(30) DEF ControlTypeOK
<1>4. \A q \in Qtd : qtd[q] \in QtdType /\ qtd[q].rem \in Nat
  BY <1>1 DEF QtdType
<1>5. overlay.rem \in Nat
  BY <1>1 DEF OverlayType
<1>6. Status \in Nat /\ Status = n + 1 /\ 0..Status \subseteq Qtd /\ 1..n \subseteq Qtd /\ Invalid = -1
  BY <1>1, <1>2, SMTT(30) DEF Status, Qtd, Invalid
<1> QED
  BY <1>1, <1>2, <1>3, <1>4, <1>5, <1>6

\* What has been read is a number.
LEMMA ReadIsInt ==
  ASSUME ControlTypeOK
  PROVE  BytesRead \in Int
<1>1. n \in Nat /\ size \in Int /\ \A q \in 1..n : qtd[q].rem \in Int
  BY Bounds, SMTT(30)
<1>2. PICK f : IsRead(f, qtd, n, size) /\ ReadBy(qtd, n, size) = f[n]
  BY <1>1, ReadByIsSum
<1>3. f[n] \in Int
  BY <1>1, <1>2, SMTT(30) DEF IsRead
<1> QED
  BY <1>2, <1>3 DEF BytesRead

\* So are the bytes in the buffer at work and those the device has still to send.
LEMMA HeldIsInt ==
  ASSUME ControlTypeOK
  PROVE  Held \in Int /\ Unsent \in Int /\ Unsent >= 0
<1>1. size \in Nat /\ overlay.rem \in Nat /\ left \in Int /\ left >= Invalid /\ Invalid = -1
  BY Bounds DEF ControlTypeOK
<1> QED
  BY <1>1, SMTT(30) DEF Held, Unsent

\* Control is where it was: nothing the invariant speaks of changes but the
\* caller's place in its wait.
LEMMA WaitingKeeps ==
  ASSUME ControlInv, UNCHANGED <<transfers, n, size, len, overlay, qtd, left, toggle, bytes>>,
         step' = step \/ (step \in {"check", "wait", "asleep"} /\ step' \in {"check", "wait", "asleep"})
  PROVE  ControlInv'
<1>1. /\ Status' = Status /\ BytesRead' = BytesRead /\ (Begun' <=> Begun)
      /\ (SetupOver' <=> SetupOver) /\ Held' = Held /\ Unsent' = Unsent
      /\ (TogglesInStep' <=> TogglesInStep)
  BY DEF Status, BytesRead, Begun, SetupOver, Held, Unsent, TogglesInStep
<1>2. ControlTypeOK'
  BY DEF ControlInv, ControlTypeOK, Quiet, InFlight
<1>3. QuietInv'
  BY <1>1 DEF ControlInv, QuietInv, Quiet
<1>4. RingInv'
  BY <1>1 DEF ControlInv, RingInv, InFlight
<1>5. AtMostInv'
  BY <1>1 DEF ControlInv, AtMostInv, InFlight
<1>6. ExactInv'
  BY <1>1 DEF ControlInv, ExactInv, InFlight
<1>7. ReturnsBytesRead'
  BY <1>1 DEF ControlInv, ReturnsBytesRead
<1> QED
  BY <1>2, <1>3, <1>4, <1>5, <1>6, <1>7 DEF ControlInv

\* Once the status QTD has retired the controller is through.
LEMMA StatusIsLast ==
  ASSUME ControlTypeOK, RingInv, step \in InFlight, ~qtd[Status].active
  PROVE  /\ Begun /\ SetupOver /\ overlay.cur = Status /\ ~overlay.active
         /\ overlay.next = Invalid /\ overlay.alt = Invalid
<1>1. n \in Nat /\ size \in Nat /\ Status \in Nat /\ Status = n + 1 /\ Status \in 0..(n + 1)
  BY Bounds, SMTT(30)
<1>2. qtd[Status] # WriteQtd(Status, n, size)
  <2>1. WriteQtd(Status, n, size).active
    BY <1>1, Written, ZenonT(30)
  <2> QED
    BY <2>1, ZenonT(30)
<1>3. Begun /\ overlay.cur \in 0..Status /\ overlay.cur = Status /\ ~overlay.active
  <2>1. Begun
    BY <1>1, <1>2 DEF RingInv
  <2>2. overlay.cur \in 0..Status /\ \A q \in (overlay.cur + 1)..Status : qtd[q] = WriteQtd(q, n, size)
    BY <2>1 DEF RingInv
  <2>3. overlay.cur = Status
    BY <1>1, <1>2, <2>2, SMTT(30)
  <2>4. ~overlay.active
    BY <1>2, <2>1, <2>3 DEF RingInv
  <2> QED
    BY <2>1, <2>2, <2>3, <2>4
<1>4. overlay.next = WriteQtd(Status, n, size).next /\ overlay.alt = WriteQtd(Status, n, size).alt
  BY <1>1, <1>3 DEF RingInv
<1>5. overlay.next = Invalid /\ overlay.alt = Invalid
  BY ONLY <1>1, <1>4, Written, SMTT(30)
<1> QED
  BY <1>3, <1>5 DEF SetupOver

\* wait_for_qtd_complete returns.
LEMMA ReturnsKeeps == ControlInv /\ TransferReturns => ControlInv'
<1> SUFFICES ASSUME ControlInv, TransferReturns PROVE ControlInv'
  OBVIOUS
<1>1. /\ step = "check" /\ step' = "returned" /\ bytes' = BytesRead
      /\ UNCHANGED <<transfers, n, size, len, overlay, qtd, left, toggle>> /\ ~qtd[Status].active
  BY DEF TransferReturns, AwaitedQtd
<1>2. step \in InFlight /\ step' \in Quiet /\ step' \notin InFlight
  BY <1>1 DEF InFlight, Quiet
<1>3. /\ SetupOver /\ overlay.cur = Status /\ ~overlay.active
      /\ overlay.next = Invalid /\ overlay.alt = Invalid
  BY <1>1, <1>2, StatusIsLast DEF ControlInv
<1>4. ControlTypeOK'
  BY <1>1, <1>2 DEF ControlInv, ControlTypeOK
<1>5. QuietInv'
  <2>1. left = Invalid
    BY <1>1, <1>2 DEF ControlInv, AtMostInv
  <2>2. transfers # 0
    BY <1>1 DEF ControlInv, QuietInv
  <2> QED
    BY <1>1, <1>3, <2>1, <2>2 DEF QuietInv
<1>6. ReturnsBytesRead'
  <2>1. BytesRead <= len
    <3>1. BytesRead + Held <= len /\ Held = 0
      BY <1>2, <1>3 DEF ControlInv, AtMostInv, Held
    <3>2. BytesRead \in Int
      BY ReadIsInt DEF ControlInv
    <3> QED
      BY <3>1, <3>2, SMTT(30)
  <2>2. transfers = 1 /\ TogglesInStep => BytesRead = len
    BY <1>2, <1>3 DEF ControlInv, ExactInv
  <2>3. TogglesInStep' <=> TogglesInStep
    BY <1>1 DEF TogglesInStep
  <2> QED
    BY <1>1, <2>1, <2>2, <2>3 DEF ReturnsBytesRead
<1> QED
  BY <1>2, <1>4, <1>5, <1>6 DEF ControlInv, RingInv, AtMostInv, ExactInv

\* The caller goes on.
LEMMA ResumeKeeps == ControlInv /\ Resume => ControlInv'
<1> SUFFICES ASSUME ControlInv, Resume PROVE ControlInv'
  OBVIOUS
<1>1. /\ step = "returned" /\ step' = "idle" /\ UNCHANGED <<transfers, n, size, len, overlay, qtd, left, toggle, bytes>>
  BY DEF Resume
<1>2. ControlTypeOK'
  BY <1>1 DEF ControlInv, ControlTypeOK, Quiet, InFlight
<1>3. QuietInv'
  BY <1>1 DEF ControlInv, QuietInv, Quiet
<1> QED
  BY <1>1, <1>2, <1>3 DEF ControlInv, RingInv, AtMostInv, ExactInv, InFlight, ReturnsBytesRead

\* The QTDs of a new transfer are written while the overlay leads nowhere.
LEMMA BeginKeeps == ControlInv /\ Begin => ControlInv'
<1> SUFFICES ASSUME ControlInv, Begin PROVE ControlInv'
  OBVIOUS
<1>1. /\ step = "idle" /\ step' = "attach" /\ transfers' = transfers + 1
      /\ UNCHANGED <<overlay, left, toggle>>
  BY DEF Begin
<1>2. PICK m \in 0..MaxBuffers, sz \in Sizes : \E l \in 0..(m * sz) :
        /\ n' = m /\ size' = sz /\ len' = l
        /\ qtd' = [q \in Qtd |-> IF q <= m + 1 THEN WriteQtd(q, m, sz) ELSE qtd[q]]
  BY DEF Begin
<1>s. sz \in Nat /\ sz > 0
  BY ControlAssumption, SMTT(30)
<1>3. ASSUME NEW q \in 0..(m + 1) PROVE WriteQtd(q, m, sz) \in QtdType /\ qtd'[q] = WriteQtd(q, m, sz)
  <2>1. q \in Qtd /\ q <= m + 1 /\ m \in Nat
    BY QtdsOf
  <2>2. qtd'[q] = WriteQtd(q, m, sz)
    BY <1>2, <2>1
  <2>3. WriteQtd(q, m, sz) \in QtdType
    BY <1>s, <2>1, Written, ZenonT(30)
  <2> QED
    BY <2>2, <2>3
<1>4. ControlTypeOK'
  <2>1. ASSUME NEW q \in Qtd, ~(q <= m + 1) PROVE qtd'[q] = qtd[q] /\ qtd[q] \in QtdType
    BY <1>2, <2>1 DEF ControlInv, ControlTypeOK
  <2>2. ASSUME NEW q \in Qtd PROVE qtd'[q] \in QtdType
    <3>1. CASE q <= m + 1
      <4>1. q \in 0..(m + 1)
        BY <3>1, QtdsOf
      <4> QED
        BY <4>1, <1>3
    <3> QED
      BY <2>1, <3>1
  <2>3. qtd' \in [Qtd -> QtdType]
    BY <1>2, <2>2
  <2>4. transfers' \in Nat /\ step' \in Quiet
    BY <1>1, SMTT(30) DEF ControlInv, ControlTypeOK, Quiet
  <2> QED
    BY <1>1, <1>2, <1>s, <2>3, <2>4 DEF ControlInv, ControlTypeOK
<1>5. \A q \in 0..Status' : qtd'[q] = WriteQtd(q, n', size')
  <2>1. Status' = m + 1 /\ n' = m /\ size' = sz
    BY <1>2 DEF Status
  <2> QED
    BY <1>3, <2>1
<1>6. QuietInv'
  <2>1. /\ ~overlay.active /\ overlay.next = Invalid /\ overlay.alt = Invalid
        /\ left = Invalid /\ (transfers = 0 => overlay.halted) /\ transfers \in Nat
    BY <1>1 DEF ControlInv, QuietInv, Quiet, ControlTypeOK
  <2>2. transfers' # 0 /\ (transfers' = 1 => overlay'.halted)
    BY <1>1, <2>1, SMTT(30)
  <2> QED
    BY <1>1, <1>5, <2>1, <2>2 DEF QuietInv
<1> QED
  BY <1>1, <1>4, <1>6 DEF ControlInv, RingInv, AtMostInv, ExactInv, InFlight, ReturnsBytesRead

\* attach_qtd leads the overlay to the SETUP QTD.
LEMMA AttachNextKeeps == ControlInv /\ AttachNext => ControlInv'
<1> SUFFICES ASSUME ControlInv, AttachNext PROVE ControlInv'
  OBVIOUS
<1>1. /\ step = "attach" /\ step' = "token" /\ UNCHANGED <<transfers, n, size, len, qtd, left, toggle, bytes>>
      /\ overlay' = [overlay EXCEPT !.next = 0]
  BY DEF AttachNext
<1>2. /\ ~overlay.active /\ overlay.alt = Invalid /\ left = Invalid
      /\ \A q \in 0..Status : qtd[q] = WriteQtd(q, n, size)
  BY <1>1 DEF ControlInv, QuietInv, Quiet
<1>3. /\ overlay' \in OverlayType /\ ~overlay'.active /\ overlay'.next = 0 /\ overlay'.alt = Invalid
      /\ overlay'.halted = overlay.halted
  <2>1. overlay \in OverlayType
    BY DEF ControlInv, ControlTypeOK
  <2>2. overlay' \in OverlayType
    BY <1>1, <2>1, SMTT(30) DEF OverlayType
  <2> QED
    BY <1>1, <1>2, <2>1, <2>2 DEF OverlayType
<1>4. ControlTypeOK'
  BY <1>1, <1>3 DEF ControlInv, ControlTypeOK, Quiet, InFlight
<1>5. ~Begun' /\ ~SetupOver' /\ Status' = Status /\ BytesRead' = BytesRead
  BY <1>1, <1>3 DEF Begun, SetupOver, Status, BytesRead
<1>6. QuietInv'
  BY <1>1, <1>3, <1>5 DEF ControlInv, QuietInv, Quiet
<1>7. n \in Nat /\ size \in Nat /\ Status = n + 1 /\ len >= 0
  BY Bounds, SMTT(30) DEF ControlInv
<1>8. RingInv'
  <2>1. \A q \in 0..Status : qtd[q].next = WriteQtd(q, n, size).next /\ qtd[q].alt = WriteQtd(q, n, size).alt
    BY <1>2
  <2> QED
    BY <1>1, <1>2, <1>3, <1>5, <2>1 DEF RingInv
<1>9. AtMostInv'
  <2>1. \A q \in 1..n : qtd[q].rem = size
    <3> SUFFICES ASSUME NEW q \in 1..n PROVE qtd[q].rem = size
      OBVIOUS
    <3>1. q \in 0..Status
      BY <1>7, SMTT(30)
    <3>2. WriteQtd(q, n, size).rem = size
      BY DEF WriteQtd
    <3> QED
      BY <1>2, <3>1, <3>2
  <2>2. BytesRead = 0
    <3>1. size \in Int
      BY <1>7, SMTT(30)
    <3> QED
      BY <1>7, <2>1, <3>1, ReadNothing DEF BytesRead
  <2>3. BytesRead + 0 <= len
    BY <1>7, <2>2, SMTT(30) DEF ControlInv, ControlTypeOK
  <2>4. Held' = 0
    BY <1>3 DEF Held
  <2> QED
    BY <1>1, <1>2, <1>5, <2>3, <2>4 DEF AtMostInv
<1> QED
  BY <1>1, <1>4, <1>5, <1>6, <1>8, <1>9 DEF ControlInv, ExactInv, ReturnsBytesRead

\* The token takes the overlay from whatever QTD the controller has at work.
LEMMA AttachTokenKeeps == ControlInv /\ AttachToken => ControlInv'
<1> SUFFICES ASSUME ControlInv, AttachToken PROVE ControlInv'
  OBVIOUS
<1>1. /\ step = "token" /\ step' = "check" /\ UNCHANGED <<transfers, n, size, len, qtd, left, toggle, bytes>>
      /\ overlay' = [overlay EXCEPT !.active = FALSE, !.halted = FALSE, !.toggle = 0, !.rem = 0]
      /\ step \in InFlight /\ step' \in InFlight
  BY DEF AttachToken, InFlight
<1>3. /\ overlay' \in OverlayType /\ ~overlay'.active /\ ~overlay'.halted /\ overlay'.next = overlay.next
      /\ overlay'.alt = overlay.alt /\ overlay'.cur = overlay.cur
  <2>1. overlay \in OverlayType
    BY DEF ControlInv, ControlTypeOK
  <2> DEFINE o == [overlay EXCEPT !.active = FALSE]
             p == [o EXCEPT !.halted = FALSE]
             t == [p EXCEPT !.toggle = 0]
  <2>2. o \in OverlayType
    BY ONLY <2>1, ZenonT(30) DEF OverlayType
  <2> HIDE DEF o
  <2>3. p \in OverlayType
    BY ONLY <2>2, ZenonT(30) DEF OverlayType
  <2> HIDE DEF p
  <2>4. t \in OverlayType
    BY ONLY <2>3, ZenonT(30) DEF OverlayType, Toggle
  <2>5. 0 \in Nat /\ overlay' = [t EXCEPT !.rem = 0]
    BY <1>1, SMTT(30) DEF o, p
  <2> HIDE DEF t
  <2>6. overlay' \in OverlayType
    BY ONLY <2>4, <2>5, ZenonT(30) DEF OverlayType
  <2> QED
    BY <1>1, <2>1, <2>6 DEF OverlayType
<1>4. ControlTypeOK'
  BY <1>1, <1>3 DEF ControlInv, ControlTypeOK
<1>5. /\ (Begun' <=> Begun) /\ (SetupOver' <=> Begun) /\ Status' = Status /\ BytesRead' = BytesRead
      /\ Held' = 0
  BY <1>1, <1>3 DEF Begun, SetupOver, Status, BytesRead, Held
<1>6. QuietInv'
  BY <1>1 DEF ControlInv, QuietInv, Quiet
<1>7. RingInv'
  BY <1>1, <1>3, <1>5 DEF ControlInv, RingInv
<1>8. AtMostInv'
  <2>1. BytesRead \in Int /\ Held \in Int /\ len \in Int /\ left \in Int
    BY ReadIsInt, HeldIsInt, Bounds, SMTT(30) DEF ControlInv
  <2>2. Held >= 0
    <3>1. CASE overlay.active /\ overlay.cur \in 1..n
      <4>1. overlay.rem <= size
        <5>1. Begun
          BY <1>1, <3>1 DEF ControlInv, RingInv
        <5>2. overlay.rem <= WriteQtd(overlay.cur, n, size).rem
          BY <1>1, <3>1, <5>1 DEF ControlInv, RingInv
        <5> QED
          BY <3>1, <5>2 DEF WriteQtd
      <4>2. overlay.rem \in Int /\ size \in Int
        BY Bounds, SMTT(30) DEF ControlInv
      <4>3. Held = size - overlay.rem
        BY <3>1 DEF Held
      <4> QED
        BY <4>1, <4>2, <4>3, SMTT(30)
    <3>2. CASE ~(overlay.active /\ overlay.cur \in 1..n)
      BY <3>2, SMTT(30) DEF Held
    <3> QED
      BY <3>1, <3>2
  <2>3. /\ BytesRead + Held <= len
        /\ left # Invalid => SetupOver /\ BytesRead + Held + left <= len
        /\ ~qtd[Status].active => left = Invalid
    BY <1>1 DEF ControlInv, AtMostInv
  <2>4. BytesRead + 0 <= len /\ (left # Invalid => BytesRead + 0 + left <= len)
    BY <2>1, <2>2, <2>3, SMTT(30)
  <2> QED
    BY <1>1, <1>5, <2>3, <2>4 DEF AtMostInv, SetupOver
<1>9. ExactInv'
  <2>1. transfers = 1 => ~Begun
    BY <1>1 DEF ControlInv, QuietInv
  <2> QED
    BY <1>1, <1>5, <2>1 DEF ExactInv
<1> QED
  BY <1>1, <1>4, <1>6, <1>7, <1>8, <1>9 DEF ControlInv, ReturnsBytesRead

\* The QTD the controller takes up: SETUP, or the one after the QTD that has
\* retired, or the status QTD after a short packet.
LEMMA FetchedQtd ==
  ASSUME ControlInv, HcFetch
  PROVE  /\ step \in InFlight /\ HcNext \in 0..Status
         /\ ~Begun => HcNext = 0
         /\ Begun => overlay.cur \in 0..n /\ HcNext \in (overlay.cur + 1)..Status
         /\ Begun /\ overlay.cur = 0 => HcNext = 1
         /\ Begun /\ overlay.cur \in 1..n => HcNext = IF overlay.rem > 0 THEN Status ELSE overlay.cur + 1
         /\ qtd[HcNext] = WriteQtd(HcNext, n, size)
<1>1. ~overlay.active /\ ~overlay.halted /\ HcNext # Invalid
  BY DEF HcFetch
<1>2. HcNext = IF overlay.rem > 0 /\ overlay.alt # Invalid THEN overlay.alt ELSE overlay.next
  BY DEF HcNext
<1>3. step \in InFlight
  <2>1. step \in Quiet => overlay.next = Invalid /\ overlay.alt = Invalid
    BY DEF ControlInv, QuietInv
  <2>2. step \in Quiet \cup InFlight
    BY DEF ControlInv, ControlTypeOK
  <2> QED
    BY <1>1, <1>2, <2>1, <2>2
<1>4. n \in Nat /\ size \in Nat /\ Status = n + 1 /\ Invalid = -1 /\ overlay.rem \in Nat
  BY Bounds DEF ControlInv
<1>5. CASE ~Begun
  <2>1. HcNext = 0
    BY <1>2, <1>3, <1>5 DEF ControlInv, RingInv, Begun
  <2>2. 0 \in 0..Status
    BY <1>4, SMTT(30)
  <2>3. qtd[0] = WriteQtd(0, n, size)
    BY <1>3, <1>5, <2>2 DEF ControlInv, RingInv
  <2> QED
    BY <1>3, <1>5, <2>1, <2>2, <2>3
<1>6. CASE Begun
  <2>1. /\ overlay.cur \in 0..Status
        /\ overlay.next = WriteQtd(overlay.cur, n, size).next /\ overlay.alt = WriteQtd(overlay.cur, n, size).alt
        /\ \A q \in (overlay.cur + 1)..Status : qtd[q] = WriteQtd(q, n, size)
    BY <1>3, <1>6 DEF ControlInv, RingInv
  <2>2. overlay.cur \in 0..(n + 1)
    BY <1>4, <2>1
  <2>3. /\ overlay.cur \in 1..n => overlay.alt = n + 1 /\ overlay.next = overlay.cur + 1
        /\ overlay.cur = 0 => overlay.alt = Invalid /\ overlay.next = 1
        /\ overlay.cur = n + 1 => overlay.alt = Invalid /\ overlay.next = Invalid
    <3>1. PICK c : c = overlay.cur /\ c \in 0..(n + 1)
      BY <2>2
    <3>2. /\ c \in 1..n => WriteQtd(c, n, size).alt = n + 1 /\ WriteQtd(c, n, size).next = c + 1
          /\ c = 0 => WriteQtd(c, n, size).alt = Invalid /\ WriteQtd(c, n, size).next = 1
          /\ c = n + 1 => /\ WriteQtd(c, n, size).alt = Invalid
                         /\ WriteQtd(c, n, size).next = Invalid
      <4>1. n \in Nat /\ size \in Nat /\ c \in 0..(n + 1)
        BY <1>4, <3>1
      <4>2. c \in 1..n => WriteQtd(c, n, size).alt = n + 1 /\ WriteQtd(c, n, size).next = c + 1
        <5>1. c \in 1..n => c # n + 1
          BY <4>1, SMTT(30)
        <5> QED
          BY <5>1 DEF WriteQtd
      <4>3. c = 0 => WriteQtd(c, n, size).alt = Invalid /\ WriteQtd(c, n, size).next = 1
        BY ONLY <4>1, Written, ZenonT(30)
      <4>4. c = n + 1 => WriteQtd(c, n, size).alt = Invalid /\ WriteQtd(c, n, size).next = Invalid
        BY ONLY <4>1, Written, ZenonT(30)
      <4> QED
        BY <4>2, <4>3, <4>4
    <3> QED
      BY <2>1, <3>1, <3>2
  <2>4. overlay.cur # n + 1
    BY <1>1, <1>2, <2>3
  <2>5. overlay.cur = 0 \/ overlay.cur \in 1..n
    BY <1>4, <2>2, <2>4, SMTT(30)
  <2>6. CASE overlay.cur = 0
    <3>1. HcNext = 1
      BY <1>2, <2>3, <2>6
    <3>2. 1 \in (overlay.cur + 1)..Status /\ 1 \in 0..Status /\ overlay.cur \in 0..n /\ overlay.cur \notin 1..n
      BY <1>4, <2>6, SMTT(30)
    <3> QED
      BY <1>3, <1>6, <2>1, <3>1, <3>2
  <2>7. CASE overlay.cur \in 1..n
    <3>1. HcNext = IF overlay.rem > 0 THEN Status ELSE overlay.cur + 1
      BY <1>2, <1>4, <2>3, <2>7, SMTT(30)
    <3>2. /\ HcNext \in (overlay.cur + 1)..Status /\ HcNext \in 0..Status /\ overlay.cur # 0
          /\ overlay.cur \in 0..n
      BY <1>4, <2>7, <3>1, SMTT(30)
    <3> QED
      BY <1>3, <1>6, <2>1, <3>1, <3>2
  <2> QED
    BY <2>5, <2>6, <2>7
<1> QED
  BY <1>5, <1>6

\* The controller takes up a QTD.
LEMMA HcFetchKeeps == ControlInv /\ HcFetch => ControlInv'
<1> SUFFICES ASSUME ControlInv, HcFetch PROVE ControlInv'
  OBVIOUS
<1>0. PICK h : h = HcNext
  OBVIOUS
<1>1. /\ ~overlay.active /\ ~overlay.halted /\ UNCHANGED <<step, transfers, n, size, len, qtd, left, toggle, bytes>>
      /\ overlay' = [active |-> TRUE, halted |-> FALSE, toggle |-> qtd[h].toggle, rem |-> qtd[h].rem,
                     cur |-> h, next |-> qtd[h].next, alt |-> qtd[h].alt]
  BY <1>0 DEF HcFetch
<1>2. /\ step \in InFlight /\ h \in 0..Status
      /\ ~Begun => h = 0
      /\ Begun => overlay.cur \in 0..n /\ h \in (overlay.cur + 1)..Status
      /\ Begun /\ overlay.cur = 0 => h = 1
      /\ Begun /\ overlay.cur \in 1..n => h = IF overlay.rem > 0 THEN Status ELSE overlay.cur + 1
      /\ qtd[h] = WriteQtd(h, n, size)
  BY <1>0, FetchedQtd
<1>3. /\ n \in Nat /\ Status = n + 1 /\ size \in Nat /\ len \in Nat /\ len <= n * size /\ left \in Int
      /\ BytesRead \in Int /\ overlay.rem \in Nat
  BY Bounds, ReadIsInt DEF ControlInv
<1>4. /\ qtd[h] \in QtdType /\ h \in Int /\ qtd[h].next # 0
      /\ h \in 1..n => qtd[h].rem = size /\ qtd[h].toggle = 1
  <2>1. h \in 0..(n + 1) /\ h \in Int
    BY <1>2, <1>3, SMTT(30)
  <2>2. /\ WriteQtd(h, n, size) \in QtdType
        /\ WriteQtd(h, n, size).toggle = IF h = 0 THEN 0 ELSE 1
        /\ h \in 1..n => WriteQtd(h, n, size).next = h + 1 /\ WriteQtd(h, n, size).rem = size
        /\ h = 0 => WriteQtd(h, n, size).next = 1
        /\ h = n + 1 => WriteQtd(h, n, size).next = Invalid
    BY ONLY <1>3, <2>1, Written, SMTT(30)
  <2>3. h \in 1..n \/ h = 0 \/ h = n + 1
    BY <1>3, <2>1, SMTT(30)
  <2>4. (h \in 1..n => h + 1 # 0 /\ h # 0) /\ Invalid # 0
    BY SMTT(30) DEF Invalid
  <2>5. h \in 1..n => qtd[h].rem = size /\ qtd[h].toggle = 1
    BY <1>2, <2>2, <2>4
  <2>6. qtd[h].next # 0
    BY <1>2, <2>2, <2>3, <2>4, SMTT(30)
  <2> QED
    BY <1>2, <2>1, <2>2, <2>5, <2>6
<1>5. /\ overlay'.active /\ ~overlay'.halted /\ overlay'.cur = h /\ overlay'.rem = qtd[h].rem
      /\ overlay'.toggle = qtd[h].toggle
      /\ overlay'.next = qtd[h].next /\ overlay'.alt = qtd[h].alt /\ overlay' \in OverlayType
  BY <1>1, <1>4 DEF QtdType, OverlayType
<1>6. /\ Begun' /\ (SetupOver' <=> h # 0) /\ Status' = Status /\ BytesRead' = BytesRead
      /\ Unsent' = Unsent /\ (TogglesInStep' <=> TogglesInStep)
  BY <1>1, <1>4, <1>5 DEF Begun, SetupOver, Status, BytesRead, Unsent, TogglesInStep
<1>7. (h # 0 => Begun /\ SetupOver) /\ (h = 0 => ~SetupOver)
  <2>1. Begun => h # 0
    BY <1>2, <1>3, SMTT(30)
  <2> QED
    BY <1>1, <1>2, <2>1 DEF SetupOver
<1>h. Held = 0 /\ Held' = 0
  <2>1. h \in 1..n => size - qtd[h].rem = 0
    BY <1>3, <1>4, SMTT(30)
  <2> QED
    BY <1>1, <1>5, <2>1 DEF Held
<1>8. ControlTypeOK'
  BY <1>1, <1>5 DEF ControlInv, ControlTypeOK
<1>9. QuietInv'
  <2>1. step \notin Quiet
    BY <1>2 DEF Quiet, InFlight
  <2>2. ~(transfers = 0) /\ ~(transfers = 1 /\ step = "token")
    BY <1>1, <1>2 DEF ControlInv, QuietInv, InFlight
  <2> QED
    BY <1>1, <2>1, <2>2 DEF QuietInv, Quiet
<1>10. RingInv'
  <2>1. \A q \in 0..Status : qtd[q].next = WriteQtd(q, n, size).next /\ qtd[q].alt = WriteQtd(q, n, size).alt
    BY <1>2 DEF ControlInv, RingInv
  <2>2. \A q \in (h + 1)..Status : qtd[q] = WriteQtd(q, n, size)
    <3>1. CASE ~Begun
      <4>1. \A q \in 0..Status : qtd[q] = WriteQtd(q, n, size)
        BY <1>2, <3>1 DEF ControlInv, RingInv
      <4> QED
        BY <1>2, <1>3, <4>1, SMTT(30)
    <3>2. CASE Begun
      <4>1. \A q \in (overlay.cur + 1)..Status : qtd[q] = WriteQtd(q, n, size)
        BY <1>2, <3>2 DEF ControlInv, RingInv
      <4> QED
        BY <1>2, <1>3, <3>2, <4>1, SMTT(30)
    <3> QED
      BY <3>1, <3>2
  <2>3. qtd[h].rem <= WriteQtd(h, n, size).rem
    <3>1. qtd[h].rem \in Nat
      BY <1>4 DEF QtdType
    <3>2. qtd[h].rem <= qtd[h].rem
      BY <3>1, SMTT(30)
    <3> QED
      BY <1>2, <3>2
  <2> QED
    BY <1>1, <1>2, <1>5, <1>6, <2>1, <2>2, <2>3 DEF RingInv
<1>11. AtMostInv'
  BY <1>1, <1>2, <1>6, <1>7, <1>h DEF ControlInv, AtMostInv
<1>12. ExactInv'
  <2> SUFFICES ASSUME transfers = 1, TogglesInStep, h # 0
               PROVE  /\ BytesRead + Held + Unsent = len
                      /\ h \in 1..n => /\ BytesRead = (h - 1) * size /\ toggle = 1 /\ size > 0
                                       /\ n > 1 => InPairs(size, 1)
                      /\ h = Status => BytesRead = len
    BY <1>1, <1>4, <1>5, <1>6, <1>h DEF ExactInv
  <2>1. Begun /\ SetupOver /\ BytesRead + Held + Unsent = len
    BY <1>1, <1>2, <1>7 DEF ControlInv, ExactInv
  <2>2. overlay.cur = 0 \/ overlay.cur \in 1..n
    BY <1>2, <1>3, <2>1, SMTT(30)
  <2>3. size > 0
    BY SMTT(30) DEF ControlInv, ControlTypeOK
  <2>4. n > 1 => InPairs(size, 1)
    <3> SUFFICES ASSUME n > 1 PROVE InPairs(size, 1)
      OBVIOUS
    <3>1. PICK k \in 0..size : size = k * (2 * MaxPacket)
      BY <1>3, SMTT(30) DEF TogglesInStep
    <3>2. size = k * (2 * MaxPacket) + 0
      BY <1>3, <3>1, SMTT(30)
    <3> QED
      BY <3>2 DEF InPairs
  <2>5. BytesRead + Unsent = len /\ Unsent \in Int /\ Unsent >= 0
    BY <1>3, <1>h, <2>1, HeldIsInt, SMTT(30) DEF ControlInv
  <2>6. CASE overlay.cur = 0
    <3>1. left # Invalid /\ toggle = 1 /\ BytesRead = 0
      BY <1>2, <2>1, <2>6 DEF ControlInv, ExactInv
    <3>2. h = 1 /\ (h - 1) * size = 0
      BY <1>2, <1>3, <2>1, <2>6, SMTT(30)
    <3>3. h = Status => n * size = 0
      BY <1>3, <3>2, SMTT(30)
    <3>4. h = Status => BytesRead = len
      BY <1>3, <3>1, <3>3, SMTT(30)
    <3> QED
      BY <2>1, <2>3, <2>4, <3>1, <3>2, <3>4
  <2>7. CASE overlay.cur \in 1..n
    <3>1. IF overlay.rem = 0 THEN BytesRead = overlay.cur * size /\ (n > 1 => toggle = 1)
                             ELSE left = Invalid
      BY <1>1, <1>2, <2>1, <2>7 DEF ControlInv, ExactInv
    <3>2. CASE overlay.rem = 0
      <4>1. h = overlay.cur + 1
        BY <1>2, <2>1, <2>7, <3>2, SMTT(30)
      <4>2. (h - 1) * size = overlay.cur * size
        BY <2>7, <4>1, SMTT(30)
      <4>3. h = Status => overlay.cur = n
        BY <1>3, <2>7, <4>1, SMTT(30)
      <4>4. h \in 1..n => n > 1
        BY <1>3, <2>7, <4>1, SMTT(30)
      <4>5. h = Status => BytesRead = n * size
        BY <3>1, <3>2, <4>3
      <4>6. h = Status => BytesRead = len
        BY <1>3, <2>5, <4>5, SMTT(30)
      <4> QED
        BY <2>1, <2>3, <2>4, <3>1, <3>2, <4>2, <4>4, <4>6
    <3>3. CASE overlay.rem # 0
      <4>1. h = Status /\ h \notin 1..n
        BY <1>2, <1>3, <2>1, <2>7, <3>3, SMTT(30)
      <4>2. Unsent = 0
        BY <3>1, <3>3 DEF Unsent
      <4>3. BytesRead = len
        BY <1>3, <2>5, <4>2, SMTT(30)
      <4> QED
        BY <2>1, <4>1, <4>3
    <3> QED
      BY <3>2, <3>3
  <2> QED
    BY <2>2, <2>6, <2>7
<1> QED
  BY <1>1, <1>2, <1>8, <1>9, <1>10, <1>11, <1>12 DEF ControlInv, ReturnsBytesRead, InFlight

\* Retiring clears the active bit of a QTD.
LEMMA ActiveCleared ==
  ASSUME NEW y \in QtdType, NEW x, x = [y EXCEPT !.active = FALSE]
  PROVE  x \in QtdType /\ x.next = y.next /\ x.alt = y.alt
<1>0. y \in QtdType
  OBVIOUS
<1>1. [y EXCEPT !.active = FALSE] \in QtdType
  BY ONLY <1>0, ZenonT(30) DEF QtdType
<1>2. [y EXCEPT !.active = FALSE].next = y.next
  BY DEF QtdType
<1>3. [y EXCEPT !.active = FALSE].alt = y.alt
  BY DEF QtdType
<1> QED
  BY <1>1, <1>2, <1>3, ZenonT(30)

\* It writes the bytes left.
LEMMA RemWritten ==
  ASSUME NEW y \in QtdType, NEW rem \in Nat, NEW r, r = [y EXCEPT !.rem = rem]
  PROVE  r \in QtdType /\ r.next = y.next /\ r.alt = y.alt /\ r.rem = rem
BY DEF QtdType

\* The QTD at work retires with rem bytes of its buffer unused.
LEMMA Retired ==
  ASSUME ControlInv, overlay.active, NEW rem \in Nat, NEW halt \in BOOLEAN, Retire(rem, halt),
         UNCHANGED <<step, transfers, n, size, len, bytes>>,
         left' \in Int, left' >= Invalid, toggle' \in Toggle
  PROVE  /\ ControlTypeOK' /\ QuietInv' /\ RingInv' /\ ReturnsBytesRead'
         /\ step \in InFlight /\ SetupOver' /\ Status' = Status /\ (TogglesInStep' <=> TogglesInStep)
         /\ overlay.cur \in 0..Status /\ (SetupOver <=> overlay.cur # 0)
         /\ overlay'.cur = overlay.cur /\ ~overlay'.active /\ (overlay'.halted <=> halt)
         /\ overlay'.rem = rem
         /\ overlay.cur # Status => qtd'[Status].active
         /\ Held = (IF overlay.cur \in 1..n THEN size - overlay.rem ELSE 0) /\ Held' = 0
         /\ overlay.cur = 0 => BytesRead = 0
         /\ BytesRead' = BytesRead + (IF overlay.cur \in 1..n THEN size - rem ELSE 0)
<1>0. PICK c : c = overlay.cur
  OBVIOUS
<1>1. /\ overlay' = [overlay EXCEPT !.active = FALSE, !.halted = halt, !.rem = rem]
      /\ qtd' = [qtd EXCEPT ![c].active = FALSE, ![c].rem = rem]
  BY <1>0 DEF Retire
<1>2. step \in InFlight /\ step \notin Quiet
  BY DEF ControlInv, ControlTypeOK, QuietInv
<1>3. n \in Nat /\ Status = n + 1 /\ size \in Nat /\ 0..Status \subseteq Qtd
  BY Bounds DEF ControlInv
<1>4. Begun
  BY <1>2 DEF ControlInv, RingInv
<1>5. /\ c \in 0..Status /\ qtd[c] = WriteQtd(c, n, size)
      /\ overlay.next = qtd[c].next /\ overlay.alt = qtd[c].alt
      /\ \A q \in (c + 1)..Status : qtd[q] = WriteQtd(q, n, size)
      /\ \A q \in 0..Status : qtd[q].next = WriteQtd(q, n, size).next /\ qtd[q].alt = WriteQtd(q, n, size).alt
  BY <1>0, <1>2, <1>4 DEF ControlInv, RingInv
<1>6. overlay \in OverlayType /\ qtd \in [Qtd -> QtdType] /\ c \in Qtd
  BY <1>3, <1>5 DEF ControlInv, ControlTypeOK
<1>7. /\ overlay' \in OverlayType /\ overlay'.cur = c /\ ~overlay'.active /\ (overlay'.halted <=> halt)
      /\ overlay'.rem = rem /\ overlay'.next = overlay.next /\ overlay'.alt = overlay.alt
  <2> DEFINE o == [overlay EXCEPT !.active = FALSE]
  <2>1. o \in OverlayType
    BY ONLY <1>6, ZenonT(30) DEF OverlayType
  <2>2. [o EXCEPT !.halted = halt] \in OverlayType
    BY ONLY <2>1, ZenonT(30) DEF OverlayType
  <2>3. overlay' \in OverlayType
    BY ONLY <1>1, <2>2, ZenonT(30) DEF OverlayType, o
  <2> HIDE DEF o
  <2>4. overlay'.cur = c /\ overlay'.rem = rem /\ overlay'.next = overlay.next /\ overlay'.alt = overlay.alt
    BY <1>0, <1>1, <1>6 DEF OverlayType
  <2>5. ~overlay'.active /\ (overlay'.halted <=> halt)
    BY <1>1, <1>6 DEF OverlayType
  <2> QED
    BY <2>3, <2>4, <2>5
<1>8. /\ qtd' \in [Qtd -> QtdType]
      /\ qtd'[c].next = qtd[c].next /\ qtd'[c].alt = qtd[c].alt /\ qtd'[c].rem = rem
      /\ \A q \in Qtd : q # c => qtd'[q] = qtd[q]
  <2>1. PICK y : y = qtd[c]
    OBVIOUS
  <2>2. y \in QtdType
    BY <1>6, <2>1
  <2>3. PICK x : x = [y EXCEPT !.active = FALSE]
    BY ZenonT(30)
  <2>r. PICK r : r = [x EXCEPT !.rem = rem]
    BY ZenonT(30)
  <2>x. x \in QtdType /\ x.next = y.next /\ x.alt = y.alt
    BY ONLY <2>2, <2>3, ActiveCleared, ZenonT(30)
  <2>4. r \in QtdType /\ r.next = y.next /\ r.alt = y.alt /\ r.rem = rem
    <3>1. r \in QtdType /\ r.next = x.next /\ r.alt = x.alt /\ r.rem = rem
      BY ONLY <2>x, <2>r, RemWritten, SMTT(30)
    <3> QED
      BY ONLY <2>x, <3>1, SMTT(30)
  <2>5. \A q \in Qtd : qtd'[q] = IF q = c THEN r ELSE qtd[q]
    BY ONLY <1>1, <1>6, <2>1, <2>3, <2>r, SMTT(30)
  <2>6. qtd' \in [Qtd -> QtdType]
    <3>1. DOMAIN qtd' = Qtd /\ qtd' = [q \in DOMAIN qtd' |-> qtd'[q]]
      BY ONLY <1>1, <1>6, ZenonT(30)
    <3>2. \A q \in Qtd : qtd'[q] \in QtdType
      BY <1>6, <2>4, <2>5
    <3> QED
      BY <3>1, <3>2
  <2> QED
    BY <1>6, <2>1, <2>4, <2>5, <2>6
<1>9. /\ Begun' /\ SetupOver' /\ Status' = Status /\ (SetupOver <=> c # 0)
      /\ (TogglesInStep' <=> TogglesInStep)
  BY <1>0, <1>4, <1>7 DEF Begun, SetupOver, Status, TogglesInStep
<1>10. ControlTypeOK'
  BY <1>7, <1>8 DEF ControlInv, ControlTypeOK
<1>11. QuietInv'
  <2>1. ~(transfers = 0) /\ ~(transfers = 1 /\ step = "token")
    BY <1>2, <1>4 DEF ControlInv, QuietInv, InFlight
  <2> QED
    BY <1>2, <2>1 DEF QuietInv, Quiet
<1>12. RingInv'
  <2>1. \A q \in 0..Status : qtd'[q].next = WriteQtd(q, n, size).next /\ qtd'[q].alt = WriteQtd(q, n, size).alt
    BY <1>3, <1>5, <1>8, SMTT(30)
  <2>2. \A q \in (c + 1)..Status : q \in Qtd /\ q # c
    BY <1>3, <1>5, SMTT(30)
  <2>3. \A q \in (c + 1)..Status : qtd'[q] = WriteQtd(q, n, size)
    BY <1>5, <1>8, <2>2
  <2>4. overlay'.next = qtd'[c].next /\ overlay'.alt = qtd'[c].alt
    BY <1>5, <1>7, <1>8
  <2> QED
    BY <1>5, <1>7, <1>9, <2>1, <2>3, <2>4 DEF RingInv
<1>13. ReturnsBytesRead'
  BY <1>2 DEF ReturnsBytesRead, InFlight
<1>14. c # Status => qtd'[Status].active
  <2> SUFFICES ASSUME c # Status PROVE qtd'[Status].active
    OBVIOUS
  <2>1. Status \in (c + 1)..Status /\ Status \in 0..(n + 1) /\ Status \in Qtd
    BY <1>3, <1>5, SMTT(30)
  <2>2. qtd'[Status] = WriteQtd(Status, n, size)
    BY <1>5, <1>8, <2>1
  <2>3. WriteQtd(Status, n, size).active
    BY <1>3, <2>1, Written, ZenonT(30)
  <2> QED
    BY <2>2, <2>3
<1>15. Held = (IF c \in 1..n THEN size - overlay.rem ELSE 0) /\ Held' = 0
  BY <1>0, <1>7 DEF Held
<1>16. \A q \in 1..n : q \in Qtd /\ q \in 0..Status /\ qtd[q].rem \in Int /\ qtd'[q].rem \in Int
  <2>1. \A q \in 1..n : q \in Qtd /\ q \in 0..Status
    BY <1>3, SMTT(30)
  <2> QED
    BY <1>3, <1>6, <1>8, <2>1, SMTT(30) DEF QtdType
<1>17. ASSUME c = 0 PROVE BytesRead = 0
  <2>1. \A q \in 1..n : qtd[q] = WriteQtd(q, n, size)
    BY <1>3, <1>5, <1>17, SMTT(30)
  <2>2. \A q \in 1..n : qtd[q].rem = size
    <3> SUFFICES ASSUME NEW q \in 1..n PROVE qtd[q].rem = size
      OBVIOUS
    <3>1. WriteQtd(q, n, size).rem = size
      BY DEF WriteQtd
    <3> QED
      BY <2>1, <3>1
  <2>3. size \in Int
    BY <1>3, SMTT(30)
  <2>4. ReadBy(qtd, n, size) = 0
    BY ONLY <1>3, <2>2, <2>3, ReadNothing, ZenonT(30)
  <2> QED
    BY <2>4 DEF BytesRead
<1>18. BytesRead' = BytesRead + (IF c \in 1..n THEN size - rem ELSE 0)
  <2>0. BytesRead = ReadBy(qtd, n, size) /\ BytesRead' = ReadBy(qtd', n, size) /\ ReadBy(qtd, n, size) \in Int
    BY ReadIsInt DEF BytesRead, ControlInv
  <2>1. CASE c \in 1..n
    <3>1. qtd[c].rem = size
      <4>1. WriteQtd(c, n, size).rem = size
        BY <2>1 DEF WriteQtd
      <4> QED
        BY <1>5, <4>1
    <3>2. \A q \in 1..n : qtd[q].rem - qtd'[q].rem = IF q = c THEN size - rem ELSE 0
      BY <1>3, <1>8, <1>16, <3>1, SMTT(30)
    <3>3. c \in 1..(n + 1) /\ c <= n /\ size - rem \in Int /\ size \in Int
      BY <1>3, <2>1, SMTT(30)
    <3>4. \A q \in 1..n : qtd[q].rem \in Int /\ qtd'[q].rem \in Int
      BY <1>16
    <3>n. n \in Nat
      BY <1>3
    <3>d. PICK d \in Int : d = size - rem
      BY <3>3
    <3>5. ReadBy(qtd', n, size) = ReadBy(qtd, n, size) + (IF c <= n THEN d ELSE 0)
      <4>1. n \in Nat /\ size \in Int /\ c \in 1..(n + 1)
        BY <3>n, <3>3
      <4>2. Fewer(qtd, qtd', n, c, d)
        BY <3>2, <3>4, <3>d DEF Fewer
      <4> QED
        BY ONLY <4>1, <4>2, ReadChange, ZenonT(30)
    <3> QED
      BY <2>0, <2>1, <3>3, <3>5, <3>d
  <2>2. CASE c \notin 1..n
    <3>1. \A q \in 1..n : q # c
      BY <2>2
    <3>2. \A q \in 1..n : qtd[q].rem - qtd'[q].rem = IF q = n + 1 THEN 0 ELSE 0
      BY <1>8, <1>16, <3>1, SMTT(30)
    <3>3. n + 1 \in 1..(n + 1) /\ ~(n + 1 <= n) /\ 0 \in Int /\ size \in Int
      BY <1>3, SMTT(30)
    <3>4. \A q \in 1..n : qtd[q].rem \in Int /\ qtd'[q].rem \in Int
      BY <1>16
    <3>5. ReadBy(qtd', n, size) = ReadBy(qtd, n, size) + (IF n + 1 <= n THEN 0 ELSE 0)
      <4>1. n \in Nat /\ size \in Int /\ n + 1 \in 1..(n + 1) /\ 0 \in Int
        BY <1>3, <3>3
      <4>2. Fewer(qtd, qtd', n, n + 1, 0)
        BY <3>2, <3>4 DEF Fewer
      <4> QED
        BY ONLY <4>1, <4>2, ReadChange, ZenonT(30)
    <3> QED
      BY <2>0, <2>2, <3>5
  <2> QED
    BY <2>1, <2>2
<1> QED
  BY <1>0, <1>2, <1>5, <1>7, <1>9, <1>10, <1>11, <1>12, <1>13, <1>14, <1>15, <1>17, <1>18

\* The smaller of two numbers.
LEMMA MinOfTwo ==
  ASSUME NEW a \in Int, NEW b \in Int
  PROVE  Min({a, b}) = IF a <= b THEN a ELSE b
<1> DEFINE m == IF a <= b THEN a ELSE b
<1>1. m \in {a, b} /\ \A y \in {a, b} : m <= y
  BY SMTT(30)
<1>2. \A x \in {a, b} : (\A y \in {a, b} : x <= y) => x = m
  BY SMTT(30)
<1> HIDE DEF m
<1>3. Min({a, b}) = m
  BY <1>1, <1>2, ZenonT(30) DEF Min
<1> QED
  BY <1>3 DEF m

\* The next packet is no larger than what the device has left, and it is the
\* last one of the data stage if it is short.
LEMMA PacketIs ==
  ASSUME ControlInv, left # Invalid
  PROVE  /\ Packet \in Nat /\ Packet <= left /\ Packet <= MaxPacket /\ left \in Nat
         /\ LeftAfter \in Int /\ LeftAfter >= Invalid /\ LeftAfter \in {Invalid, left - Packet}
         /\ LeftAfter = Invalid => Packet = left
         /\ Packet < MaxPacket => LeftAfter = Invalid
<1>1. left \in Int /\ left >= Invalid /\ Invalid = -1 /\ MaxPacket \in Nat
  BY Bounds, ControlAssumption DEF ControlInv, ControlTypeOK
<1>2. left \in Nat
  BY <1>1, SMTT(30)
<1>3. Packet = IF MaxPacket <= left THEN MaxPacket ELSE left
  <2>1. MaxPacket \in Int /\ left \in Int
    BY <1>1, SMTT(30)
  <2> QED
    BY <2>1, MinOfTwo, ZenonT(30) DEF Packet
<1>4. LeftAfter = IF Packet < MaxPacket \/ (Packet = left /\ len = n * size) THEN Invalid ELSE left - Packet
  BY DEF LeftAfter
<1> QED
  BY <1>1, <1>2, <1>3, <1>4, SMTT(30)

\* A packet taken from a buffer of whole pairs of packets: a full one turns the
\* toggle, and one that fills the buffer is the second of a pair.
LEMMA PairTaken ==
  ASSUME NEW rem \in Nat, NEW t \in Toggle, InPairs(rem, t), rem > 0, NEW got \in Nat, got <= rem
  PROVE  /\ got = MaxPacket => InPairs(rem - got, 1 - t)
         /\ rem - got = 0 /\ got <= MaxPacket => 1 - t = 1
<1>0. MaxPacket \in Nat /\ MaxPacket >= 1
  BY ControlAssumption, SMTT(30)
<1>1. PICK k \in 0..rem : rem = k * (2 * MaxPacket) + (IF t = 1 THEN 0 ELSE MaxPacket)
  BY DEF InPairs
<1>2. PICK x \in Int : x = k * (2 * MaxPacket)
  BY <1>0, SMTT(30)
<1>3. k \in Nat /\ (k = 0 => x = 0) /\ x >= k
  BY <1>0, <1>2, SMTT(30)
<1>4. CASE t = 1
  <2>1. rem = x /\ k >= 1 /\ k - 1 \in Int
    BY <1>1, <1>2, <1>3, <1>4, SMTT(30)
  <2>2. (k - 1) * (2 * MaxPacket) = x - 2 * MaxPacket
    BY <1>0, <1>2, <1>3, SMTT(30)
  <2>3. x - 2 * MaxPacket >= k - 1
    <3>1. (k - 1) * (2 * MaxPacket) >= k - 1
      BY <1>0, <2>1, SMTT(30)
    <3> QED
      BY <2>2, <3>1
  <2>4. got = MaxPacket => rem - got = (k - 1) * (2 * MaxPacket) + MaxPacket /\ k - 1 \in 0..(rem - got)
    BY <1>0, <1>3, <2>1, <2>2, <2>3, SMTT(30)
  <2>5. 1 - t # 1
    BY <1>4, SMTT(30)
  <2>6. got = MaxPacket => InPairs(rem - got, 1 - t)
    BY <2>4, <2>5 DEF InPairs
  <2>7. ~(rem - got = 0 /\ got <= MaxPacket)
    BY <1>0, <1>3, <2>1, <2>3, SMTT(30)
  <2> QED
    BY <2>6, <2>7
<1>5. CASE t = 0
  <2>1. rem = x + MaxPacket /\ 1 - t = 1
    BY <1>1, <1>2, <1>5, SMTT(30)
  <2>2. got = MaxPacket => rem - got = k * (2 * MaxPacket) + 0 /\ k \in 0..(rem - got)
    BY <1>0, <1>2, <1>3, <2>1, SMTT(30)
  <2>3. got = MaxPacket => InPairs(rem - got, 1 - t)
    BY <2>1, <2>2 DEF InPairs
  <2> QED
    BY <2>1, <2>3
<1> QED
  BY <1>4, <1>5 DEF Toggle

\* The numbers of the transfer, and the other toggle.
LEMMA Numbers ==
  ASSUME ControlInv
  PROVE  /\ n \in Nat /\ Status = n + 1 /\ size \in Nat /\ len \in Nat /\ left \in Int /\ left >= Invalid
         /\ Invalid = -1 /\ BytesRead \in Int /\ Held \in Int /\ overlay.rem \in Nat
         /\ toggle \in Toggle /\ 1 - toggle \in Toggle
<1>1. toggle \in Toggle /\ left >= Invalid
  BY DEF ControlInv, ControlTypeOK
<1>2. 1 - toggle \in Toggle
  BY <1>1, SMTT(30) DEF Toggle
<1> QED
  BY <1>1, <1>2, Bounds, ReadIsInt, HeldIsInt DEF ControlInv

\* The device takes SETUP.
LEMMA HcSetupKeeps == ControlInv /\ HcSetup => ControlInv'
<1> SUFFICES ASSUME ControlInv, HcSetup PROVE ControlInv'
  OBVIOUS
<1>0. /\ overlay.active /\ overlay.cur = 0 /\ left' = len /\ toggle' = 1 /\ Retire(0, FALSE)
      /\ UNCHANGED <<step, transfers, n, size, len, bytes>>
  BY ZenonT(30) DEF HcSetup
<1>a. overlay.cur = 0 /\ left' = len /\ toggle' = 1 /\ UNCHANGED <<step, transfers, n, size, len, bytes>>
  BY <1>0
<1>1. left' \in Int /\ left' >= Invalid /\ left' # Invalid /\ toggle' \in Toggle /\ 0 \in Nat
  BY <1>a, Numbers, SMTT(30) DEF Toggle
<1>2. /\ ControlTypeOK' /\ QuietInv' /\ RingInv' /\ ReturnsBytesRead' /\ SetupOver' /\ Status' = Status
      /\ overlay'.cur = overlay.cur /\ (overlay.cur # Status => qtd'[Status].active)
      /\ (overlay.cur = 0 => BytesRead = 0) /\ Held' = 0
      /\ BytesRead' = BytesRead + (IF overlay.cur \in 1..n THEN size - 0 ELSE 0)
  BY <1>0, <1>1, Retired, ZenonT(30)
<1>3. overlay.cur # Status /\ overlay.cur \notin 1..n
  BY <1>a, Numbers, SMTT(30)
<1>4. BytesRead' = 0 /\ overlay'.cur = 0 /\ overlay'.cur \notin 1..n /\ overlay'.cur # Status
  BY <1>a, <1>2, <1>3, SMTT(30)
<1>5. BytesRead' + Held' <= len /\ BytesRead' + Held' + left' <= len /\ BytesRead' + Held' + left' = len
  BY <1>a, <1>2, <1>4, Numbers, SMTT(30)
<1>6. AtMostInv'
  BY <1>a, <1>1, <1>2, <1>3, <1>5 DEF AtMostInv
<1>7. ExactInv'
  BY <1>a, <1>1, <1>2, <1>4, <1>5 DEF ExactInv, Unsent
<1> QED
  BY <1>2, <1>6, <1>7 DEF ControlInv

\* The status stage ends the transfer.
LEMMA HcStatusKeeps == ControlInv /\ HcStatus => ControlInv'
<1> SUFFICES ASSUME ControlInv, HcStatus PROVE ControlInv'
  OBVIOUS
<1>0. /\ overlay.active /\ overlay.cur = Status /\ left' = Invalid /\ toggle' = toggle /\ Retire(0, FALSE)
      /\ UNCHANGED <<step, transfers, n, size, len, bytes>>
  BY ZenonT(30) DEF HcStatus
<1>a. /\ overlay.cur = Status /\ left' = Invalid /\ toggle' = toggle
      /\ UNCHANGED <<step, transfers, n, size, len, bytes>>
  BY <1>0
<1>1. left' \in Int /\ left' >= Invalid /\ toggle' \in Toggle /\ 0 \in Nat
  BY <1>a, Numbers, SMTT(30)
<1>2. /\ ControlTypeOK' /\ QuietInv' /\ RingInv' /\ ReturnsBytesRead' /\ SetupOver' /\ Status' = Status
      /\ overlay'.cur = overlay.cur /\ step \in InFlight /\ (SetupOver <=> overlay.cur # 0)
      /\ Held = (IF overlay.cur \in 1..n THEN size - overlay.rem ELSE 0) /\ Held' = 0
      /\ (TogglesInStep' <=> TogglesInStep)
      /\ BytesRead' = BytesRead + (IF overlay.cur \in 1..n THEN size - 0 ELSE 0)
  BY <1>0, <1>1, Retired, ZenonT(30)
<1>3. overlay.cur # 0 /\ overlay.cur \notin 1..n
  BY <1>a, Numbers, SMTT(30)
<1>4. BytesRead' = BytesRead /\ Held = 0
  BY <1>2, <1>3, Numbers, SMTT(30)
<1>5. AtMostInv'
  BY <1>a, <1>2, <1>4 DEF ControlInv, AtMostInv
<1>6. ExactInv'
  <2>1. transfers = 1 /\ TogglesInStep => BytesRead = len
    BY <1>a, <1>2, <1>3 DEF ControlInv, ExactInv
  <2>2. Unsent' = 0
    BY <1>a DEF Unsent
  <2>3. BytesRead = len => BytesRead + 0 + 0 = len
    BY Numbers, SMTT(30)
  <2> QED
    BY <1>a, <1>2, <1>3, <1>4, <2>1, <2>2, <2>3 DEF ExactInv
<1> QED
  BY <1>2, <1>5, <1>6 DEF ControlInv

\* The queue head is halted, by a stall or by a packet that does not fit.
LEMMA HaltsKeeps == ControlInv /\ (HcStalls \/ HcBabbles) => ControlInv'
<1> SUFFICES ASSUME ControlInv, HcStalls \/ HcBabbles PROVE ControlInv'
  OBVIOUS
<1>n. n \in Nat /\ Status = n + 1
  BY Numbers
<1>0. overlay.active /\ overlay.cur # 0 /\ Halts
  <2>1. 0 \notin 1..n
    BY <1>n, SMTT(30)
  <2> QED
    BY <2>1, ZenonT(30) DEF HcStalls, HcBabbles, Asking
<1>a. /\ overlay.cur # 0 /\ left' = Invalid /\ toggle' = toggle
      /\ UNCHANGED <<step, transfers, n, size, len, bytes>>
  BY <1>0 DEF Halts
<1>b. PICK rem \in Nat : rem = overlay.rem
  BY Numbers
<1>1. left' \in Int /\ left' >= Invalid /\ toggle' \in Toggle
  BY <1>a, Numbers, SMTT(30)
<1>c. overlay.active /\ Retire(rem, TRUE) /\ UNCHANGED <<step, transfers, n, size, len, bytes>>
  BY <1>0, <1>b, ZenonT(30) DEF Halts
<1>2. /\ ControlTypeOK' /\ QuietInv' /\ RingInv' /\ ReturnsBytesRead' /\ SetupOver' /\ Status' = Status
      /\ overlay'.cur = overlay.cur /\ step \in InFlight /\ (SetupOver <=> overlay.cur # 0)
      /\ overlay'.halted /\ ~overlay'.active
      /\ Held = (IF overlay.cur \in 1..n THEN size - overlay.rem ELSE 0) /\ Held' = 0
      /\ (TogglesInStep' <=> TogglesInStep)
      /\ BytesRead' = BytesRead + (IF overlay.cur \in 1..n THEN size - rem ELSE 0)
  BY <1>c, <1>1, Retired, ZenonT(30)
<1>3. BytesRead' = BytesRead + Held
  BY <1>b, <1>2
<1>4. AtMostInv'
  <2>1. BytesRead + Held <= len
    BY <1>2 DEF ControlInv, AtMostInv
  <2>2. BytesRead' + Held' <= len
    BY <1>2, <1>3, <2>1, Numbers, SMTT(30)
  <2> QED
    BY <1>a, <2>2 DEF AtMostInv
<1>5. ExactInv'
  <2>1. transfers = 1 /\ TogglesInStep /\ overlay.cur = Status => BytesRead = len
    BY <1>a, <1>2 DEF ControlInv, ExactInv
  <2>2. Status \notin 1..n
    BY <1>n, SMTT(30)
  <2>3. overlay.cur = Status => BytesRead' = BytesRead
    BY <1>2, <1>3, <2>2, Numbers, SMTT(30)
  <2> QED
    BY <1>a, <1>2, <2>1, <2>3 DEF ExactInv
<1> QED
  BY <1>2, <1>4, <1>5 DEF ControlInv

\* The device's next packet leaves the queue head with rem bytes of the buffer
\* at work, on a toggle of t.
LEMMA WorkGoesOn ==
  ASSUME ControlInv, overlay.active, overlay.cur \in 1..n, NEW rem \in Nat, NEW t \in Toggle,
         rem <= overlay.rem, overlay' \in OverlayType, overlay'.rem = rem, overlay'.toggle = t,
         overlay'.cur = overlay.cur, overlay'.next = overlay.next, overlay'.alt = overlay.alt,
         overlay'.active <=> overlay.active, overlay'.halted <=> overlay.halted,
         UNCHANGED <<step, transfers, n, size, len, qtd, bytes>>,
         left' \in Int, left' >= Invalid, toggle' \in Toggle
  PROVE  /\ ControlTypeOK' /\ QuietInv' /\ RingInv' /\ ReturnsBytesRead'
         /\ step \in InFlight /\ SetupOver /\ SetupOver' /\ Status' = Status
         /\ (TogglesInStep' <=> TogglesInStep)
         /\ overlay'.cur = overlay.cur /\ overlay'.active /\ ~overlay'.halted /\ ~overlay.halted
         /\ overlay'.rem = rem /\ overlay'.toggle = t
         /\ BytesRead' = BytesRead /\ Held = size - overlay.rem /\ Held' = size - rem
<1>4. step \in InFlight /\ step \notin Quiet
  BY DEF ControlInv, ControlTypeOK, QuietInv
<1>5. Begun /\ ~overlay.halted
  BY <1>4 DEF ControlInv, RingInv
<1>6. overlay.cur # 0
  BY SMTT(30)
<1>7. /\ (Begun' <=> Begun) /\ SetupOver /\ SetupOver' /\ Status' = Status /\ BytesRead' = BytesRead
      /\ (TogglesInStep' <=> TogglesInStep) /\ Held = size - overlay.rem /\ Held' = size - rem
  BY <1>5, <1>6 DEF Begun, SetupOver, Status, BytesRead, TogglesInStep, Held
<1>8. ControlTypeOK'
  BY DEF ControlInv, ControlTypeOK
<1>9. QuietInv'
  <2>1. ~(transfers = 0) /\ ~(transfers = 1 /\ step = "token")
    BY <1>4, <1>5 DEF ControlInv, QuietInv, InFlight
  <2> QED
    BY <1>4, <2>1 DEF QuietInv, Quiet
<1>10. RingInv'
  <2>1. overlay.rem <= WriteQtd(overlay.cur, n, size).rem
    BY <1>4, <1>5 DEF ControlInv, RingInv
  <2>2. WriteQtd(overlay.cur, n, size).rem = size
    BY DEF WriteQtd
  <2>3. rem <= WriteQtd(overlay.cur, n, size).rem
    BY <2>1, <2>2, Numbers, SMTT(30)
  <2> QED
    BY <1>4, <1>5, <1>7, <2>3 DEF ControlInv, RingInv
<1>11. ReturnsBytesRead'
  BY <1>4 DEF ReturnsBytesRead, InFlight
<1> QED
  BY <1>4, <1>5, <1>7, <1>8, <1>9, <1>10, <1>11

\* A packet with the other toggle is dropped, never in a first transfer in step.
LEMMA HcDropsKeeps == ControlInv /\ HcDrops => ControlInv'
<1> SUFFICES ASSUME ControlInv, HcDrops PROVE ControlInv'
  OBVIOUS
<1>0. /\ overlay.active /\ overlay.cur \in 1..n /\ left # Invalid /\ overlay.toggle # toggle
      /\ left' = LeftAfter /\ toggle' = 1 - toggle
      /\ UNCHANGED <<step, transfers, n, size, len, overlay, qtd, bytes>>
  BY DEF HcDrops, Asking
<1>1. left' \in Int /\ left' >= Invalid /\ toggle' \in Toggle
  BY <1>0, PacketIs, Numbers
<1>2. overlay \in OverlayType
  BY DEF ControlInv, ControlTypeOK
<1>3. PICK t \in Toggle : t = overlay.toggle
  BY <1>2 DEF OverlayType
<1>4. PICK rem \in Nat : rem = overlay.rem
  BY Numbers
<1>5. rem <= overlay.rem
  BY <1>4, SMTT(30)
<1>6. /\ ControlTypeOK' /\ QuietInv' /\ RingInv' /\ ReturnsBytesRead'
      /\ step \in InFlight /\ SetupOver /\ SetupOver' /\ Status' = Status
      /\ (TogglesInStep' <=> TogglesInStep) /\ BytesRead' = BytesRead
      /\ Held = size - overlay.rem /\ Held' = size - rem
  BY <1>0, <1>1, <1>2, <1>3, <1>4, <1>5, WorkGoesOn, ZenonT(30)
<1>7. Held' = Held
  BY <1>4, <1>6
<1>8. AtMostInv'
  <2>1. BytesRead + Held + left <= len /\ qtd[Status].active /\ BytesRead + Held <= len
    BY <1>0, <1>6 DEF ControlInv, AtMostInv
  <2>2. left' # Invalid => BytesRead + Held + left' <= len
    BY <1>0, <2>1, PacketIs, Numbers, SMTT(30)
  <2> QED
    BY <1>0, <1>6, <1>7, <2>1, <2>2 DEF AtMostInv
<1>9. ExactInv'
  <2>1. ~(transfers = 1 /\ TogglesInStep)
    BY <1>0, <1>6 DEF ControlInv, ExactInv
  <2> QED
    BY <1>0, <1>6, <2>1 DEF ExactInv
<1> QED
  BY <1>6, <1>8, <1>9 DEF ControlInv

\* A packet with the expected toggle is read.
LEMMA HcReadsKeeps == ControlInv /\ HcReads => ControlInv'
<1> SUFFICES ASSUME ControlInv, HcReads PROVE ControlInv'
  OBVIOUS
<1>p. PICK got \in Nat : got = Packet
  BY PacketIs DEF HcReads, Asking
<1>0. /\ overlay.active /\ overlay.cur \in 1..n /\ left # Invalid /\ overlay.toggle = toggle
      /\ got <= overlay.rem /\ left' = LeftAfter /\ toggle' = 1 - toggle
      /\ UNCHANGED <<step, transfers, n, size, len, bytes>>
  BY <1>p DEF HcReads, Asking
<1>1. left' \in Int /\ left' >= Invalid /\ toggle' \in Toggle
  BY <1>0, PacketIs, Numbers
<1>r. PICK rem \in Nat : rem = overlay.rem - got
  BY <1>0, Numbers, SMTT(30)
<1>2. /\ got <= left /\ got <= MaxPacket /\ left \in Nat /\ left' \in {Invalid, left - got}
      /\ left' = Invalid => got = left
      /\ got < MaxPacket => left' = Invalid
  BY <1>0, <1>p, PacketIs
<1>3. step \in InFlight /\ SetupOver /\ Held = size - overlay.rem /\ overlay.cur # Status /\ qtd[Status].active
  <2>1. step \in InFlight
    BY <1>0 DEF ControlInv, ControlTypeOK, QuietInv
  <2>2. SetupOver /\ qtd[Status].active
    BY <1>0, <2>1 DEF ControlInv, AtMostInv
  <2>3. overlay.cur # Status
    BY <1>0, Numbers, SMTT(30)
  <2> QED
    BY <1>0, <2>1, <2>2, <2>3 DEF Held
<1>4. BytesRead + Held + left <= len
  BY <1>0, <1>3 DEF ControlInv, AtMostInv
<1>5. transfers = 1 /\ TogglesInStep =>
        /\ BytesRead + Held + left = len /\ BytesRead = (overlay.cur - 1) * size
        /\ overlay.rem > 0 /\ (n > 1 => InPairs(overlay.rem, toggle))
  <2>1. ~overlay.halted
    BY <1>0, <1>3 DEF ControlInv, RingInv
  <2> QED
    BY <1>0, <1>3, <2>1 DEF ControlInv, ExactInv, Unsent
<1>6. transfers = 1 /\ TogglesInStep /\ n > 1 =>
        /\ got = MaxPacket => InPairs(rem, toggle')
        /\ rem = 0 => toggle' = 1
  BY <1>0, <1>2, <1>5, <1>r, PairTaken, Numbers
<1>7. ASSUME BytesRead' + Held' = BytesRead + Held + got
      PROVE  /\ BytesRead' + Held' <= len /\ (left' # Invalid => BytesRead' + Held' + left' <= len)
             /\ transfers = 1 /\ TogglesInStep => BytesRead' + Held' + Unsent' = len
  <2>1. PICK sum \in Int : sum = BytesRead + Held
    BY Numbers, SMTT(30)
  <2>2. Unsent' = IF left' = Invalid THEN 0 ELSE left'
    BY DEF Unsent, Invalid
  <2>3. sum + left <= len /\ BytesRead' + Held' = sum + got
    BY <1>4, <1>7, <2>1
  <2>4. sum + got <= len /\ (left' # Invalid => sum + got + left' <= len)
    BY <1>1, <1>2, <2>1, <2>3, Numbers, SMTT(30)
  <2>5. transfers = 1 /\ TogglesInStep => sum + got + Unsent' = len
    <3> SUFFICES ASSUME transfers = 1, TogglesInStep PROVE sum + got + Unsent' = len
      OBVIOUS
    <3>1. sum + left = len
      BY <1>5, <2>1
    <3> QED
      BY <1>1, <1>2, <2>1, <2>2, <3>1, Numbers, SMTT(30)
  <2> QED
    BY <2>3, <2>4, <2>5
<1>8. CASE got = overlay.rem \/ got < MaxPacket
  <2>1. overlay.active /\ Retire(rem, FALSE) /\ UNCHANGED <<step, transfers, n, size, len, bytes>>
    BY <1>0, <1>8, <1>p, <1>r, ZenonT(30) DEF HcReads
  <2>2. /\ ControlTypeOK' /\ QuietInv' /\ RingInv' /\ ReturnsBytesRead' /\ SetupOver' /\ Status' = Status
        /\ (TogglesInStep' <=> TogglesInStep)
        /\ overlay'.cur = overlay.cur /\ ~overlay'.active /\ ~overlay'.halted /\ overlay'.rem = rem
        /\ (overlay.cur # Status => qtd'[Status].active) /\ Held' = 0
        /\ BytesRead' = BytesRead + (IF overlay.cur \in 1..n THEN size - rem ELSE 0)
    BY <1>1, <2>1, Retired, ZenonT(30)
  <2>3. BytesRead' = BytesRead + (size - rem)
    BY <1>0, <2>2
  <2>4. BytesRead' + Held' = BytesRead + Held + got
    BY <1>3, <1>r, <2>2, <2>3, Numbers, SMTT(30)
  <2>5. AtMostInv'
    BY <1>0, <1>3, <1>7, <2>2, <2>4 DEF AtMostInv
  <2>6. ExactInv'
    <3> SUFFICES ASSUME transfers = 1, TogglesInStep
                 PROVE  IF rem = 0 THEN BytesRead' = overlay.cur * size /\ (n > 1 => toggle' = 1)
                                   ELSE left' = Invalid
      <4>1. overlay.cur # 0
        BY <1>0, SMTT(30)
      <4> QED
        BY <1>0, <1>3, <1>7, <2>2, <2>4, <4>1 DEF ExactInv
    <3>1. CASE rem = 0
      <4>1. PICK old \in Int : old = (overlay.cur - 1) * size
        BY <1>5, Numbers
      <4>2. old + size = overlay.cur * size
        BY <1>0, <4>1, Numbers, SMTT(30)
      <4>3. BytesRead' = old + size
        BY <1>5, <2>3, <3>1, <4>1, Numbers, SMTT(30)
      <4> QED
        BY <1>6, <3>1, <4>2, <4>3
    <3>2. CASE rem # 0
      <4>1. got # overlay.rem
        BY <1>r, <3>2, Numbers, SMTT(30)
      <4> QED
        BY <1>2, <1>8, <3>2, <4>1
    <3> QED
      BY <3>1, <3>2
  <2> QED
    BY <2>2, <2>5, <2>6 DEF ControlInv
<1>9. CASE ~(got = overlay.rem \/ got < MaxPacket)
  <2>1. overlay' = [overlay EXCEPT !.toggle = 1 - toggle, !.rem = rem] /\ UNCHANGED qtd
    BY <1>0, <1>9, <1>p, <1>r, ZenonT(30) DEF HcReads
  <2>2. rem <= overlay.rem /\ rem > 0 /\ got = MaxPacket
    BY <1>0, <1>2, <1>9, <1>r, Numbers, ControlAssumption, SMTT(30)
  <2>t. PICK t \in Toggle : t = 1 - toggle
    BY Numbers
  <2>3. /\ ControlTypeOK' /\ QuietInv' /\ RingInv' /\ ReturnsBytesRead' /\ SetupOver' /\ Status' = Status
        /\ (TogglesInStep' <=> TogglesInStep)
        /\ overlay'.cur = overlay.cur /\ overlay'.active /\ overlay'.rem = rem /\ overlay'.toggle = t
        /\ BytesRead' = BytesRead /\ Held' = size - rem
    <3>1. overlay \in OverlayType
      BY DEF ControlInv, ControlTypeOK
    <3>2. overlay' \in OverlayType
      <4>1. PICK o : o = [overlay EXCEPT !.toggle = t]
        BY ZenonT(30)
      <4>2. o \in OverlayType
        BY ONLY <3>1, <4>1, ZenonT(30) DEF OverlayType
      <4>3. overlay' = [o EXCEPT !.rem = rem]
        BY <2>1, <2>t, <4>1
      <4> QED
        BY ONLY <4>2, <4>3, ZenonT(30) DEF OverlayType
    <3>3. /\ overlay'.cur = overlay.cur /\ (overlay'.active <=> overlay.active)
          /\ (overlay'.halted <=> overlay.halted) /\ overlay'.rem = rem /\ overlay'.toggle = t
          /\ overlay'.next = overlay.next /\ overlay'.alt = overlay.alt
      BY <2>1, <2>t, <3>1 DEF OverlayType
    <3> QED
      BY <1>0, <1>1, <2>1, <2>2, <3>2, <3>3, WorkGoesOn, ZenonT(30)
  <2>4. BytesRead' + Held' = BytesRead + Held + got
    BY <1>3, <1>r, <2>3, Numbers, SMTT(30)
  <2>5. AtMostInv'
    BY <1>0, <1>3, <1>7, <2>1, <2>3, <2>4 DEF AtMostInv
  <2>6. ExactInv'
    <3>1. overlay.cur # 0
      BY <1>0, SMTT(30)
    <3>2. transfers = 1 /\ TogglesInStep =>
            /\ BytesRead' = (overlay.cur - 1) * size /\ t = toggle' /\ rem > 0
            /\ n > 1 => InPairs(rem, toggle')
      BY <1>0, <1>5, <1>6, <2>2, <2>3, <2>t
    <3> QED
      BY <1>0, <1>3, <1>7, <2>3, <2>4, <3>1, <3>2 DEF ExactInv
  <2> QED
    BY <2>3, <2>5, <2>6 DEF ControlInv
<1> QED
  BY <1>8, <1>9

-----------------------------------------------------------------------------
\* The endpoint as load leaves it.
LEMMA ControlInit == Init => ControlInv
<1> SUFFICES ASSUME Init PROVE ControlInv
  OBVIOUS
<1>1. MaxBuffers \in Nat
  BY ControlAssumption
<1>2. ControlTypeOK
  <2>1. Blank \in QtdType
    BY <1>1, SMTT(30) DEF Blank, QtdType, Invalid, Toggle
  <2>2. qtd \in [Qtd -> QtdType]
    BY <2>1 DEF Init
  <2>3. overlay \in OverlayType
    BY <1>1, SMTT(30) DEF Init, OverlayType, Invalid, Toggle
  <2>4. n \in 0..MaxBuffers /\ size \in Nat /\ len \in 0..(n * size) /\ toggle \in Toggle
    BY <1>1, SMTT(30) DEF Init, Toggle
  <2> QED
    BY <2>2, <2>3, <2>4, SMTT(30) DEF Init, ControlTypeOK, Quiet, Invalid
<1>3. QuietInv
  BY DEF Init, QuietInv, Quiet, Invalid
<1> QED
  BY <1>2, <1>3 DEF Init, ControlInv, RingInv, AtMostInv, ExactInv, InFlight, ReturnsBytesRead

\* The invariant is kept by every step of the driver, the controller and the
\* device.
LEMMA ControlStep == ControlInv /\ [Next]_vars => ControlInv'
<1> SUFFICES ASSUME ControlInv, [Next]_vars PROVE ControlInv'
  OBVIOUS
<1>1. CASE AddQh
  BY <1>1, WaitingKeeps DEF AddQh
<1>2. CASE StillActive
  BY <1>2, WaitingKeeps DEF StillActive
<1>3. CASE Wait
  <2>1. step' \in {"check", "wait", "asleep"} /\ step = "wait"
    BY <1>3 DEF Wait
  <2> QED
    BY <1>3, <2>1, WaitingKeeps DEF Wait
<1>4. CASE FanOut
  <2>1. step' = step \/ (step = "asleep" /\ step' = "wait")
    BY <1>4 DEF FanOut
  <2> QED
    BY <1>4, <2>1, WaitingKeeps DEF FanOut
<1>5. CASE UNCHANGED vars
  BY <1>5, WaitingKeeps DEF vars
<1> QED
  BY <1>1, <1>2, <1>3, <1>4, <1>5, BeginKeeps, AttachNextKeeps, AttachTokenKeeps, ReturnsKeeps,
     ResumeKeeps, HcFetchKeeps, HcSetupKeeps, HcReadsKeeps, HcDropsKeeps, HcStatusKeeps, HaltsKeeps
  DEF Next, DriverSteps, Hc

\* The inductive invariant holds of every control endpoint.
THEOREM ControlInvariant == Spec => []ControlInv
<1>1. Init => ControlInv
  BY ControlInit
<1>2. ControlInv /\ [Next]_vars => ControlInv'
  BY ControlStep
<1> QED
  BY <1>1, <1>2, PTL DEF Spec

\* transfer_in never returns more bytes than the device sent, for any number
\* and size of buffers, any length of the answer and any stage the device
\* stalls.  The first transfer on an endpoint returns all of them if it has one
\* buffer, or buffers of an even number of packets, so that the DATA1 the code
\* writes into every IN QTD is the device's toggle.
THEOREM TransferReturnsBytesRead == Spec => []ReturnsBytesRead
<1>1. ControlInv => ReturnsBytesRead
  BY DEF ControlInv
<1> QED
  BY <1>1, ControlInvariant, PTL

\* When a transfer returns the controller has none of its QTDs at work and none
\* to take up, so their memory is the caller's again.
THEOREM ControlQtdsAreFree == Spec => []QtdsAreFree
<1>1. ControlInv => QtdsAreFree
  BY DEF ControlInv, QuietInv, Quiet, QtdsAreFree, HcNext
<1> QED
  BY <1>1, ControlInvariant, PTL
==============================================================================
