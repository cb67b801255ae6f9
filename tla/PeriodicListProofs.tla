------------------------- MODULE PeriodicListProofs -------------------------
(***************************************************************************)
(* That the chain of interrupt queue heads stays whole while add_qh works  *)
(* on it, and that each queue head is visited as often as its interval     *)
(* calls for, for any number of queue heads and any length of the frame    *)
(* list.                                                                   *)
(***************************************************************************)
EXTENDS PeriodicList, FiniteSetTheorems, WellFoundedInduction, TLAPS

\* Every leaf goes to Zenon unless it names another prover.
USE ZenonT(30)

PeriodicTypeOK ==
  /\ list \in [Slot -> MaybeQh] /\ interval \in [Qh -> 0..(MaxPower + 3)]
  /\ hlink \in [Qh -> MaybeQh] /\ next \in [Qh -> MaybeQh] /\ prev \in [Qh -> MaybeQh]
  /\ added \subseteq Qh /\ qhs \in [0..MaxPower -> added \cup {None}] /\ first_qh \in added \cup {None}
  /\ pc \in {"idle", "link", "publish", "slots"} /\ idx \in Nat /\ ordered \in BOOLEAN
  /\ pc # "idle" => qh \in Qh \ added

\* The chain: while the slots are written the new queue head is part of it, and
\* leads it if no shorter interval is present.
Nodes == IF pc = "slots" THEN added \cup {qh} ELSE added
Head == IF pc = "slots" /\ PrevQh(qh) = None THEN qh ELSE first_qh

\* s numbers the c nodes in the order in which link leads through them to None.
ChainOrder(s, link, c, nodes) ==
  /\ s \in [1..(c + 1) -> nodes \cup {None}] /\ s[c + 1] = None
  /\ \A x \in nodes : \E i \in 1..c : s[i] = x
  /\ \A i \in 1..c : s[i] \in nodes /\ link[s[i]] = s[i + 1]
  /\ \A i, j \in 1..(c + 1) : s[i] = s[j] => i = j

\* The links lead from head through all nodes.
Numbered(link, c, nodes, head) ==
  \E s \in [1..(c + 1) -> nodes \cup {None}] : ChainOrder(s, link, c, nodes) /\ s[1] = head
ChainFrom(link, nodes, head) == Numbered(link, Cardinality(nodes), nodes, head)

\* The metadata says the same as the links, in both directions.
Mirrored(link, nxt, prv, nodes, head) ==
  /\ \A q \in nodes : link[q] = nxt[q] /\ (nxt[q] # None => prv[nxt[q]] = q)
  /\ head # None => prv[head] = None

ChainInv ==
  /\ ChainFrom(hlink, Nodes, Head) /\ Mirrored(hlink, next, prev, Nodes, Head)
  /\ pc = "publish" => hlink[qh] = NextQh(qh) /\ next[qh] = NextQh(qh)

\* Slot 0 leads to the head, or to the node after it until it is written.
FirstSlotInv ==
  /\ pc # "slots" => list[0] = first_qh
  /\ pc = "slots" => Existing(qh) = None
  /\ pc = "slots" /\ PrevQh(qh) # None => list[0] = first_qh /\ idx > 0
  /\ pc = "slots" /\ PrevQh(qh) = None =>
       hlink[qh] = first_qh /\ list[0] = IF idx = 0 THEN first_qh ELSE qh

\* The table of intervals has an entry for each one present.
TableInv ==
  /\ \A q \in added : qhs[Index(q)] # None
  /\ \A n \in 0..MaxPower : qhs[n] # None => Index(qhs[n]) = n

\* If no interval came new after a shorter one, the slots in which a queue head
\* is due lead to the whole chain.
SlotsInv ==
  ordered =>
    /\ \A q \in added, i \in Slot : i % frames(q) = 0 => list[i] = first_qh \/ (pc = "slots" /\ list[i] = qh)
    /\ pc = "slots" => /\ PrevQh(qh) = None /\ idx % frames(qh) = 0
                       /\ \A i \in Slot : i < idx /\ i % frames(qh) = 0 => list[i] = qh

PeriodicInv == PeriodicTypeOK /\ ChainInv /\ FirstSlotInv /\ TableInv /\ SlotsInv
-----------------------------------------------------------------------------
\* A set of naturals that is not empty has a least member.
LEMMA Least ==
  ASSUME NEW S \in SUBSET Nat, S # {}
  PROVE  \E m \in S : \A k \in S : m <= k
<1> DEFINE R == OpToRel(<, Nat)
<1>1. \A x, y \in Nat : <<x, y>> \in R <=> x < y
  BY DEF OpToRel
<1>2. IsWellFoundedOn(R, Nat)
  BY NatLessThanWellFounded
<1> HIDE DEF R
<1>3. PICK m \in S : \A y \in S : ~ (<<y, m>> \in R)
  BY <1>2, WFMin
<1>4. ASSUME NEW k \in S PROVE m <= k
  <2>1. ~(<<k, m>> \in R) /\ k \in Nat /\ m \in Nat
    BY <1>3
  <2> QED
    BY <2>1, <1>1, SMTT(30)
<1> QED
  BY <1>3, <1>4

\* A power of two is positive.
LEMMA PowerIsPositive ==
  ASSUME NEW a \in 0..(MaxPower + 4)
  PROVE  2^a \in Nat \ {0}
<1> DEFINE S == {n \in 0..(MaxPower + 4) : 2^n \notin Nat \ {0}}
<1>1. /\ S \in SUBSET Nat /\ \A n \in S : n \in 0..(MaxPower + 4) /\ 2^n \notin Nat \ {0}
      /\ \A n \in 0..(MaxPower + 4) : n \notin S => 2^n \in Nat \ {0}
  BY SMTT(30)
<1>2. SUFFICES ASSUME S # {} PROVE FALSE
  BY <1>1
<1> HIDE DEF S
<1>3. PICK m \in S : \A k \in S : m <= k
  BY <1>1, <1>2, Least
<1>4. m # 0
  <2>1. 1 \in Nat \ {0}
    BY SMTT(30)
  <2> QED
    BY <1>1, <2>1, PowersOfTwo
<1>5. m - 1 \in 0..(MaxPower + 3) /\ m - 1 \in 0..(MaxPower + 4) /\ ~(m <= m - 1) /\ (m - 1) + 1 = m
  BY <1>1, <1>4, PeriodicAssumption, SMTT(30)
<1>6. 2^(m - 1) \in Nat \ {0} /\ 2^((m - 1) + 1) = 2 * 2^(m - 1)
  BY <1>1, <1>3, <1>5, PowersOfTwo
<1>7. \A x \in Nat \ {0} : 2 * x \in Nat \ {0}
  BY SMTT(30)
<1> QED
  BY <1>1, <1>5, <1>6, <1>7

\* It is a multiple of the smaller ones.
LEMMA PowerDivides ==
  ASSUME NEW a \in 0..(MaxPower + 4), NEW b \in 0..a
  PROVE  \E d \in Nat : 2^a = d * 2^b
<1> DEFINE S == {n \in b..a : \A d \in Nat : 2^n # d * 2^b}
<1>1. /\ S \in SUBSET Nat /\ \A n \in S : n \in b..a /\ \A d \in Nat : 2^n # d * 2^b
      /\ \A n \in b..a : n \notin S => \E d \in Nat : 2^n = d * 2^b
  BY SMTT(30)
<1>2. a \in b..a /\ b \in 0..(MaxPower + 4) /\ MaxPower \in Nat
  BY PeriodicAssumption, SMTT(30)
<1>3. 2^b \in Nat \ {0}
  BY <1>2, PowerIsPositive
<1>4. SUFFICES ASSUME S # {} PROVE FALSE
  BY <1>1, <1>2
<1> HIDE DEF S
<1>5. PICK m \in S : \A k \in S : m <= k
  BY <1>1, <1>4, Least
<1>6. m # b
  <2>1. 2^b = 1 * 2^b /\ 1 \in Nat
    BY <1>3, SMTT(30)
  <2> QED
    BY <1>1, <2>1
<1>7. m - 1 \in b..a /\ m - 1 \in 0..(MaxPower + 3) /\ ~(m <= m - 1) /\ (m - 1) + 1 = m
  BY <1>1, <1>2, <1>6, SMTT(30)
<1>8. PICK d \in Nat : 2^(m - 1) = d * 2^b
  BY <1>1, <1>5, <1>7
<1>9. 2^m = 2 * 2^(m - 1)
  BY <1>7, PowersOfTwo
<1>10. 2 * d \in Nat /\ \A x \in Nat : 2 * (d * x) = (2 * d) * x
  BY SMTT(30)
<1>11. 2^m = (2 * d) * 2^b
  BY <1>3, <1>8, <1>9, <1>10
<1> QED
  BY <1>1, <1>10, <1>11

\* What it means to be a multiple.
LEMMA Multiples ==
  ASSUME NEW i \in Nat, NEW f \in Nat \ {0}
  PROVE  i % f = 0 <=> \E k \in Nat : i = k * f
<1>1. ASSUME i % f = 0 PROVE \E k \in Nat : i = k * f
  <2>1. i \div f \in Nat /\ i = (i \div f) * f
    BY <1>1, SMTT(30)
  <2> QED
    BY <2>1
<1>2. ASSUME NEW k \in Nat, i = k * f PROVE i % f = 0
  BY <1>2, SMTT(30)
<1> QED
  BY <1>1, <1>2

\* A slot of a longer interval is one of the shorter ones too.
LEMMA Coarser ==
  ASSUME NEW i \in Nat, NEW a \in 0..(MaxPower + 4), NEW b \in 0..a, i % 2^a = 0
  PROVE  i % 2^b = 0
<1>1. 2^a \in Nat \ {0} /\ 2^b \in Nat \ {0}
  <2>1. b \in 0..(MaxPower + 4)
    BY PeriodicAssumption, SMTT(30)
  <2> QED
    BY <2>1, PowerIsPositive
<1>2. PICK k \in Nat : i = k * 2^a
  BY <1>1, Multiples
<1>3. PICK d \in Nat : 2^a = d * 2^b
  BY PowerDivides
<1>4. k * d \in Nat /\ \A x \in Nat : k * (d * x) = (k * d) * x
  BY SMTT(30)
<1>5. i = (k * d) * 2^b
  BY <1>1, <1>2, <1>3, <1>4
<1>6. \E h \in Nat : i = h * 2^b
  BY <1>4, <1>5
<1> QED
  BY <1>1, <1>6, Multiples

\* The loop over the slots leaves out no multiple of its step.
LEMMA NextMultiple ==
  ASSUME NEW f \in Nat \ {0}, NEW j \in Nat, j % f = 0
  PROVE  /\ (j + f) % f = 0
         /\ \A i \in Nat : i % f = 0 /\ i < j + f => i < j \/ i = j
<1>1. PICK k \in Nat : j = k * f
  BY Multiples
<1>2. j + f \in Nat /\ k + 1 \in Nat /\ j + f = (k + 1) * f
  BY <1>1, SMTT(30)
<1>3. ASSUME NEW i \in Nat, i % f = 0, i < j + f PROVE i < j \/ i = j
  <2>1. PICK h \in Nat : i = h * f
    BY <1>3, Multiples
  <2>2. h * f < (k + 1) * f => h < k + 1
    BY SMTT(30)
  <2>3. h < k + 1 => h * f <= k * f
    BY SMTT(30)
  <2>4. h * f \in Nat /\ k * f \in Nat
    BY SMTT(30)
  <2> QED
    BY <1>1, <1>2, <1>3, <2>1, <2>2, <2>3, <2>4, SMTT(30)
<1> QED
  BY <1>2, <1>3, Multiples
-----------------------------------------------------------------------------
\* What inserting x before the p-th node does to the links of the chain.
Relinked(s, link, link2, c, p, x) ==
  /\ link2[x] = s[p]
  /\ \A i \in 1..c : link2[s[i]] = IF i + 1 = p THEN x ELSE link[s[i]]

\* A chain stays one when a node is inserted before its p-th.
LEMMA ChainInsert ==
  ASSUME NEW c \in Nat, NEW nodes, None \notin nodes, NEW link, NEW link2, NEW s,
         ChainOrder(s, link, c, nodes), NEW p \in 1..(c + 1),
         NEW x, x \notin nodes, x # None, Relinked(s, link, link2, c, p, x),
         NEW h, h = IF p = 1 THEN x ELSE s[1]
  PROVE  Numbered(link2, c + 1, nodes \cup {x}, h)
<1> DEFINE N == nodes \cup {x}
           t == [i \in 1..(c + 2) |-> IF i < p THEN s[i] ELSE IF i = p THEN x ELSE s[i - 1]]
<1> USE DEF Relinked
<1>1. /\ s \in [1..(c + 1) -> nodes \cup {None}] /\ s[c + 1] = None
      /\ \A y \in nodes : \E i \in 1..c : s[i] = y
      /\ \A i \in 1..c : s[i] \in nodes /\ link[s[i]] = s[i + 1]
      /\ \A i, j \in 1..(c + 1) : s[i] = s[j] => i = j
  BY DEF ChainOrder
<1>2. /\ \A i \in 1..(c + 1) : i < p => t[i] = s[i] /\ i \in 1..c
      /\ \A i \in 1..(c + 1) : ~(i < p) => i + 1 \in 1..(c + 2) /\ t[i + 1] = s[i]
      /\ p \in 1..(c + 2) /\ t[p] = x
  <2>1. ASSUME NEW i \in 1..(c + 1), i < p PROVE i \in 1..(c + 2) /\ i \in 1..c
    BY <2>1, SMTT(30)
  <2>2. ASSUME NEW i \in 1..(c + 1), ~(i < p)
        PROVE  i + 1 \in 1..(c + 2) /\ ~(i + 1 < p) /\ i + 1 # p /\ (i + 1) - 1 = i
    BY <2>2, SMTT(30)
  <2>3. p \in 1..(c + 2) /\ ~(p < p)
    BY SMTT(30)
  <2> QED
    BY <2>1, <2>2, <2>3
<1>3. \A i \in 1..(c + 2) : \/ i \in 1..(c + 1) /\ i < p
                            \/ i = p
                            \/ i - 1 \in 1..(c + 1) /\ ~(i - 1 < p) /\ (i - 1) + 1 = i
  BY SMTT(30)
<1>4. t = [i \in 1..(c + 2) |-> t[i]]
  OBVIOUS
<1> HIDE DEF t
<1>5. \A i \in 1..(c + 2) : i = p \/ \E j \in 1..(c + 1) : t[i] = s[j] /\ i = IF j < p THEN j ELSE j + 1
  <2> TAKE i \in 1..(c + 2)
  <2>1. CASE i \in 1..(c + 1) /\ i < p
    BY <1>2, <2>1
  <2>2. CASE i - 1 \in 1..(c + 1) /\ ~(i - 1 < p) /\ (i - 1) + 1 = i
    BY <1>2, <2>2
  <2> QED
    BY <1>3, <2>1, <2>2
<1>6. \A i \in 1..(c + 1) : s[i] \in nodes \cup {None} /\ s[i] # x
  <2>1. \A i \in 1..(c + 1) : s[i] \in nodes \cup {None}
    BY <1>1
  <2> QED
    BY <2>1
<1>7. t \in [1..(c + 2) -> N \cup {None}]
  <2>1. \A i \in 1..(c + 2) : i # p => t[i] \in N \cup {None}
    BY <1>5, <1>6
  <2>2. \A i \in 1..(c + 2) : t[i] \in N \cup {None}
    BY <1>2, <2>1
  <2> QED
    BY <1>4, <2>2
<1>8. \A y \in N : \E i \in 1..(c + 1) : t[i] = y
  <2>1. ASSUME NEW y \in nodes PROVE \E i \in 1..(c + 1) : t[i] = y
    <3>1. PICK i \in 1..c : s[i] = y
      BY <1>1
    <3>2. i \in 1..(c + 1) /\ i + 1 \in 1..(c + 1)
      BY SMTT(30)
    <3> QED
      BY <1>2, <3>1, <3>2
  <2> QED
    BY <1>2, <2>1
<1>9. ASSUME NEW i \in 1..(c + 2), NEW j \in 1..(c + 2), t[i] = t[j] PROVE i = j
  <2>1. CASE i = p \/ j = p
    <3>1. \A m \in 1..(c + 2) : t[m] = x => m = p
      <4> SUFFICES ASSUME NEW m \in 1..(c + 2), t[m] = x, m # p PROVE FALSE
        OBVIOUS
      <4>1. PICK a \in 1..(c + 1) : t[m] = s[a]
        BY <1>5
      <4> QED
        BY <1>6, <4>1
    <3> QED
      BY <1>2, <1>9, <2>1, <3>1
  <2>2. CASE i # p /\ j # p
    <3>1. PICK a \in 1..(c + 1) : t[i] = s[a] /\ i = IF a < p THEN a ELSE a + 1
      BY <1>5, <2>2
    <3>2. PICK b \in 1..(c + 1) : t[j] = s[b] /\ j = IF b < p THEN b ELSE b + 1
      BY <1>5, <2>2
    <3>3. a = b
      <4>1. s[a] = s[b]
        BY <1>9, <3>1, <3>2
      <4> QED
        BY <1>1, <4>1
    <3> QED
      BY <3>1, <3>2, <3>3
  <2> QED
    BY <2>1, <2>2
<1>10. t[(c + 1) + 1] = None /\ (c + 1) + 1 = c + 2
  <2>1. c + 1 \in 1..(c + 1) /\ ~(c + 1 < p) /\ (c + 1) + 1 = c + 2
    BY SMTT(30)
  <2> QED
    BY <1>1, <1>2, <2>1
<1>11. ASSUME NEW i \in 1..(c + 1) PROVE t[i] \in N /\ link2[t[i]] = t[i + 1]
  <2>0. i \in 1..(c + 2)
    BY SMTT(30)
  <2>1. CASE i < p
    <3>1. t[i] = s[i] /\ i \in 1..c /\ s[i] \in nodes
      BY <1>1, <1>2, <2>1
    <3>2. CASE i + 1 = p
      BY <1>2, <3>1, <3>2
    <3>3. CASE i + 1 # p
      <4>1. i + 1 \in 1..(c + 1) /\ i + 1 < p
        BY <2>1, <3>3, SMTT(30)
      <4> QED
        <5>1. link2[s[i]] = link[s[i]] /\ link[s[i]] = s[i + 1] /\ t[i + 1] = s[i + 1]
          BY <1>1, <1>2, <3>1, <3>3, <4>1
        <5> QED
          BY <3>1, <5>1
    <3> QED
      BY <3>2, <3>3
  <2>2. CASE i = p
    <3>1. t[i] = x /\ ~(i < p) /\ t[i + 1] = s[i]
      <4>1. ~(p < p)
        BY SMTT(30)
      <4> QED
        BY <1>2, <2>2, <4>1
    <3> QED
      BY <2>2, <3>1
  <2>3. CASE ~(i < p) /\ i # p
    <3>1. i - 1 \in 1..c /\ i - 1 \in 1..(c + 1) /\ ~(i - 1 < p) /\ (i - 1) + 1 = i /\ (i - 1) + 1 # p
      BY <2>3, SMTT(30)
    <3>2. t[i] = s[i - 1] /\ t[i + 1] = s[i]
      BY <1>2, <2>3, <3>1
    <3>3. s[i - 1] \in nodes /\ link2[s[i - 1]] = link[s[i - 1]] /\ link[s[i - 1]] = s[(i - 1) + 1]
      BY <1>1, <3>1
    <3> QED
      BY <3>1, <3>2, <3>3
  <2> QED
    BY <2>1, <2>2, <2>3
<1>12. t[1] = h
  <2>1. 1 \in 1..(c + 1) /\ (p # 1 => 1 < p)
    BY SMTT(30)
  <2> QED
    BY <1>2, <2>1
<1>13. ChainOrder(t, link2, c + 1, N)
  BY <1>7, <1>8, <1>9, <1>10, <1>11 DEF ChainOrder
<1> QED
  BY <1>7, <1>10, <1>12, <1>13 DEF Numbered

\* The nodes met by up to m links from l.
Reached(l, link, m) ==
  LET within[n \in 0..m] ==
        IF n = 0 THEN {l} \ {None}
        ELSE within[n - 1] \cup ({link[q] : q \in within[n - 1]} \ {None})
  IN within[m]

\* The nodes of a numbering from the a-th on.
From(s, a, c) == {s[k] : k \in a..c}

\* Following the links from a node of a chain collects the nodes from there on.
LEMMA ChainWalk ==
  ASSUME NEW c \in Nat, NEW nodes, None \notin nodes, NEW link, NEW s,
         ChainOrder(s, link, c, nodes), NEW a \in 1..(c + 1), NEW m \in Nat, c <= m,
         NEW l, l = s[a]
  PROVE  Reached(l, link, m) = From(s, a, c)
<1> DEFINE G(n) == {s[k] : k \in {j \in a..c : j <= a + n}}
           Step(A) == A \cup ({link[q] : q \in A} \ {None})
           W(w) == w = [n \in 0..m |-> IF n = 0 THEN {l} \ {None} ELSE Step(w[n - 1])]
           w == CHOOSE v : W(v)
<1>1. /\ s[c + 1] = None
      /\ \A i \in 1..c : s[i] \in nodes /\ s[i] # None /\ link[s[i]] = s[i + 1]
  BY DEF ChainOrder
<1>2. G(0) = {l} \ {None}
  <2>1. CASE a = c + 1
    <3>1. {j \in a..c : j <= a + 0} = {}
      BY <2>1, SMTT(30)
    <3> QED
      BY <1>1, <2>1, <3>1
  <2>2. CASE a \in 1..c
    <3>1. {j \in a..c : j <= a + 0} = {a}
      BY <2>2, SMTT(30)
    <3>2. G(0) = {s[a]}
      BY <3>1
    <3> QED
      BY <1>1, <2>2, <3>2
  <2> QED
    BY <2>1, <2>2, SMTT(30)
<1>3. ASSUME NEW n \in 1..m PROVE G(n) = Step(G(n - 1))
  <2>1. ASSUME NEW k \in a..c, k <= a + n PROVE s[k] \in Step(G(n - 1))
    <3>1. CASE k <= a + (n - 1)
      BY <3>1
    <3>2. CASE ~(k <= a + (n - 1))
      <4>1. k - 1 \in a..c /\ k - 1 <= a + (n - 1) /\ k - 1 \in 1..c /\ (k - 1) + 1 = k /\ k \in 1..c
        BY <2>1, <3>2, SMTT(30)
      <4>2. s[k - 1] \in G(n - 1) /\ link[s[k - 1]] = s[k] /\ s[k] # None
        BY <1>1, <4>1
      <4> QED
        BY <4>2
    <3> QED
      BY <3>1, <3>2
  <2>2. ASSUME NEW k \in a..c, k <= a + (n - 1)
        PROVE  s[k] \in G(n) /\ (link[s[k]] = None \/ link[s[k]] \in G(n))
    <3>1. k <= a + n /\ k \in 1..c /\ k + 1 <= a + n
      BY <2>2, SMTT(30)
    <3>2. link[s[k]] = s[k + 1]
      BY <1>1, <3>1
    <3>3. CASE k = c
      BY <1>1, <3>1, <3>2, <3>3
    <3>4. CASE k # c
      <4>1. k + 1 \in a..c
        BY <3>1, <3>4, SMTT(30)
      <4> QED
        BY <3>1, <3>2, <4>1
    <3> QED
      BY <3>3, <3>4
  <2>3. ASSUME NEW y \in G(n) PROVE y \in Step(G(n - 1))
    BY <2>1
  <2>4. ASSUME NEW y \in Step(G(n - 1)) PROVE y \in G(n)
    <3>1. CASE y \in G(n - 1)
      BY <2>2, <3>1
    <3>2. CASE \E q \in G(n - 1) : y = link[q] /\ y # None
      BY <2>2, <3>2
    <3> HIDE DEF G
    <3> QED
      BY <2>4, <3>1, <3>2
  <2> HIDE DEF G, Step
  <2> QED
    BY <2>3, <2>4
<1> HIDE DEF G, Step
<1>4. W(w)
  <2> DEFINE g == [n \in 0..m |-> G(n)]
  <2>1. ASSUME NEW n \in 0..m PROVE g[n] = IF n = 0 THEN {l} \ {None} ELSE Step(g[n - 1])
    <3>1. n = 0 \/ (n \in 1..m /\ n - 1 \in 0..m)
      BY SMTT(30)
    <3> QED
      BY <1>2, <1>3, <3>1
  <2>2. W(g)
    BY <2>1
  <2> HIDE DEF g, W
  <2> QED
    BY <2>2
<1>5. w[0] = {l} \ {None} /\ \A n \in 1..m : w[n] = Step(w[n - 1])
  <2>1. \A n \in 1..m : n \in 0..m /\ n # 0
    BY SMTT(30)
  <2>2. 0 \in 0..m
    BY SMTT(30)
  <2> HIDE DEF w
  <2> QED
    BY <1>4, <2>1, <2>2
<1> HIDE DEF W, w
<1>6. w[m] = G(m)
  <2> DEFINE S == {n \in 0..m : w[n] # G(n)}
  <2>1. S \in SUBSET Nat /\ m \in 0..m
    BY SMTT(30)
  <2>2. /\ \A n \in S : n \in 0..m /\ w[n] # G(n)
        /\ \A n \in 0..m : n \notin S => w[n] = G(n)
    OBVIOUS
  <2> HIDE DEF S
  <2>3. SUFFICES ASSUME S # {} PROVE FALSE
    BY <2>1, <2>2
  <2>4. PICK n \in S : \A k \in S : n <= k
    BY <2>1, <2>3, Least
  <2>5. n # 0
    BY <1>2, <1>5, <2>2
  <2>6. n \in 1..m /\ n - 1 \in 0..m /\ ~(n <= n - 1)
    BY <2>2, <2>5, SMTT(30)
  <2> QED
    BY <1>3, <1>5, <2>2, <2>4, <2>6
<1>7. G(m) = From(s, a, c)
  <2>1. {j \in a..c : j <= a + m} = a..c
    BY SMTT(30)
  <2> QED
    BY <2>1 DEF G, From
<1> QED
  BY <1>6, <1>7 DEF W, w, Step, Reached

\* What the controller visits in frame i, if its slot leads into the chain.
LEMMA VisitedFrom ==
  ASSUME NEW c \in Nat, NEW nodes \in SUBSET Qh, NEW s, ChainOrder(s, hlink, c, nodes),
         c = Cardinality(nodes), NEW a \in 1..(c + 1), NEW i, list[i] = s[a]
  PROVE  Visited(i) = From(s, a, c)
<1>1. None \notin nodes /\ IsFiniteSet(Qh)
  BY PeriodicAssumption
<1>2. Cardinality(Qh) \in Nat /\ c <= Cardinality(Qh)
  BY <1>1, FS_CardinalityType, FS_Subset
<1>3. Reached(list[i], hlink, Cardinality(Qh)) = From(s, a, c)
  BY <1>1, <1>2, ChainWalk, SMTT(30)
<1> QED
  BY <1>3 DEF Visited, Reached

\* A node of a chain leads to another node or ends it.
LEMMA ChainCloses ==
  ASSUME NEW link, NEW nodes \in SUBSET Qh, NEW head, ChainFrom(link, nodes, head)
  PROVE  /\ head \in nodes \cup {None}
         /\ \A q \in nodes : link[q] \in nodes \cup {None} /\ link[q] # q
<1> DEFINE c == Cardinality(nodes)
<1>1. c \in Nat
  BY PeriodicAssumption, FS_Subset, FS_CardinalityType
<1>2. PICK s \in [1..(c + 1) -> nodes \cup {None}] : ChainOrder(s, link, c, nodes) /\ s[1] = head
  BY DEF ChainFrom, Numbered
<1> HIDE DEF c
<1>3. 1 \in 1..(c + 1) /\ \A i \in 1..c : i \in 1..(c + 1) /\ i + 1 \in 1..(c + 1) /\ i # i + 1
  BY <1>1, SMTT(30)
<1>4. ASSUME NEW q \in nodes PROVE link[q] \in nodes \cup {None} /\ link[q] # q
  <2>1. PICK i \in 1..c : s[i] = q
    BY <1>2 DEF ChainOrder
  <2>2. link[q] = s[i + 1]
    BY <1>2, <2>1 DEF ChainOrder
  <2>3. s[i + 1] # s[i]
    BY <1>2, <1>3 DEF ChainOrder
  <2> QED
    BY <1>2, <1>3, <2>1, <2>2, <2>3
<1> QED
  BY <1>2, <1>3, <1>4

\* Links outside of it do not matter to a chain.
LEMMA ChainKept ==
  ASSUME NEW link, NEW link2, NEW nodes, NEW head, ChainFrom(link, nodes, head),
         \A q \in nodes : link2[q] = link[q]
  PROVE  ChainFrom(link2, nodes, head)
  BY DEF ChainFrom, Numbered, ChainOrder

\* The number of nodes with one more.
LEMMA OneMore ==
  ASSUME NEW nodes \in SUBSET Qh, NEW x \in Qh \ nodes
  PROVE  /\ Cardinality(nodes) \in Nat
         /\ Cardinality(nodes \cup {x}) = Cardinality(nodes) + 1
<1>1. IsFiniteSet(nodes)
  BY PeriodicAssumption, FS_Subset
<1> QED
  BY <1>1, FS_CardinalityType, FS_AddElement

\* A new head.
LEMMA ChainPush ==
  ASSUME NEW link, NEW link2, NEW nodes \in SUBSET Qh, NEW head, ChainFrom(link, nodes, head),
         NEW x \in Qh \ nodes, link2[x] = head, \A q \in nodes : link2[q] = link[q]
  PROVE  ChainFrom(link2, nodes \cup {x}, x)
<1> DEFINE c == Cardinality(nodes)
<1>1. c \in Nat /\ Cardinality(nodes \cup {x}) = c + 1
  BY OneMore
<1>2. PICK s : ChainOrder(s, link, c, nodes) /\ s[1] = head
  BY DEF ChainFrom, Numbered
<1> HIDE DEF c
<1> DEFINE p == 1
<1>3. p \in 1..(c + 1) /\ \A i \in 1..c : i + 1 # p
  BY <1>1, SMTT(30)
<1>4. None \notin nodes /\ x \notin nodes /\ x # None
  BY PeriodicAssumption
<1>5. \A i \in 1..c : link2[s[i]] = IF i + 1 = p THEN x ELSE link[s[i]]
  BY <1>2, <1>3 DEF ChainOrder
<1>6. Numbered(link2, c + 1, nodes \cup {x}, x)
  <2>1. Relinked(s, link, link2, c, p, x) /\ x = IF p = 1 THEN x ELSE s[1]
    BY <1>2, <1>5 DEF Relinked
  <2> HIDE DEF p
  <2> QED
    BY ONLY <1>1, <1>2, <1>3, <1>4, <2>1, ChainInsert, ZenonT(30)
<1> QED
  BY <1>1, <1>6 DEF ChainFrom

\* A new node behind another one.
LEMMA ChainInsertAfter ==
  ASSUME NEW link, NEW link2, NEW nodes \in SUBSET Qh, NEW head, ChainFrom(link, nodes, head),
         NEW x \in Qh \ nodes, NEW b \in nodes, link2[x] = link[b], link2[b] = x,
         \A q \in nodes \ {b} : link2[q] = link[q]
  PROVE  ChainFrom(link2, nodes \cup {x}, head)
<1> DEFINE c == Cardinality(nodes)
<1>1. c \in Nat /\ Cardinality(nodes \cup {x}) = c + 1
  BY OneMore
<1>2. PICK s : ChainOrder(s, link, c, nodes) /\ s[1] = head
  BY DEF ChainFrom, Numbered
<1> HIDE DEF c
<1>3. PICK j \in 1..c : s[j] = b
  BY <1>2 DEF ChainOrder
<1>4. /\ j + 1 \in 1..(c + 1) /\ j + 1 # 1
      /\ \A i \in 1..c : i \in 1..(c + 1) /\ (i + 1 = j + 1 => i = j)
  BY <1>1, SMTT(30)
<1>5. None \notin nodes /\ x \notin nodes /\ x # None
  BY PeriodicAssumption
<1>6. link2[x] = s[j + 1]
  BY <1>2, <1>3 DEF ChainOrder
<1>7. ASSUME NEW i \in 1..c PROVE link2[s[i]] = IF i + 1 = j + 1 THEN x ELSE link[s[i]]
  <2>1. CASE i = j
    BY <1>3, <2>1
  <2>2. CASE i # j
    <3>1. s[i] # s[j] /\ s[i] \in nodes
      BY <1>2, <1>4, <2>2 DEF ChainOrder
    <3> QED
      BY <1>3, <1>4, <2>2, <3>1
  <2> QED
    BY <2>1, <2>2
<1> DEFINE p == j + 1
<1>8. p \in 1..(c + 1) /\ head = (IF p = 1 THEN x ELSE s[1]) /\ Relinked(s, link, link2, c, p, x)
  BY <1>2, <1>4, <1>6, <1>7 DEF Relinked
<1> HIDE DEF p
<1>9. Numbered(link2, c + 1, nodes \cup {x}, head)
  BY ONLY <1>1, <1>2, <1>5, <1>8, ChainInsert, ZenonT(30)
<1> QED
  BY <1>1, <1>9 DEF ChainFrom

\* What publishing x behind b writes.
Spliced(link, link2, nxt, nxt2, prv, prv2, x, b) ==
  \A q \in Qh : /\ link2[q] = IF q = b THEN x ELSE link[q]
                /\ nxt2[q] = IF q = b THEN x ELSE nxt[q]
                /\ prv2[q] = IF q = x THEN b ELSE IF q = nxt[x] THEN x ELSE prv[q]

\* The metadata of a new head, and of a new node behind another one, when the
\* node after it learns its new predecessor.
LEMMA MirrorGrows ==
  ASSUME NEW link, NEW link2, NEW nxt, NEW nxt2, NEW prv, NEW prv2, NEW nodes \in SUBSET Qh, NEW head,
         ChainFrom(link, nodes, head), Mirrored(link, nxt, prv, nodes, head),
         NEW x \in Qh \ nodes, NEW b \in nodes \cup {None},
         link[x] = nxt[x], nxt[x] = IF b = None THEN head ELSE link[b],
         Spliced(link, link2, nxt, nxt2, prv, prv2, x, b)
  PROVE  Mirrored(link2, nxt2, prv2, nodes \cup {x}, IF b = None THEN x ELSE head)
<1> USE DEF Spliced
<1>1. None \notin Qh /\ x # b /\ x # None /\ x \notin nodes
  <2>1. None \notin Qh /\ x \in Qh /\ x \notin nodes
    BY PeriodicAssumption
  <2> QED
    BY ONLY <2>1, b \in nodes \cup {None}, ZenonT(30)
<1>2. head \in nodes \cup {None} /\ \A q \in nodes : link[q] \in nodes \cup {None} /\ link[q] = nxt[q]
  BY ChainCloses DEF Mirrored
<1>3. nxt[x] \in nodes \cup {None}
  BY <1>2
<1>4. ASSUME NEW q \in nodes, nxt[q] # None, nxt[q] = nxt[x] PROVE q = b
  <2>1. prv[nxt[q]] = q /\ q # None
    BY <1>1, <1>4 DEF Mirrored
  <2>2. CASE b = None
    BY <1>4, <2>1, <2>2 DEF Mirrored
  <2>3. CASE b # None
    <3>1. b \in nodes /\ nxt[x] = nxt[b]
      BY <1>2, <2>3
    <3>2. prv[nxt[b]] = b
      BY <1>4, <3>1 DEF Mirrored
    <3> QED
      BY <1>4, <2>1, <3>1, <3>2
  <2> QED
    BY <2>2, <2>3
<1>5. ASSUME NEW q \in nodes \cup {x}
      PROVE  link2[q] = nxt2[q] /\ (nxt2[q] # None => prv2[nxt2[q]] = q)
  <2>0. q \in Qh /\ link2[q] = nxt2[q]
    BY <1>2
  <2>1. CASE q = x
    BY <1>1, <1>3, <2>0, <2>1
  <2>2. CASE q = b
    BY <1>1, <2>0, <2>2
  <2>3. CASE q # x /\ q # b
    <3>1. q \in nodes /\ nxt2[q] = nxt[q] /\ nxt[q] \in nodes \cup {None}
      BY <1>2, <2>0, <2>3
    <3>2. nxt[q] # None => nxt[q] # x /\ nxt[q] # nxt[x] /\ nxt[q] \in Qh /\ prv[nxt[q]] = q
      BY <1>1, <1>4, <2>3, <3>1 DEF Mirrored
    <3> QED
      BY <2>0, <3>1, <3>2
  <2> QED
    BY <2>1, <2>2, <2>3
<1>6. CASE b = None
  <2>1. prv2[x] = None
    BY <1>6
  <2> QED
    BY <1>5, <1>6, <2>1 DEF Mirrored
<1>7. CASE b # None
  <2>1. head # None => prv2[head] = None
    <3> SUFFICES ASSUME head # None PROVE prv2[head] = None
      OBVIOUS
    <3>1. head \in nodes /\ head \in Qh /\ head # x /\ prv[head] = None
      BY <1>1, <1>2 DEF Mirrored
    <3>2. head # nxt[x]
      <4>1. b \in nodes /\ nxt[x] = nxt[b] /\ b # None
        BY <1>2, <1>7
      <4>2. nxt[b] # None => prv[nxt[b]] = b
        BY <4>1 DEF Mirrored
      <4> QED
        BY <3>1, <4>1, <4>2
    <3> QED
      BY <3>1, <3>2
  <2> QED
    BY <1>5, <1>7, <2>1 DEF Mirrored
<1> QED
  BY <1>6, <1>7
-----------------------------------------------------------------------------
\* The frame list has a first slot.
LEMMA SlotFacts == Slots \in Nat \ {0} /\ 0 \in Slot /\ \A i \in Slot : i \in Nat /\ i < Slots
<1>1. MaxPower \in 0..(MaxPower + 4)
  BY PeriodicAssumption, SMTT(30)
<1>2. Slots \in Nat \ {0}
  BY <1>1, PowerIsPositive DEF Slots
<1> QED
  BY <1>2, SMTT(30) DEF Slot

\* The interval of any endpoint is normalised to one that the table has.
LEMMA IntervalType ==
  ASSUME NEW b \in 1..(MaxPower + 5)
  PROVE  from_b_interval(b) \in 0..(MaxPower + 3)
<1>1. MaxPower \in Nat /\ b - 1 \in 0..(MaxPower + 4)
  BY PeriodicAssumption, SMTT(30)
<1>2. CASE b - 1 = MaxPower + 4
  <2>1. /\ 2^(MaxPower + 1) = 2 * 2^MaxPower
        /\ 2^((MaxPower + 1) + 1) = 2 * 2^(MaxPower + 1)
        /\ 2^((MaxPower + 2) + 1) = 2 * 2^(MaxPower + 2)
        /\ 2^((MaxPower + 3) + 1) = 2 * 2^(MaxPower + 3)
    <3>1. {MaxPower, MaxPower + 1, MaxPower + 2, MaxPower + 3} \subseteq 0..(MaxPower + 3)
      BY <1>1, SMTT(30)
    <3> QED
      BY <3>1, PowersOfTwo
  <2>2. (MaxPower + 1) + 1 = MaxPower + 2 /\ (MaxPower + 2) + 1 = MaxPower + 3 /\ (MaxPower + 3) + 1 = MaxPower + 4
    BY <1>1, SMTT(30)
  <2>3. 2^(MaxPower + 4) = 2 * (2 * (2 * (2 * Slots)))
    BY <2>1, <2>2 DEF Slots
  <2>4. 2 * (2 * (2 * (2 * Slots))) >= Slots * 8
    BY SlotFacts, SMTT(30)
  <2>5. from_b_interval(b) = MaxPower + 3
    BY <1>2, <2>3, <2>4 DEF from_b_interval
  <2> QED
    BY <1>1, <2>5, SMTT(30)
<1>3. CASE b - 1 # MaxPower + 4
  <2>1. b - 1 \in 0..(MaxPower + 3) /\ MaxPower + 3 \in 0..(MaxPower + 3)
    BY <1>1, <1>3, SMTT(30)
  <2> QED
    BY <2>1 DEF from_b_interval
<1> QED
  BY <1>2, <1>3

\* Its frames are a power of two.
LEMMA IndexType ==
  ASSUME PeriodicTypeOK, NEW q \in Qh
  PROVE  /\ Index(q) \in 0..MaxPower /\ Index(q) \in 0..(MaxPower + 4)
         /\ frames(q) = 2^Index(q) /\ frames(q) \in Nat \ {0}
<1>1. interval[q] \in 0..(MaxPower + 3) /\ MaxPower \in Nat
  BY PeriodicAssumption DEF PeriodicTypeOK
<1>2. Index(q) \in 0..MaxPower
  BY <1>1, SMTT(30) DEF Index, frames_power
<1>3. Index(q) \in 0..(MaxPower + 4)
  BY <1>1, <1>2, SMTT(30)
<1>4. frames(q) = 2^Index(q)
  BY DEF frames, Index
<1> QED
  BY <1>2, <1>3, <1>4, PowerIsPositive

\* The queue heads that play a part when q is added are in the chain.
LEMMA Neighbours ==
  ASSUME PeriodicTypeOK, NEW q \in Qh
  PROVE  /\ Existing(q) \in added \cup {None} /\ PrevQh(q) \in added \cup {None}
         /\ Before(q) \in added \cup {None}
         /\ PrevQh(q) = None => \A n \in 0..MaxPower : n < Index(q) => qhs[n] = None
<1>1. Index(q) \in 0..MaxPower
  BY IndexType
<1>2. Existing(q) \in added \cup {None}
  BY <1>1 DEF Existing, PeriodicTypeOK
<1>3. PrevPowers(q) \in SUBSET Nat /\ \A n \in PrevPowers(q) : n \in 0..MaxPower
  BY <1>1, PeriodicAssumption, SMTT(30) DEF PrevPowers
<1>4. CASE PrevPowers(q) = {}
  <2>1. \A n \in 0..MaxPower : n < Index(q) => n \in 0..(Index(q) - 1)
    BY <1>1, PeriodicAssumption, SMTT(30)
  <2>2. PrevQh(q) = None /\ \A n \in 0..(Index(q) - 1) : qhs[n] = None
    BY <1>4 DEF PrevQh, PrevPowers
  <2> QED
    BY <1>2, <2>1, <2>2 DEF Before
<1>5. CASE PrevPowers(q) # {}
  <2>1. \E m \in PrevPowers(q) : \A k \in PrevPowers(q) : m <= k
    BY <1>3, <1>5, Least
  <2>2. Min(PrevPowers(q)) \in PrevPowers(q)
    BY <2>1 DEF Min
  <2>3. PrevQh(q) = qhs[Min(PrevPowers(q))] /\ qhs[Min(PrevPowers(q))] # None
    BY <1>5, <2>2 DEF PrevQh, PrevPowers
  <2>4. PrevQh(q) \in added /\ PrevQh(q) # None
    <3>1. Min(PrevPowers(q)) \in 0..MaxPower
      BY <1>3, <2>2
    <3> QED
      BY <2>3, <3>1 DEF PeriodicTypeOK
  <2> QED
    BY <1>2, <2>4 DEF Before
<1> QED
  BY <1>4, <1>5

\* The slots of a queue head are slots of a new one whose interval is not longer.
LEMMA SharedSlots ==
  ASSUME PeriodicTypeOK, TableInv, NEW x \in Qh, PrevQh(x) = None, NEW q \in added \cup {x},
         NEW i \in Slot, i % frames(q) = 0
  PROVE  i % frames(x) = 0
<1>1. q \in Qh /\ Index(x) \in 0..(MaxPower + 4) /\ frames(x) = 2^Index(x)
  BY IndexType DEF PeriodicTypeOK
<1>2. Index(q) \in 0..(MaxPower + 4) /\ frames(q) = 2^Index(q) /\ Index(q) \in 0..MaxPower
  BY <1>1, IndexType
<1>3. ~(Index(q) < Index(x))
  <2>1. CASE q = x
    BY <1>1, <2>1, SMTT(30)
  <2>2. CASE q \in added
    <3>1. qhs[Index(q)] # None
      BY <2>2 DEF TableInv
    <3> QED
      BY <1>2, <3>1, Neighbours
  <2> QED
    BY <2>1, <2>2
<1>4. Index(x) \in 0..Index(q) /\ i \in Nat
  BY <1>1, <1>2, <1>3, SlotFacts, SMTT(30)
<1>5. i % 2^Index(q) = 0
  BY <1>2
<1>6. i % 2^Index(x) = 0
  BY <1>2, <1>4, <1>5, Coarser
<1> QED
  BY <1>1, <1>6
-----------------------------------------------------------------------------
\* The empty list that new writes satisfies the invariant.
LEMMA PeriodicInit == Init => PeriodicInv
<1> SUFFICES ASSUME Init PROVE PeriodicInv
  OBVIOUS
<1>1. PeriodicTypeOK
  BY PeriodicAssumption, SMTT(30) DEF Init, PeriodicTypeOK, MaybeQh
<1>2. Nodes = {} /\ Head = None
  BY DEF Init, Nodes, Head
<1>3. ChainFrom(hlink, {}, None)
  <2> DEFINE s == [i \in 1..(0 + 1) |-> None]
  <2>1. s \in [1..(0 + 1) -> {} \cup {None}] /\ s[0 + 1] = None /\ s[1] = None
    BY SMTT(30)
  <2>2. 1..0 = {} /\ \A i, j \in 1..(0 + 1) : i = j
    BY SMTT(30)
  <2> HIDE DEF s
  <2>3. ChainOrder(s, hlink, 0, {})
    BY <2>1, <2>2 DEF ChainOrder
  <2> QED
    BY <2>1, <2>3, FS_EmptySet DEF ChainFrom, Numbered
<1>4. ChainInv
  BY <1>2, <1>3 DEF ChainInv, Mirrored, Init
<1>5. FirstSlotInv
  BY SlotFacts DEF FirstSlotInv, Init
<1>6. TableInv /\ SlotsInv
  BY DEF TableInv, SlotsInv, Init
<1> QED
  BY <1>1, <1>4, <1>5, <1>6 DEF PeriodicInv

\* Entering add_qh changes no link: it only fixes the queue head and its interval.
LEMMA BeginAddKeeps ==
  ASSUME PeriodicInv, NEW x \in Qh, BeginAdd(x)
  PROVE  PeriodicInv'
<1>1. /\ pc = "idle" /\ x \notin added /\ pc' = "link" /\ qh' = x
      /\ UNCHANGED <<list, hlink, next, prev, qhs, first_qh, added, idx, ordered>>
  BY DEF BeginAdd
<1>2. PICK b \in 1..(MaxPower + 5) : interval' = [interval EXCEPT ![x] = from_b_interval(b)]
  BY DEF BeginAdd
<1>3. interval' \in [Qh -> 0..(MaxPower + 3)] /\ \A q \in added : interval'[q] = interval[q]
  BY <1>1, <1>2, IntervalType DEF PeriodicInv, PeriodicTypeOK
<1>4. PeriodicTypeOK'
  BY <1>1, <1>3 DEF PeriodicInv, PeriodicTypeOK
<1>5. Nodes = added /\ Head = first_qh /\ Nodes' = added /\ Head' = first_qh
  BY <1>1 DEF Nodes, Head
<1>6. ChainInv'
  BY <1>1, <1>5 DEF PeriodicInv, ChainInv
<1>7. FirstSlotInv'
  BY <1>1 DEF PeriodicInv, FirstSlotInv
<1>8. \A q \in added : Index(q)' = Index(q) /\ frames(q)' = frames(q)
  BY <1>3 DEF Index, frames
<1>9. TableInv'
  <2>1. ASSUME NEW n \in 0..MaxPower, qhs[n] # None PROVE Index(qhs[n])' = n
    <3>1. qhs[n] \in added /\ qhs'[n] = qhs[n]
      BY <1>1, <2>1 DEF PeriodicInv, PeriodicTypeOK
    <3>2. interval'[qhs[n]] = interval[qhs[n]]
      BY <1>3, <3>1
    <3>3. Index(qhs[n]) = n
      BY <2>1 DEF PeriodicInv, TableInv
    <3> QED
      BY <3>1, <3>2, <3>3 DEF Index
  <2> QED
    BY <1>1, <1>8, <2>1 DEF PeriodicInv, TableInv
<1>10. SlotsInv'
  BY <1>1, <1>8 DEF PeriodicInv, SlotsInv
<1> QED
  BY <1>4, <1>6, <1>7, <1>9, <1>10 DEF PeriodicInv

\* Linking the new queue head to its successor touches nothing reachable.
LEMMA LinkNewKeeps ==
  ASSUME PeriodicInv, LinkNew
  PROVE  PeriodicInv'
<1>1. /\ pc = "link" /\ pc' = "publish"
      /\ UNCHANGED <<list, prev, interval, qhs, first_qh, added, qh, idx, ordered>>
  BY DEF LinkNew
<1>2. qh \in Qh /\ qh \notin added /\ first_qh \in added \cup {None} /\ None \notin Qh
  BY <1>1, PeriodicAssumption DEF PeriodicInv, PeriodicTypeOK
<1>3. Nodes = added /\ Head = first_qh /\ Nodes' = added /\ Head' = first_qh
  BY <1>1 DEF Nodes, Head
<1>4. ChainFrom(hlink, added, first_qh) /\ Mirrored(hlink, next, prev, added, first_qh)
  BY <1>3 DEF PeriodicInv, ChainInv
<1>5. NextQh(qh) \in added \cup {None} /\ added \subseteq Qh
  <2>1. Existing(qh) \in added \cup {None} /\ PrevQh(qh) \in added \cup {None}
    BY <1>2, Neighbours DEF PeriodicInv
  <2>2. \A q \in added : hlink[q] \in added \cup {None}
    BY <1>4, ChainCloses DEF PeriodicInv, PeriodicTypeOK
  <2> QED
    BY <1>2, <2>1, <2>2 DEF NextQh, PeriodicInv, PeriodicTypeOK
<1>6. /\ hlink' \in [Qh -> MaybeQh] /\ next' \in [Qh -> MaybeQh]
      /\ hlink'[qh] = NextQh(qh) /\ next'[qh] = NextQh(qh)
      /\ \A q \in added : hlink'[q] = hlink[q] /\ next'[q] = next[q]
  <2>1. NextQh(qh) \in MaybeQh
    BY <1>5 DEF MaybeQh
  <2>2. hlink' = [hlink EXCEPT ![qh] = NextQh(qh)] /\ next' = [next EXCEPT ![qh] = NextQh(qh)]
    BY DEF LinkNew
  <2>3. hlink \in [Qh -> MaybeQh] /\ next \in [Qh -> MaybeQh]
    BY DEF PeriodicInv, PeriodicTypeOK
  <2> QED
    BY <1>2, <1>5, <2>1, <2>2, <2>3
<1>7. PeriodicTypeOK'
  BY <1>1, <1>6 DEF PeriodicInv, PeriodicTypeOK
<1>8. ChainFrom(hlink', added, first_qh)
  BY <1>4, <1>6, ChainKept
<1>9. Mirrored(hlink', next', prev, added, first_qh)
  BY <1>4, <1>6 DEF Mirrored
<1>10. NextQh(qh)' = NextQh(qh)
  <2>1. Existing(qh)' = Existing(qh) /\ PrevQh(qh)' = PrevQh(qh)
    BY <1>1 DEF Existing, PrevQh, PrevPowers, Index
  <2>2. Existing(qh) \in added \cup {None} /\ PrevQh(qh) \in added \cup {None}
    BY <1>2, Neighbours DEF PeriodicInv
  <2> QED
    BY <1>1, <1>6, <2>1, <2>2 DEF NextQh
<1>11. ChainInv'
  BY <1>1, <1>3, <1>6, <1>8, <1>9, <1>10 DEF ChainInv
<1>12. FirstSlotInv' /\ TableInv' /\ SlotsInv'
  BY <1>1 DEF PeriodicInv, FirstSlotInv, TableInv, SlotsInv, Index, frames
<1> QED
  BY <1>7, <1>11, <1>12 DEF PeriodicInv

\* The new queue head takes its place in the table.
LEMMA TableGrows ==
  ASSUME PeriodicTypeOK, TableInv, NEW x \in Qh, x = qh, qh' = qh, interval' = interval,
         added' = added \cup {x}, qhs' = [qhs EXCEPT ![Index(x)] = x]
  PROVE  TableInv' /\ qhs' \in [0..MaxPower -> added' \cup {None}]
<1>1. Index(x) \in 0..MaxPower /\ x # None
  BY IndexType, PeriodicAssumption
<1>2. qhs \in [0..MaxPower -> added \cup {None}]
  BY DEF PeriodicTypeOK
<1>3. /\ qhs' \in [0..MaxPower -> added' \cup {None}] /\ qhs'[Index(x)] = x
      /\ \A n \in 0..MaxPower : n # Index(x) => qhs'[n] = qhs[n]
  BY <1>1, <1>2
<1>4. \A q : Index(q)' = Index(q)
  BY DEF Index
<1>5. ASSUME NEW q \in added' PROVE qhs'[Index(q)] # None
  <2>1. CASE Index(q) = Index(x)
    BY <1>1, <1>3, <2>1
  <2>2. CASE Index(q) # Index(x)
    <3>1. q \in added /\ q \in Qh
      BY <2>2 DEF PeriodicTypeOK
    <3> QED
      BY <1>3, <2>2, <3>1, IndexType DEF TableInv
  <2> QED
    BY <2>1, <2>2
<1>6. ASSUME NEW n \in 0..MaxPower, qhs'[n] # None PROVE Index(qhs[n])' = n
  <2>1. CASE n = Index(x)
    BY <1>3, <2>1 DEF Index
  <2>2. CASE n # Index(x)
    <3>1. qhs'[n] = qhs[n] /\ Index(qhs[n]) = n
      BY <1>3, <1>6, <2>2 DEF TableInv
    <3> QED
      BY <3>1 DEF Index
  <2> QED
    BY <2>1, <2>2
<1>7. \A q \in added' : qhs'[Index(q)'] # None
  BY <1>4, <1>5
<1> QED
  BY <1>3, <1>6, <1>7 DEF TableInv

\* Publishing it puts it into the chain: behind one of its interval, behind a
\* shorter one, or in front.
LEMMA PublishNewKeeps ==
  ASSUME PeriodicInv, PublishNew
  PROVE  PeriodicInv'
<1>1. /\ pc = "publish" /\ UNCHANGED <<list, interval, first_qh, qh>>
      /\ ordered' = (ordered /\ (Existing(qh) # None \/ PrevQh(qh) = None))
  BY DEF PublishNew
<1>2. /\ qh \in Qh /\ qh \notin added /\ added \in SUBSET Qh /\ first_qh \in added \cup {None} /\ None \notin Qh
      /\ hlink \in [Qh -> MaybeQh] /\ next \in [Qh -> MaybeQh] /\ prev \in [Qh -> MaybeQh]
  BY <1>1, PeriodicAssumption DEF PeriodicInv, PeriodicTypeOK
<1>3. Nodes = added /\ Head = first_qh
  BY <1>1 DEF Nodes, Head
<1>4. /\ ChainFrom(hlink, added, first_qh) /\ Mirrored(hlink, next, prev, added, first_qh)
      /\ hlink[qh] = NextQh(qh) /\ next[qh] = NextQh(qh)
  BY <1>1, <1>3 DEF PeriodicInv, ChainInv
<1>5. /\ Existing(qh) \in added \cup {None} /\ PrevQh(qh) \in added \cup {None} /\ Before(qh) \in added \cup {None}
      /\ Index(qh) \in 0..MaxPower /\ frames(qh) \in Nat \ {0}
  BY <1>2, Neighbours, IndexType DEF PeriodicInv
<1>6. NextQh(qh) = IF Before(qh) = None THEN first_qh ELSE hlink[Before(qh)]
  BY DEF NextQh, Before
<1>7. \A q \in Qh : /\ hlink'[q] = IF q = Before(qh) THEN qh ELSE hlink[q]
                    /\ next'[q] = IF q = Before(qh) THEN qh ELSE next[q]
                    /\ prev'[q] = IF q = qh THEN Before(qh) ELSE IF q = next[qh] THEN qh ELSE prev[q]
  BY DEF PublishNew, SetPrev
<1>8. hlink' \in [Qh -> MaybeQh] /\ next' \in [Qh -> MaybeQh] /\ prev' \in [Qh -> MaybeQh]
  <2>1. qh \in MaybeQh /\ Before(qh) \in MaybeQh
    BY <1>2, <1>5 DEF MaybeQh
  <2>2. \A q \in Qh : hlink'[q] \in MaybeQh /\ next'[q] \in MaybeQh /\ prev'[q] \in MaybeQh
    BY <1>2, <1>7, <2>1
  <2>3. /\ hlink' = [q \in Qh |-> hlink'[q]] /\ next' = [q \in Qh |-> next'[q]]
        /\ prev' = [q \in Qh |-> prev'[q]]
    BY DEF PublishNew, SetPrev
  <2> QED
    BY <2>2, <2>3
<1> DEFINE H == IF Before(qh) = None THEN qh ELSE first_qh
<1>9. ChainFrom(hlink', added \cup {qh}, H)
  <2>1. CASE Before(qh) = None
    <3>1. hlink'[qh] = first_qh /\ \A q \in added : hlink'[q] = hlink[q]
      BY <1>2, <1>4, <1>6, <1>7, <2>1
    <3>2. ChainFrom(hlink', added \cup {qh}, qh)
      BY <1>2, <1>4, <3>1, ChainPush
    <3> QED
      BY <2>1, <3>2
  <2>2. CASE Before(qh) # None
    <3>1. Before(qh) \in added /\ Before(qh) \in Qh /\ Before(qh) # qh
      BY <1>2, <1>5, <2>2
    <3>2. /\ hlink'[qh] = hlink[Before(qh)] /\ hlink'[Before(qh)] = qh
          /\ \A q \in added \ {Before(qh)} : hlink'[q] = hlink[q]
      BY <1>2, <1>4, <1>6, <1>7, <2>2, <3>1
    <3>3. ChainFrom(hlink', added \cup {qh}, first_qh)
      BY <1>2, <1>4, <3>1, <3>2, ChainInsertAfter
    <3> QED
      BY <2>2, <3>3
  <2> QED
    BY <2>1, <2>2
<1>10. Mirrored(hlink', next', prev', added \cup {qh}, H)
  <2>1. hlink[qh] = next[qh] /\ next[qh] = IF Before(qh) = None THEN first_qh ELSE hlink[Before(qh)]
    BY <1>4, <1>6
  <2>2. qh \in Qh \ added
    BY <1>2
  <2>3. Spliced(hlink, hlink', next, next', prev, prev', qh, Before(qh))
    BY <1>7 DEF Spliced
  <2> QED
    BY <1>2, <1>4, <1>5, <2>1, <2>2, <2>3, MirrorGrows
<1>11. CASE Existing(qh) # None
  <2>1. /\ pc' = "idle" /\ added' = added \cup {qh} /\ idx' = idx
        /\ qhs' = [qhs EXCEPT ![Index(qh)] = qh]
    BY <1>11 DEF PublishNew
  <2>2. TableInv' /\ qhs' \in [0..MaxPower -> added' \cup {None}]
    BY <1>1, <1>2, <2>1, TableGrows DEF PeriodicInv
  <2>3. PeriodicTypeOK'
    BY <1>1, <1>2, <1>8, <2>1, <2>2 DEF PeriodicInv, PeriodicTypeOK
  <2>4. Nodes' = added \cup {qh} /\ Head' = first_qh /\ H = first_qh
    <3>1. Before(qh) # None
      BY <1>11 DEF Before
    <3> QED
      BY <1>1, <2>1, <3>1 DEF Nodes, Head
  <2>5. ChainInv'
    BY <1>9, <1>10, <2>1, <2>4 DEF ChainInv
  <2>6. FirstSlotInv'
    BY <1>1, <2>1 DEF PeriodicInv, FirstSlotInv
  <2>7. SlotsInv'
    <3> SUFFICES ASSUME ordered' PROVE SlotsInv'
      BY DEF SlotsInv
    <3>1. ordered /\ \A q \in added, i \in Slot : i % frames(q) = 0 => list[i] = first_qh
      BY <1>1 DEF PeriodicInv, SlotsInv
    <3>2. Existing(qh) \in added /\ frames(qh) = frames(Existing(qh))
      <4>1. Existing(qh) \in added /\ Index(Existing(qh)) = Index(qh)
        BY <1>5, <1>11 DEF PeriodicInv, TableInv, Existing
      <4> QED
        BY <4>1 DEF frames, Index
    <3>3. \A q \in added', i \in Slot : i % frames(q) = 0 => list[i] = first_qh
      BY <2>1, <3>1, <3>2
    <3>4. \A q : frames(q)' = frames(q)
      BY <1>1 DEF frames
    <3> QED
      BY <1>1, <2>1, <3>3, <3>4 DEF SlotsInv
  <2> QED
    BY <2>2, <2>3, <2>5, <2>6, <2>7 DEF PeriodicInv
<1>12. CASE Existing(qh) = None
  <2>1. /\ pc' = "slots" /\ added' = added /\ qhs' = qhs
        /\ idx' = (IF PrevQh(qh) # None THEN frames(qh) ELSE 0)
    BY <1>12 DEF PublishNew
  <2>2. PrevQh(qh)' = PrevQh(qh) /\ Existing(qh)' = Existing(qh) /\ frames(qh)' = frames(qh)
    BY <1>1, <2>1 DEF PrevQh, PrevPowers, Existing, Index, frames
  <2>3. idx' \in Nat /\ (PrevQh(qh) # None => idx' > 0) /\ (PrevQh(qh) = None => idx' = 0)
    BY <1>5, <2>1, SMTT(30)
  <2>4. PeriodicTypeOK'
    BY <1>1, <1>2, <1>8, <2>1, <2>3 DEF PeriodicInv, PeriodicTypeOK
  <2>5. Before(qh) = PrevQh(qh)
    BY <1>12 DEF Before
  <2>6. Nodes' = added \cup {qh} /\ Head' = H
    BY <1>1, <2>1, <2>2, <2>5 DEF Nodes, Head
  <2>7. ChainInv'
    BY <1>9, <1>10, <2>1, <2>6 DEF ChainInv
  <2>8. FirstSlotInv'
    <3>1. PrevQh(qh) = None => hlink'[qh] = first_qh
      <4>1. hlink'[qh] = IF qh = Before(qh) THEN qh ELSE hlink[qh]
        BY <1>2, <1>7
      <4>2. Before(qh) = None => hlink[qh] = first_qh
        BY <1>4, <1>6
      <4> QED
        BY <1>2, <2>5, <4>1, <4>2
    <3>2. list[0] = first_qh
      BY <1>1 DEF PeriodicInv, FirstSlotInv
    <3> QED
      BY <1>1, <1>12, <2>1, <2>2, <2>3, <3>1, <3>2 DEF FirstSlotInv
  <2>9. TableInv'
    BY <1>1, <2>1 DEF PeriodicInv, TableInv, Index
  <2>10. SlotsInv'
    <3> SUFFICES ASSUME ordered' PROVE SlotsInv'
      BY DEF SlotsInv
    <3>1. PrevQh(qh) = None /\ idx' = 0
      BY <1>1, <1>12, <2>3
    <3>2. \A q \in added, i \in Slot : i % frames(q) = 0 => list[i] = first_qh
      BY <1>1 DEF PeriodicInv, SlotsInv
    <3>3. 0 % frames(qh) = 0 /\ \A i \in Slot : ~(i < 0)
      BY <1>5, SlotFacts, SMTT(30)
    <3>4. \A q : frames(q)' = frames(q)
      BY <1>1 DEF frames
    <3> QED
      BY <1>1, <2>1, <2>2, <3>1, <3>2, <3>3, <3>4 DEF SlotsInv
  <2> QED
    BY <2>4, <2>7, <2>8, <2>9, <2>10 DEF PeriodicInv
<1> QED
  BY <1>11, <1>12

\* Each slot written leads to the new head of the chain.
LEMMA WriteSlotKeeps ==
  ASSUME PeriodicInv, WriteSlot
  PROVE  PeriodicInv'
<1>1. /\ pc = "slots" /\ idx < Slots /\ idx' = idx + frames(qh)
      /\ list' = IF TakesSlot(idx) THEN [list EXCEPT ![idx] = qh] ELSE list
      /\ UNCHANGED <<memVars, qhs, first_qh, added, pc, qh, ordered>>
  BY DEF WriteSlot
<1>2. qh \in Qh /\ idx \in Nat /\ list \in [Slot -> MaybeQh]
  BY <1>1 DEF PeriodicInv, PeriodicTypeOK
<1>3. frames(qh) \in Nat \ {0}
  BY <1>2, IndexType DEF PeriodicInv
<1>4. idx \in Slot /\ idx' \in Nat /\ idx' # 0 /\ idx' > 0
  <2>1. \A f \in Nat \ {0} : idx + f \in Nat /\ idx + f # 0 /\ idx + f > 0
    BY <1>2, SMTT(30)
  <2>2. idx \in Slot
    BY <1>1, <1>2, SlotFacts, SMTT(30) DEF Slot
  <2> QED
    BY <1>1, <1>3, <2>1, <2>2
<1>5. /\ list' \in [Slot -> MaybeQh] /\ (TakesSlot(idx) => list'[idx] = qh)
      /\ \A i \in Slot : list'[i] = list[i] \/ list'[i] = qh
      /\ \A i \in Slot : i # idx => list'[i] = list[i]
  <2>1. qh \in MaybeQh
    BY <1>2 DEF MaybeQh
  <2>2. CASE TakesSlot(idx)
    <3>1. list' = [list EXCEPT ![idx] = qh]
      BY <1>1, <2>2
    <3> QED
      BY <1>2, <1>4, <2>1, <3>1
  <2>3. CASE ~TakesSlot(idx)
    BY <1>1, <1>2, <2>3
  <2> QED
    BY <2>2, <2>3
<1>6. PeriodicTypeOK'
  BY <1>1, <1>4, <1>5 DEF PeriodicInv, PeriodicTypeOK, memVars
<1>7. /\ PrevQh(qh)' = PrevQh(qh) /\ Existing(qh)' = Existing(qh) /\ \A q : frames(q)' = frames(q)
      /\ frames(qh)' = frames(qh)
  BY <1>1 DEF PrevQh, PrevPowers, Existing, Index, frames, memVars
<1>8. Nodes' = Nodes /\ Head' = Head
  BY <1>1, <1>7 DEF Nodes, Head
<1>9. ChainInv'
  BY <1>1, <1>8 DEF PeriodicInv, ChainInv, memVars
<1>10. TableInv'
  BY <1>1 DEF PeriodicInv, TableInv, Index, memVars
<1>11. PrevQh(qh) = None => TakesSlot(idx)
  BY DEF TakesSlot
<1>12. FirstSlotInv'
  <2>0. 0 \in Slot /\ Existing(qh) = None
    BY <1>1, SlotFacts DEF PeriodicInv, FirstSlotInv
  <2>1. CASE PrevQh(qh) # None
    <3>1. list[0] = first_qh /\ idx > 0
      BY <1>1, <2>1 DEF PeriodicInv, FirstSlotInv
    <3>2. 0 # idx
      BY <1>2, <3>1, SMTT(30)
    <3> QED
      BY <1>1, <1>4, <1>5, <1>7, <2>0, <2>1, <3>1, <3>2 DEF FirstSlotInv
  <2>2. CASE PrevQh(qh) = None
    <3>1. hlink[qh] = first_qh /\ list[0] = IF idx = 0 THEN first_qh ELSE qh
      BY <1>1, <2>2 DEF PeriodicInv, FirstSlotInv
    <3>2. list'[0] = qh
      BY <1>5, <1>11, <2>0, <2>2, <3>1
    <3> QED
      BY <1>1, <1>4, <1>7, <2>0, <2>2, <3>1, <3>2 DEF FirstSlotInv, memVars
  <2> QED
    BY <2>1, <2>2
<1>13. SlotsInv'
  <2> SUFFICES ASSUME ordered PROVE SlotsInv'
    BY <1>1 DEF SlotsInv
  <2>1. /\ \A q \in added, i \in Slot : i % frames(q) = 0 => list[i] = first_qh \/ list[i] = qh
        /\ PrevQh(qh) = None /\ idx % frames(qh) = 0
        /\ \A i \in Slot : i < idx /\ i % frames(qh) = 0 => list[i] = qh
    BY <1>1 DEF PeriodicInv, SlotsInv
  <2>2. \A q \in added, i \in Slot : i % frames(q) = 0 => list'[i] = first_qh \/ list'[i] = qh
    BY <1>5, <2>1
  <2>3. /\ (idx + frames(qh)) % frames(qh) = 0
        /\ \A i \in Nat : i % frames(qh) = 0 /\ i < idx + frames(qh) => i < idx \/ i = idx
    BY <1>2, <1>3, <2>1, NextMultiple
  <2>4. ASSUME NEW i \in Slot, i < idx', i % frames(qh) = 0 PROVE list'[i] = qh
    <3>1. i \in Nat
      BY SlotFacts
    <3>2. i < idx \/ i = idx
      BY <1>1, <2>3, <2>4, <3>1
    <3> QED
      BY <1>5, <1>11, <2>1, <2>4, <3>2
  <2>5. idx' % frames(qh) = 0
    BY <1>1, <2>3
  <2> QED
    BY <1>1, <1>7, <2>1, <2>2, <2>4, <2>5 DEF SlotsInv
<1> QED
  BY <1>6, <1>9, <1>10, <1>12, <1>13 DEF PeriodicInv

\* When all slots are written, the new queue head is the first one, if it leads.
LEMMA FinishAddKeeps ==
  ASSUME PeriodicInv, FinishAdd
  PROVE  PeriodicInv'
<1>1. /\ pc = "slots" /\ idx >= Slots /\ pc' = "idle" /\ added' = added \cup {qh}
      /\ first_qh' = IF PrevQh(qh) = None THEN qh ELSE first_qh
      /\ qhs' = [qhs EXCEPT ![Index(qh)] = qh]
      /\ UNCHANGED <<list, memVars, qh, idx, ordered>>
  BY DEF FinishAdd
<1>2. qh \in Qh /\ idx \in Nat /\ idx # 0 /\ \A i \in Slot : i < idx
  <2>1. qh \in Qh /\ idx \in Nat
    BY <1>1 DEF PeriodicInv, PeriodicTypeOK
  <2> QED
    BY <1>1, <2>1, SlotFacts, SMTT(30)
<1>3. TableInv' /\ qhs' \in [0..MaxPower -> added' \cup {None}]
  BY <1>1, <1>2, TableGrows DEF PeriodicInv, memVars
<1>4. PeriodicTypeOK'
  BY <1>1, <1>2, <1>3 DEF PeriodicInv, PeriodicTypeOK, memVars
<1>5. Nodes' = Nodes /\ Head' = Head
  BY <1>1 DEF Nodes, Head
<1>6. ChainInv'
  BY <1>1, <1>5 DEF PeriodicInv, ChainInv, memVars
<1>7. FirstSlotInv'
  BY <1>1, <1>2 DEF PeriodicInv, FirstSlotInv
<1>8. SlotsInv'
  <2> SUFFICES ASSUME ordered PROVE SlotsInv'
    BY <1>1 DEF SlotsInv
  <2>1. PrevQh(qh) = None /\ \A i \in Slot : i < idx /\ i % frames(qh) = 0 => list[i] = qh
    BY <1>1 DEF PeriodicInv, SlotsInv
  <2>2. ASSUME NEW q \in added', NEW i \in Slot, i % frames(q) = 0 PROVE list[i] = first_qh'
    <3>1. i % frames(qh) = 0
      <4>1. q \in added \cup {qh}
        BY <1>1
      <4> QED
        BY <1>2, <2>1, <2>2, <4>1, SharedSlots DEF PeriodicInv
    <3> QED
      BY <1>1, <1>2, <2>1, <3>1
  <2>3. \A q : frames(q)' = frames(q)
    BY <1>1 DEF frames, memVars
  <2> QED
    BY <1>1, <2>2, <2>3 DEF SlotsInv
<1> QED
  BY <1>3, <1>4, <1>6, <1>7, <1>8 DEF PeriodicInv

\* PeriodicInv is an invariant: of the chain, its metadata, the table and the slots.
THEOREM PeriodicInvariant == Spec => []PeriodicInv
<1>1. PeriodicInv /\ [Next]_vars => PeriodicInv'
  <2> SUFFICES ASSUME PeriodicInv, [Next]_vars PROVE PeriodicInv'
    OBVIOUS
  <2>1. CASE UNCHANGED vars
    <3>1. UNCHANGED <<list, hlink, next, prev, interval, qhs, first_qh, added, pc, qh, idx, ordered>>
      BY <2>1 DEF vars, memVars
    <3>2. /\ PrevQh(qh)' = PrevQh(qh) /\ Existing(qh)' = Existing(qh) /\ NextQh(qh)' = NextQh(qh)
          /\ frames(qh)' = frames(qh) /\ \A q : frames(q)' = frames(q)
      BY <3>1 DEF NextQh, Existing, PrevQh, PrevPowers, Index, frames
    <3>3. Nodes' = Nodes /\ Head' = Head
      BY <3>1, <3>2 DEF Nodes, Head
    <3>4. PeriodicTypeOK' /\ ChainInv'
      BY <3>1, <3>2, <3>3 DEF PeriodicInv, PeriodicTypeOK, ChainInv
    <3>5. FirstSlotInv' /\ TableInv' /\ SlotsInv'
      BY <3>1, <3>2 DEF PeriodicInv, FirstSlotInv, TableInv, SlotsInv, Index
    <3> QED
      BY <3>4, <3>5 DEF PeriodicInv
  <2> QED
    BY <2>1, BeginAddKeeps, LinkNewKeeps, PublishNewKeeps, WriteSlotKeeps, FinishAddKeeps DEF Next
<1> QED
  BY <1>1, PeriodicInit, PTL DEF Spec

\* What the controller finds in a slot that leads to the head, or past a new
\* head to the rest of the chain.
LEMMA SlotVisits ==
  ASSUME PeriodicInv, NEW i \in Slot
  PROVE  /\ list[i] = Head => Visited(i) = Nodes
         /\ pc = "slots" /\ PrevQh(qh) = None /\ list[i] = first_qh => added \subseteq Visited(i)
<1> DEFINE c == Cardinality(Nodes)
<1>1. Nodes \in SUBSET Qh
  BY DEF PeriodicInv, PeriodicTypeOK, Nodes
<1>2. c \in Nat
  BY <1>1, PeriodicAssumption, FS_Subset, FS_CardinalityType
<1>3. PICK s : ChainOrder(s, hlink, c, Nodes) /\ s[1] = Head
  BY DEF PeriodicInv, ChainInv, ChainFrom, Numbered
<1>c. c = Cardinality(Nodes)
  OBVIOUS
<1> HIDE DEF c
<1>4. From(s, 1, c) = Nodes
  <2>1. /\ \A x \in Nodes : \E k \in 1..c : s[k] = x
        /\ \A k \in 1..c : s[k] \in Nodes
    BY <1>3 DEF ChainOrder
  <2> QED
    BY <2>1 DEF From
<1>5. ASSUME list[i] = Head PROVE Visited(i) = Nodes
  <2>1. 1 \in 1..(c + 1) /\ list[i] = s[1]
    <3>1. 1 \in 1..(c + 1)
      BY <1>2, SMTT(30)
    <3> QED
      BY <1>3, <1>5, <3>1
  <2>2. Visited(i) = From(s, 1, c)
    BY ONLY <1>1, <1>2, <1>3, <1>c, <2>1, VisitedFrom, SMTT(30)
  <2> QED
    BY <1>4, <2>2
<1>6. ASSUME pc = "slots", PrevQh(qh) = None, list[i] = first_qh PROVE added \subseteq Visited(i)
  <2>1. Head = qh /\ Nodes = added \cup {qh} /\ qh \notin added /\ hlink[qh] = first_qh
    BY <1>6 DEF PeriodicInv, PeriodicTypeOK, FirstSlotInv, Head, Nodes
  <2>2. PICK k \in 1..c : s[k] = qh
    BY <1>3, <2>1 DEF ChainOrder
  <2>3. k = 1 /\ 2 \in 1..(c + 1) /\ 1 \in 1..c /\ k + 1 = 2
    <3>1. 1 \in 1..(c + 1) /\ k \in 1..(c + 1)
      BY <1>2, SMTT(30)
    <3>2. k = 1
      <4>1. s[k] = s[1]
        BY <1>3, <2>1, <2>2
      <4> QED
        BY <1>3, <3>1, <4>1 DEF ChainOrder
    <3> QED
      BY <1>2, <3>2, SMTT(30)
  <2>4. list[i] = s[2]
    <3>1. hlink[s[k]] = s[k + 1]
      BY <1>3 DEF ChainOrder
    <3> QED
      BY <1>6, <2>1, <2>2, <2>3, <3>1
  <2>5. Visited(i) = From(s, 2, c)
    BY ONLY <1>1, <1>2, <1>3, <1>c, <2>3, <2>4, VisitedFrom, SMTT(30)
  <2>6. ASSUME NEW q \in added PROVE q \in From(s, 2, c)
    <3>1. PICK h \in 1..c : s[h] = q
      BY <1>3, <2>1 DEF ChainOrder
    <3>2. h # k
      BY <2>1, <2>2, <3>1
    <3>3. h \in 2..c
      BY <2>3, <3>2, SMTT(30)
    <3> QED
      BY <3>1, <3>3 DEF From
  <2> QED
    BY <2>5, <2>6
<1> QED
  BY <1>5, <1>6

\* For any number of queue heads and any order of the calls, a queue head once
\* added is visited in every turn of the frame list, also while add_qh works on
\* the chain, and add_qh leaves the chain consistent.
THEOREM NobodyStarves == Spec => []NeverStarved
<1>1. PeriodicInv => NeverStarved
  <2> SUFFICES ASSUME PeriodicInv PROVE NeverStarved
    OBVIOUS
  <2>1. 0 \in Slot
    BY SlotFacts
  <2>2. added \subseteq Nodes
    BY DEF Nodes
  <2>3. CASE pc = "slots"
    <3>1. list[0] = Head \/ (PrevQh(qh) = None /\ list[0] = first_qh)
      BY <2>3 DEF PeriodicInv, FirstSlotInv, Head
    <3>2. added \subseteq Visited(0)
      BY <2>1, <2>2, <2>3, <3>1, SlotVisits
    <3> QED
      BY <2>3, <3>2 DEF NeverStarved, ChainIsConsistent
  <2>4. CASE pc # "slots"
    <3>1. Nodes = added /\ Head = first_qh /\ list[0] = first_qh
      BY <2>4 DEF PeriodicInv, FirstSlotInv, Nodes, Head
    <3>2. Visited(0) = added
      BY <2>1, <3>1, SlotVisits
    <3>3. Mirrored(hlink, next, prev, added, first_qh) /\ \A q \in added : hlink[q] # q
      <4>1. ChainFrom(hlink, added, first_qh) /\ added \in SUBSET Qh
        BY <3>1 DEF PeriodicInv, PeriodicTypeOK, ChainInv
      <4> QED
        BY <3>1, <4>1, ChainCloses DEF PeriodicInv, ChainInv
    <3>4. ChainIsConsistent
      BY <3>1, <3>2, <3>3 DEF ChainIsConsistent, Mirrored
    <3> QED
      BY <3>2, <3>4 DEF NeverStarved
  <2> QED
    BY <2>3, <2>4
<1> QED
  BY <1>1, PeriodicInvariant, PTL

\* As long as no interval comes new after a shorter one, the controller visits a
\* queue head in every frame that its interval calls for, for any length of the
\* frame list.
THEOREM IntervalsAreKept == Spec => []VisitedAtInterval
<1>1. PeriodicInv => VisitedAtInterval
  <2> SUFFICES ASSUME PeriodicInv, ordered, NEW q \in added, NEW i \in Slot, (8 * i) % 2^interval[q] = 0
               PROVE  q \in Visited(i)
    BY DEF VisitedAtInterval
  <2>1. q \in Qh /\ q \in Nodes /\ i \in Nat /\ interval[q] \in 0..(MaxPower + 3) /\ MaxPower \in Nat
    BY SlotFacts, PeriodicAssumption DEF PeriodicInv, PeriodicTypeOK, Nodes
  <2>2. i % frames(q) = 0
    <3>1. CASE interval[q] < 3
      <4>1. frames(q) = 1
        BY <3>1, PowersOfTwo DEF frames, frames_power
      <4> QED
        BY <2>1, <4>1, SMTT(30)
    <3>2. CASE ~(interval[q] < 3)
      <4> DEFINE n == interval[q] - 3
                 f == 2^n
      <4>1. /\ n \in 0..(MaxPower + 3) /\ n + 1 \in 0..(MaxPower + 3) /\ n + 2 \in 0..(MaxPower + 3)
            /\ (n + 1) + 1 = n + 2 /\ (n + 2) + 1 = interval[q] /\ n \in 0..(MaxPower + 4)
            /\ interval[q] \in 0..(MaxPower + 4)
        BY <2>1, <3>2, SMTT(30)
      <4>2. frames(q) = f
        BY <3>2 DEF frames, frames_power
      <4> HIDE DEF n
      <4>3. 2^interval[q] = 2 * (2 * (2 * f)) /\ f \in Nat \ {0} /\ 2^interval[q] \in Nat \ {0}
        <5>1. f \in Nat \ {0} /\ 2^interval[q] \in Nat \ {0}
          BY <4>1, PowerIsPositive
        <5>2. 2^(n + 1) = 2 * f /\ 2^((n + 1) + 1) = 2 * 2^(n + 1) /\ 2^((n + 2) + 1) = 2 * 2^(n + 2)
          BY <4>1, PowersOfTwo
        <5> QED
          BY <4>1, <5>1, <5>2
      <4> HIDE DEF f
      <4>4. 8 * i \in Nat
        BY <2>1, SMTT(30)
      <4>5. PICK k \in Nat : 8 * i = k * (2 * (2 * (2 * f)))
        <5> DEFINE e == 8 * i
                   g == 2^interval[q]
        <5>1. e \in Nat /\ g \in Nat \ {0} /\ e % g = 0 /\ g = 2 * (2 * (2 * f))
          BY <4>3, <4>4
        <5> HIDE DEF e, g
        <5>2. \E k \in Nat : e = k * g
          BY ONLY <5>1, Multiples, ZenonT(30)
        <5> QED
          BY <5>1, <5>2 DEF e
      <4>6. i = k * f
        BY <2>1, <4>3, <4>5, SMTT(30)
      <4> QED
        BY <2>1, <4>2, <4>3, <4>6, Multiples
    <3> QED
      BY <3>1, <3>2
  <2>3. list[i] = first_qh \/ (pc = "slots" /\ list[i] = qh)
    BY <2>2 DEF PeriodicInv, SlotsInv
  <2>4. CASE pc = "slots"
    <3>1. PrevQh(qh) = None /\ Head = qh
      BY <2>4 DEF PeriodicInv, SlotsInv, Head
    <3> QED
      BY <2>1, <2>3, <2>4, <3>1, SlotVisits
  <2>5. CASE pc # "slots"
    <3>1. Head = first_qh
      BY <2>5 DEF Head
    <3> QED
      BY <2>1, <2>3, <2>5, <3>1, SlotVisits
  <2> QED
    BY <2>4, <2>5
<1> QED
  BY <1>1, PeriodicInvariant, PTL
=============================================================================
