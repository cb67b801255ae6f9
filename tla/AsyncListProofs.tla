-------------------------- MODULE AsyncListProofs --------------------------
(* Proofs about AsyncList for any set of queue heads.                      *)
EXTENDS AsyncList, WellFoundedInduction, FiniteSetTheorems, TLAPS

\* Every leaf goes to Zenon unless it names another prover.
USE ZenonT(30)

\* The schedule starts with the anchor alone, linked to itself.
LEMMA InitInv == Init => ScheduleInv
  BY QhAssumption, ZenonT(30) DEF Init, ScheduleInv, TypeOK, Disjoint, DoublyLinked, Prepared,
     LinksLeadForward, ControllerPlace, OneDoorbellPerBatch, InList, Late, Removed, Node

\* add_qh_to_async_list up to the fence touches only memory the list does not use.
LEMMA PrepareInv ==
  ASSUME ScheduleInv, NEW q \in Qh, PrepareQh(q)
  PROVE  ScheduleInv'
<1> USE QhAssumption DEF PrepareQh, removeVars, bellVars, hcVars, ScheduleInv, Node, Owned
<1>1. q \notin InList \cup Removed /\ Removed' = Removed /\ Late' = Late /\ InList' = InList
  BY DEF InList, Removed, Late, TypeOK
<1>2. TypeOK'
  BY DEF TypeOK
<1>3. Disjoint'
  BY <1>1 DEF Disjoint
<1>4. DoublyLinked' /\ Prepared'
  BY <1>1, SMTT(30) DEF DoublyLinked, Prepared, InList, TypeOK
<1>5. LinksLeadForward'
  BY <1>1, SMTT(30) DEF LinksLeadForward, Removed, Late, TypeOK
<1>6. ControllerPlace' /\ OneDoorbellPerBatch'
  BY <1>1 DEF ControllerPlace, OneDoorbellPerBatch
<1> QED BY <1>2, <1>3, <1>4, <1>5, <1>6

\* Publishing splices the prepared queue head in between the anchor and its successor.
LEMMA PublishInv ==
  ASSUME ScheduleInv, PublishQh
  PROVE  ScheduleInv'
<1> USE QhAssumption DEF PublishQh, removeVars, bellVars, hcVars, ScheduleInv, Node
<1>1. op \in Qh /\ op \notin InList \cup Removed /\ Removed' = Removed /\ Late' = Late
      /\ InList' = InList \cup {op}
  BY DEF InList, Removed, Late, TypeOK, Disjoint
<1>2. TypeOK'
  BY ZenonT(30) DEF TypeOK
<1>3. Disjoint'
  BY <1>1 DEF Disjoint
<1>4. DoublyLinked' /\ Prepared'
  BY <1>1, SMTT(30) DEF DoublyLinked, Prepared, InList, TypeOK
<1>5. LinksLeadForward'
  BY <1>1, SMTT(30) DEF LinksLeadForward, Removed, Late, TypeOK, InList, Disjoint
<1>6. ControllerPlace' /\ OneDoorbellPerBatch'
  BY <1>1 DEF ControllerPlace, OneDoorbellPerBatch
<1> QED BY <1>2, <1>3, <1>4, <1>5, <1>6

\* Unlinking closes the ring around the queue head, which keeps its own link.
LEMMA UnlinkInv ==
  ASSUME ScheduleInv, NEW q \in Qh, UnlinkQh(q)
  PROVE  ScheduleInv'
<1> USE QhAssumption DEF UnlinkQh, removeVars, bellVars, hcVars, ScheduleInv, Node
<1>1. /\ q \in InList /\ q \notin Removed
      /\ Removed' = Removed \cup {q} /\ Late' = Late \cup {q} /\ InList' = InList \ {q}
      /\ next[q] \in InList /\ prev[q] \in InList
  BY SMTT(30) DEF InList, Removed, Late, TypeOK, Disjoint, DoublyLinked
<1>2. TypeOK'
  BY <1>1 DEF TypeOK, InList
<1>3. Disjoint'
  BY <1>1, SMTT(30) DEF Disjoint, Removed, Late
<1>4. DoublyLinked'
  BY <1>1, SMTT(30) DEF DoublyLinked, InList, TypeOK
<1>5. LinksLeadForward'
  BY <1>1, SMTT(30) DEF LinksLeadForward, Removed, Late, TypeOK, InList, Disjoint, DoublyLinked
<1>6. ControllerPlace' /\ OneDoorbellPerBatch' /\ Prepared'
  BY <1>1 DEF ControllerPlace, OneDoorbellPerBatch, Prepared
<1> QED BY <1>2, <1>3, <1>4, <1>5, <1>6

\* Ringing starts a batch; queueing leaves the rung batch alone.
LEMMA QueueRemovalInv ==
  ASSUME ScheduleInv, QueueRemoval
  PROVE  ScheduleInv'
<1> USE QhAssumption DEF QueueRemoval, RingDoorbell, listVars, hcVars, ScheduleInv, Node
<1>1. Removed' = Removed /\ InList' = InList /\ Late' \subseteq Late /\ op \in Qh
  BY DEF InList, Removed, Late, TypeOK
<1>2. TypeOK'
  BY <1>1, ZenonT(30) DEF TypeOK, Removed
<1>3. Disjoint'
  BY <1>1, SMTT(30) DEF Disjoint, Removed, Late
<1>4. DoublyLinked' /\ Prepared'
  BY <1>1 DEF DoublyLinked, Prepared, TypeOK
<1>5. LinksLeadForward'
  BY <1>1 DEF LinksLeadForward, Removed, Late, OneDoorbellPerBatch, TypeOK
<1>6. ControllerPlace' /\ OneDoorbellPerBatch'
  BY <1>1, SMTT(30) DEF ControllerPlace, OneDoorbellPerBatch, Removed, TypeOK
<1> QED BY <1>2, <1>3, <1>4, <1>5, <1>6

\* Handing the answered batch back drops nothing that a link or the controller uses.
LEMMA HandleAsyncAdvanceInv ==
  ASSUME ScheduleInv, HandleAsyncAdvance
  PROVE  ScheduleInv'
<1> USE QhAssumption DEF HandleAsyncAdvance, RingDoorbell, listVars, hcVars, ScheduleInv, Node
<1>1. Removed' = qhs_queued_to_remove /\ InList' = InList /\ Late' = {}
      /\ Late = qhs_queued_to_remove /\ Removed = qhs_removed_before_doorbell \cup Late
  BY DEF InList, Removed, Late, TypeOK
<1>2. TypeOK'
  BY ZenonT(30) DEF TypeOK
<1>3. Disjoint'
  BY <1>1 DEF Disjoint
<1>4. DoublyLinked' /\ Prepared'
  BY <1>1 DEF DoublyLinked, Prepared
<1>5. LinksLeadForward'
  BY <1>1 DEF LinksLeadForward
<1>6. ControllerPlace' /\ OneDoorbellPerBatch'
  BY <1>1 DEF ControllerPlace, OneDoorbellPerBatch, TypeOK
<1> QED BY <1>2, <1>3, <1>4, <1>5, <1>6

\* Memory a caller owns is neither listed, nor removed, nor being added.
LEMMA ReuseInv ==
  ASSUME ScheduleInv, NEW q \in Qh, ReuseQh(q)
  PROVE  ScheduleInv'
<1> USE QhAssumption DEF ReuseQh, removeVars, bellVars, hcVars, ScheduleInv, Node, Owned
<1>1. q \notin InList \cup Removed /\ Removed' = Removed /\ Late' = Late /\ InList' = InList
      /\ (pc = "publish" => op # q)
  BY DEF InList, Removed, Late, TypeOK
<1>2. TypeOK'
  BY DEF TypeOK
<1>3. Disjoint'
  BY <1>1 DEF Disjoint
<1>4. DoublyLinked' /\ Prepared'
  BY <1>1, SMTT(30) DEF DoublyLinked, Prepared, InList, TypeOK
<1>5. LinksLeadForward'
  BY <1>1, SMTT(30) DEF LinksLeadForward, Removed, Late, TypeOK
<1>6. ControllerPlace' /\ OneDoorbellPerBatch'
  BY <1>1 DEF ControllerPlace, OneDoorbellPerBatch
<1> QED BY <1>2, <1>3, <1>4, <1>5, <1>6

\* The controller's steps and the interrupt keep every reference on live queue heads.
LEMMA ControllerInv ==
  ASSUME ScheduleInv, HcAdvance \/ HcAnswerDoorbell \/ HandleIrq
  PROVE  ScheduleInv'
<1> USE QhAssumption DEF HcAdvance, HcAnswerDoorbell, HandleIrq, listVars, removeVars,
        hcVars, bellVars, ScheduleInv, Node
<1>1. Removed' = Removed /\ InList' = InList /\ Late' = Late
      /\ Removed = qhs_removed_before_doorbell \cup Late
  BY DEF InList, Removed, Late
<1>2. /\ nxt \in InList \cup Late => horizontal_link_ptr[nxt] \in InList \cup Late
      /\ horizontal_link_ptr[nxt] \in InList \cup Removed
  BY <1>1 DEF LinksLeadForward, DoublyLinked, ControllerPlace
<1>3. InList \cup Removed \subseteq Node
  BY DEF InList, Removed, TypeOK
<1>4. TypeOK'
  <2>1. cur' \in Node /\ nxt' \in Node
    BY <1>2, <1>3, SMTT(30) DEF TypeOK
  <2>2. doorbell' \in BOOLEAN /\ iaa' \in BOOLEAN /\ new_async_advance' \in BOOLEAN
    BY ZenonT(30) DEF TypeOK
  <2>3. UNCHANGED <<horizontal_link_ptr, next, prev, linked, qhs_removed_before_doorbell,
                    qhs_queued_to_remove, pc, op>>
        /\ unlinkedAtRing' \in {unlinkedAtRing, {}}
    OBVIOUS
  <2> QED
    BY <2>1, <2>2, <2>3 DEF TypeOK
<1>5. Disjoint' /\ DoublyLinked' /\ Prepared'
  BY <1>1 DEF Disjoint, DoublyLinked, Prepared
<1>6. LinksLeadForward'
  BY <1>1 DEF LinksLeadForward
<1>7. ControllerPlace' /\ OneDoorbellPerBatch'
  BY <1>1, <1>2, SMTT(30) DEF ControllerPlace, OneDoorbellPerBatch, TypeOK, InList, Disjoint
<1> QED BY <1>4, <1>5, <1>6, <1>7

\* ScheduleInv is inductive: one lemma per operation of the manager, its
\* callers, the controller and the interrupt handler.
THEOREM ScheduleInvariant == Spec => []ScheduleInv
<1>1. ScheduleInv /\ [Next]_vars => ScheduleInv'
  <2> SUFFICES ASSUME ScheduleInv, [Next]_vars PROVE ScheduleInv'
    OBVIOUS
  <2>1. CASE Manager
    BY <2>1, PrepareInv, PublishInv, UnlinkInv, QueueRemovalInv, HandleAsyncAdvanceInv DEF Manager
  <2>2. CASE \E q \in Qh : ReuseQh(q)
    BY <2>2, ReuseInv
  <2>3. CASE HcAdvance \/ HcAnswerDoorbell \/ HandleIrq
    BY <2>3, ControllerInv
  <2>4. CASE UNCHANGED vars
    BY <2>4, SMTT(30) DEF vars, listVars, removeVars, bellVars, hcVars, ScheduleInv, TypeOK, Disjoint,
       DoublyLinked, Prepared, LinksLeadForward, ControllerPlace, OneDoorbellPerBatch,
       InList, Late, Removed
  <2> QED BY <2>1, <2>2, <2>3, <2>4 DEF Next
<1> QED BY InitInv, <1>1, PTL DEF Spec

\* For any number of queue heads, the host controller never refers to memory
\* that add_qh_to_async_list has not published or handle_async_advance has
\* handed back.
THEOREM NoUseAfterHandBack == Spec => []HcHoldsNoOwnedQh
<1>1. ScheduleInv => HcHoldsNoOwnedQh
  BY QhAssumption, SMTT(30) DEF ScheduleInv, HcHoldsNoOwnedQh, ControllerPlace, Owned, InList, Removed,
     Node, TypeOK, Disjoint
<1> QED BY <1>1, ScheduleInvariant, PTL

\* The manager, with its list, doorbell and interrupt, implements QhOwnership:
\* every step hands a queue head in, retires one, hands back a batch the
\* controller has let go of, moves the controller, or changes nothing the
\* owner can tell.
THEOREM OwnershipRefinement == Spec => ImplementsOwnership
<1> USE QhAssumption DEF Ownership!vars, Node
<1>1. Init => Ownership!Init
  BY DEF Init, Ownership!Init, Removed
<1>2. ScheduleInv /\ ScheduleInv' /\ [Next]_vars => [Ownership!Next]_(Ownership!vars)
  <2> SUFFICES ASSUME ScheduleInv, ScheduleInv', [Next]_vars
               PROVE  Ownership!Next \/ UNCHANGED Ownership!vars
    OBVIOUS
  <2> USE DEF removeVars, bellVars, hcVars, listVars
  <2>1. ASSUME NEW q \in Qh, PrepareQh(q) \/ ReuseQh(q)
        PROVE  UNCHANGED Ownership!vars
    BY <2>1 DEF PrepareQh, ReuseQh, Removed
  <2>2. CASE PublishQh
    <3>1. op \in Qh /\ Ownership!HandIn(op)
      BY <2>2 DEF PublishQh, Ownership!HandIn, Removed, ScheduleInv, Disjoint, TypeOK
    <3> QED BY <3>1 DEF Ownership!Next
  <2>3. ASSUME NEW q \in Qh, UnlinkQh(q)
        PROVE  Ownership!Next
    <3>1. Ownership!Retire(q)
      BY <2>3 DEF UnlinkQh, Ownership!Retire, Removed
    <3> QED BY <3>1 DEF Ownership!Next
  <2>4. CASE QueueRemoval
    BY <2>4 DEF QueueRemoval, Removed
  <2>5. CASE HandleAsyncAdvance
    <3>1. Ownership!HandBack
      BY <2>5 DEF HandleAsyncAdvance, Ownership!HandBack, Removed, ScheduleInv, ControllerPlace
    <3> QED BY <3>1 DEF Ownership!Next
  <2>6. CASE HcAdvance
    <3>1. Ownership!Refer
      BY <2>6 DEF HcAdvance, Ownership!Refer, Removed, ScheduleInv, ControllerPlace, InList
    <3> QED BY <3>1 DEF Ownership!Next
  <2>7. CASE HcAnswerDoorbell \/ HandleIrq
    BY <2>7 DEF HcAnswerDoorbell, HandleIrq, Removed
  <2>8. CASE UNCHANGED vars
    BY <2>8 DEF vars, Removed
  <2> QED BY <2>1, <2>2, <2>3, <2>4, <2>5, <2>6, <2>7, <2>8 DEF Next, Manager
<1> QED BY <1>1, <1>2, ScheduleInvariant, PTL DEF Spec, ImplementsOwnership, Ownership!Spec
-----------------------------------------------------------------------------
\* A set of naturals that is not empty has a least member.
LEMMA Least ==
  ASSUME NEW S \in SUBSET Nat, S # {}
  PROVE  \E m \in S : \A k \in S : m <= k
<1> DEFINE R == OpToRel(<, Nat)
<1>1. \A x, y \in Nat : <<x, y>> \in R <=> x < y
  BY DEF OpToRel
<1>2. IsWellFoundedOn(R, Nat)
  BY NatLessThanWellFounded, ZenonT(30)
<1> HIDE DEF R
<1>3. PICK m \in S : \A y \in S : ~ (<<y, m>> \in R)
  BY <1>2, WFMin, ZenonT(30)
<1>4. ASSUME NEW k \in S PROVE m <= k
  <2>1. ~(<<k, m>> \in R) /\ k \in Nat /\ m \in Nat
    BY <1>3
  <2> QED
    BY <2>1, <1>1, SMTT(30)
<1> QED
  BY <1>3, <1>4

\* s numbers the c + 1 nodes in the order in which link visits them, from the
\* anchor back to the anchor.
RingOrder(s, link, c, nodes) ==
  /\ s \in [0..c -> nodes] /\ s[0] = Anchor
  /\ \A x \in nodes : \E i \in 0..c : s[i] = x
  /\ \A i, j \in 0..c : s[i] = s[j] => i = j
  /\ \A i \in 0..(c - 1) : link[s[i]] = s[i + 1]
  /\ link[s[c]] = Anchor

\* A ring stays one when a node is inserted behind the anchor.
LEMMA RingInsert ==
  ASSUME NEW c \in Nat, NEW nodes, NEW link, NEW link2, NEW s, RingOrder(s, link, c, nodes),
         NEW x, x \notin nodes, link2[Anchor] = x, link2[x] = link[Anchor],
         \A y \in nodes \ {Anchor} : link2[y] = link[y]
  PROVE  \E t : RingOrder(t, link2, c + 1, nodes \cup {x})
<1> DEFINE t == [i \in 0..(c + 1) |-> IF i = 0 THEN Anchor ELSE IF i = 1 THEN x ELSE s[i - 1]]
<1>1. /\ s \in [0..c -> nodes] /\ s[0] = Anchor /\ Anchor \in nodes /\ link[s[c]] = Anchor
      /\ \A i \in 0..(c - 1) : link[s[i]] = s[i + 1]
  BY SMTT(30) DEF RingOrder
<1>2. ASSUME NEW i \in 1..c PROVE s[i] \in nodes \ {Anchor} /\ i + 1 \in 0..(c + 1) /\ t[i + 1] = s[i]
  <2>1. i \in 0..c /\ 0 \in 0..c /\ i # 0 /\ i + 1 \in 0..(c + 1) /\ i + 1 # 0 /\ i + 1 # 1 /\ (i + 1) - 1 = i
    BY <1>2, SMTT(30)
  <2>2. s[i] # s[0]
    BY <2>1 DEF RingOrder
  <2> QED
    BY <1>1, <2>1, <2>2
<1>3. /\ t[0] = Anchor /\ t[1] = x
      /\ \A i \in 0..(c + 1) : i = 0 \/ i = 1 \/ (i - 1 \in 1..c /\ (i - 1) + 1 = i)
  BY SMTT(30)
<1> HIDE DEF t
<1>4. t \in [0..(c + 1) -> nodes \cup {x}]
  <2>1. ASSUME NEW i \in 0..(c + 1) PROVE t[i] \in nodes \cup {x}
    <3>1. CASE i = 0 \/ i = 1
      BY <1>1, <1>3, <3>1
    <3>2. CASE i - 1 \in 1..c /\ (i - 1) + 1 = i
      <4>1. s[i - 1] \in nodes /\ t[(i - 1) + 1] = s[i - 1]
        BY <1>2, <3>2
      <4> QED
        BY <3>2, <4>1
    <3> QED
      BY <1>3, <3>1, <3>2
  <2> QED
    BY <2>1 DEF t
<1>5. \A y \in nodes \cup {x} : \E i \in 0..(c + 1) : t[i] = y
  <2>1. ASSUME NEW y \in nodes PROVE \E i \in 0..(c + 1) : t[i] = y
    <3>1. PICK i \in 0..c : s[i] = y
      BY DEF RingOrder
    <3>2. CASE i = 0
      BY <1>1, <1>3, <3>1, <3>2, SMTT(30)
    <3>3. CASE i \in 1..c
      BY <1>2, <3>1, <3>3
    <3> QED
      BY <3>2, <3>3, SMTT(30)
  <2> QED
    BY <1>3, <2>1, SMTT(30)
<1>6. ASSUME NEW i \in 0..(c + 1), NEW j \in 0..(c + 1), t[i] = t[j] PROVE i = j
  <2>1. Anchor # x
    BY <1>1
  <2>a. ASSUME NEW h \in 0..(c + 1), t[h] \in {Anchor, x} PROVE h = (IF t[h] = x THEN 1 ELSE 0)
    <3>1. CASE h - 1 \in 1..c
      BY <1>2, <1>3, <2>a, <3>1, SMTT(30)
    <3> QED
      BY <1>3, <2>1, <3>1
  <2>2. CASE i \in {0, 1} \/ j \in {0, 1}
    BY <1>3, <1>6, <2>a, <2>2, SMTT(30)
  <2>3. CASE i - 1 \in 1..c /\ j - 1 \in 1..c
    <3>1. s[i - 1] = s[j - 1]
      BY <1>2, <1>3, <1>6, <2>3, SMTT(30)
    <3>2. i - 1 = j - 1
      BY <2>3, <3>1, SMTT(30) DEF RingOrder
    <3> QED
      BY <3>2, SMTT(30)
  <2> QED
    BY <1>3, <2>2, <2>3
<1>7. ASSUME NEW i \in 0..c PROVE link2[t[i]] = t[i + 1]
  <2>1. CASE i = 0
    BY <1>3, <2>1, SMTT(30)
  <2>2. CASE i = 1
    <3>1. link2[t[1]] = link[s[0]] /\ t[2] = s[1] /\ link[s[0]] = s[0 + 1]
      BY <1>1, <1>2, <1>3, <2>2, SMTT(30)
    <3> QED
      BY <2>2, <3>1, SMTT(30)
  <2>3. CASE i - 1 \in 1..c
    <3>1. i - 1 \in 0..(c - 1) /\ i \in 1..c /\ (i - 1) + 1 = i
      BY <2>3, SMTT(30)
    <3>2. t[i] = s[i - 1] /\ t[i + 1] = s[i] /\ link2[s[i - 1]] = link[s[i - 1]] /\ link[s[i - 1]] = s[i]
      BY <1>1, <1>2, <2>3, <3>1, SMTT(30)
    <3> QED
      BY <3>2
  <2> QED
    BY <1>3, <2>1, <2>2, <2>3, SMTT(30)
<1>8. link2[t[c + 1]] = Anchor
  <2>1. CASE c = 0
    BY <1>1, <1>3, <2>1, SMTT(30)
  <2>2. CASE c \in 1..c
    BY <1>1, <1>2, <2>2
  <2> QED
    BY <2>1, <2>2, SMTT(30)
<1>9. RingOrder(t, link2, c + 1, nodes \cup {x})
  <2>1. (c + 1) - 1 = c
    BY SMTT(30)
  <2> QED
    BY <1>3, <1>4, <1>5, <1>6, <1>7, <1>8, <2>1 DEF RingOrder
<1> QED
  BY <1>9

\* And when the links close around one of its nodes.
LEMMA RingRemove ==
  ASSUME NEW c \in Nat, NEW nodes, NEW link, NEW link2, NEW s, RingOrder(s, link, c, nodes),
         NEW q \in nodes \ {Anchor}, NEW p \in nodes, link[p] = q, link2[p] = link[q],
         \A y \in nodes \ {p, q} : link2[y] = link[y]
  PROVE  c > 0 /\ \E t : RingOrder(t, link2, c - 1, nodes \ {q})
<1>1. /\ s \in [0..c -> nodes] /\ s[0] = Anchor /\ Anchor \in nodes /\ link[s[c]] = Anchor
      /\ \A i \in 0..(c - 1) : link[s[i]] = s[i + 1]
      /\ \A i, j \in 0..c : s[i] = s[j] => i = j
  BY SMTT(30) DEF RingOrder
<1>2. PICK k \in 0..c : s[k] = q
  BY DEF RingOrder
<1>3. PICK j \in 0..c : s[j] = p
  BY DEF RingOrder
<1>4. k \in 1..c /\ c > 0
  BY <1>1, <1>2, SMTT(30)
<1>5. j = k - 1
  <2>1. j # c
    BY <1>1, <1>3
  <2>2. j \in 0..(c - 1) /\ j + 1 \in 0..c
    BY <2>1, SMTT(30)
  <2>3. s[j + 1] = s[k]
    BY <1>1, <1>2, <1>3, <2>2
  <2>4. j + 1 = k
    BY <1>1, <2>2, <2>3
  <2> QED
    BY <2>4, SMTT(30)
<1> DEFINE t == [i \in 0..(c - 1) |-> IF i < k THEN s[i] ELSE s[i + 1]]
           at(i) == IF i < k THEN i ELSE i + 1
<1>6. ASSUME NEW i \in 0..(c - 1) PROVE at(i) \in 0..c /\ at(i) # k /\ t[i] = s[at(i)]
  BY <1>4, SMTT(30)
<1>7. \A i \in 0..c : i # k => \E h \in 0..(c - 1) : at(h) = i
  <2> SUFFICES ASSUME NEW i \in 0..c, i # k PROVE \E h \in 0..(c - 1) : at(h) = i
    OBVIOUS
  <2>1. CASE i < k
    BY <1>4, <2>1, SMTT(30)
  <2>2. CASE i > k
    <3>1. i - 1 \in 0..(c - 1) /\ at(i - 1) = i
      BY <1>4, <2>2, SMTT(30)
    <3> QED
      BY <3>1
  <2> QED
    BY <2>1, <2>2, SMTT(30)
<1>8. \A i, h \in 0..(c - 1) : at(i) = at(h) => i = h
  BY <1>4, SMTT(30)
<1>9. ASSUME NEW i \in 0..(c - 2) PROVE link2[t[i]] = t[i + 1]
  <2>1. i \in 0..(c - 1) /\ i + 1 \in 0..(c - 1) /\ k \in 0..(c - 1) \cup {c}
    BY <1>4, SMTT(30)
  <2>2. CASE i = k - 1
    <3>1. k \in 0..(c - 1) /\ t[i] = p /\ t[i + 1] = s[k + 1]
      BY <1>3, <1>4, <1>5, <2>1, <2>2, SMTT(30)
    <3> QED
      BY <1>1, <1>2, <3>1, SMTT(30)
  <2>3. CASE i # k - 1
    <3>1. at(i) \in 0..(c - 1) /\ at(i + 1) = at(i) + 1 /\ at(i) # k /\ at(i) # j
      BY <1>4, <1>5, <2>1, <2>3, SMTT(30)
    <3>2. s[at(i)] # q /\ s[at(i)] # p /\ s[at(i)] \in nodes
      <4>1. at(i) \in 0..c
        BY <3>1, SMTT(30)
      <4> QED
        BY <1>1, <1>2, <1>3, <3>1, <4>1, SMTT(30)
    <3>3. t[i] = s[at(i)] /\ t[i + 1] = s[at(i) + 1]
      BY <1>6, <2>1, <3>1
    <3> HIDE DEF t, at
    <3>4. link2[s[at(i)]] = link[s[at(i)]] /\ link[s[at(i)]] = s[at(i) + 1]
      BY <1>1, <3>1, <3>2
    <3> QED
      BY <3>3, <3>4
  <2> QED
    BY <2>2, <2>3
<1>10. link2[t[c - 1]] = Anchor
  <2>1. CASE k = c
    <3>1. t[c - 1] = p
      BY <1>3, <1>4, <1>5, <2>1, SMTT(30)
    <3> QED
      BY <1>1, <1>2, <2>1, <3>1
  <2>2. CASE k < c
    <3>1. t[c - 1] = s[c] /\ c # j /\ c # k /\ c \in 0..c
      BY <1>4, <1>5, <2>2, SMTT(30)
    <3>2. s[c] # p /\ s[c] # q /\ s[c] \in nodes
      BY <1>1, <1>2, <1>3, <3>1, SMTT(30)
    <3> QED
      BY <1>1, <3>1, <3>2, SMTT(30)
  <2> QED
    BY <1>4, <2>1, <2>2, SMTT(30)
<1> HIDE DEF at
<1>11. t[0] = Anchor
  BY <1>1, <1>4, SMTT(30)
<1> USE DEF at
<1>12. t \in [0..(c - 1) -> nodes \ {q}]
  <2>1. ASSUME NEW i \in 0..(c - 1) PROVE t[i] \in nodes \ {q}
    <3> HIDE DEF t, at
    <3>1. t[i] = s[at(i)] /\ at(i) \in 0..c /\ at(i) # k
      BY <1>6
    <3> QED
      BY <1>1, <1>2, <3>1, SMTT(30)
  <2>2. t = [i \in 0..(c - 1) |-> t[i]]
    OBVIOUS
  <2> HIDE DEF t
  <2> QED
    BY <2>1, <2>2
<1> HIDE DEF t, at
<1>13. \A x \in nodes \ {q} : \E i \in 0..(c - 1) : t[i] = x
  <2> TAKE x \in nodes \ {q}
  <2>1. PICK i \in 0..c : s[i] = x
    BY DEF RingOrder
  <2>2. i # k
    BY <1>2, <2>1
  <2>3. PICK h \in 0..(c - 1) : at(h) = i
    BY <1>7, <2>2
  <2> QED
    BY <1>6, <2>1, <2>3
<1>14. \A i, h \in 0..(c - 1) : t[i] = t[h] => i = h
  BY <1>1, <1>6, <1>8, SMTT(30)
<1>15. RingOrder(t, link2, c - 1, nodes \ {q})
  <2>1. (c - 1) - 1 = c - 2
    BY SMTT(30)
  <2> QED
    BY <1>9, <1>10, <1>11, <1>12, <1>13, <1>14, <2>1 DEF RingOrder
<1> QED
  BY <1>4, <1>15

\* Along a ring, a walk by link from the anchor meets the nodes in their order.
LEMMA RingWalk ==
  ASSUME NEW c \in Nat, NEW nodes, NEW link, NEW s, RingOrder(s, link, c, nodes), NEW w,
         w[0] = Anchor, \A i \in 1..(c + 1) : w[i] = link[w[i - 1]]
  PROVE  {w[i] : i \in 0..c} = nodes /\ w[c + 1] = Anchor
<1>1. /\ s \in [0..c -> nodes] /\ s[0] = Anchor /\ link[s[c]] = Anchor
      /\ \A i \in 0..(c - 1) : link[s[i]] = s[i + 1]
      /\ \A x \in nodes : \E i \in 0..c : s[i] = x
  BY DEF RingOrder
<1> DEFINE S == {i \in 0..c : w[i] # s[i]}
<1>3. S = {}
  <2> SUFFICES ASSUME S # {} PROVE FALSE
    OBVIOUS
  <2>1. S \in SUBSET Nat /\ S \subseteq 0..c
    BY SMTT(30)
  <2>2. \A i \in S : w[i] # s[i]
    OBVIOUS
  <2>3. \A i \in 0..c : i \notin S => w[i] = s[i]
    OBVIOUS
  <2> HIDE DEF S
  <2>4. PICK m \in S : \A k \in S : m <= k
    BY <2>1, Least, ZenonT(30)
  <2>5. m \in 0..c /\ m # 0
    BY <1>1, <2>1, <2>2
  <2>6. m - 1 \in 0..(c - 1) /\ m - 1 \in 0..c /\ m \in 1..(c + 1) /\ (m - 1) + 1 = m /\ ~(m <= m - 1)
    BY <2>5, SMTT(30)
  <2>7. w[m - 1] = s[m - 1]
    BY <2>3, <2>4, <2>6
  <2>8. w[m] = s[m]
    <3>1. w[m] = link[w[m - 1]] /\ link[s[m - 1]] = s[(m - 1) + 1]
      BY <1>1, <2>6
    <3> QED
      BY <2>6, <2>7, <3>1
  <2> QED
    BY <2>2, <2>8
<1>4. \A i \in 0..c : w[i] = s[i]
  BY <1>3
<1>5. w[c + 1] = link[w[c]]
  BY SMTT(30)
<1>6. {w[i] : i \in 0..c} = nodes
  <2>1. \A i \in 0..c : w[i] \in nodes
    BY <1>1, <1>4
  <2>2. \A x \in nodes : \E i \in 0..c : w[i] = x
    BY <1>1, <1>4
  <2> QED
    BY <2>1, <2>2, ZenonT(30)
<1>7. w[c] = s[c]
  BY <1>4, SMTT(30)
<1>8. w[c + 1] = Anchor
  BY ONLY <1>1, <1>5, <1>7, SMTT(30)
<1> QED
  BY ONLY <1>6, <1>8, SMTT(30)

-----------------------------------------------------------------------------
\* The published queue heads are finitely many, in the order of some ring.
RingInv ==
  /\ IsFiniteSet(linked)
  /\ \E s : RingOrder(s, horizontal_link_ptr, Cardinality(linked), InList)

\* The new list is the anchor, linked to itself.
LEMMA RingInit == Init => RingInv
<1> SUFFICES ASSUME Init PROVE RingInv
  OBVIOUS
<1> DEFINE s == [i \in 0..0 |-> Anchor]
<1>1. linked = {} /\ IsFiniteSet(linked) /\ Cardinality(linked) = 0
  BY FS_EmptySet DEF Init
<1>2. InList = {Anchor} /\ horizontal_link_ptr[Anchor] = Anchor
  BY <1>1 DEF Init, InList, Node
<1>3. RingOrder(s, horizontal_link_ptr, 0, InList)
  BY <1>2, SMTT(30) DEF RingOrder
<1> QED
  BY <1>1, <1>3 DEF RingInv

\* Only publishing and unlinking change what the list holds; no other step
\* touches a link of it.
LEMMA RingStep ==
  ASSUME ScheduleInv, RingInv, [Next]_vars
  PROVE  RingInv'
<1> DEFINE c == Cardinality(linked)
<1>1. IsFiniteSet(linked) /\ c \in Nat
  BY FS_CardinalityType DEF RingInv
<1>2. PICK s : RingOrder(s, horizontal_link_ptr, c, InList)
  BY DEF RingInv
<1>3. ASSUME linked' = linked, \A x \in InList : horizontal_link_ptr'[x] = horizontal_link_ptr[x]
      PROVE  RingInv'
  <2>1. InList' = InList /\ c' = c
    BY <1>3 DEF InList
  <2>2. RingOrder(s, horizontal_link_ptr', c, InList)
    <3> HIDE DEF c
    <3>1. \A i \in 0..c : s[i] \in InList
      BY <1>2 DEF RingOrder
    <3>2. c \in 0..c /\ \A i \in 0..(c - 1) : i \in 0..c
      BY <1>1, SMTT(30)
    <3> QED
      BY <1>2, <1>3, <3>1, <3>2 DEF RingOrder
  <2> QED
    BY <1>1, <1>3, <2>1, <2>2 DEF RingInv
<1>4. ASSUME NEW q \in Qh, PrepareQh(q) \/ ReuseQh(q) PROVE RingInv'
  <2>1. q \notin InList /\ linked' = linked
    BY <1>4, QhAssumption DEF PrepareQh, ReuseQh, Owned, InList
  <2>2. \A x \in InList : horizontal_link_ptr'[x] = horizontal_link_ptr[x]
    BY <1>4, <2>1, SMTT(30) DEF PrepareQh, ReuseQh, ScheduleInv, TypeOK, InList, Node
  <2> QED
    BY <1>3, <2>1, <2>2
<1>5. CASE PublishQh
  <2>1. op \notin InList /\ linked' = linked \cup {op} /\ op \in Node /\ InList' = InList \cup {op}
    BY <1>5, QhAssumption DEF PublishQh, ScheduleInv, TypeOK, Disjoint, InList
  <2>2. /\ horizontal_link_ptr'[Anchor] = op
        /\ \A y \in Node \ {Anchor} : horizontal_link_ptr'[y] = horizontal_link_ptr[y]
    BY <1>5 DEF PublishQh, ScheduleInv, TypeOK, Node
  <2>3. horizontal_link_ptr[op] = horizontal_link_ptr[Anchor]
    BY <1>5 DEF PublishQh, ScheduleInv, Prepared, DoublyLinked, InList
  <2>4. InList \subseteq Node /\ op # Anchor
    BY <2>1 DEF ScheduleInv, TypeOK, InList, Node
  <2>5. IsFiniteSet(linked') /\ Cardinality(linked') = c + 1
    BY <1>1, <2>1, FS_AddElement DEF InList
  <2>6. \E t : RingOrder(t, horizontal_link_ptr', c + 1, InList \cup {op})
    <3>1. horizontal_link_ptr'[op] = horizontal_link_ptr[Anchor]
      BY <2>1, <2>2, <2>3, <2>4
    <3> HIDE DEF c
    <3> QED
      BY <1>1, <1>2, <2>1, <2>2, <2>4, <3>1, RingInsert
  <2> QED
    BY <2>1, <2>5, <2>6 DEF RingInv
<1>6. ASSUME NEW q \in Qh, UnlinkQh(q) PROVE RingInv'
  <2>1. q \in linked /\ q \in InList \ {Anchor} /\ linked' = linked \ {q} /\ InList' = InList \ {q}
    BY <1>6, QhAssumption DEF UnlinkQh, InList
  <2>2. prev[q] \in InList /\ InList \subseteq Node /\ horizontal_link_ptr[prev[q]] = q
    BY <2>1 DEF ScheduleInv, TypeOK, DoublyLinked, InList, Node
  <2>3. /\ horizontal_link_ptr'[prev[q]] = horizontal_link_ptr[q]
        /\ \A y \in Node \ {prev[q]} : horizontal_link_ptr'[y] = horizontal_link_ptr[y]
    BY <1>6, <2>2 DEF UnlinkQh, ScheduleInv, TypeOK
  <2>4. IsFiniteSet(linked') /\ Cardinality(linked') = c - 1
    BY <1>1, <2>1, FS_RemoveElement
  <2>5. \E t : RingOrder(t, horizontal_link_ptr', c - 1, InList \ {q})
    <3> HIDE DEF c
    <3> QED
      BY <1>1, <1>2, <2>1, <2>2, <2>3, RingRemove, SMTT(30)
  <2> QED
    BY <2>1, <2>4, <2>5 DEF RingInv
<1>7. CASE QueueRemoval \/ HandleAsyncAdvance \/ HcAdvance \/ HcAnswerDoorbell \/ HandleIrq \/ UNCHANGED vars
  BY <1>3, <1>7 DEF QueueRemoval, HandleAsyncAdvance, HcAdvance, HcAnswerDoorbell, HandleIrq, vars, listVars
<1> QED
  BY <1>4, <1>5, <1>6, <1>7 DEF Next, Manager

\* Whatever is added and removed, the controller that follows the links from
\* the anchor visits every published queue head once and comes back.
THEOREM ScheduleIsRing == Spec => []ListIsRing
<1>1. RingInv => ListIsRing
  <2> SUFFICES ASSUME RingInv PROVE ListIsRing
    OBVIOUS
  <2> DEFINE c == Cardinality(linked)
             size == Cardinality(linked) + 1
             W(w) == w = [i \in 0..size |-> IF i = 0 THEN Anchor ELSE horizontal_link_ptr[w[i - 1]]]
             walk == CHOOSE w : W(w)
  <2>1. c \in Nat /\ size - 1 = c
    BY FS_CardinalityType, SMTT(30) DEF RingInv
  <2>2. PICK s : RingOrder(s, horizontal_link_ptr, c, InList)
    BY DEF RingInv
  <2>3. W([i \in 0..size |-> IF i <= c THEN s[i] ELSE Anchor])
    <3> DEFINE g == [i \in 0..(c + 1) |-> IF i <= c THEN s[i] ELSE Anchor]
    <3> HIDE DEF c
    <3>1. /\ s[0] = Anchor /\ horizontal_link_ptr[s[c]] = Anchor
          /\ \A i \in 0..(c - 1) : horizontal_link_ptr[s[i]] = s[i + 1]
      BY <2>2 DEF RingOrder
    <3>2. ASSUME NEW i \in 0..(c + 1)
          PROVE  g[i] = IF i = 0 THEN Anchor ELSE horizontal_link_ptr[g[i - 1]]
      <4>1. CASE i = 0
        BY <2>1, <3>1, <4>1
      <4>2. CASE i \in 1..c
        <5>1. i - 1 \in 0..(c - 1) /\ (i - 1) + 1 = i
          BY <2>1, <4>2, SMTT(30)
        <5> QED
          BY <2>1, <3>1, <4>2, <5>1, SMTT(30)
      <4>3. CASE i = c + 1
        BY <2>1, <3>1, <4>3, SMTT(30)
      <4> QED
        BY <2>1, <4>1, <4>2, <4>3, SMTT(30)
    <3>3. g = [i \in 0..(c + 1) |-> IF i = 0 THEN Anchor ELSE horizontal_link_ptr[g[i - 1]]]
      BY <3>2
    <3> QED
      BY <3>3 DEF c
  <2>4. W(walk)
    <3> HIDE DEF W
    <3> QED
      BY <2>3, ZenonT(30)
  <2>5. {walk[i] : i \in 0..c} = InList /\ walk[c + 1] = Anchor
    <3>1. walk[0] = Anchor /\ \A i \in 1..(c + 1) : walk[i] = horizontal_link_ptr[walk[i - 1]]
      <4> HIDE DEF walk
      <4> QED
        BY <2>1, <2>4, SMTT(30)
    <3> HIDE DEF c, walk
    <3> QED
      BY <2>1, <2>2, <3>1, RingWalk, SMTT(30)
  <2> QED
    BY <2>1, <2>5 DEF ListIsRing, InList
<1>2. ScheduleInv /\ RingInv /\ [Next]_vars => RingInv'
  BY RingStep
<1> QED
  BY RingInit, <1>1, <1>2, ScheduleInvariant, PTL DEF Spec
=============================================================================
