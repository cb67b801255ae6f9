----------------------------- MODULE AsyncList -----------------------------
(***************************************************************************)
(* The asynchronous schedule: the circular list of queue heads that        *)
(* AsyncListManager edits while the host controller walks it, and the      *)
(* doorbell protocol that tells software when an unlinked queue head may   *)
(* be reused.                                                              *)
(*                                                                         *)
(* The manager is called by the runner only, so its operations do not      *)
(* overlap each other; the host controller takes steps between their       *)
(* memory writes.  Each operation is therefore cut at its fence:           *)
(* everything before it is one step, everything after it another.          *)
(*                                                                         *)
(* The host controller (external) holds two references on chip: the queue  *)
(* head it executes and the successor it latched when it fetched it.  A    *)
(* reference to a queue head that software considers its own again is      *)
(* what this component must rule out.                                      *)
(***************************************************************************)
EXTENDS Naturals, FiniteSets

CONSTANTS Qh,      \* the queue heads (QhWithMetaA blocks) callers own
          Anchor,  \* the anchor queue head of StartConfig
          Junk     \* whatever a caller leaves in memory it owns

ASSUME QhAssumption == Anchor \notin Qh /\ Junk \notin Qh \cup {Anchor}

VARIABLES
  horizontal_link_ptr,  \* what the host controller follows
  next, prev,           \* the metadata of QhWithMetaA
  linked,               \* queue heads whose insertion is published
  qhs_removed_before_doorbell,
  qhs_queued_to_remove,
  pc,                   \* "idle", or the second half of an operation
  op,                   \* the queue head of that operation
  doorbell,             \* USBCMD: interrupt on async advance doorbell
  unlinkedAtRing,       \* what was unlinked when the doorbell was rung
  iaa,                  \* USBSTS: interrupt on async advance
  new_async_advance,    \* IrqHandlerSharedState
  cur, nxt              \* the references the host controller holds

listVars == <<horizontal_link_ptr, next, prev, linked>>
removeVars == <<qhs_removed_before_doorbell, qhs_queued_to_remove>>
hcVars == <<cur, nxt>>
bellVars == <<doorbell, unlinkedAtRing, iaa>>
vars == <<listVars, removeVars, pc, op, bellVars, new_async_advance, hcVars>>

Node == Qh \cup {Anchor}

\* Queue heads unlinked whose senders have not been sent to yet.
Removed == qhs_removed_before_doorbell \cup qhs_queued_to_remove
             \cup (IF pc = "ring" THEN {op} ELSE {})

\* Queue heads that belong to callers: never added, or handed back.
Owned == Qh \ (linked \cup Removed \cup (IF pc = "publish" THEN {op} ELSE {}))

Init ==
  /\ horizontal_link_ptr = [q \in Node |-> IF q = Anchor THEN Anchor ELSE Junk]
  /\ next = horizontal_link_ptr
  /\ prev = horizontal_link_ptr
  /\ linked = {}
  /\ qhs_removed_before_doorbell = {}
  /\ qhs_queued_to_remove = {}
  /\ pc = "idle" /\ op = Anchor
  /\ doorbell = FALSE /\ unlinkedAtRing = {}
  /\ iaa = FALSE /\ new_async_advance = FALSE
  /\ cur = Anchor /\ nxt = Anchor

-----------------------------------------------------------------------------
\* add_qh_to_async_list, up to the fence: the new queue head is prepared.
PrepareQh(q) ==
  /\ pc = "idle" /\ q \in Owned
  /\ horizontal_link_ptr' =
       [horizontal_link_ptr EXCEPT ![q] = horizontal_link_ptr[Anchor]]
  /\ prev' = [prev EXCEPT ![q] = Anchor]
  /\ next' = [next EXCEPT ![q] = next[Anchor]]
  /\ pc' = "publish" /\ op' = q
  /\ UNCHANGED <<linked, removeVars, bellVars, new_async_advance, hcVars>>

\* A wrong add_qh_to_async_list: the successor keeps its old predecessor.
PublishQh_StalePrev ==
  /\ pc = "publish"
  /\ horizontal_link_ptr' = [horizontal_link_ptr EXCEPT ![Anchor] = op]
  /\ next' = [next EXCEPT ![Anchor] = op]
  /\ linked' = linked \cup {op}
  /\ pc' = "idle" /\ op' = Anchor
  /\ UNCHANGED <<prev, removeVars, bellVars, new_async_advance, hcVars>>

\* The rest of it: the anchor points to the new queue head.
PublishQh ==
  /\ pc = "publish"
  /\ horizontal_link_ptr' = [horizontal_link_ptr EXCEPT ![Anchor] = op]
  /\ prev' = [prev EXCEPT ![next[op]] = op]
  /\ next' = [next EXCEPT ![Anchor] = op]
  /\ linked' = linked \cup {op}
  /\ pc' = "idle" /\ op' = Anchor
  /\ UNCHANGED <<removeVars, bellVars, new_async_advance, hcVars>>

\* queue_remove_qh, up to the fence.  The unlinked queue head keeps its own
\* pointers: a host controller that is on it can still leave.
UnlinkQh(q) ==
  /\ pc = "idle" /\ q \in linked
  /\ horizontal_link_ptr' =
       [horizontal_link_ptr EXCEPT ![prev[q]] = horizontal_link_ptr[q]]
  /\ prev' = [prev EXCEPT ![next[q]] = prev[q]]
  /\ next' = [next EXCEPT ![prev[q]] = next[q]]
  /\ linked' = linked \ {q}
  /\ pc' = "ring" /\ op' = q
  /\ UNCHANGED <<removeVars, bellVars, new_async_advance, hcVars>>

\* The read-modify-write of USBCMD.  A doorbell that is already rung keeps
\* promising what it promised when it was rung.
RingDoorbell(unlinked) ==
  /\ doorbell' = TRUE
  /\ unlinkedAtRing' = IF doorbell THEN unlinkedAtRing ELSE unlinked

\* A wrong queue_remove_qh: a removal joins the batch of a rung doorbell.
QueueRemoval_JoinBatch ==
  /\ pc = "ring"
  /\ qhs_removed_before_doorbell' = qhs_removed_before_doorbell \cup {op}
  /\ RingDoorbell(Removed)
  /\ pc' = "idle" /\ op' = Anchor
  /\ UNCHANGED <<listVars, qhs_queued_to_remove, iaa, new_async_advance, hcVars>>

\* The rest of queue_remove_qh: ring, or queue behind the rung doorbell.
QueueRemoval ==
  /\ pc = "ring"
  /\ \/ /\ qhs_removed_before_doorbell = {}
        /\ qhs_removed_before_doorbell' = {op}
        /\ RingDoorbell(Removed)
        /\ UNCHANGED qhs_queued_to_remove
     \/ /\ qhs_removed_before_doorbell # {}
        /\ qhs_queued_to_remove' = qhs_queued_to_remove \cup {op}
        /\ UNCHANGED <<qhs_removed_before_doorbell, doorbell, unlinkedAtRing>>
  /\ pc' = "idle" /\ op' = Anchor
  /\ UNCHANGED <<listVars, iaa, new_async_advance, hcVars>>

\* A wrong handle_async_advance: the queued batch does not ring.
HandleAsyncAdvance_NoRing ==
  /\ pc = "idle" /\ new_async_advance
  /\ new_async_advance' = FALSE
  /\ qhs_removed_before_doorbell' = qhs_queued_to_remove
  /\ qhs_queued_to_remove' = {}
  /\ UNCHANGED <<listVars, pc, op, bellVars, hcVars>>

\* The runner swaps new_async_advance and calls handle_async_advance: the
\* removed batch is sent to, the queued batch takes its place and rings.
HandleAsyncAdvance ==
  /\ pc = "idle" /\ new_async_advance
  /\ new_async_advance' = FALSE
  /\ qhs_removed_before_doorbell' = qhs_queued_to_remove
  /\ qhs_queued_to_remove' = {}
  /\ IF qhs_queued_to_remove # {}
       THEN RingDoorbell(qhs_queued_to_remove)
       ELSE UNCHANGED <<doorbell, unlinkedAtRing>>
  /\ UNCHANGED <<listVars, pc, op, iaa, hcVars>>

\* A caller writes into memory it owns (again).
ReuseQh(q) ==
  /\ q \in Owned
  /\ horizontal_link_ptr' = [horizontal_link_ptr EXCEPT ![q] = Junk]
  /\ next' = [next EXCEPT ![q] = Junk]
  /\ prev' = [prev EXCEPT ![q] = Junk]
  /\ UNCHANGED <<linked, removeVars, pc, op, bellVars, new_async_advance, hcVars>>

-----------------------------------------------------------------------------
\* External: the host controller moves on and latches the next successor.
HcAdvance ==
  /\ nxt \in Node
  /\ cur' = nxt
  /\ nxt' = horizontal_link_ptr[nxt]
  /\ UNCHANGED <<listVars, removeVars, pc, op, bellVars, new_async_advance>>

\* External: the doorbell is answered once nothing on chip refers to a queue
\* head that was out of the list when the doorbell was rung.
HcAnswerDoorbell ==
  /\ doorbell
  /\ {cur, nxt} \cap unlinkedAtRing = {}
  /\ doorbell' = FALSE /\ unlinkedAtRing' = {} /\ iaa' = TRUE
  /\ UNCHANGED <<listVars, removeVars, pc, op, new_async_advance, hcVars>>

\* The async advance part of handle_irq: record the bit, then clear it.
HandleIrq ==
  /\ iaa
  /\ new_async_advance' = TRUE /\ iaa' = FALSE
  /\ UNCHANGED <<listVars, removeVars, pc, op, doorbell, unlinkedAtRing, hcVars>>

Manager ==
  \/ \E q \in Qh : PrepareQh(q) \/ UnlinkQh(q)
  \/ PublishQh
  \/ QueueRemoval
  \/ HandleAsyncAdvance

Next ==
  \/ Manager
  \/ \E q \in Qh : ReuseQh(q)
  \/ HcAdvance
  \/ HcAnswerDoorbell
  \/ HandleIrq

Spec == Init /\ [][Next]_vars

\* The runner finishes what it began and polls again when it is woken; the
\* host controller walks its schedule and answers; interrupts are delivered.
Fairness ==
  /\ WF_vars(PublishQh) /\ WF_vars(QueueRemoval) /\ SF_vars(HandleAsyncAdvance)
  /\ WF_vars(HcAdvance) /\ WF_vars(HcAnswerDoorbell) /\ WF_vars(HandleIrq)

FairSpec == Spec /\ Fairness
-----------------------------------------------------------------------------
\* The variables hold queue heads, flags and links of the right kind.
TypeOK ==
  /\ horizontal_link_ptr \in [Node -> Node \cup {Junk}]
  /\ next \in [Node -> Node \cup {Junk}]
  /\ prev \in [Node -> Node \cup {Junk}]
  /\ linked \in SUBSET Qh
  /\ qhs_removed_before_doorbell \in SUBSET Qh
  /\ qhs_queued_to_remove \in SUBSET Qh
  /\ pc \in {"idle", "publish", "ring"}
  /\ op \in Node /\ (op \in Qh <=> pc # "idle")
  /\ doorbell \in BOOLEAN /\ unlinkedAtRing \in SUBSET Qh
  /\ iaa \in BOOLEAN /\ new_async_advance \in BOOLEAN
  /\ cur \in Node /\ nxt \in Node

\* The host controller never refers to memory that its caller may overwrite:
\* a removal's sender is sent to only after the controller has let go of the
\* queue head, however additions, removals and doorbells interleave.
HcHoldsNoOwnedQh == {cur, nxt} \subseteq Node \ Owned

\* Following horizontal_link_ptr from the anchor visits exactly the published
\* queue heads and comes back, between any two memory writes of the manager.
ListIsRing ==
  LET size == Cardinality(linked) + 1
      walk[i \in 0..size] == IF i = 0 THEN Anchor ELSE horizontal_link_ptr[walk[i-1]]
  IN /\ {walk[i] : i \in 0..(size - 1)} = linked \cup {Anchor}
     /\ walk[size] = Anchor

\* Every removal in flight has a doorbell, or the answer to one, on its way:
\* the batch is non-empty exactly while one of the three bits is set, never
\* two of them, and nothing queues behind an empty batch.
OneDoorbellPerBatch ==
  /\ (qhs_removed_before_doorbell # {}) <=> (doorbell \/ iaa \/ new_async_advance)
  /\ ~(doorbell /\ iaa) /\ ~(doorbell /\ new_async_advance) /\ ~(iaa /\ new_async_advance)
  /\ qhs_removed_before_doorbell = {} => qhs_queued_to_remove = {}

-----------------------------------------------------------------------------
InList == linked \cup {Anchor}

\* Unlinked since the doorbell was last rung.
Late == qhs_queued_to_remove \cup (IF pc = "ring" THEN {op} ELSE {})

\* A queue head is in one place: listed, in the rung batch, or unlinked later.
Disjoint ==
  /\ linked \cap Removed = {}
  /\ qhs_removed_before_doorbell \cap Late = {}
  /\ pc = "ring" => op \notin qhs_queued_to_remove
  /\ pc = "publish" => op \notin linked \cup Removed

\* The list is doubly linked, and the controller's links follow the metadata.
DoublyLinked ==
  \A x \in InList :
    /\ next[x] \in InList /\ prev[x] \in InList
    /\ prev[next[x]] = x /\ next[prev[x]] = x
    /\ horizontal_link_ptr[x] = next[x]

\* A prepared queue head is ready to be published behind the anchor.
Prepared ==
  pc = "publish" => /\ horizontal_link_ptr[op] = next[Anchor]
                    /\ next[op] = next[Anchor]
                    /\ prev[op] = Anchor

\* What an unlinked queue head still points to was unlinked after it.
LinksLeadForward ==
  /\ \A x \in Late : horizontal_link_ptr[x] \in InList \cup Late
  /\ \A x \in qhs_removed_before_doorbell : horizontal_link_ptr[x] \in InList \cup Removed

\* The controller is on the list or on its way back to it, and off the rung
\* batch once it has answered.
ControllerPlace ==
  /\ {cur, nxt} \subseteq InList \cup Removed
  /\ doorbell => unlinkedAtRing = qhs_removed_before_doorbell
  /\ iaa \/ new_async_advance => {cur, nxt} \cap qhs_removed_before_doorbell = {}

\* The inductive invariant behind HcHoldsNoOwnedQh: the places of the queue
\* heads, the shape of the list, where stale links lead, and what the state of
\* the doorbell says about the controller's references.
ScheduleInv ==
  /\ TypeOK
  /\ Disjoint
  /\ DoublyLinked
  /\ Prepared
  /\ LinksLeadForward
  /\ ControllerPlace
  /\ OneDoorbellPerBatch

\* A removal that was requested is reported to its sender in the end, the
\* ones queued behind a rung doorbell included.
RemovalCompletes == \A q \in Qh : (q \in Removed) ~> (q \in Owned)

\* A queue head that was added is reached by the host controller unless it is
\* removed first: insertions behind the anchor never cut off the others.
AddedIsVisited == \A q \in Qh : (q \in linked) ~> (cur = q \/ q \notin linked)

\* The schedule keeps the promise of QhOwnership.
Ownership == INSTANCE QhOwnership
  WITH listed <- linked, retired <- Removed, held <- {cur, nxt} \ {Anchor}
ImplementsOwnership == Ownership!Spec
=============================================================================
