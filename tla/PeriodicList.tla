---------------------------- MODULE PeriodicList ----------------------------
(***************************************************************************)
(* PeriodicListManager: the periodic frame list, whose slot i is the head  *)
(* of the chain of queue heads that the host controller visits in frame i. *)
(* The controller follows slots and horizontal links at any moment, so the *)
(* writes it can see are separate steps of add_qh; the metadata belongs to *)
(* the runner alone and is written with them.                              *)
(*                                                                         *)
(* The 1024 slots and 11 interval powers of the code are 2^MaxPower slots  *)
(* and MaxPower + 1 powers here.  remove_qh is todo!() in the code.        *)
(***************************************************************************)
EXTENDS Integers, FiniteSets, FiniteSetsExt

CONSTANTS Qh,          \* interrupt queue heads
          None,
          MaxPower     \* log2 of the number of slots (10)

ASSUME PeriodicAssumption ==
  None \notin Qh /\ MaxPower \in Nat /\ IsFiniteSet(Qh)

\* The powers of two up to the longest interval.
ASSUME PowersOfTwo ==
  2^0 = 1 /\ \A n \in 0..(MaxPower + 3) : 2^(n + 1) = 2 * 2^n

Slots == 2^MaxPower
Slot == 0..(Slots - 1)
MaybeQh == Qh \cup {None}
VARIABLES
  list,                \* the frame list
  hlink, next, prev,   \* horizontal link and metadata of the queue heads
  interval,            \* micro_frames_power of the queue heads
  s_mask, c_mask,      \* EndpointCapabilities: sets of microframes
  qhs, first_qh,       \* the manager
  added,               \* queue heads whose request was called back
  pc, qh, idx,         \* the add_qh under way
  ordered              \* no interval so far came new after a shorter one

memVars == <<hlink, next, prev, interval, s_mask, c_mask>>
vars == <<list, memVars, qhs, first_qh, added, pc, qh, idx, ordered>>

Init ==
  /\ list = [i \in Slot |-> None]
  /\ hlink = [q \in Qh |-> None] /\ next = [q \in Qh |-> None] /\ prev = [q \in Qh |-> None]
  /\ interval = [q \in Qh |-> 0]
  /\ s_mask = [q \in Qh |-> {0}] /\ c_mask = [q \in Qh |-> {}]
  /\ qhs = [n \in 0..MaxPower |-> None] /\ first_qh = None
  /\ added = {} /\ pc = "idle" /\ qh = None /\ idx = 0
  /\ ordered = TRUE

-----------------------------------------------------------------------------
\* NormalizedInterval::from_micro_frames_interval(2^(bInterval - 1)).
from_b_interval(b) == IF 2^(b - 1) >= Slots * 8 THEN MaxPower + 3 ELSE b - 1

\* NormalizedInterval::frames_power and frames, of micro_frames_power.
frames_power(power) == IF power < 3 THEN 0 ELSE power - 3
frames(q) == 2^frames_power(interval[q])

\* The microframes of a frame in which an endpoint of that interval is due.
Microframes(power) == {m \in 0..7 : m % 2^Min({power, 3}) = 0}

\* The queue heads of the manager that play a part when q is added.
Index(q) == frames_power(interval[q])
Existing(q) == qhs[Index(q)]
PrevPowers(q) == {n \in 0..(Index(q) - 1) : qhs[n] # None}
PrevQh(q) == IF PrevPowers(q) = {} THEN None ELSE qhs[Min(PrevPowers(q))]
NextQh(q) ==
  IF Existing(q) # None THEN hlink[Existing(q)]
  ELSE IF PrevQh(q) # None THEN hlink[PrevQh(q)] ELSE first_qh

\* InterruptEndpoint::watch and the start of add_qh: the capabilities, with
\* the microframes in the completion mask, and the interval.
BeginAdd(q) ==
  /\ pc = "idle" /\ q \notin added
  /\ \E b \in 1..(MaxPower + 5) :
       /\ interval' = [interval EXCEPT ![q] = from_b_interval(b)]
       /\ c_mask' = [c_mask EXCEPT ![q] = Microframes(from_b_interval(b))]
  /\ pc' = "link" /\ qh' = q
  /\ UNCHANGED <<list, hlink, next, prev, s_mask, qhs, first_qh, added, idx, ordered>>

\* A wrong order: the new queue head is reachable before it leads on.
LinkNew_Late ==
  /\ pc = "link"
  /\ next' = [next EXCEPT ![qh] = NextQh(qh)]
  /\ pc' = "publish"
  /\ UNCHANGED <<list, hlink, prev, interval, s_mask, c_mask, qhs, first_qh, added, qh, idx, ordered>>

\* The horizontal link of the new queue head.
LinkNew ==
  /\ pc = "link"
  /\ hlink' = [hlink EXCEPT ![qh] = NextQh(qh)]
  /\ next' = [next EXCEPT ![qh] = NextQh(qh)]
  /\ pc' = "publish"
  /\ UNCHANGED <<list, prev, interval, s_mask, c_mask, qhs, first_qh, added, qh, idx, ordered>>

\* The queue head before the new one in the chain.
Before(q) == IF Existing(q) # None THEN Existing(q) ELSE PrevQh(q)

\* A wrong publication: the next node still names its old predecessor.
SetPrev_Stale(q) == prev' = [prev EXCEPT ![q] = Before(q)]

SetPrev(q) ==
  prev' = [n \in Qh |-> IF n = q THEN Before(q) ELSE IF n = next[q] THEN q ELSE prev[n]]

\* The link of the queue head before it, and the metadata.  A queue head of an
\* interval already present is reached through it and needs no slots.
PublishNew ==
  /\ pc = "publish"
  /\ hlink' = [q \in Qh |-> IF q = Before(qh) THEN qh ELSE hlink[q]]
  /\ next' = [q \in Qh |-> IF q = Before(qh) THEN qh ELSE next[q]]
  /\ SetPrev(qh)
  /\ IF Existing(qh) # None
       THEN /\ qhs' = [qhs EXCEPT ![Index(qh)] = qh]
            /\ added' = added \cup {qh} /\ pc' = "idle" /\ UNCHANGED idx
       ELSE /\ idx' = (IF PrevQh(qh) # None THEN frames(qh) ELSE 0)
            /\ pc' = "slots" /\ UNCHANGED <<qhs, added>>
  /\ ordered' = (ordered /\ (Existing(qh) # None \/ PrevQh(qh) = None))
  /\ UNCHANGED <<list, interval, s_mask, c_mask, first_qh, qh>>

\* A slot is written unless prev_qh_bit is set in its index.
TakesSlot(i) ==
  PrevQh(qh) # None => (i \div 2^Min(PrevPowers(qh))) % 2 = 0

WriteSlot ==
  /\ pc = "slots" /\ idx < Slots
  /\ list' = IF TakesSlot(idx) THEN [list EXCEPT ![idx] = qh] ELSE list
  /\ idx' = idx + frames(qh)
  /\ UNCHANGED <<memVars, qhs, first_qh, added, pc, qh, ordered>>

\* A wrong end: first_qh is not brought up to date.
FinishAdd_StaleFirst ==
  /\ pc = "slots" /\ idx >= Slots
  /\ first_qh' = IF first_qh = None THEN qh ELSE first_qh
  /\ qhs' = [qhs EXCEPT ![Index(qh)] = qh]
  /\ added' = added \cup {qh} /\ pc' = "idle"
  /\ UNCHANGED <<list, memVars, qh, idx, ordered>>

\* The tables; then the runner calls back.
FinishAdd ==
  /\ pc = "slots" /\ idx >= Slots
  /\ first_qh' = IF PrevQh(qh) = None THEN qh ELSE first_qh
  /\ qhs' = [qhs EXCEPT ![Index(qh)] = qh]
  /\ added' = added \cup {qh} /\ pc' = "idle"
  /\ UNCHANGED <<list, memVars, qh, idx, ordered>>

Next == (\E q \in Qh : BeginAdd(q)) \/ LinkNew \/ PublishNew \/ WriteSlot \/ FinishAdd

Spec == Init /\ [][Next]_vars

-----------------------------------------------------------------------------
\* The queue heads the controller visits in frame i: it follows the links from
\* the slot.
Visited(i) ==
  LET within[n \in 0..Cardinality(Qh)] ==
        IF n = 0 THEN {list[i]} \ {None}
        ELSE within[n - 1] \cup ({hlink[q] : q \in within[n - 1]} \ {None})
  IN within[Cardinality(Qh)]

\* Between two calls of add_qh the metadata mirrors the links the controller
\* follows (the unwrap of next in add_qh relies on it), and the chain that
\* starts at first_qh and at slot 0 holds exactly the queue heads added.
ChainIsConsistent ==
  pc = "idle" =>
    /\ \A q \in added : hlink[q] = next[q] /\ next[q] # q
    /\ \A q \in added : next[q] # None => prev[next[q]] = q
    /\ list[0] = first_qh /\ (first_qh # None => prev[first_qh] = None)
    /\ Visited(0) = added

\* Whatever the order of the calls, a queue head once added is visited at least
\* once in each turn of the frame list, also while others are being added, and
\* add_qh leaves the chain consistent for the next call.
NeverStarved == added \subseteq Visited(0) /\ ChainIsConsistent

\* As long as no interval comes new after a shorter one, a queue head is visited
\* in every frame that its interval calls for.
VisitedAtInterval ==
  ordered =>
    \A q \in added, i \in Slot : (8 * i) % 2^interval[q] = 0 => q \in Visited(i)
=============================================================================
