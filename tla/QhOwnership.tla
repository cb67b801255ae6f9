---------------------------- MODULE QhOwnership ----------------------------
(***************************************************************************)
(* What the asynchronous schedule promises the owner of a queue head,      *)
(* without lists, doorbells or interrupts: a queue head that was handed in *)
(* comes back only when the host controller holds no reference to it, and  *)
(* the host controller never picks one up that has not been handed in.     *)
(***************************************************************************)
CONSTANT Qh

VARIABLES listed,   \* handed in, part of the schedule
          retired,  \* taken out of the schedule, not handed back yet
          held      \* referred to by the host controller

vars == <<listed, retired, held>>

Init == listed = {} /\ retired = {} /\ held = {}

HandIn(q) ==
  /\ q \notin listed \cup retired
  /\ listed' = listed \cup {q}
  /\ UNCHANGED <<retired, held>>

Retire(q) ==
  /\ q \in listed
  /\ listed' = listed \ {q}
  /\ retired' = retired \cup {q}
  /\ UNCHANGED held

HandBack ==
  /\ retired' \in SUBSET retired
  /\ held \cap retired \subseteq retired'
  /\ UNCHANGED <<listed, held>>

Refer ==
  /\ held' \in SUBSET (listed \cup retired)
  /\ UNCHANGED <<listed, retired>>

Next == \/ \E q \in Qh : HandIn(q) \/ Retire(q)
        \/ HandBack
        \/ Refer

Spec == Init /\ [][Next]_vars
=============================================================================
