----------------------------- MODULE SignalOps -----------------------------
(***************************************************************************)
(* The single-slot Signal<T> of signal.rs as operators on its state.  The  *)
(* spin lock is held over each of signal and poll_wait, waking included,   *)
(* so each is one step of whoever calls it.  A waker stands for the task   *)
(* it wakes; will_wake is equality.                                        *)
(***************************************************************************)

\* State<T>
None == [tag |-> "None"]
Waiting(w) == [tag |-> "Waiting", waker |-> w]
Signaled(v) == [tag |-> "Signaled", value |-> v]

\* A wrong signal: the waker that was stored is dropped without a call.
SignalWakes_Silent(s) == {}

\* The tasks that signal wakes, given the state it replaces by Signaled(v).
SignalWakes(s) == IF s.tag = "Waiting" THEN {s.waker} ELSE {}

\* Whether poll_wait returns Ready(s.value).
PollIsReady(s) == s.tag = "Signaled"

\* A wrong poll_wait: the first waker stays registered.
PollNext_KeepFirst(s, w) ==
  CASE s.tag = "Signaled" -> None
    [] s.tag = "Waiting"  -> s
    [] s.tag = "None"     -> Waiting(w)

\* The state poll_wait leaves behind when task w calls it.
PollNext(s, w) == IF PollIsReady(s) THEN None ELSE Waiting(w)

\* The tasks that poll_wait wakes: a waker it replaces.
PollWakes(s, w) == IF s.tag = "Waiting" /\ s.waker # w THEN {s.waker} ELSE {}
=============================================================================
