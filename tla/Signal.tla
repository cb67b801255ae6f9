------------------------------ MODULE Signal -------------------------------
(***************************************************************************)
(* One Signal<T> between a signaller and a waiter that calls wait() in a   *)
(* loop, on an executor that polls a task only after it was woken.  The    *)
(* future may be handed from task to task ("move futures around"), so the  *)
(* waker that is registered need not be the one of the task that waits     *)
(* now.  Values are numbered in the order they are signalled.              *)
(***************************************************************************)
EXTENDS Naturals, SignalOps

CONSTANTS Task,       \* the tasks that may come to own the wait future
          MaxSignals  \* bound on the number of values signalled

ASSUME SignalAssumption == Task # {} /\ MaxSignals \in Nat

VARIABLES mutex,     \* State<T>
          owner,     \* the task that owns the wait future
          runnable,  \* tasks woken and not polled since
          sent,      \* number of values signalled so far
          received   \* the value poll_wait returned last, 0 for none

signalVars == <<mutex, owner, runnable, sent, received>>

SignalInit ==
  /\ mutex = None
  /\ owner \in Task
  /\ runnable = {owner}
  /\ sent = 0 /\ received = 0

\* A wrong signal: an unread value is kept and the new one dropped.
signal_KeepUnread ==
  /\ sent < MaxSignals
  /\ sent' = sent + 1
  /\ mutex' = IF PollIsReady(mutex) THEN mutex ELSE Signaled(sent + 1)
  /\ runnable' = runnable \cup SignalWakes(mutex)
  /\ UNCHANGED <<owner, received>>

\* Signal::signal
signal ==
  /\ sent < MaxSignals
  /\ sent' = sent + 1
  /\ mutex' = Signaled(sent + 1)
  /\ runnable' = runnable \cup SignalWakes(mutex)
  /\ UNCHANGED <<owner, received>>

\* The owner is polled: poll_wait.  With Ready it goes on running and waits
\* again; with Pending it sleeps until it is woken.
poll_wait(t) ==
  /\ t = owner /\ t \in runnable
  /\ mutex' = PollNext(mutex, t)
  /\ IF PollIsReady(mutex)
       THEN received' = mutex.value /\ UNCHANGED runnable
       ELSE /\ runnable' = (runnable \ {t}) \cup PollWakes(mutex, t)
            /\ UNCHANGED received
  /\ UNCHANGED <<owner, sent>>

\* External: a task that no longer owns the future is polled, to no effect.
PollOther(t) ==
  /\ t # owner /\ t \in runnable
  /\ runnable' = runnable \ {t}
  /\ UNCHANGED <<mutex, owner, sent, received>>

\* External: the future moves to task t, which polls it for the first time.
MoveTo(t) ==
  /\ t # owner
  /\ owner' = t
  /\ runnable' = runnable \cup {t}
  /\ UNCHANGED <<mutex, sent, received>>

SignalNext ==
  \/ signal
  \/ \E t \in Task : poll_wait(t) \/ PollOther(t) \/ MoveTo(t)

SignalSpec == SignalInit /\ [][SignalNext]_signalVars

-----------------------------------------------------------------------------
\* The slot is empty, names a waiting task, or holds a value signalled earlier.
SignalTypeOK ==
  /\ mutex \in {None} \cup {Waiting(t) : t \in Task} \cup {Signaled(n) : n \in 1..MaxSignals}
  /\ owner \in Task
  /\ runnable \in SUBSET Task
  /\ sent \in 0..MaxSignals /\ received \in 0..MaxSignals

\* The owner sleeps only while its own waker is the registered one, so the
\* next signal wakes it: no wakeup is lost, whichever tasks polled before.
SleepsOnlyRegistered == owner \notin runnable => mutex = Waiting(owner)

\* The slot holds the newest value, and once it is empty the newest value has
\* been received: an unread value is only ever replaced by a newer one.
NewestValue ==
  IF mutex.tag = "Signaled"
    THEN mutex.value = sent /\ received < sent
    ELSE received = sent
=============================================================================
