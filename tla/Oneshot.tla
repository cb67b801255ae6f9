------------------------------ MODULE Oneshot ------------------------------
(***************************************************************************)
(* The oneshot channel of oneshot.rs, one step per atomic access.  Each    *)
(* channel has a sender that sends or is dropped, and a receiver that is   *)
(* awaited on an executor that polls it only after a wakeup.               *)
(*                                                                         *)
(* On the channels in Crossing a send may run between two accesses of a    *)
(* poll, as when the runner answers watch() from another core.  On the     *)
(* others the two ends alternate, as on the channels the runner holds both *)
(* ends of (queue_remove_qh's sender and WaitForQhRemove's receiver).      *)
(***************************************************************************)
CONSTANTS Channel, Crossing

ASSUME OneshotAssumption == Crossing \subseteq Channel

VARIABLES stored,    \* OneshotShared::stored
          written,   \* OneshotShared::cell holds a value
          waker,     \* OneshotShared::waker holds the receiver's waker
          sender,    \* the sender's place in send
          receiver,  \* the receiver's place in poll
          rx_runnable,  \* the receiving task has been woken
          result     \* what the receiver's future returned

oneshotVars == <<stored, written, waker, sender, receiver, rx_runnable, result>>

OneshotInit ==
  /\ stored = [c \in Channel |-> FALSE]
  /\ written = [c \in Channel |-> FALSE]
  /\ waker = [c \in Channel |-> FALSE]
  /\ sender = [c \in Channel |-> "ready"]
  /\ receiver = [c \in Channel |-> "idle"]
  /\ rx_runnable = [c \in Channel |-> TRUE]
  /\ result = [c \in Channel |-> "none"]

\* Whether the two ends may take a step now.
SenderMay(c) == c \in Crossing \/ receiver[c] \in {"idle", "done"}
ReceiverMay(c) == c \in Crossing \/ sender[c] \in {"ready", "sent", "unsent"}

SenderStep(c, from, to) ==
  /\ SenderMay(c)
  /\ sender[c] = from
  /\ sender' = [sender EXCEPT ![c] = to]

ReceiverStep(c, from, to) ==
  /\ ReceiverMay(c)
  /\ receiver[c] = from
  /\ receiver' = [receiver EXCEPT ![c] = to]

-----------------------------------------------------------------------------
\* A wrong send: the value never reaches the cell.
WriteCell_Missing(c) ==
  /\ SenderStep(c, "ready", "written")
  /\ UNCHANGED <<stored, written, waker, receiver, rx_runnable, result>>

\* send: the value is written to the cell ...
WriteCell(c) ==
  /\ SenderStep(c, "ready", "written")
  /\ written' = [written EXCEPT ![c] = TRUE]
  /\ UNCHANGED <<stored, waker, receiver, rx_runnable, result>>

\* ... stored is set (Release) ...
Store(c) ==
  /\ SenderStep(c, "written", "stored")
  /\ stored' = [stored EXCEPT ![c] = TRUE]
  /\ UNCHANGED <<written, waker, receiver, rx_runnable, result>>

\* A wrong send: the receiver is not woken.
Wake_Silent(c) ==
  /\ SenderStep(c, "stored", "woken")
  /\ UNCHANGED <<stored, written, waker, receiver, rx_runnable, result>>

\* ... AtomicWaker::wake takes the waker, if one is registered, and calls it ...
Wake(c) ==
  /\ SenderStep(c, "stored", "woken")
  /\ rx_runnable' = [rx_runnable EXCEPT ![c] = @ \/ waker[c]]
  /\ waker' = [waker EXCEPT ![c] = FALSE]
  /\ UNCHANGED <<stored, written, receiver, result>>

\* ... and self is dropped, which takes the sender's reference off the Arc.
DropSent(c) ==
  /\ SenderStep(c, "woken", "sent")
  /\ UNCHANGED <<stored, written, waker, receiver, rx_runnable, result>>

\* The sender is dropped without a send.  OneshotSender has no Drop of its own.
DropUnsent(c) ==
  /\ SenderStep(c, "ready", "unsent")
  /\ UNCHANGED <<stored, written, waker, receiver, rx_runnable, result>>

\* poll: AtomicWaker::register ...
Register(c) ==
  /\ rx_runnable[c]
  /\ ReceiverStep(c, "idle", "load")
  /\ rx_runnable' = [rx_runnable EXCEPT ![c] = FALSE]
  /\ waker' = [waker EXCEPT ![c] = TRUE]
  /\ UNCHANGED <<stored, written, sender, result>>

\* ... stored is read (Acquire): Ready(Ok) with the value of the cell, or on ...
Load(c) ==
  /\ IF stored[c]
       THEN /\ ReceiverStep(c, "load", "done")
            /\ result' = [result EXCEPT ![c] = IF written[c] THEN "Ok" ELSE "uninitialised"]
       ELSE ReceiverStep(c, "load", "count") /\ UNCHANGED result
  /\ UNCHANGED <<stored, written, waker, sender, rx_runnable>>

\* A wrong poll: an unset flag alone is taken for a dropped sender.
Count_Ignored(c) ==
  /\ ReceiverStep(c, "count", "done")
  /\ result' = [result EXCEPT ![c] = "Err"]
  /\ UNCHANGED <<stored, written, waker, sender, rx_runnable>>

\* ... Arc::strong_count: Ready(Err) if the sender is gone, else Pending.
Count(c) ==
  /\ IF sender[c] \in {"sent", "unsent"}
       THEN /\ ReceiverStep(c, "count", "done")
            /\ result' = [result EXCEPT ![c] = "Err"]
       ELSE ReceiverStep(c, "count", "idle") /\ UNCHANGED result
  /\ UNCHANGED <<stored, written, waker, sender, rx_runnable>>

Send(c) == WriteCell(c) \/ Store(c) \/ Wake(c) \/ DropSent(c)
Poll(c) == Register(c) \/ Load(c) \/ Count(c)

OneshotNext == \E c \in Channel : Send(c) \/ DropUnsent(c) \/ Poll(c)

OneshotSpec == OneshotInit /\ [][OneshotNext]_oneshotVars

-----------------------------------------------------------------------------
\* What the receiver's future returns is true: Ok comes with a value that was
\* written to the cell, and RecvError ("This happens when the sender gets
\* dropped without sending anything.") only from a sender that did not send,
\* where the two ends alternate.
AnswerIsTrue ==
  \A c \in Channel :
    /\ result[c] # "uninitialised"
    /\ c \notin Crossing /\ result[c] = "Err" => sender[c] = "unsent"
=============================================================================
