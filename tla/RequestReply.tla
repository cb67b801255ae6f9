---------------------------- MODULE RequestReply ----------------------------
(***************************************************************************)
(* How a driver asks the runner for something and awaits the answer, as    *)
(* InterruptEndpoint::watch does: request c is signalled with the sender   *)
(* of oneshot channel c in it, and the receiver is awaited.  The runner    *)
(* polls the signal, serves a request and sends on its channel.  A request *)
(* that replaces an unread one drops the sender of that one.               *)
(***************************************************************************)
EXTENDS Signal, Oneshot

ASSUME ChannelAssumption == Channel = 1..MaxSignals

replyVars == <<signalVars, oneshotVars>>

ReplyInit == SignalInit /\ OneshotInit

\* req_signal.signal(... callback: sender ...)
Request ==
  /\ signal
  /\ IF PollIsReady(mutex) THEN DropUnsent(mutex.value) ELSE UNCHANGED oneshotVars

\* The runner is between two requests.
Served == received # 0 => sender[received] = "sent"

\* The task that owns the runner's future polls the signal.
TakeRequest(t) == Served /\ poll_wait(t) /\ UNCHANGED oneshotVars

Reply == received # 0 /\ Send(received) /\ UNCHANGED signalVars

\* The receiver of a request that was made is polled.
AwaitReply(c) == c <= sent /\ Poll(c) /\ UNCHANGED signalVars

ReplyNext ==
  \/ Request \/ Reply
  \/ \E t \in Task : TakeRequest(t) \/ ((PollOther(t) \/ MoveTo(t)) /\ UNCHANGED oneshotVars)
  \/ \E c \in Channel : AwaitReply(c)

\* The executor polls what it was told to poll, and the runner finishes what it
\* serves.  Nobody has to make a request, or to move the runner between tasks.
ReplyFairness ==
  /\ \A t \in Task : SF_replyVars(TakeRequest(t))
  /\ WF_replyVars(Reply)
  /\ \A c \in Channel : WF_replyVars(AwaitReply(c))

ReplySpec == ReplyInit /\ [][ReplyNext]_replyVars
ReplyFairSpec == ReplySpec /\ ReplyFairness

-----------------------------------------------------------------------------
\* The newest request is answered, through the waker of the slot to the runner
\* and the waker of the channel back, provided the runner does not move between
\* tasks for ever.  Across cores the answer may be a RecvError.
RequestIsAnswered ==
  (\E t \in Task : <>[](owner = t)) =>
    \A c \in Channel :
      (sent = c) ~> \/ result[c] = "Ok"
                    \/ result[c] = "Err" /\ c \in Crossing
                    \/ sent > c
=============================================================================
