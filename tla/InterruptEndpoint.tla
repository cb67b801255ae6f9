-------------------------- MODULE InterruptEndpoint --------------------------
(***************************************************************************)
(* An interrupt endpoint being watched: InterruptEndpoint::watch sets up a *)
(* ring of QTDs that the host controller (external) fills with packets,    *)
(* WatchedInterruptEndpoint::peek presents the packets in turn and advance *)
(* gives the QTD back.  The driver that owns the endpoint calls peek and   *)
(* advance in a loop; the runner passes completion interrupts on through   *)
(* int_signal; PeriodicList adds the queue head.                           *)
(*                                                                         *)
(* A packet is its number.  Memory is counted in packets: the buffer is    *)
(* base .. base + n - 1 in physical memory with pages of Page packets, and *)
(* a QTD points to it by a page and an offset, as its page 0 pointer does. *)
(* The caller of watch chooses n and base.                                 *)
(***************************************************************************)
EXTENDS Naturals, SignalOps

CONSTANTS MaxQtds,     \* bound on the number of QTDs
          Page,        \* the size of a page
          MaxPackets   \* bound on the packets the device sends

ASSUME InterruptAssumption ==
  MaxQtds \in Nat \ {0} /\ Page \in Nat \ {0} /\ MaxPackets \in Nat

Memory == 0..(Page + MaxQtds - 1)
Driver == "driver"

VARIABLES
  n, base,     \* number of QTDs, where the buffer lies
  step,        \* where the driver is, in watch, peek or advance
  written,     \* how many QTDs watch has written
  linked,      \* next_qtd_pointer leads to the first of them
  listed,      \* the queue head is in the periodic list
  halted,      \* halted bit of the queue head's transfer token
  qtd,         \* active bit and page 0 pointer of the QTDs, packet last received
  completed_packets_index, completed_packets,
  int_signal, irq,
  hc,          \* the QTD the controller executes next
  mem, sent, consumed, shown

watchVars == <<written, linked, listed>>
userVars == <<completed_packets_index, completed_packets, consumed, shown>>
hcVars == <<hc, mem, sent>>
vars == <<n, base, step, watchVars, halted, qtd, userVars, int_signal, irq, hcVars>>

Idx == completed_packets_index
Ring == 0..(n - 1)

Init ==
  /\ n \in 1..MaxQtds /\ base \in 0..(Page - 1)
  /\ step = "watch" /\ written = 0 /\ linked = FALSE /\ listed = FALSE /\ halted = FALSE
  /\ qtd = [i \in Ring |-> [active |-> FALSE, page |-> 0, offset |-> 0, packet |-> 0]]
  /\ completed_packets_index = 0 /\ completed_packets = 0 /\ consumed = 0 /\ shown = 0
  /\ int_signal = None /\ irq = FALSE
  /\ hc = 0 /\ mem = [a \in Memory |-> 0] /\ sent = 0

-----------------------------------------------------------------------------
\* A wrong watch: the queue head is not marked halted.
watch_NotHalted ==
  /\ step = "watch"
  /\ halted' = FALSE /\ step' = "request"
  /\ UNCHANGED <<n, base, watchVars, qtd, userVars, int_signal, irq, hcVars>>

\* watch: a halted queue head, then the request to the runner.
watch ==
  /\ step = "watch"
  /\ halted' = TRUE /\ step' = "request"
  /\ UNCHANGED <<n, base, watchVars, qtd, userVars, int_signal, irq, hcVars>>

\* The runner: add_qh, then the callback.
AddQh ==
  /\ step = "request"
  /\ listed' = TRUE /\ step' = "qtds"
  /\ UNCHANGED <<n, base, written, linked, halted, qtd, userVars, int_signal, irq, hcVars>>

\* The loop over the QTDs: each gets the start of the buffer.
WriteQtd ==
  /\ step = "qtds" /\ written < n
  /\ qtd' = [qtd EXCEPT ![written] =
               [active |-> TRUE, page |-> base \div Page, offset |-> base % Page, packet |-> 0]]
  /\ written' = written + 1
  /\ UNCHANGED <<n, base, step, linked, listed, halted, userVars, int_signal, irq, hcVars>>

LinkQtds ==
  /\ step = "qtds" /\ written = n
  /\ linked' = TRUE /\ step' = "unhalt"
  /\ UNCHANGED <<n, base, written, listed, halted, qtd, userVars, int_signal, irq, hcVars>>

Unhalt ==
  /\ step = "unhalt"
  /\ halted' = FALSE /\ step' = "peek"
  /\ UNCHANGED <<n, base, watchVars, qtd, userVars, int_signal, irq, hcVars>>

-----------------------------------------------------------------------------
\* One turn of the loop in peek: a packet is there, or the QTD is looked at.
PeekReturns ==
  /\ step = "peek" /\ completed_packets >= 1
  /\ shown' = mem[base + Idx] /\ step' = "have"
  /\ UNCHANGED <<n, base, watchVars, halted, qtd, completed_packets_index, completed_packets, consumed,
                 int_signal, irq, hcVars>>

\* A wrong peek: the active bit is not looked at.
PeekReads_Blind ==
  /\ step = "peek" /\ completed_packets = 0
  /\ completed_packets' = completed_packets + 1
  /\ UNCHANGED <<n, base, step, watchVars, halted, qtd, completed_packets_index, consumed, shown, int_signal, irq, hcVars>>

PeekReads ==
  /\ step = "peek" /\ completed_packets = 0
  /\ IF ~qtd[Idx].active
       THEN completed_packets' = completed_packets + 1 /\ UNCHANGED step
       ELSE step' = "wait" /\ UNCHANGED completed_packets
  /\ UNCHANGED <<n, base, watchVars, halted, qtd, completed_packets_index, consumed, shown, int_signal, irq, hcVars>>

\* int_signal.wait().await
PeekWaits ==
  /\ step = "wait"
  /\ int_signal' = PollNext(int_signal, Driver)
  /\ step' = IF PollIsReady(int_signal) THEN "peek" ELSE "asleep"
  /\ UNCHANGED <<n, base, watchVars, halted, qtd, userVars, irq, hcVars>>

\* A wrong advance: the index runs one QTD further.
NextIndex_Skip(i) == (i + 2) % n

NextIndex(i) == IF i + 1 = n THEN 0 ELSE i + 1

\* A wrong advance: the offset is taken from the start of a page.
ResetOffset_FromZero(i) == i % Page

ResetOffset(i) == (base + i) % Page

\* advance: the offset within the page and the token are reset.
advance ==
  /\ step = "have"
  /\ qtd' = [qtd EXCEPT ![Idx].offset = ResetOffset(Idx), ![Idx].active = TRUE]
  /\ completed_packets_index' = NextIndex(Idx)
  /\ completed_packets' = completed_packets - 1
  /\ consumed' = consumed + 1 /\ step' = "peek"
  /\ UNCHANGED <<n, base, watchVars, halted, shown, int_signal, irq, hcVars>>

\* A wrong runner: the signal is set and nobody woken.
FanOut_Silent ==
  /\ irq /\ irq' = FALSE
  /\ int_signal' = Signaled(TRUE)
  /\ UNCHANGED <<n, base, step, watchVars, halted, qtd, userVars, hcVars>>

\* The runner's fan-out of usb_int and usb_err_int.
FanOut ==
  /\ irq /\ irq' = FALSE
  /\ int_signal' = Signaled(TRUE)
  /\ step' = IF step = "asleep" /\ Driver \in SignalWakes(int_signal) THEN "wait" ELSE step
  /\ UNCHANGED <<n, base, watchVars, halted, qtd, userVars, hcVars>>

-----------------------------------------------------------------------------
\* External: the controller executes the QTD it is at, if the queue head is
\* not halted and the QTD active; a full ring makes it wait.
HcReady == listed /\ ~halted /\ linked /\ qtd[hc].active

Target(i) == qtd[i].page * Page + qtd[i].offset

HcReceives ==
  /\ HcReady /\ sent < MaxPackets
  /\ sent' = sent + 1
  /\ mem' = [mem EXCEPT ![Target(hc)] = sent + 1]
  /\ qtd' = [qtd EXCEPT ![hc].active = FALSE, ![hc].packet = sent + 1]
  /\ hc' = (hc + 1) % n
  /\ irq' = TRUE
  /\ UNCHANGED <<n, base, step, watchVars, halted, userVars, int_signal>>

\* External: a transfer ends in a stall or babble and halts the queue head.
HcFails ==
  /\ HcReady
  /\ qtd' = [qtd EXCEPT ![hc].active = FALSE]
  /\ halted' = TRUE /\ irq' = TRUE
  /\ UNCHANGED <<n, base, step, watchVars, userVars, int_signal, hcVars>>

WatchSteps == watch \/ WriteQtd \/ LinkQtds \/ Unhalt
PeekSteps == PeekReturns \/ PeekReads \/ PeekWaits \/ advance
Next == WatchSteps \/ AddQh \/ PeekSteps \/ FanOut \/ HcReceives \/ HcFails

\* Driver and runner are polled when woken; the controller's interrupts arrive
\* (IrqHandler).  The device need not send anything.
Fairness == WF_vars(WatchSteps) /\ WF_vars(AddQh) /\ WF_vars(PeekSteps) /\ WF_vars(FanOut)

Spec == Init /\ [][Next]_vars
FairSpec == Spec /\ Fairness

-----------------------------------------------------------------------------
\* As soon as the controller may follow the queue head's QTD pointer, the
\* pointer is set and the whole ring written: the halted bit guards the time
\* between AddInterruptQhReq and the end of watch.
HcFindsWrittenRing == listed /\ ~halted => linked /\ written = n

\* The controller finds the ring written, and it writes into the buffer it was
\* given and nowhere else, if the buffer lies within a page.
HcStaysInRing ==
  /\ HcFindsWrittenRing
  /\ base + n <= Page => \A a \in Memory : mem[a] # 0 => a \in base..(base + n - 1)

\* No transfer has failed yet: watch ends with the halted bit clear.
NoneFailed == step \in {"peek", "wait", "asleep", "have"} /\ ~halted

\* The ring is a queue: the QTDs from completed_packets_index up to the one the
\* controller is at hold the packets sent and not yet consumed, oldest first,
\* and exactly the others are active.  Until a transfer fails nothing is lost,
\* overwritten or taken twice, also when the ring is full.
RingHoldsUnread ==
  NoneFailed =>
    /\ sent - consumed \in 0..n
    /\ \A k \in (consumed + 1)..sent : qtd[(k - 1) % n].packet = k
    /\ \A i \in Ring : qtd[i].active <=> (\A k \in (consumed + 1)..sent : (k - 1) % n # i)
    /\ Idx = consumed % n /\ hc = sent % n

\* peek never sleeps through a packet: every packet sent is presented, and
\* the driver can advance past it.
PacketIsPresented ==
  \A k \in 1..MaxPackets : sent >= k ~> consumed >= k

\* peek presents the packet: what it returns is the oldest packet not consumed.
\* So it is until a transfer fails, in a buffer within a page, and with several
\* QTDs from the second round on: in the first all of them write to its start.
PresentsThePacket ==
  step = "have" /\ ~halted /\ base + n <= Page /\ (n = 1 \/ consumed >= n) =>
    shown = consumed + 1
=============================================================================
