--------------------------- MODULE ControlEndpoint ---------------------------
(***************************************************************************)
(* Control transfers on a loaded endpoint: ControlEndpoint::load, and      *)
(* transfer_no_data and transfer_in of LoadedControlEndpoint, against the  *)
(* host controller (external), which visits the queue head whenever it     *)
(* comes round to it.  The controller keeps the QTD at work in the queue   *)
(* head's overlay, the same words that attach_qtd writes.                  *)
(*                                                                         *)
(* QTD 0 is SETUP, QTDs 1..n are IN with a buffer of size bytes each, and  *)
(* QTD n+1 is the status stage; n = 0 is transfer_no_data.  transfer_out   *)
(* is todo!() in the code.                                                 *)
(*                                                                         *)
(* The data stage goes packet by packet, each with its data toggle: the    *)
(* device alternates from DATA1, the controller from the toggle of the QTD *)
(* (load sets data toggle control), which is DATA1 in every IN QTD.        *)
(***************************************************************************)
EXTENDS Integers, FiniteSetsExt, SignalOps

CONSTANTS MaxBuffers, Sizes, \* buffers per transfer, bytes per buffer
          MaxPacket,         \* load: 64 bytes
          MaxTransfers       \* bound on the transfers

ASSUME ControlAssumption ==
  /\ MaxBuffers \in Nat /\ Sizes \subseteq Nat \ {0}
  /\ MaxPacket \in Nat \ {0} /\ MaxTransfers \in Nat

Qtd == 0..(MaxBuffers + 1)
Invalid == -1
Driver == "driver"

VARIABLES
  step, transfers,
  n, size, len,    \* buffers of the transfer, bytes of each, bytes the device has to send
  listed,          \* the runner has added the queue head
  overlay,         \* the queue head's QTD pointers and transfer token
  qtd,             \* the QTDs in memory
  left,            \* bytes the device has still to send, Invalid outside a data stage
  toggle,          \* data toggle of the device's next packet
  int_signal, irq,
  bytes            \* what the last transfer returned

vars ==
  <<step, transfers, n, size, len, listed, overlay, qtd, left, toggle, int_signal, irq, bytes>>

Blank == [active |-> FALSE, toggle |-> 0, rem |-> 0, next |-> Invalid, alt |-> Invalid]
Status == n + 1

\* load: a halted queue head without QTDs; the request to the runner.
Init ==
  /\ step = "idle" /\ transfers = 0 /\ n = 0 /\ size = 0 /\ len = 0 /\ listed = FALSE
  /\ overlay = [active |-> FALSE, halted |-> TRUE, toggle |-> 0, rem |-> 0,
                cur |-> Invalid, next |-> Invalid, alt |-> Invalid]
  /\ qtd = [q \in Qtd |-> Blank]
  /\ left = Invalid /\ toggle = 0 /\ int_signal = None /\ irq = FALSE /\ bytes = 0

\* The runner: add_qh_to_async_list.  load does not wait for it.
AddQh ==
  /\ ~listed /\ listed' = TRUE
  /\ UNCHANGED <<step, transfers, n, size, len, overlay, qtd, left, toggle, int_signal, irq, bytes>>

-----------------------------------------------------------------------------
\* A wrong transfer_in: the alternate pointers are not set.
WriteQtd_NoAlternate(q, bufs, sz) ==
  [active |-> TRUE,
   toggle |-> IF q = 0 THEN 0 ELSE 1,
   rem |-> IF q \in 1..bufs THEN sz ELSE 0,
   next |-> IF q = bufs + 1 THEN Invalid ELSE q + 1,
   alt |-> Invalid]

\* A wrong transfer_in: the IN QTDs are left at DATA0.
WriteQtd_Data0(q, bufs, sz) ==
  [active |-> TRUE,
   toggle |-> IF q = bufs + 1 THEN 1 ELSE 0,
   rem |-> IF q \in 1..bufs THEN sz ELSE 0,
   next |-> IF q = bufs + 1 THEN Invalid ELSE q + 1,
   alt |-> IF q \in 1..bufs THEN bufs + 1 ELSE Invalid]

\* write_setup_qtd, the loop over the buffers and write_status_qtd: DATA0 for
\* SETUP, DATA1 for every IN QTD and for the status stage.
WriteQtd(q, bufs, sz) ==
  [active |-> TRUE,
   toggle |-> IF q = 0 THEN 0 ELSE 1,
   rem |-> IF q \in 1..bufs THEN sz ELSE 0,
   next |-> IF q = bufs + 1 THEN Invalid ELSE q + 1,
   alt |-> IF q \in 1..bufs THEN bufs + 1 ELSE Invalid]

\* A transfer begins: its QTDs are written.  The device will answer len bytes.
Begin ==
  /\ step = "idle" /\ transfers < MaxTransfers
  /\ \E bufs \in 0..MaxBuffers, sz \in Sizes : \E l \in 0..(bufs * sz) :
       /\ n' = bufs /\ size' = sz /\ len' = l
       /\ qtd' = [q \in Qtd |-> IF q <= bufs + 1 THEN WriteQtd(q, bufs, sz) ELSE qtd[q]]
  /\ transfers' = transfers + 1
  /\ step' = "attach"
  /\ UNCHANGED <<listed, overlay, left, toggle, int_signal, irq, bytes>>

\* attach_qtd: the next QTD pointer, then the transfer token.
AttachNext ==
  /\ step = "attach"
  /\ overlay' = [overlay EXCEPT !.next = 0]
  /\ step' = "token"
  /\ UNCHANGED <<transfers, n, size, len, listed, qtd, left, toggle, int_signal, irq, bytes>>

AttachToken ==
  /\ step = "token"
  /\ overlay' = [overlay EXCEPT !.active = FALSE, !.halted = FALSE, !.toggle = 0, !.rem = 0]
  /\ step' = "check"
  /\ UNCHANGED <<transfers, n, size, len, listed, qtd, left, toggle, int_signal, irq, bytes>>

\* A wrong sum: the buffers count as full.
BytesRead_Full == n * size

\* What the IN QTDs 1..bufs, with buffers of sz bytes, have read.
ReadBy(qtds, bufs, sz) ==
  LET read[q \in 0..bufs] == IF q = 0 THEN 0 ELSE read[q - 1] + (sz - qtds[q].rem)
  IN read[bufs]

\* The sum over the IN QTDs.
BytesRead == ReadBy(qtd, n, size)

\* A wrong wait: the first QTD is looked at instead of the last.
AwaitedQtd_First == 0

AwaitedQtd == Status

\* wait_for_qtd_complete, then the transfer returns.
TransferReturns ==
  /\ step = "check" /\ ~qtd[AwaitedQtd].active
  /\ bytes' = BytesRead
  /\ step' = "returned"
  /\ UNCHANGED <<transfers, n, size, len, listed, overlay, qtd, left, toggle, int_signal, irq>>

StillActive ==
  /\ step = "check" /\ qtd[AwaitedQtd].active
  /\ step' = "wait"
  /\ UNCHANGED <<transfers, n, size, len, listed, overlay, qtd, left, toggle, int_signal, irq, bytes>>

Wait ==
  /\ step = "wait"
  /\ int_signal' = PollNext(int_signal, Driver)
  /\ step' = IF PollIsReady(int_signal) THEN "check" ELSE "asleep"
  /\ UNCHANGED <<transfers, n, size, len, listed, overlay, qtd, left, toggle, irq, bytes>>

\* The caller goes on, its memory its own again.
Resume ==
  /\ step = "returned"
  /\ step' = "idle"
  /\ UNCHANGED <<transfers, n, size, len, listed, overlay, qtd, left, toggle, int_signal, irq, bytes>>

\* The runner's fan-out of usb_int and usb_err_int.
FanOut ==
  /\ irq /\ irq' = FALSE
  /\ int_signal' = Signaled(TRUE)
  /\ step' = IF step = "asleep" /\ Driver \in SignalWakes(int_signal) THEN "wait" ELSE step
  /\ UNCHANGED <<transfers, n, size, len, listed, overlay, qtd, left, toggle, bytes>>

-----------------------------------------------------------------------------
\* External: the controller, at an idle overlay, takes up the next QTD, which
\* is the alternate one after a short packet.
HcNext == IF overlay.rem > 0 /\ overlay.alt # Invalid THEN overlay.alt ELSE overlay.next

HcFetch ==
  /\ listed /\ ~overlay.active /\ ~overlay.halted
  /\ HcNext # Invalid /\ qtd[HcNext].active
  /\ LET q == qtd[HcNext]
     IN overlay' = [active |-> TRUE, halted |-> FALSE, toggle |-> q.toggle, rem |-> q.rem,
                    cur |-> HcNext, next |-> q.next, alt |-> q.alt]
  /\ UNCHANGED <<step, transfers, n, size, len, listed, qtd, left, toggle, int_signal, irq, bytes>>

Retire(rem, halt) ==
  /\ overlay' = [overlay EXCEPT !.active = FALSE, !.halted = halt, !.rem = rem]
  /\ qtd' = [qtd EXCEPT ![overlay.cur].active = FALSE, ![overlay.cur].rem = rem]

\* External: the device takes SETUP, and its data stage begins at DATA1.
HcSetup ==
  /\ overlay.active /\ overlay.cur = 0 /\ overlay.toggle = 0
  /\ left' = len /\ toggle' = 1
  /\ Retire(0, FALSE)
  /\ UNCHANGED <<step, transfers, n, size, len, listed, int_signal, irq, bytes>>

\* The next packet of the data stage, and what is left after it: a short
\* packet ends the data stage, and so does the last of the bytes asked for, as
\* many as the buffers hold.
Packet == Min({MaxPacket, left})
LeftAfter ==
  IF Packet < MaxPacket \/ (Packet = left /\ len = n * size) THEN Invalid ELSE left - Packet

\* The controller asks for data.  A device that is in no data stage answers
\* an IN with a NAK.
Asking == overlay.active /\ overlay.cur \in 1..n /\ left # Invalid

\* External: the packet has the expected toggle and goes into the buffer; the
\* QTD is complete when the buffer is full or the packet is short.
HcReads ==
  /\ Asking /\ overlay.toggle = toggle /\ Packet <= overlay.rem
  /\ left' = LeftAfter /\ toggle' = 1 - toggle
  /\ IF Packet = overlay.rem \/ Packet < MaxPacket
       THEN Retire(overlay.rem - Packet, FALSE) /\ irq' = TRUE
       ELSE /\ overlay' = [overlay EXCEPT !.toggle = 1 - @, !.rem = @ - Packet]
            /\ UNCHANGED <<qtd, irq>>
  /\ UNCHANGED <<step, transfers, n, size, len, listed, int_signal, bytes>>

\* External: the packet has the other toggle.  It counts as a repetition: the
\* controller acknowledges it, so the device goes on, and drops it.
HcDrops ==
  /\ Asking /\ overlay.toggle # toggle /\ Packet <= overlay.rem
  /\ left' = LeftAfter /\ toggle' = 1 - toggle
  /\ UNCHANGED <<step, transfers, n, size, len, listed, overlay, qtd, int_signal, irq, bytes>>

\* External: the status stage, DATA1 in both directions.
HcStatus ==
  /\ overlay.active /\ overlay.cur = Status /\ overlay.toggle = 1
  /\ left' = Invalid
  /\ Retire(0, FALSE)
  /\ irq' = TRUE
  /\ UNCHANGED <<step, transfers, n, size, len, listed, toggle, int_signal, bytes>>

\* External: the queue head is halted and an error interrupt raised, because
\* the device stalls, or because its packet does not fit (a babble).
Halts ==
  /\ Retire(overlay.rem, TRUE)
  /\ left' = Invalid
  /\ irq' = TRUE
  /\ UNCHANGED <<step, transfers, n, size, len, listed, toggle, int_signal, bytes>>

HcStalls == overlay.active /\ overlay.cur # 0 /\ Halts
HcBabbles == Asking /\ Packet > overlay.rem /\ Halts

DriverSteps == AttachNext \/ AttachToken \/ TransferReturns \/ StillActive \/ Wait \/ Resume
Hc == HcFetch \/ HcSetup \/ HcReads \/ HcDrops \/ HcStatus \/ HcBabbles
Next == AddQh \/ Begin \/ DriverSteps \/ FanOut \/ Hc \/ HcStalls

\* Tasks are polled when woken, and the controller and the device make progress.
Fairness == WF_vars(AddQh) /\ WF_vars(DriverSteps) /\ WF_vars(FanOut) /\ WF_vars(Hc)

Spec == Init /\ [][Next]_vars
FairSpec == Spec /\ Fairness

-----------------------------------------------------------------------------
\* The device's toggle is DATA1 again whenever an IN QTD is taken up: there is
\* one at most (all callers of transfer_in pass one buffer), or every buffer
\* holds an even number of packets.
TogglesInStep == n <= 1 \/ \E k \in 0..size : size = k * (2 * MaxPacket)

\* transfer_in returns the bytes read: as many as the device sent, be they
\* fewer than the buffers hold or spread over several QTDs, also if the device
\* stalls some stage, as long as the toggles of the QTDs are in step with the
\* device's.  It never returns more than was sent, out of step either, or in a
\* second transfer, whose data stage the write of the token may wipe out.
ReturnsBytesRead ==
  step = "returned" => bytes <= len /\ (transfers = 1 /\ TogglesInStep => bytes = len)

\* When a transfer returns, the controller is through with its QTDs, so the
\* caller may write them again.
QtdsAreFree ==
  step \in {"returned", "idle"} => ~overlay.active /\ (HcNext = Invalid \/ overlay.halted)

\* The first transfer on an endpoint returns, unless the device stalls it, if
\* its toggles are in step.  (Out of step the last packet may be dropped, and
\* the controller waits for another.  In a later transfer the queue head is
\* not halted while attach_qtd writes it: the token may wipe out a QTD the
\* controller has taken up.)
EveryTransferReturns ==
  step = "check" /\ transfers = 1 /\ TogglesInStep
    ~> (step = "returned" \/ overlay.halted)
=============================================================================
