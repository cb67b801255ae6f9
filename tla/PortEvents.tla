----------------------------- MODULE PortEvents -----------------------------
(***************************************************************************)
(* A device is plugged in: PORTSC, the interrupt (IrqHandler), the         *)
(* runner's fan-out over the root ports' port_changed_signal, and callers  *)
(* of RootPort::wait_until_connected that sleep on it.                     *)
(*                                                                         *)
(* Nothing in the driver clears the change bits of PORTSC: the handler     *)
(* relies on the interrupt coming with every transition, and all updates   *)
(* of PORTSC write the change bits as 0.  Which of the two kinds of        *)
(* controller this is, is chosen in PortInit.                              *)
(***************************************************************************)
EXTENDS IrqHandler, SignalOps, Naturals

CONSTANTS Port,       \* the root ports
          MaxChanges  \* bound on the connects and disconnects

ASSUME PortAssumption == MaxChanges \in Nat /\ "port_change_detect" \in Raised

VARIABLES
  every_transition,      \* whether PORTSC transitions interrupt even with the change bit set
  connected,             \* PORTSC: current_connect_status
  connect_status_change, \* PORTSC: set by the controller, cleared by nobody
  reported,              \* whether the port's last change set port_change_detect
  changes,               \* number of changes so far
  port_changed_signal,   \* RootPortSharedState
  waiter                 \* the caller's place in wait_until_connected

waitVars == <<port_changed_signal, waiter>>
portscVars == <<every_transition, connected, connect_status_change, reported, changes>>
portVars == <<portscVars, waitVars>>
allVars == <<irqVars, portVars>>

PortInit ==
  /\ IrqInit
  /\ every_transition \in BOOLEAN
  /\ connected = [p \in Port |-> FALSE]
  /\ connect_status_change = [p \in Port |-> FALSE]
  /\ reported = [p \in Port |-> TRUE]
  /\ changes = 0
  /\ port_changed_signal = [p \in Port |-> None]
  /\ waiter = [p \in Port |-> "away"]

-----------------------------------------------------------------------------
\* External: a device comes or goes.
PortChanges(p) ==
  LET transition == every_transition \/ ~connect_status_change[p]
  IN  /\ changes < MaxChanges
      /\ changes' = changes + 1
      /\ connected' = [connected EXCEPT ![p] = ~@]
      /\ connect_status_change' = [connect_status_change EXCEPT ![p] = TRUE]
      /\ reported' = [reported EXCEPT ![p] = transition]
      /\ IF transition THEN Raise("port_change_detect") ELSE UNCHANGED irqVars
      /\ UNCHANGED <<every_transition, waitVars>>

\* A wrong fan-out: only the callers that wait already are signalled.
FanOut_Waiting ==
  /\ port_changed_signal' =
       [p \in Port |-> IF SignalWakes(port_changed_signal[p]) = {}
                         THEN port_changed_signal[p] ELSE Signaled("change")]
  /\ waiter' = [p \in Port |-> IF p \in SignalWakes(port_changed_signal[p]) THEN "wait" ELSE waiter[p]]

\* port_changed_signal of every port is signalled, which wakes a sleeping caller.
FanOut ==
  /\ port_changed_signal' = [p \in Port |-> Signaled("change")]
  /\ waiter' = [p \in Port |-> IF p \in SignalWakes(port_changed_signal[p]) THEN "wait" ELSE waiter[p]]

\* The runner's poll, with what it does for port_change_detect.
PollRunner ==
  \/ (PollBegin \/ Register) /\ UNCHANGED portVars
  \/ \E b \in Consumed :
       /\ Swap(b) /\ UNCHANGED portscVars
       /\ IF b = "port_change_detect" /\ b \in flags THEN FanOut ELSE UNCHANGED waitVars

-----------------------------------------------------------------------------
WaiterStep(p, from, to) ==
  /\ waiter[p] \in from
  /\ waiter' = [waiter EXCEPT ![p] = to]
  /\ UNCHANGED <<irqVars, portscVars>>

\* RootPort::wait_until_connected is called ...
wait_until_connected(p) ==
  /\ WaiterStep(p, {"away", "found"}, "check")
  /\ UNCHANGED port_changed_signal

\* ... is_device_connected ...
Check(p) ==
  /\ WaiterStep(p, {"check"}, IF connected[p] THEN "found" ELSE "wait")
  /\ UNCHANGED port_changed_signal

\* ... and port_changed_signal.wait().await.
Wait(p) ==
  /\ WaiterStep(p, {"wait"}, IF PollIsReady(port_changed_signal[p]) THEN "check" ELSE "asleep")
  /\ port_changed_signal' = [port_changed_signal EXCEPT ![p] = PollNext(@, p)]

Caller(p) == wait_until_connected(p) \/ Check(p) \/ Wait(p)

PortNext ==
  \/ \E p \in Port : PortChanges(p)
  \/ \E b \in Raised : Raise(b) /\ UNCHANGED portVars
  \/ HandleIrq /\ UNCHANGED portVars
  \/ PollRunner
  \/ \E p \in Port : Caller(p)

\* A pending interrupt is taken and its handler finishes; the core comes back
\* to the runner between interrupts; a caller that is not asleep is polled.
PortFairness ==
  /\ WF_irqVars(HandleIrq) /\ SF_allVars(PollRunner)
  /\ \A p \in Port : WF_allVars(Check(p)) /\ WF_allVars(Wait(p))

PortSpec == PortInit /\ [][PortNext]_allVars
PortFairSpec == PortSpec /\ PortFairness

-----------------------------------------------------------------------------
Calling(p) == waiter[p] \in {"check", "wait", "asleep"}

\* A caller of wait_until_connected notices a device whose arrival set
\* port_change_detect, whatever the handler, the runner and the other ports
\* are doing when it is plugged in.
ConnectIsNoticed ==
  \A p \in Port :
    (Calling(p) /\ connected[p] /\ reported[p]) ~> (waiter[p] = "found" \/ ~connected[p])
=============================================================================
