---------------------------- MODULE ResetDevice ----------------------------
(***************************************************************************)
(* Resetting the device on a root port and giving it an address: the       *)
(* callers of RootPort::reset_device, the 'reset loop of the runner, the   *)
(* address allocator, and (external) the ports, the devices and the host   *)
(* controller that executes SET_ADDRESS.                                   *)
(*                                                                         *)
(* One iteration of the 'reset loop is one action.  Between two of them    *)
(* ports change and transfers complete.  The 50 ms and 2 ms delays are     *)
(* timers that fire at some time; the removal of the request's queue head  *)
(* from the asynchronous list is the promise of QhOwnership.               *)
(***************************************************************************)
EXTENDS Integers, FiniteSets, FiniteSetsExt

CONSTANTS NPorts,    \* number of root ports
          MaxAddr,   \* highest device address (127)
          MaxCalls,  \* bound on the calls of reset_device
          Faults,    \* what the environment may do, a subset of AllFaults
          MaxFaults  \* bound on the kinds of fault, unplug aside, in one behaviour

\* unplug:      a device is unplugged while no SET_ADDRESS is under way on it
\* unplug_late: a device is unplugged while one is
\* stall:       a device answers SET_ADDRESS with a STALL
\* slow_switch: a device goes on answering at 0 for a while after SET_ADDRESS
\* cancel:      a caller drops the future of reset_device
AllFaults == {"unplug", "unplug_late", "stall", "slow_switch", "cancel"}

ASSUME ResetAssumption ==
  /\ NPorts \in Nat \ {0} /\ MaxAddr \in Nat \ {0} /\ MaxCalls \in Nat
  /\ MaxFaults \in Nat /\ Faults \subseteq AllFaults

Port == 1..NPorts
Addr == 0..MaxAddr
NotReset == -1   \* a port without a device, or whose device was never reset
NoCall == 0

Nothing == [call |-> NoCall, err |-> "none", addr |-> NotReset]
Idle == [port |-> 1, call |-> NoCall, step |-> "Idle", addr |-> NotReset, timer |-> FALSE]

VARIABLES
  calls,        \* calls of reset_device so far, per port
  waiting,      \* whether the last of them is still awaited
  req_signal,   \* the unread request: its call number or NoCall
  res_signal,   \* the unread result or Nothing
  got,          \* the result the last completed call returned
  resetting,    \* resetting_device
  allocated,    \* allocated_addresses
  panicked,     \* the runner has panicked
  qh,           \* the request's queue head: "out", "listed" or "removing"
  status_qtd,   \* the SET_ADDRESS status QTD: "none", "active", "done", "halted"
  connected, high_speed, enabled, port_reset,  \* the ports
  dev_addr,     \* the address the device on a port answers at
  next_addr,    \* the address it will switch to, NotReset if none
  happened      \* the kinds of fault so far, unplug aside

userVars == <<calls, waiting, got>>
portVars == <<connected, high_speed, enabled, port_reset>>
devVars == <<dev_addr, next_addr>>
xferVars == <<qh, status_qtd>>
runnerVars == <<resetting, allocated, panicked>>
vars == <<userVars, req_signal, res_signal, runnerVars, xferVars, portVars, devVars, happened>>

Init ==
  /\ calls = [p \in Port |-> 0]
  /\ waiting = [p \in Port |-> FALSE]
  /\ req_signal = [p \in Port |-> NoCall]
  /\ res_signal = [p \in Port |-> Nothing]
  /\ got = [p \in Port |-> Nothing]
  /\ resetting = Idle /\ allocated = {0} /\ panicked = FALSE
  /\ qh = "out" /\ status_qtd = "none"
  /\ connected = [p \in Port |-> FALSE] /\ high_speed = [p \in Port |-> FALSE]
  /\ enabled = [p \in Port |-> FALSE] /\ port_reset = [p \in Port |-> FALSE]
  /\ dev_addr = [p \in Port |-> NotReset] /\ next_addr = [p \in Port |-> NotReset]
  /\ happened = {}

\* The environment commits a fault it may commit.
Happens(fault) ==
  /\ fault \in Faults
  /\ happened' = happened \cup ({fault} \ {"unplug"})
  /\ Cardinality(happened') <= MaxFaults

-----------------------------------------------------------------------------
\* Bound: the calls of reset_device are counted.
CallsSoFar == MapThenSumSet(LAMBDA p : calls[p], Port)

\* RootPort::reset_device: signal the request, then await the result.
reset_device(p) ==
  /\ ~waiting[p] /\ CallsSoFar < MaxCalls
  /\ calls' = [calls EXCEPT ![p] = @ + 1]
  /\ waiting' = [waiting EXCEPT ![p] = TRUE]
  /\ req_signal' = [req_signal EXCEPT ![p] = calls[p] + 1]
  /\ UNCHANGED <<got, res_signal, runnerVars, xferVars, portVars, devVars, happened>>

\* ResetDeviceFuture::poll finds a result.
TakeResult(p) ==
  /\ waiting[p] /\ res_signal[p] # Nothing
  /\ got' = [got EXCEPT ![p] = res_signal[p]]
  /\ res_signal' = [res_signal EXCEPT ![p] = Nothing]
  /\ waiting' = [waiting EXCEPT ![p] = FALSE]
  /\ UNCHANGED <<calls, req_signal, runnerVars, xferVars, portVars, devVars, happened>>

\* ResetDeviceFuture is dropped; its Drop does nothing.
CancelReset(p) ==
  /\ Happens("cancel")
  /\ waiting[p]
  /\ waiting' = [waiting EXCEPT ![p] = FALSE]
  /\ UNCHANGED <<calls, got, req_signal, res_signal, runnerVars, xferVars, portVars, devVars>>

-----------------------------------------------------------------------------
\* The port under reset, and the answer to its request.
P == resetting.port
Respond(err, addr) ==
  res_signal' = [res_signal EXCEPT ![P] = [call |-> resetting.call, err |-> err, addr |-> addr]]

RunnerAt(step) == ~panicked /\ resetting.step = step

\* Port by port, the first unread request: PORTSC port reset is set, which
\* (external) disables the port and takes its device back to address 0.
StartReset(p) ==
  /\ RunnerAt("Idle")
  /\ req_signal[p] # NoCall /\ \A o \in 1..(p-1) : req_signal[o] = NoCall
  /\ req_signal' = [req_signal EXCEPT ![p] = NoCall]
  /\ resetting' = [port |-> p, call |-> req_signal[p], step |-> "WaitingToStopReset",
                   addr |-> NotReset, timer |-> FALSE]
  /\ port_reset' = [port_reset EXCEPT ![p] = TRUE]
  /\ enabled' = [enabled EXCEPT ![p] = FALSE]
  /\ dev_addr' = [dev_addr EXCEPT ![p] = IF connected[p] THEN 0 ELSE NotReset]
  /\ next_addr' = [next_addr EXCEPT ![p] = NotReset]
  /\ UNCHANGED <<userVars, res_signal, allocated, panicked, xferVars, connected, high_speed, happened>>

\* A wrong loop: the request stays in place after it was answered.
ReportDisconnect_Keep ==
  /\ \/ RunnerAt("WaitingToStopReset") \/ RunnerAt("WaitForPortToBeEnabled")
  /\ ~connected[P]
  /\ Respond("DeviceDisconnected", NotReset)
  /\ UNCHANGED <<userVars, req_signal, runnerVars, xferVars, portVars, devVars, happened>>

\* "Got disconnected already", in either of the first two steps.
ReportDisconnect ==
  /\ \/ RunnerAt("WaitingToStopReset") \/ RunnerAt("WaitForPortToBeEnabled")
  /\ ~connected[P]
  /\ Respond("DeviceDisconnected", NotReset)
  /\ resetting' = Idle
  /\ UNCHANGED <<userVars, req_signal, allocated, panicked, xferVars, portVars, devVars, happened>>

\* The 50 ms are over: port reset is cleared.
StopReset ==
  /\ RunnerAt("WaitingToStopReset")
  /\ connected[P] /\ resetting.timer
  /\ port_reset' = [port_reset EXCEPT ![P] = FALSE]
  /\ resetting' = [resetting EXCEPT !.step = "WaitForPortToBeEnabled", !.timer = FALSE]
  /\ UNCHANGED <<userVars, req_signal, res_signal, allocated, panicked, xferVars,
                 connected, high_speed, enabled, devVars, happened>>

\* AddressAllocator::allocate_addr, of the addresses that are not in use: the
\* lowest.  Its trailing_ones never finds a free address above MaxAddr.
FreeAddr == Addr \ allocated

\* A wrong allocator: the bit of the address is not set.
Allocate_Forget(a) == allocated' = allocated

Allocate(a) == allocated' = allocated \cup {a}

\* The port is enabled: an address is allocated, and the queue head with the
\* SET_ADDRESS transfer goes into the asynchronous list.
SendSetAddress ==
  /\ RunnerAt("WaitForPortToBeEnabled")
  /\ connected[P] /\ enabled[P]
  /\ \E a \in FreeAddr :
       /\ \A b \in FreeAddr : a <= b
       /\ Allocate(a)
       /\ resetting' = [resetting EXCEPT !.step = "WaitForSetAddr", !.addr = a]
  /\ status_qtd' = "active" /\ qh' = "listed"
  /\ UNCHANGED <<userVars, req_signal, res_signal, panicked, portVars, devVars, happened>>

\* The unwrap of allocate_addr when every address is in use.
PanicNoAddress ==
  /\ RunnerAt("WaitForPortToBeEnabled")
  /\ connected[P] /\ enabled[P] /\ FreeAddr = {}
  /\ panicked' = TRUE
  /\ UNCHANGED <<userVars, req_signal, res_signal, resetting, allocated, xferVars, portVars, devVars, happened>>

\* A wrong loop: the caller is not told.
ReportFullSpeed_Silent ==
  /\ RunnerAt("WaitForPortToBeEnabled")
  /\ connected[P] /\ ~enabled[P] /\ resetting.timer
  /\ resetting' = Idle
  /\ UNCHANGED <<userVars, req_signal, res_signal, allocated, panicked, xferVars, portVars, devVars, happened>>

\* The 2 ms are over and the port is not enabled.
ReportFullSpeed ==
  /\ RunnerAt("WaitForPortToBeEnabled")
  /\ connected[P] /\ ~enabled[P] /\ resetting.timer
  /\ Respond("DeviceIsFullSpeed", NotReset)
  /\ resetting' = Idle
  /\ UNCHANGED <<userVars, req_signal, allocated, panicked, xferVars, portVars, devVars, happened>>

\* A wrong loop: the status QTD is not looked at.
RemoveQh_Early ==
  /\ RunnerAt("WaitForSetAddr")
  /\ qh' = "removing"
  /\ resetting' = [resetting EXCEPT !.step = "WaitForQhRemove"]
  /\ UNCHANGED <<userVars, req_signal, res_signal, allocated, panicked, status_qtd, portVars, devVars, happened>>

\* The status QTD is no longer active, for whatever reason: queue_remove_qh.
RemoveQh ==
  /\ RunnerAt("WaitForSetAddr")
  /\ status_qtd # "active"
  /\ qh' = "removing"
  /\ resetting' = [resetting EXCEPT !.step = "WaitForQhRemove"]
  /\ UNCHANGED <<userVars, req_signal, res_signal, allocated, panicked, status_qtd, portVars, devVars, happened>>

\* A wrong loop: the answer does not wait for the queue head's removal.
FinishReset_Early ==
  /\ RunnerAt("WaitForQhRemove")
  /\ Respond("none", resetting.addr)
  /\ resetting' = Idle
  /\ status_qtd' = "none"
  /\ UNCHANGED <<userVars, req_signal, allocated, panicked, qh, portVars, devVars, happened>>

\* The removal was reported: the new Device is the answer.
FinishReset ==
  /\ RunnerAt("WaitForQhRemove")
  /\ qh = "out"
  /\ Respond("none", resetting.addr)
  /\ resetting' = Idle
  /\ status_qtd' = "none"
  /\ UNCHANGED <<userVars, req_signal, allocated, panicked, qh, portVars, devVars, happened>>

-----------------------------------------------------------------------------
\* External: delay_until becomes ready.  A port whose high-speed device came
\* out of reset is enabled by the host controller within the 2 ms.
TimerFires ==
  /\ resetting.step \in {"WaitingToStopReset", "WaitForPortToBeEnabled"} /\ ~resetting.timer
  /\ resetting.step = "WaitForPortToBeEnabled" =>
       ~(high_speed[P] /\ dev_addr[P] = 0 /\ ~enabled[P])
  /\ resetting' = [resetting EXCEPT !.timer = TRUE]
  /\ UNCHANGED <<userVars, req_signal, res_signal, allocated, panicked, xferVars, portVars, devVars, happened>>

\* External: the host controller enables a port with a high-speed device.
EnablePort(p) ==
  /\ connected[p] /\ high_speed[p] /\ dev_addr[p] = 0 /\ ~port_reset[p] /\ ~enabled[p]
  /\ enabled' = [enabled EXCEPT ![p] = TRUE]
  /\ UNCHANGED <<userVars, req_signal, res_signal, runnerVars, xferVars,
                 connected, high_speed, port_reset, devVars, happened>>

\* External: a device is plugged in, perhaps into a port that is in reset.
Plug(p) ==
  /\ ~connected[p]
  /\ connected' = [connected EXCEPT ![p] = TRUE]
  /\ \E hs \in BOOLEAN : high_speed' = [high_speed EXCEPT ![p] = hs]
  /\ dev_addr' = [dev_addr EXCEPT ![p] = IF port_reset[p] THEN 0 ELSE NotReset]
  /\ UNCHANGED <<userVars, req_signal, res_signal, runnerVars, xferVars, enabled, port_reset, next_addr, happened>>

SetAddressUnderWay(p) == status_qtd = "active" /\ P = p

\* External: a device is unplugged; the host controller disables its port.
Unplug(p) ==
  /\ connected[p]
  /\ Happens(IF SetAddressUnderWay(p) THEN "unplug_late" ELSE "unplug")
  /\ connected' = [connected EXCEPT ![p] = FALSE]
  /\ high_speed' = [high_speed EXCEPT ![p] = FALSE]
  /\ enabled' = [enabled EXCEPT ![p] = FALSE]
  /\ dev_addr' = [dev_addr EXCEPT ![p] = NotReset]
  /\ next_addr' = [next_addr EXCEPT ![p] = NotReset]
  /\ UNCHANGED <<userVars, req_signal, res_signal, runnerVars, xferVars, port_reset>>

AtZero == {p \in Port : enabled[p] /\ dev_addr[p] = 0}

\* Addresses f when the devices at 0 have taken that of the request.
Taken(f) == [p \in Port |-> IF p \in AtZero THEN resetting.addr ELSE f[p]]

\* External: SET_ADDRESS is executed by whatever answers at address 0.  With
\* nothing there the controller retries for ever (the error counter is 0).
DeviceAccepts ==
  /\ status_qtd = "active" /\ AtZero # {}
  /\ status_qtd' = "done"
  /\ \/ dev_addr' = Taken(dev_addr) /\ UNCHANGED <<next_addr, happened>>
     \/ Happens("slow_switch") /\ next_addr' = Taken(next_addr) /\ UNCHANGED dev_addr
  /\ UNCHANGED <<userVars, req_signal, res_signal, runnerVars, qh, portVars>>

DeviceStalls ==
  /\ Happens("stall")
  /\ status_qtd = "active" /\ AtZero # {}
  /\ status_qtd' = "halted"
  /\ UNCHANGED <<userVars, req_signal, res_signal, runnerVars, qh, portVars, devVars>>

DeviceSwitches(p) ==
  /\ next_addr[p] # NotReset
  /\ dev_addr' = [dev_addr EXCEPT ![p] = next_addr[p]]
  /\ next_addr' = [next_addr EXCEPT ![p] = NotReset]
  /\ UNCHANGED <<userVars, req_signal, res_signal, runnerVars, xferVars, portVars, happened>>

\* External: AsyncList reports the removal.
QhRemoved ==
  /\ qh = "removing"
  /\ qh' = "out"
  /\ UNCHANGED <<userVars, req_signal, res_signal, runnerVars, status_qtd, portVars, devVars, happened>>

-----------------------------------------------------------------------------
ResetLoop ==
  \/ \E p \in Port : StartReset(p)
  \/ ReportDisconnect \/ StopReset
  \/ SendSetAddress \/ PanicNoAddress \/ ReportFullSpeed
  \/ RemoveQh \/ FinishReset

Caller(p) == reset_device(p) \/ TakeResult(p) \/ CancelReset(p)

Hardware ==
  \/ TimerFires \/ DeviceAccepts \/ DeviceStalls \/ QhRemoved
  \/ \E p \in Port : EnablePort(p) \/ Plug(p) \/ Unplug(p) \/ DeviceSwitches(p)

Next == ResetLoop \/ Hardware \/ \E p \in Port : Caller(p)

\* The runner is polled while it has something to do; timers fire; the host
\* controller enables ports, executes and removes; callers take their results.
Fairness ==
  /\ WF_vars(ResetLoop)
  /\ WF_vars(TimerFires) /\ WF_vars(DeviceAccepts) /\ WF_vars(QhRemoved)
  /\ \A p \in Port : WF_vars(EnablePort(p)) /\ WF_vars(TakeResult(p))

Spec == Init /\ [][Next]_vars
FairSpec == Spec /\ Fairness

-----------------------------------------------------------------------------
\* Every device so far has carried out SET_ADDRESS, and by the time its status
\* stage was over.
DevicesObey == happened \cap {"stall", "slow_switch"} = {}

\* As long as devices obey, no two on the bus answer at the same address, least
\* of all at 0, whatever the order of resets, unplugs and failed attempts: the
\* 'reset loop takes up a request only when the device before it has left
\* address 0 or its port (the sequence README.md prescribes, which
\* resetting_device being an Option realises), and allocate_addr never repeats
\* itself.
UniqueAddresses ==
  DevicesObey =>
    \A p, q \in Port : enabled[p] /\ enabled[q] /\ dev_addr[p] = dev_addr[q] => p = q

\* A Device that reset_device is about to return answers at the address it
\* carries, or it was unplugged since (the promise in the comment on struct
\* Device), as long as devices obey and no call was given up.
DeviceHasItsAddress ==
  DevicesObey /\ "cancel" \notin happened =>
    \A p \in Port :
      res_signal[p].addr # NotReset => dev_addr[p] \in {res_signal[p].addr, NotReset}

\* The memory of a request is out of the host controller's reach when the
\* request is answered: the caller may reuse its queue head and QTDs.
QhReturnedBeforeAnswer == resetting = Idle => qh = "out" /\ status_qtd # "active"

\* reset_device returns the answer to its own request, never that to another,
\* as long as no earlier call was given up.
AnswersOwnRequest ==
  [][\A p \in Port :
       got'[p] # got[p] => got'[p].call = calls[p] \/ "cancel" \in happened]_vars

\* An address is given to one request only, even when devices stall, vanish or
\* are slow and callers give up: no two Devices handed out carry the same one,
\* and none carries 0 or one above MaxAddr.
AddressHandedOutOnce ==
  LET given == {r \in {got[p] : p \in Port} \cup {res_signal[p] : p \in Port} : r.addr # NotReset}
  IN /\ \A r \in given : r.addr \in allocated \cap (1..MaxAddr) /\ r.addr # resetting.addr
     /\ \A p, q \in Port : p # q /\ got[p] \in given => got[p].addr \notin {got[q].addr, res_signal[q].addr}
     /\ \A p, q \in Port : p # q /\ res_signal[p] \in given => res_signal[p].addr # res_signal[q].addr

\* The runner responds to every request: reset_device returns, unless the
\* addresses ran out or a device left during its SET_ADDRESS, with which the
\* 'reset loop waits for a status QTD that stays active.
ResetReturns ==
  \A p \in Port :
    waiting[p] ~> (~waiting[p] \/ panicked \/ "unplug_late" \in happened)

\* "Receives requests from ports to reset a port ..., does the reset, and then
\* responds" (implementation_2.md): as long as there are addresses,
\* reset_device returns also when its device leaves.
ResetAlwaysReturns == \A p \in Port : waiting[p] ~> (~waiting[p] \/ panicked)
=============================================================================
