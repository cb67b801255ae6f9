---------------------------- MODULE RunnerProofs ----------------------------
(***************************************************************************)
(* What the runner can rely on, and what can rely on it: events reach its  *)
(* swaps on one core, whatever bits are raised (IrqHandler), also with     *)
(* ports and callers of wait_until_connected (PortEvents); and it never    *)
(* sleeps on a request, for any number of devices with one interrupt       *)
(* endpoint each, also where one takes the place of another                *)
(* (EndpointRequests).                                                     *)
(***************************************************************************)
EXTENDS PortEvents, EndpointRequests, TLAPS

\* Every leaf goes to Zenon unless it names another prover.
USE ZenonT(30)

\* IrqInv is inductive.  On one core the handler's four steps are taken with
\* the runner at rest in its poll, which is what carries the stores past the
\* write-to-clear and the wakeup past the stores.
THEOREM IrqInvariant == IrqSpec => []IrqInv
<1> USE IrqAssumption DEF IrqInv, TypeOK, NoEventDropped, FlagsAreAttended, StillToSwap,
        Consumed, Recorded, Bits
<1>1. IrqInit => IrqInv
  BY DEF IrqInit
<1>2. IrqInv /\ [IrqNext]_irqVars => IrqInv'
  <2> SUFFICES ASSUME IrqInv, [IrqNext]_irqVars PROVE IrqInv'
    OBVIOUS
  <2>1. ASSUME NEW b \in Raised, Raise(b) PROVE IrqInv'
    BY <2>1, SMTT(30) DEF Raise
  <2>2. CASE IrqWake
    BY <2>2 DEF IrqWake
  <2>3. CASE IrqRead
    BY <2>3, SMTT(30) DEF IrqRead
  <2>4. CASE IrqStore
    BY <2>4, SMTT(30) DEF IrqStore
  <2>5. CASE IrqClear
    BY <2>5, SMTT(30) DEF IrqClear
  <2>6. CASE PollBegin
    BY <2>6 DEF PollBegin, RunnerMay
  <2>7. CASE Register
    BY <2>7, SMTT(30) DEF Register, RunnerMay
  <2>8. ASSUME NEW b \in Consumed, Swap(b) PROVE IrqInv'
    BY <2>8, SMTT(30) DEF Swap, RunnerMay, AfterSwap
  <2>9. CASE UNCHANGED irqVars
    BY <2>9, SMTT(30) DEF irqVars
  <2> HIDE DEF IrqInv, Consumed
  <2>10. CASE HandleIrq
    BY <2>10, <2>2, <2>3, <2>4, <2>5, SMTT(30) DEF HandleIrq
  <2>11. CASE RunnerPoll
    BY <2>11, <2>6, <2>7, <2>8, SMTT(30) DEF RunnerPoll
  <2> QED
    BY <2>1, <2>9, <2>10, <2>11, SMTT(30) DEF IrqNext
<1> HIDE IrqAssumption DEF IrqInv
<1> QED BY <1>1, <1>2, PTL DEF IrqSpec

\* handle_irq on the runner's core never clears an event that it has not
\* recorded, whatever the host controller raises while it runs.
THEOREM EventsAreKept == IrqSpec => []NoEventDropped
<1>1. IrqInv => NoEventDropped
  BY SMTT(30) DEF IrqInv
<1> QED BY <1>1, IrqInvariant, PTL

\* On the runner's core waking before storing is harmless: after handle_irq
\* every flag it set is one that a poll, under way or due, will swap.
THEOREM NoFlagForgotten == IrqSpec => []FlagsAreAttended
<1>1. IrqInv => FlagsAreAttended
  BY SMTT(30) DEF IrqInv
<1> QED BY <1>1, IrqInvariant, PTL

\* Port changes, the fan-out and the callers of wait_until_connected add
\* nothing to how the handler and the runner's poll treat their own state:
\* what is proved of IrqHandler holds with them.
THEOREM PortsUseIrqHandler == PortSpec => IrqSpec
<1>1. PortInit => IrqInit
  BY SMTT(30) DEF PortInit
<1>2. [PortNext]_allVars => [IrqNext]_irqVars
  <2> SUFFICES ASSUME [PortNext]_allVars PROVE [IrqNext]_irqVars
    OBVIOUS
  <2>1. ASSUME NEW p \in Port, PortChanges(p) PROVE [IrqNext]_irqVars
    BY <2>1, PortAssumption, SMTT(30) DEF PortChanges, IrqNext
  <2>2. ASSUME NEW b \in Raised, Raise(b) PROVE [IrqNext]_irqVars
    BY <2>2, SMTT(30) DEF IrqNext
  <2>3. CASE HandleIrq
    BY <2>3, SMTT(30) DEF IrqNext
  <2>4. CASE PollRunner
    BY <2>4, SMTT(30) DEF PollRunner, RunnerPoll, IrqNext
  <2>5. ASSUME NEW p \in Port, Caller(p) PROVE [IrqNext]_irqVars
    BY <2>5, SMTT(30) DEF Caller, wait_until_connected, Check, Wait, WaiterStep
  <2>6. CASE UNCHANGED allVars
    BY <2>6, SMTT(30) DEF allVars
  <2> QED BY <2>1, <2>2, <2>3, <2>4, <2>5, <2>6, SMTT(30) DEF PortNext
<1> QED BY <1>1, <1>2, PTL DEF PortSpec, IrqSpec

-----------------------------------------------------------------------------
\* The variables have their types; a device is being reset or known, not both,
\* and a known one is in devices until another takes its place.
RequestsTypeOK ==
  /\ woken \in BOOLEAN /\ async_advance \in BOOLEAN
  /\ loop \in {"none", "advance", "devices", "interrupt", "control", "reset"}
  /\ removed \subseteq resetting /\ resetting \subseteq Device \ control_endpoints
  /\ devices \subseteq control_endpoints /\ control_endpoints \subseteq Device
  /\ interrupt_endpoints \subseteq Endpoint
  /\ driver \in [Device -> {"none", "has", "loading", "loaded"}]
  /\ announced \in [Device -> {0, 1}]
  /\ watch \in [Endpoint -> {"no", "requested", "done"}]
  /\ DOMAIN dev_signal = Device /\ DOMAIN ctl_signal = Device /\ DOMAIN ep_signal = Endpoint

\* The runner is awake or comes by one of the loops before it sleeps; or it
\* waits at the signal.
Attends(s, loops) == woken \/ loop \in loops \/ s = Waiting(Runner)

\* The end of a reset has the runner's attention until the device is known.
AdvanceInv ==
  /\ async_advance => woken \/ loop = "advance"
  /\ removed # {} => woken /\ loop \in {"devices", "interrupt", "control", "reset"}

\* A known device has the runner's attention until its endpoint 0 is loaded and
\* its interrupt endpoint announced; one in whose place another is, for the
\* former only.
DeviceInv(d) ==
  /\ driver[d] = "loading" <=> PollIsReady(ctl_signal[d])
  /\ driver[d] \in {"has", "loading"} => Attends(ctl_signal[d], {"advance", "devices", "interrupt", "control"})
  /\ driver[d] = "none" => d \notin control_endpoints
  /\ d \notin control_endpoints => driver[d] = "none" /\ announced[d] = 0
  /\ PollIsReady(dev_signal[d]) => announced[d] = 1 /\ dev_signal[d].value = <<d, 1>>
  /\ d \in devices /\ (announced[d] = 0 \/ PollIsReady(dev_signal[d])) =>
       Attends(dev_signal[d], {"advance", "devices"})

\* A known endpoint has it until the endpoint is watched.
EndpointInv(e) ==
  /\ watch[e] = "requested" <=> PollIsReady(ep_signal[e])
  /\ e \in interrupt_endpoints /\ watch[e] # "done" =>
       Attends(ep_signal[e], {"advance", "devices", "interrupt"})

RequestsInv ==
  /\ RequestsTypeOK /\ AdvanceInv
  /\ \A d \in Device : DeviceInv(d)
  /\ \A e \in Endpoint : EndpointInv(e)

-----------------------------------------------------------------------------
\* What signal and poll_wait make of the three states of a Signal.
LEMMA Slots ==
  /\ ~PollIsReady(None)
  /\ \A w : ~PollIsReady(Waiting(w)) /\ SignalWakes(Waiting(w)) = {w}
  /\ \A v : PollIsReady(Signaled(v)) /\ Signaled(v).value = v
  /\ \A s, w : PollNext(s, w) = IF PollIsReady(s) THEN None ELSE Waiting(w)
BY DEF PollIsReady, None, Waiting, Signaled, SignalWakes, PollNext

\* A call of signal leaves the runner awake that was, and one that is to attend
\* to the signal comes by.
LEMMA SignalIsHeard ==
  ASSUME NEW s, WakeFrom(s), woken \in BOOLEAN
  PROVE  /\ woken' \in BOOLEAN /\ (woken => woken')
         /\ \A loops : Attends(s, loops) => woken' \/ loop \in loops
<1>1. woken' = (woken \/ Runner \in SignalWakes(s))
  BY DEF WakeFrom
<1>2. woken' \in BOOLEAN /\ (woken => woken') /\ (Runner \in SignalWakes(s) => woken')
  BY <1>1, ZenonT(30)
<1>3. s = Waiting(Runner) => Runner \in SignalWakes(s)
  BY Slots
<1> QED
  BY <1>2, <1>3 DEF Attends

\* Initially no device is known.
LEMMA RequestsBegin == Init => RequestsInv
<1> SUFFICES ASSUME Init PROVE RequestsInv
  OBVIOUS
<1>1. RequestsTypeOK /\ AdvanceInv
  BY DEF Init, RequestsTypeOK, AdvanceInv
<1>2. \A d \in Device : DeviceInv(d)
  BY Slots DEF Init, DeviceInv
<1>3. \A e \in Endpoint : EndpointInv(e)
  BY Slots DEF Init, EndpointInv
<1> QED
  BY <1>1, <1>2, <1>3 DEF RequestsInv

\* Every step keeps the attention where it is due.
LEMMA RequestsSteps ==
  ASSUME PerDevice = 1, RequestsInv, [Next]_vars
  PROVE  RequestsInv'
<1>0. RequestsTypeOK /\ AdvanceInv /\ (\A d \in Device : DeviceInv(d)) /\ (\A e \in Endpoint : EndpointInv(e))
  BY DEF RequestsInv
<1>1. CASE PollStart
  <2>1. RequestsTypeOK'
    BY <1>0, <1>1 DEF PollStart, RequestsTypeOK, sigVars, userVars, tabVars
  <2>2. AdvanceInv'
    BY <1>0, <1>1 DEF PollStart, RequestsTypeOK, AdvanceInv, sigVars, userVars, tabVars
  <2>3. \A d \in Device : DeviceInv(d)'
    BY <1>0, <1>1, Slots DEF PollStart, RequestsTypeOK, DeviceInv, Attends, sigVars, userVars, tabVars
  <2>4. \A e \in Endpoint : EndpointInv(e)'
    BY <1>0, <1>1, Slots DEF PollStart, RequestsTypeOK, EndpointInv, Attends, sigVars, userVars, tabVars
  <2> QED
    BY <2>1, <2>2, <2>3, <2>4 DEF RequestsInv
<1>2. CASE PollAdvance
  <2>1. RequestsTypeOK'
    BY <1>0, <1>2 DEF PollAdvance, RequestsTypeOK, sigVars, userVars, tabVars
  <2>2. AdvanceInv'
    BY <1>0, <1>2 DEF PollAdvance, RequestsTypeOK, AdvanceInv, sigVars, userVars, tabVars
  <2>3. \A d \in Device : DeviceInv(d)'
    BY <1>0, <1>2, Slots DEF PollAdvance, RequestsTypeOK, DeviceInv, Attends, sigVars, userVars, tabVars
  <2>4. \A e \in Endpoint : EndpointInv(e)'
    BY <1>0, <1>2, Slots DEF PollAdvance, RequestsTypeOK, EndpointInv, Attends, sigVars, userVars, tabVars
  <2> QED
    BY <2>1, <2>2, <2>3, <2>4 DEF RequestsInv
<1>3. CASE PollDevices
  <2>0. /\ DOMAIN dev_signal' = Device /\ \A x \in Device :
             dev_signal'[x] = IF x \notin devices THEN dev_signal[x]
                            ELSE IF PollIsReady(dev_signal[x]) THEN None ELSE Waiting(Runner)
    BY <1>0, <1>3, Slots DEF PollDevices, PollAll, RequestsTypeOK
  <2>0a. \A d \in Device : PollIsReady(dev_signal[d]) => dev_signal[d].value \in Endpoint
    <3>1. 1 \in 1..PerDevice
      BY SMTT(30)
    <3>2. \A d \in Device : <<d, 1>> \in Endpoint
      BY <3>1 DEF Endpoint
    <3> QED
      BY <1>0, <3>2 DEF DeviceInv
  <2>0b. interrupt_endpoints' \subseteq Endpoint
    BY <1>0, <1>3, <2>0a, SMTT(30) DEF PollDevices, ReadyIn, RequestsTypeOK
  <2>1. RequestsTypeOK'
    BY <1>0, <1>3, <2>0, <2>0b DEF PollDevices, RequestsTypeOK, sigVars, userVars, tabVars
  <2>2. AdvanceInv'
    BY <1>0, <1>3 DEF PollDevices, RequestsTypeOK, AdvanceInv, sigVars, userVars, tabVars
  <2>3a. UNCHANGED <<woken, devices, control_endpoints, driver, announced, ctl_signal>> /\ loop = "devices" /\ loop' = "interrupt"
    BY <1>3 DEF PollDevices, userVars
  <2>3. \A d \in Device : DeviceInv(d)'
    BY <1>0, <2>0, <2>3a, Slots, SMTT(30) DEF DeviceInv, Attends
  <2>4. \A e \in Endpoint : EndpointInv(e)'
    BY <1>0, <1>3, Slots DEF PollDevices, RequestsTypeOK, EndpointInv, Attends, sigVars, userVars, tabVars
  <2> QED
    BY <2>1, <2>2, <2>3, <2>4 DEF RequestsInv
<1>4. CASE PollInterrupt
  <2>0. /\ DOMAIN ep_signal' = Endpoint /\ \A x \in Endpoint :
             ep_signal'[x] = IF x \notin interrupt_endpoints THEN ep_signal[x]
                            ELSE IF PollIsReady(ep_signal[x]) THEN None ELSE Waiting(Runner)
    BY <1>0, <1>4, Slots DEF PollInterrupt, PollAll, RequestsTypeOK
  <2>1. RequestsTypeOK'
    BY <1>0, <1>4, <2>0 DEF PollInterrupt, RequestsTypeOK, sigVars, userVars, tabVars
  <2>2. AdvanceInv'
    BY <1>0, <1>4 DEF PollInterrupt, RequestsTypeOK, AdvanceInv, sigVars, userVars, tabVars
  <2>3. \A d \in Device : DeviceInv(d)'
    BY <1>0, <1>4, Slots DEF PollInterrupt, RequestsTypeOK, DeviceInv, Attends, sigVars, userVars, tabVars
  <2>4a. /\ interrupt_endpoints' = interrupt_endpoints
         /\ \A e \in Endpoint : watch'[e] = IF e \in interrupt_endpoints /\ PollIsReady(ep_signal[e]) THEN "done" ELSE watch[e]
    BY <1>4 DEF PollInterrupt, ReadyIn, tabVars
  <2>4. \A e \in Endpoint : EndpointInv(e)'
    BY <1>0, <2>0, <2>4a, Slots, SMTT(30) DEF RequestsTypeOK, EndpointInv, Attends
  <2> QED
    BY <2>1, <2>2, <2>3, <2>4 DEF RequestsInv
<1>5. CASE PollControl
  <2>0. /\ DOMAIN ctl_signal' = Device /\ \A x \in Device :
             ctl_signal'[x] = IF x \notin control_endpoints THEN ctl_signal[x]
                            ELSE IF PollIsReady(ctl_signal[x]) THEN None ELSE Waiting(Runner)
    BY <1>0, <1>5, Slots DEF PollControl, PollAll, RequestsTypeOK
  <2>1. RequestsTypeOK'
    BY <1>0, <1>5, <2>0 DEF PollControl, RequestsTypeOK, sigVars, userVars, tabVars
  <2>2. AdvanceInv'
    BY <1>0, <1>5 DEF PollControl, RequestsTypeOK, AdvanceInv, sigVars, userVars, tabVars
  <2>3a. UNCHANGED <<woken, devices, control_endpoints, announced, dev_signal>> /\ loop = "control" /\ loop' = "reset"
    BY <1>5 DEF PollControl, tabVars
  <2>3b. \A d \in Device : driver'[d] = IF d \in control_endpoints /\ PollIsReady(ctl_signal[d]) THEN "loaded" ELSE driver[d]
    BY <1>5 DEF PollControl, ReadyIn
  <2>3. \A d \in Device : DeviceInv(d)'
    BY <1>0, <2>0, <2>3a, <2>3b, Slots, SMTT(30) DEF DeviceInv, Attends
  <2>4. \A e \in Endpoint : EndpointInv(e)'
    BY <1>0, <1>5, Slots DEF PollControl, RequestsTypeOK, EndpointInv, Attends, sigVars, userVars, tabVars
  <2> QED
    BY <2>1, <2>2, <2>3, <2>4 DEF RequestsInv
<1>6. CASE PollReset
  <2>1. RequestsTypeOK'
    BY <1>0, <1>6 DEF PollReset, RequestsTypeOK, sigVars, userVars, tabVars
  <2>2. AdvanceInv'
    BY <1>0, <1>6 DEF PollReset, RequestsTypeOK, AdvanceInv, sigVars, userVars, tabVars
  <2>3a. /\ UNCHANGED <<woken, announced, dev_signal, ctl_signal>> /\ loop = "reset" /\ loop' = "none"
         /\ devices' \subseteq devices \cup removed /\ control_endpoints' = control_endpoints \cup removed
    BY <1>6 DEF PollReset, sigVars
  <2>3b. \A d \in Device : driver'[d] = IF d \in removed THEN "has" ELSE driver[d]
    BY <1>6 DEF PollReset
  <2>3c. \A d \in removed : d \notin control_endpoints /\ woken
    BY <1>0 DEF RequestsTypeOK, AdvanceInv
  <2>3. \A d \in Device : DeviceInv(d)'
    BY <1>0, <2>3a, <2>3b, <2>3c DEF DeviceInv, Attends
  <2>4. \A e \in Endpoint : EndpointInv(e)'
    BY <1>0, <1>6, Slots DEF PollReset, RequestsTypeOK, EndpointInv, Attends, sigVars, userVars, tabVars
  <2> QED
    BY <2>1, <2>2, <2>3, <2>4 DEF RequestsInv
<1>7. ASSUME NEW x \in Device, Advance(x) PROVE RequestsInv'
  <2>0. x \notin control_endpoints
    <3>1. x \in OnPortOf(x) /\ x[2] \in Nat
      BY RequestsAssumption DEF OnPortOf
    <3>2. ~(x[2] < x[2])
      BY <3>1, SMTT(30)
    <3> QED
      BY <1>7, <3>1, <3>2 DEF Advance
  <2>1. RequestsTypeOK'
    BY <1>0, <1>7, <2>0 DEF Advance, RequestsTypeOK, sigVars, userVars, tabVars
  <2>2. AdvanceInv'
    BY <1>0, <1>7 DEF Advance, RequestsTypeOK, AdvanceInv, sigVars, userVars, tabVars
  <2>3. \A d \in Device : DeviceInv(d)'
    BY <1>0, <1>7, Slots DEF Advance, RequestsTypeOK, DeviceInv, Attends, sigVars, userVars, tabVars
  <2>4. \A e \in Endpoint : EndpointInv(e)'
    BY <1>0, <1>7, Slots DEF Advance, RequestsTypeOK, EndpointInv, Attends, sigVars, userVars, tabVars
  <2> QED
    BY <2>1, <2>2, <2>3, <2>4 DEF RequestsInv
<1>8. ASSUME NEW x \in Device, load(x) PROVE RequestsInv'
  <2>1. /\ UNCHANGED <<loop, async_advance, resetting, removed, devices, interrupt_endpoints, control_endpoints, dev_signal, ep_signal, announced, watch>>
        /\ driver[x] = "has" /\ driver' = [driver EXCEPT ![x] = "loading"]
        /\ ctl_signal' = [ctl_signal EXCEPT ![x] = Signaled(TRUE)]
    BY <1>8 DEF load, tabVars
  <2>2. woken' \in BOOLEAN /\ (woken => woken') /\ (Attends(ctl_signal[x], {"advance", "devices", "interrupt", "control"}) => woken' \/ loop \in {"advance", "devices", "interrupt", "control"})
    BY <1>0, <1>8, SignalIsHeard DEF load, RequestsTypeOK
  <2>3. /\ driver'[x] = "loading" /\ ctl_signal'[x] = Signaled(TRUE)
        /\ \A d \in Device \ {x} : driver'[d] = driver[d] /\ ctl_signal'[d] = ctl_signal[d]
    BY <1>0, <2>1 DEF RequestsTypeOK
  <2>4. RequestsTypeOK'
    BY <1>0, <2>1, <2>2 DEF RequestsTypeOK
  <2>5. AdvanceInv'
    BY <1>0, <2>1, <2>2 DEF AdvanceInv
  <2>6a. DeviceInv(x)'
    BY <1>0, <2>1, <2>2, <2>3, Slots DEF DeviceInv, Attends
  <2>6b. \A d \in Device \ {x} : DeviceInv(d)'
    BY <1>0, <2>1, <2>2, <2>3, SMTT(30) DEF DeviceInv, Attends
  <2>6. \A d \in Device : DeviceInv(d)'
    BY <2>6a, <2>6b
  <2>7. \A e \in Endpoint : EndpointInv(e)'
    BY <1>0, <2>1, <2>2, Slots DEF EndpointInv, Attends
  <2> QED
    BY <2>4, <2>5, <2>6, <2>7 DEF RequestsInv
<1>9. ASSUME NEW x \in Device, Announce(x) PROVE RequestsInv'
  <2>0a. announced[x] \in {0, 1} /\ announced[x] < 1
    BY <1>0, <1>9 DEF Announce, RequestsTypeOK
  <2>0. announced[x] = 0
    BY <2>0a, SMTT(30)
  <2>1. /\ UNCHANGED <<loop, async_advance, resetting, removed, devices, interrupt_endpoints, control_endpoints, ctl_signal, ep_signal, driver, watch>>
        /\ driver[x] = "loaded" /\ announced' = [announced EXCEPT ![x] = 1]
        /\ dev_signal' = [dev_signal EXCEPT ![x] = Signaled(<<x, 1>>)]
    BY <1>9, <2>0, SMTT(30) DEF Announce, tabVars
  <2>2. woken' \in BOOLEAN /\ (woken => woken') /\ (Attends(dev_signal[x], {"advance", "devices"}) => woken' \/ loop \in {"advance", "devices"})
    BY <1>0, <1>9, SignalIsHeard DEF Announce, RequestsTypeOK
  <2>3. /\ announced'[x] = 1 /\ dev_signal'[x] = Signaled(<<x, 1>>)
        /\ \A d \in Device \ {x} : announced'[d] = announced[d] /\ dev_signal'[d] = dev_signal[d]
    BY <1>0, <2>1 DEF RequestsTypeOK
  <2>4. RequestsTypeOK'
    BY <1>0, <2>1, <2>2 DEF RequestsTypeOK
  <2>5. AdvanceInv'
    BY <1>0, <2>1, <2>2 DEF AdvanceInv
  <2>6a. DeviceInv(x)'
    BY <1>0, <2>0, <2>1, <2>2, <2>3, Slots, SMTT(30) DEF DeviceInv, Attends
  <2>6b. \A d \in Device \ {x} : DeviceInv(d)'
    BY <1>0, <2>1, <2>2, <2>3, SMTT(30) DEF DeviceInv, Attends
  <2>6. \A d \in Device : DeviceInv(d)'
    BY <2>6a, <2>6b
  <2>7. \A e \in Endpoint : EndpointInv(e)'
    BY <1>0, <2>1, <2>2, Slots DEF EndpointInv, Attends
  <2> QED
    BY <2>4, <2>5, <2>6, <2>7 DEF RequestsInv
<1>10. ASSUME NEW x \in Endpoint, RequestWatch(x) PROVE RequestsInv'
  <2>1. /\ UNCHANGED <<loop, async_advance, resetting, removed, devices, interrupt_endpoints, control_endpoints, dev_signal, ctl_signal, driver, announced>>
        /\ watch[x] = "no" /\ watch' = [watch EXCEPT ![x] = "requested"]
        /\ ep_signal' = [ep_signal EXCEPT ![x] = Signaled(TRUE)]
    BY <1>10 DEF RequestWatch, tabVars
  <2>2. woken' \in BOOLEAN /\ (woken => woken') /\ (Attends(ep_signal[x], {"advance", "devices", "interrupt"}) => woken' \/ loop \in {"advance", "devices", "interrupt"})
    BY <1>0, <1>10, SignalIsHeard DEF RequestWatch, RequestsTypeOK
  <2>3. /\ watch'[x] = "requested" /\ ep_signal'[x] = Signaled(TRUE)
        /\ \A e \in Endpoint \ {x} : watch'[e] = watch[e] /\ ep_signal'[e] = ep_signal[e]
    BY <1>0, <2>1 DEF RequestsTypeOK
  <2>4. RequestsTypeOK'
    BY <1>0, <2>1, <2>2 DEF RequestsTypeOK
  <2>5. AdvanceInv'
    BY <1>0, <2>1, <2>2 DEF AdvanceInv
  <2>6. \A d \in Device : DeviceInv(d)'
    BY <1>0, <2>1, <2>2, Slots DEF DeviceInv, Attends
  <2>7a. EndpointInv(x)'
    BY <1>0, <2>1, <2>2, <2>3, Slots DEF EndpointInv, Attends
  <2>7b. \A e \in Endpoint \ {x} : EndpointInv(e)'
    BY <1>0, <2>1, <2>2, <2>3 DEF EndpointInv, Attends
  <2>7. \A e \in Endpoint : EndpointInv(e)'
    BY <2>7a, <2>7b
  <2> QED
    BY <2>4, <2>5, <2>6, <2>7 DEF RequestsInv
<1>11. CASE UNCHANGED vars
  <2>1. RequestsTypeOK'
    BY <1>0, <1>11 DEF vars, RequestsTypeOK, sigVars, userVars, tabVars
  <2>2. AdvanceInv'
    BY <1>0, <1>11 DEF vars, RequestsTypeOK, AdvanceInv, sigVars, userVars, tabVars
  <2>3. \A d \in Device : DeviceInv(d)'
    BY <1>0, <1>11, Slots DEF vars, RequestsTypeOK, DeviceInv, Attends, sigVars, userVars, tabVars
  <2>4. \A e \in Endpoint : EndpointInv(e)'
    BY <1>0, <1>11, Slots DEF vars, RequestsTypeOK, EndpointInv, Attends, sigVars, userVars, tabVars
  <2> QED
    BY <2>1, <2>2, <2>3, <2>4 DEF RequestsInv
<1> QED
  BY <1>1, <1>2, <1>3, <1>4, <1>5, <1>6, <1>7, <1>8, <1>9, <1>10, <1>11 DEF Next, Poll

-----------------------------------------------------------------------------
\* However polls, resets and the calls of drivers interleave, a runner that
\* sleeps has no request before it, if every device has one interrupt endpoint.
THEOREM NoRequestIsSleptOn == PerDevice = 1 => (Spec => []SleepsWithoutRequests)
<1> SUFFICES ASSUME PerDevice = 1 PROVE Spec => []SleepsWithoutRequests
  OBVIOUS
<1>1. RequestsInv /\ [Next]_vars => RequestsInv'
  BY RequestsSteps
<1>2. RequestsInv => SleepsWithoutRequests
  BY Slots, SMTT(30) DEF RequestsInv, RequestsTypeOK, AdvanceInv, DeviceInv, EndpointInv, Attends, SleepsWithoutRequests, ReadyIn
<1> QED
  BY <1>1, <1>2, RequestsBegin, PTL DEF Spec
=============================================================================
