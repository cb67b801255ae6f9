-------------------------- MODULE EndpointRequests --------------------------
(***************************************************************************)
(* How devices and their endpoints become known to the runner and get      *)
(* their requests to it.  The end of a reset enters a device, in the place *)
(* of the one that its root port had before, and its endpoint 0 in the     *)
(* runner's tables; load asks for the queue head of endpoint 0 to be       *)
(* added; set_configuration signals every interrupt endpoint on the        *)
(* device's req_signal; watch asks for the queue head of one of them.      *)
(* Nobody calls the runner: it is polled only when a waker it left in a    *)
(* Signal, a Oneshot or the IRQ handler's state is called.                 *)
(*                                                                         *)
(* A poll runs through its loops in order.  Drivers may be on another core *)
(* and signal between any two of them.                                     *)
(***************************************************************************)
EXTENDS Naturals, SignalOps

CONSTANTS Device,     \* a root port, and which of the port's resets makes the device
          PerDevice   \* interrupt endpoints of each device

ASSUME RequestsAssumption == PerDevice \in Nat \ {0} /\ \A d \in Device : d[2] \in Nat

OnPortOf(d) == {c \in Device : c[1] = d[1]}
Endpoint == Device \X (1..PerDevice)
Runner == "runner"

VARIABLES
  woken, loop,          \* the runner: to be polled; the loop of poll it is at
  async_advance,        \* new_async_advance, for the device under reset
  resetting,            \* devices under reset (at most one)
  removed,              \* those of them whose qh_manager_rx is ready
  devices,              \* a map from root ports, of which the values are kept
  interrupt_endpoints, control_endpoints,
  dev_signal, ctl_signal, ep_signal,  \* the req_signals
  driver,               \* per device: "none", "has", "loading", "loaded"
  announced,            \* per device: endpoints set_configuration has signalled
  watch                 \* per endpoint: "no", "requested" or "done"

sigVars == <<dev_signal, ctl_signal, ep_signal>>
userVars == <<driver, announced, watch>>
tabVars == <<resetting, removed, devices, interrupt_endpoints, control_endpoints>>
vars == <<woken, loop, async_advance, tabVars, sigVars, userVars>>

Init ==
  /\ woken = TRUE /\ loop = "none" /\ async_advance = FALSE
  /\ resetting = {} /\ removed = {} /\ devices = {}
  /\ interrupt_endpoints = {} /\ control_endpoints = {}
  /\ dev_signal = [d \in Device |-> None] /\ ctl_signal = [d \in Device |-> None]
  /\ ep_signal = [e \in Endpoint |-> None]
  /\ driver = [d \in Device |-> "none"] /\ announced = [d \in Device |-> 0]
  /\ watch = [e \in Endpoint |-> "no"]

\* A call of signal on s wakes the runner if the runner waits there.
WakeFrom(s) == woken' = (woken \/ Runner \in SignalWakes(s))

-----------------------------------------------------------------------------
\* External: the host controller has let go of the queue head with which d was
\* given its address; the IRQ handler sets the flag and wakes the runner.
Advance(d) ==
  /\ resetting = {} /\ OnPortOf(d) \cap control_endpoints = {c \in OnPortOf(d) : c[2] < d[2]}
  /\ resetting' = {d} /\ async_advance' = TRUE /\ woken' = TRUE
  /\ UNCHANGED <<loop, removed, devices, interrupt_endpoints, control_endpoints, sigVars, userVars>>

\* The executor polls the runner.
PollStart ==
  /\ woken /\ loop = "none"
  /\ woken' = FALSE /\ loop' = "advance"
  /\ UNCHANGED <<async_advance, tabVars, sigVars, userVars>>

\* A wrong handle_async_advance: the flag of the oneshot is set, nobody woken.
PollAdvance_NoWake ==
  /\ loop = "advance" /\ loop' = "devices"
  /\ async_advance' = FALSE
  /\ removed' = IF async_advance THEN resetting ELSE removed
  /\ UNCHANGED <<woken, resetting, devices, interrupt_endpoints, control_endpoints, sigVars, userVars>>

\* handle_async_advance answers through the Oneshot that the runner itself
\* waits on, and so has the runner polled once more.
PollAdvance ==
  /\ loop = "advance" /\ loop' = "devices"
  /\ async_advance' = FALSE
  /\ removed' = IF async_advance THEN resetting ELSE removed
  /\ woken' = (woken \/ async_advance)
  /\ UNCHANGED <<resetting, devices, interrupt_endpoints, control_endpoints, sigVars, userVars>>

PollAll(sig, known) ==
  [x \in DOMAIN sig |-> IF x \in known THEN PollNext(sig[x], Runner) ELSE sig[x]]
ReadyIn(sig, known) == {x \in known : PollIsReady(sig[x])}

\* A wrong loop: an announced endpoint is looked at, and left in the signal.
PollDevices_Late ==
  /\ loop = "devices" /\ loop' = "interrupt"
  /\ dev_signal' = [d \in Device |-> IF d \in ReadyIn(dev_signal, devices) THEN dev_signal[d]
                                     ELSE PollAll(dev_signal, devices)[d]]
  /\ UNCHANGED <<woken, async_advance, tabVars, ctl_signal, ep_signal, userVars>>

\* The endpoints that devices announce are taken in.
PollDevices ==
  /\ loop = "devices" /\ loop' = "interrupt"
  /\ dev_signal' = PollAll(dev_signal, devices)
  /\ interrupt_endpoints' = interrupt_endpoints
                              \cup {dev_signal[d].value : d \in ReadyIn(dev_signal, devices)}
  /\ UNCHANGED <<woken, async_advance, resetting, removed, devices, control_endpoints, ctl_signal, ep_signal,
                 userVars>>

\* Queue heads of interrupt endpoints are added and called back.
PollInterrupt ==
  /\ loop = "interrupt" /\ loop' = "control"
  /\ ep_signal' = PollAll(ep_signal, interrupt_endpoints)
  /\ watch' = [e \in Endpoint |-> IF e \in ReadyIn(ep_signal, interrupt_endpoints) THEN "done" ELSE watch[e]]
  /\ UNCHANGED <<woken, async_advance, tabVars, dev_signal, ctl_signal, driver, announced>>

\* Queue heads of endpoints 0 are added.
PollControl ==
  /\ loop = "control" /\ loop' = "reset"
  /\ ctl_signal' = PollAll(ctl_signal, control_endpoints)
  /\ driver' = [d \in Device |-> IF d \in ReadyIn(ctl_signal, control_endpoints) THEN "loaded" ELSE driver[d]]
  /\ UNCHANGED <<woken, async_advance, tabVars, dev_signal, ep_signal, announced, watch>>

\* A wrong insertion: the endpoint 0 of the device that the port had goes too.
PollReset_DropsEndpoint ==
  /\ loop = "reset" /\ loop' = "none"
  /\ devices' = (devices \ UNION {OnPortOf(d) : d \in removed}) \cup removed
  /\ control_endpoints' = devices'
  /\ resetting' = resetting \ removed /\ removed' = {}
  /\ driver' = [d \in Device |-> IF d \in removed THEN "has" ELSE driver[d]]
  /\ UNCHANGED <<woken, async_advance, interrupt_endpoints, sigVars, announced, watch>>

\* The 'reset loop, at WaitForQhRemove: the device enters the tables, after
\* the loops that would poll its signals.  devices.insert drops the one that
\* the port had.
PollReset ==
  /\ loop = "reset" /\ loop' = "none"
  /\ devices' = (devices \ UNION {OnPortOf(d) : d \in removed}) \cup removed
  /\ control_endpoints' = control_endpoints \cup removed
  /\ resetting' = resetting \ removed /\ removed' = {}
  /\ driver' = [d \in Device |-> IF d \in removed THEN "has" ELSE driver[d]]
  /\ UNCHANGED <<woken, async_advance, interrupt_endpoints, sigVars, announced, watch>>

-----------------------------------------------------------------------------
\* ControlEndpoint::load
load(d) ==
  /\ driver[d] = "has"
  /\ driver' = [driver EXCEPT ![d] = "loading"]
  /\ ctl_signal' = [ctl_signal EXCEPT ![d] = Signaled(TRUE)]
  /\ WakeFrom(ctl_signal[d])
  /\ UNCHANGED <<loop, async_advance, tabVars, dev_signal, ep_signal, announced, watch>>

\* One endpoint of the map over interfaces and endpoints in set_configuration,
\* whose transfer needed the queue head of endpoint 0.
Announce(d) ==
  /\ driver[d] = "loaded" /\ announced[d] < PerDevice
  /\ announced' = [announced EXCEPT ![d] = @ + 1]
  /\ dev_signal' = [dev_signal EXCEPT ![d] = Signaled(<<d, announced[d] + 1>>)]
  /\ WakeFrom(dev_signal[d])
  /\ UNCHANGED <<loop, async_advance, tabVars, ctl_signal, ep_signal, driver, watch>>

\* The request of InterruptEndpoint::watch.
RequestWatch(e) ==
  /\ announced[e[1]] = PerDevice /\ watch[e] = "no"
  /\ watch' = [watch EXCEPT ![e] = "requested"]
  /\ ep_signal' = [ep_signal EXCEPT ![e] = Signaled(TRUE)]
  /\ WakeFrom(ep_signal[e])
  /\ UNCHANGED <<loop, async_advance, tabVars, dev_signal, ctl_signal, driver, announced>>

Poll == PollStart \/ PollAdvance \/ PollDevices \/ PollInterrupt \/ PollControl \/ PollReset
Next ==
  \/ Poll
  \/ \E d \in Device : Advance(d) \/ load(d) \/ Announce(d)
  \/ \E e \in Endpoint : RequestWatch(e)

\* The executor polls the runner once it was woken; drivers owe nothing.
Spec == Init /\ [][Next]_vars
FairSpec == Spec /\ WF_vars(Poll)

-----------------------------------------------------------------------------
\* While the runner sleeps it has no request before it: whatever was signalled
\* on a signal of its tables was either read by a poll or will wake it.
SleepsWithoutRequests ==
  ~woken /\ loop = "none" =>
    /\ ~async_advance /\ removed = {}
    /\ ReadyIn(dev_signal, devices) = {} /\ ReadyIn(ctl_signal, control_endpoints) = {}
    /\ ReadyIn(ep_signal, interrupt_endpoints) = {}

\* Another reset of its root port took the device's place before the runner
\* had read what the device announced.
Superseded(e) == e[1] \in control_endpoints \ devices /\ e \notin interrupt_endpoints

\* watch returns for every endpoint of a configured device, unless a new device
\* on the port came before the endpoint was known.  So it is for devices with
\* one interrupt endpoint; with more, announcements overwrite each other or come
\* when the runner, having just read one, waits for none.
WatchIsServed ==
  \A e \in Endpoint : watch[e] = "requested" ~> (watch[e] = "done" \/ Superseded(e))

\* Every request of a device with one interrupt endpoint is served: watch
\* returns, and a driver that loads endpoint 0 gets its queue head added although
\* the runner learns of the endpoint at the end of a poll, and though a new
\* device may by then have its place.
RequestsAreServed ==
  /\ WatchIsServed
  /\ \A d \in Device : driver[d] = "loading" ~> driver[d] = "loaded"
=============================================================================
