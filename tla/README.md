# ez_ehci: TLA+ specifications and proofs

ez_ehci is an async driver for eHCI (USB 2.0) host controllers. It is a set of
structs that share state through small synchronisation primitives, a *runner*
that the operating system polls, an IRQ handler, and schedules in memory that
the controller reads and writes at the same time. Most of what can go wrong is
an order of steps of these actors that a test hardly produces. The modules here
model the actors step by step; TLC checks them on small instances and TLAPS
proves the central invariants for every value of the constants.

Source references are relative to the repository: `runner.rs` is
`src/src/runner.rs`.

## The system

| part | source | what it does |
|------|--------|--------------|
| `Signal` | `signal.rs` | one-slot mailbox with a waker, between any two of the others |
| `Oneshot` | `oneshot.rs` | a single answer from one task to another |
| IRQ handler | `irq_handler.rs` | reads and clears USBSTS, stores flags, wakes the runner |
| runner, start-up | `runner.rs`, `ehci_control.rs` | stops, resets and initialises the controller on request |
| runner, running | `runner.rs` | one poll: swaps the flags, fans interrupts out, serves requests, resets devices |
| root ports | `root_port.rs`, `address_allocator.rs` | `wait_until_connected`; `reset_device`: reset a port, give the device an address |
| async list | `async_list_manager.rs` | circular list of queue heads (QHs); removal by doorbell |
| periodic list | `periodic_list_manager.rs` | frame list with a shared chain of interrupt QHs |
| control endpoint | `control_endpoint.rs` | transfers as chains of transfer descriptors (QTDs) |
| interrupt endpoint | `interrupt_endpoint.rs` | a ring of QTDs between controller and driver |
| device | `device.rs` | load, read descriptors, configure, announce endpoints |
| descriptors | `setup_packet.rs`, `device_info.rs`, `hub_descriptor.rs` | what devices are asked, and parsing what they answer |
| hub | `hub.rs` | powers, resets and looks at the ports of a hub |
| firmware hand-off | `new_ehci.rs`, `lib.rs`, `usb_leg_sup.rs` | finds USBLEGSUP among the capabilities and takes the controller from the BIOS |

Callers signal the runner through a `Signal` and wait on another one; the
runner is polled only when a waker it has left behind is called. The controller
(external to the repository) executes the two schedules, sets USBSTS bits and
answers the doorbell.

## Modules

| module | models | state and actions |
|--------|--------|-------------------|
| `SignalOps` | `signal.rs` | the slot's three states; what `signal` and `poll_wait` do to it. Used by the modules with signals |
| `Signal` | `signal.rs` | a signaller and a waiting half that moves between tasks; `signal`, `poll_wait` |
| `Oneshot` | `oneshot.rs` | `send` as write, store, wake, drop; `poll` as register, load, count |
| `RequestReply` | `interrupt_endpoint.rs:94-102`, `runner.rs:369-374` | composition of `Signal` and `Oneshot`: a request carries the sender its answer comes back on |
| `IrqHandler` | `irq_handler.rs`, `runner.rs:316-361` | `handle_irq` as wake, read, store, clear, between the swaps of the runner's poll |
| `PortEvents` | `root_port.rs:32-43`, `runner.rs:353-361` | extends `IrqHandler`: ports change, the runner fans out, callers of `wait_until_connected` sleep on `port_changed_signal` |
| `AsyncList` | `async_list_manager.rs` | links, metadata, both batches of removals; the controller holds the QH it is at and the one it read on to |
| `QhOwnership` | the promise of the async list | abstract: QHs are handed in, retired, and handed back once no reference is held |
| `ResetDevice` | `root_port.rs`, `runner.rs:382-577`, `address_allocator.rs` | callers, one action per branch of the `'reset` loop, ports, devices |
| `Handoff` | `new_ehci.rs`, `lib.rs`, `usb_leg_sup.rs` | the walk over the capabilities, the two semaphores, a BIOS that stops and then releases |
| `Startup` | `runner.rs:124-304`, `ehci_control.rs` | `Stopped`, `Stopping`, `Resetting`, the initialisation write by write, the clock |
| `Boot` | | composition of `Handoff` and `Startup`: `start` needs the `Stack` that the hand-off yields; until it lets go the BIOS writes USBCMD |
| `PeriodicList`, `MCPeriodicList` | `periodic_list_manager.rs` | `add_qh` write by write, slot by slot |
| `InterruptEndpoint` | `interrupt_endpoint.rs` | `watch`, `peek`, `advance`, the controller filling the ring |
| `ControlEndpoint` | `control_endpoint.rs` | `load`, `transfer_in`, `transfer_no_data`, the controller working in the QH's overlay packet by packet, with the data toggles of both sides |
| `EndpointRequests`, `MCEndpointRequests` | `runner.rs:341-380,551-577`, `device.rs`, the endpoints' requests | composition: the runner's poll loop by loop, against drivers that load, configure and watch |
| `Descriptors` | `setup_packet.rs`, `device_info.rs`, `hub_descriptor.rs` | the setup packets; trees of interfaces and how a device lays them out; the parser's two loops, one descriptor a turn; lengths of the hub descriptor |
| `DeviceSetup`, `MCDeviceSetup` | `device.rs`, `hub.rs` | `get_info`, `set_configuration` and `Hub::get_info` transfer by transfer, against a device that decodes the packets |
| `...Proofs` | | theorems about the module (or the composition) of that name; `RunnerProofs` about `IrqHandler`, `PortEvents` and `EndpointRequests`, `BootProofs` about `Boot` and `RequestReply` |

Actions keep the names of functions where the code has one. An action named
`X_Something` next to `X` is a deliberately wrong variant of `X`; no
specification uses it. It documents, with the run that notices it, what a
property is sensitive to.

Modelling decisions that matter:

* **The controller runs between any two writes.** Functions that write memory
  the controller reads (`add_qh_to_async_list`, `add_qh`, `attach_qtd`, `watch`,
  the initialisation) are split at these writes. Metadata that only the driver
  reads is changed with the write next to it.
* **A caller's memory has junk links** when it is handed in (`AsyncList`), so
  that an unprepared QH is noticed.
* **Time** is a counter in `Startup`, with wake-ups up to `Late` ticks late. In
  `ResetDevice` the 50 ms and 2 ms delays are timers that fire at some time.
* **USBSTS** is a set of bits; writing a set clears its members.
* **Memory** in `InterruptEndpoint` is counted in packets, with pages of `Page`
  packets; an interval in `PeriodicList` is its power, as in the code.
* **Descriptors** are units: one step of `b_length` bytes is one element of a
  sequence. A device is a tree of interfaces and endpoints that `Flatten` lays
  out and `from_descriptor` has to read back.
* **A control transfer** is one step of the device in `DeviceSetup`, and
  `ControlEndpoint` has its details. What `ControlEndpoint` finds of later
  transfers on an endpoint is carried over: except for the first, a transfer of
  `DeviceSetup` may also never return (`TransferHangs`), or return without its
  SETUP having reached the device, or with 0 bytes (`TransferIsWiped`; `wiped`
  counts them). All callers of `transfer_in` pass one buffer, so the packets
  that are lost between buffers do not occur there. The reset of a device
  relies on the async list as `QhOwnership` promises.
* **A root port can be reset again.** A device of `EndpointRequests` is a root
  port and the number of a reset of it. The end of a reset puts the new device
  in the place of the port's old one (`runner.rs:560`), while the old one's
  endpoints stay in the runner's tables.
* **The BIOS** keeps to the specification: it clears its own semaphore, and only
  after it has stopped.
* **Faults** happen in every run. Where the code withstands only some of them,
  the property says which: by a history variable (`happened` in `ResetDevice`,
  `ordered` in `PeriodicList`, `wiped` in `DeviceSetup`), by the state (`halted`, `transfers`) or by a
  constant (`Crossing` in `Oneshot`, `SameCore` in `IrqHandler`, `PerDevice` in
  `EndpointRequests`).

## Runs

Each run is `tlc -config <run>.cfg <module>`; `PROJECT.json` gives the module.

| run | checks | distinct states |
|-----|--------|-----------------|
| `AsyncList` | `ListIsRing`, `HcHoldsNoOwnedQh`, `RemovalCompletes`, `AddedIsVisited`, refinement `ImplementsOwnership` | 15 917 |
| `RequestReply` | `SleepsOnlyRegistered`, `NewestValue`, `AnswerIsTrue`, `RequestIsAnswered`: a request gets to the runner and its answer back, on one core and across cores | 14 644 |
| `PortEvents` | `NoEventDropped`, `FlagsAreAttended`, `EventReachesRunner`, `ConnectIsNoticed` | 46 737 |
| `ResetDevice` | `UniqueAddresses`, `DeviceHasItsAddress`, `QhReturnedBeforeAnswer`, `AddressHandedOutOnce`, `AnswersOwnRequest`, `ResetReturns` | 231 649 |
| `Boot` | `OsDrivesAlone`, `OwnershipIsTaken`, `SchedulesAreReady`, `RunningIsOperational`, `TimeoutIsOnTime`, `StartAnswered` | 76 478 |
| `PeriodicList` | `NeverStarved` (with the chain's consistency), `VisitedAtInterval` | 9 062 |
| `InterruptEndpoint` | `HcStaysInRing`, `RingHoldsUnread`, `PresentsThePacket`, `PacketIsPresented` | 7 368 |
| `ControlEndpoint` | `ReturnsBytesRead`, `QtdsAreFree`, `EveryTransferReturns` | 581 640 |
| `EndpointRequests` | `SleepsWithoutRequests`, `RequestsAreServed` | 48 799 |
| `DeviceSetup` | `InfoMatchesDevice`, `ConfiguresChosen`, `PowerGoodFirst`, `SetupEnds` | 23 635 |

Two runs end in a counterexample: the code does not do what a document of the
repository says. `PROJECT.json` quotes the sentence.

| run | what the trace shows |
|-----|----------------------|
| `ResetUnplugLate` | a device unplugged during SET_ADDRESS: the status QTD stays active, `reset_device` never returns, and no other port can be reset |
| `EndpointRequestsTwo` | two interrupt endpoints of a device share a slot: an announcement is overwritten, or comes when the runner has just read one and waits for none; `watch` never returns |

### Known deviations

Other places where the code stops short of what its comments or the wording of
its interface suggest. The properties exclude them by a condition; under the
change in the first column TLC finds the counterexample in the second.

| change | what TLC then finds |
|--------|---------------------|
| `AnswerIsTrue` with `result[c] = "Err" => sender[c] = "unsent"` for all of `Channel` | a send between `poll`'s load of `stored` and its look at the count gives `RecvError` for a value that was sent (`oneshot.rs:41`) |
| `RequestIsAnswered` with `result[c] = "Err"` in place of `sent > c` | a request that replaces an unread one drops its sender, and `OneshotSender` has no `Drop` that wakes the receiver (`oneshot.rs:17`) |
| `EventReachesRunner` with `SameCore = FALSE` | on two cores the runner can be woken, find no flag and sleep before the flag is stored (`irq_handler.rs:43`) |
| `NoEventDropped` without its premise `SameCore`, and `SameCore = FALSE` | on two cores the runner can swap the flag between the handler's store and its write to USBSTS; an event raised after the swap finds its bit still set, and the write clears both with no flag left (`irq_handler.rs:84`) |
| `ConnectIsNoticed` without `reported` | nothing clears the change bits of PORTSC; on a controller that reports no change while the bit is set, the next device is not noticed (`irq_handler.rs:59`) |
| `StartAnswered` in `Running` | nobody reads a start request there (`runner.rs:315`) |
| `DeviceHasItsAddress` without `DevicesObey` | a stalled SET_ADDRESS counts as success (`runner.rs:528`); nothing waits for the device to switch (`runner.rs:555`) |
| `AnswersOwnRequest` or `DeviceHasItsAddress` when a call was cancelled | the next call returns the answer to the cancelled one (`root_port.rs:73`) |
| `RunningIsOperational` after a host system error | the runner stays in `Running`: nobody reads `new_host_system_error` (`runner.rs:66`) |
| `VisitedAtInterval` without `ordered` | the new QH takes slots from QHs of shorter interval (`periodic_list_manager.rs:148`) |
| an invariant that `s_mask[q]` is `Microframes(interval[q])` for added QHs | the microframe mask goes to the split-completion field (`periodic_list_manager.rs:52`) |
| `PresentsThePacket` in the first round of several QTDs | `watch` gives every QTD the start of the buffer (`interrupt_endpoint.rs:112`) |
| `PresentsThePacket` when `halted` | `peek` presents a failed transfer as a packet (`interrupt_endpoint.rs:178`) |
| `HcStaysInRing` for a buffer that crosses a page | `advance` computes the offset but not the page (`interrupt_endpoint.rs:212`) |
| `ReturnsBytesRead` (as `bytes = len`) or `EveryTransferReturns` after the first transfer | later the QH is not halted while `attach_qtd` writes it, and the token can wipe out a QTD at work (`control_endpoint.rs:115`): the SETUP, so that a transfer with data hangs and one without data returns though the device has heard nothing, or the IN, so that 0 bytes are read |
| `ReturnsBytesRead` (as `bytes = len`) or `EveryTransferReturns` without `TogglesInStep` | every IN QTD starts at DATA1 (`control_endpoint.rs:173`); after a buffer with an odd number of packets the device is at DATA0, the next packet is dropped as a repetition, and the transfer returns fewer bytes or hangs. Callers pass one buffer |
| `ConfiguresChosen` or `PowerGoodFirst` without `wiped = 0`; `SetupEnds` without `"hung"` | the wiped-out QTD above, seen by `device.rs` and `hub.rs`: SET_CONFIGURATION or PORT_POWER returns and was never received, `get_info` waits for ever |
| `SetupEnds` without `wiped = 0` | `get_info` parses the 0 bytes of a wiped-out IN and panics (`device.rs:144`) |
| an invariant of `DeviceSetup` that at most one port is `enabled` | a hub port that comes up after the 50 ms is passed over and stays at address 0 while the next one is reset (`hub.rs:102`), against `README.md:83` |
| `SetupEnds` with devices of `len < 18` in `Conforming` | `read_from_bytes(..).unwrap()` wants all 18 bytes and panics (`device.rs:130`), against `README.md:92`: "The device descriptor may be shorter than 18 bytes, which is okay." |
| `InfoMatchesDevice` with all interfaces | alternate settings are counted as interfaces, and the last interfaces are not parsed (`device_info.rs:79`) |

### Bounds

* `AsyncList`: three QHs give a rung batch, a queued one and a listed neighbour,
  or a removal between two others; the proofs cover any number.
* `RequestReply`: two tasks and three requests, so that one can be served, one
  replaced and one new; one channel is used across cores. The proofs cover
  any number.
* `PortEvents`: port changes and one other USBSTS bit, since the handler treats
  all alike (the proofs cover any set); one port with three changes. With two
  ports TLC finds no error either, in 784 000 states and 13 minutes.
* `ResetDevice`: two ports are enough for a conflict at address 0 and for a
  port waiting on another; three calls for a second reset of a device beside
  one of the other port; two addresses, so that the allocator runs out.
  `MaxFaults` limits a behaviour to one kind of fault, as often as it likes,
  besides devices that come and go. The proofs cover all faults at once, and
  any number of ports, addresses and calls; only `ResetReturns` is checked for
  one kind of fault at a time.
* `Boot`: two capability offsets, so that USBLEGSUP is first, last, alone or
  missing. `Timeout` 3 is no multiple of `Interval` 2, so clipping matters;
  wake-ups one tick late; a second start after an error.
* `PeriodicList`: eight slots, hence four frame intervals and three
  sub-frame ones, for four QHs: chains with equal, smaller and larger intervals
  on both sides of the new one. QHs are alike, so their permutations are a
  symmetry; no liveness is checked here. The proofs cover any number of QHs and
  any length of the list.
* `InterruptEndpoint`: one to three QTDs and seven packets: two rounds and a full
  ring; the buffer begins anywhere in a page of four packets. The proofs cover
  any number of QTDs and packets and any page size.
* `ControlEndpoint`: packets of up to two bytes, up to three buffers of one
  packet, of one and a half and of two, and answers of every length: short
  packets inside, at the end of, and between buffers, toggles in and out of
  step, packets that do not fit; two transfers. The proofs cover any number and
  size of them.
* `EndpointRequests`: three devices, two of them on the same port one after the
  other, so that a request meets every loop of the poll of another device's
  reset, and that of its own successor. The proof covers any number of devices
  with one interrupt endpoint.
* `DeviceSetup`: configurations whose numbers are not their indexes, interfaces
  with and without class-specific descriptors on either side of the endpoints,
  alternate settings, empty ones; a hub with an alternate setting only; hubs of 0, 2, 3, 7, 8 and 255 ports, around
  the byte boundaries of the removable bits and the limit of `u8`, with devices
  on any of three ports; descriptors that are short, or longer than the buffer. Two transfers return
  wiped out (`MaxWiped`), none with the hub of 255 ports, whose ports would be
  left without power in every combination; hanging is not bounded.
  The proofs cover any number of configurations, interfaces and endpoints, and hubs of up to 255 ports.

Deadlock checking is off where the instance comes to an end: the bounded numbers
of transfers, packets, additions, messages and starts are used up.

### Fairness

Executors poll what was woken and nothing else: weak fairness of the polling
steps, which are enabled only when the model has recorded a wake. Strong
fairness is assumed where another actor can disable a step over and over:
interrupts preempting the runner (`PortEvents`), moves of a future between
tasks (`RequestReply`), and additions occupying the runner before it handles the
async advance (`AsyncList`); in each case a real core returns to the step.
The controller is fair where its specification obliges it to walk the schedule
and answer the doorbell, and owes nothing in `Boot`, where the BIOS answers
the OS semaphore and the caller goes on calling `try_take`. Devices owe nothing in
`InterruptEndpoint`; in `ControlEndpoint` and `ResetDevice` a device that is there answers, and in
`DeviceSetup` it answers what reaches it: nothing is assumed of a transfer that
was wiped out. Callers never have to call.

## Proofs

`tlapm <module>.tla` checks the proofs of a module, `DeviceSetupProofs` in about
ten minutes and each of the others in a few.

* `AsyncListProofs`, from `QhAssumption` (the anchor and junk are no QHs). The
  property of interest is `HcHoldsNoOwnedQh`: the controller refers to no QH
  that its owner may reuse. It is not inductive: a controller that sits on an
  unlinked QH goes on by that QH's stale link. `ScheduleInv` adds where such
  links lead (to the list or to QHs unlinked *later*, never back into the rung
  batch), that the rung batch is what was unlinked when the doorbell was rung,
  and that after the answer the controller is off that batch. One lemma per
  action; `ScheduleInvariant` combines them, `NoUseAfterHandBack` follows, and
  `OwnershipRefinement` shows that each step is one of `QhOwnership` or a
  stutter. `ScheduleIsRing` (`ListIsRing`) is about the walk along the links:
  `RingInv` says that some numbering of the published QHs follows the links
  from the anchor back to it. Inserting behind the anchor and closing the
  links around a QH turn a numbering into another (`RingInsert`,
  `RingRemove`), and a walk meets the QHs in their order (`RingWalk`).
* `RunnerProofs`, from `IrqAssumption` and `RequestsAssumption`. For any set of
  raised bits, `IrqInv` adds to the two properties what holds inside the
  handler: the latched bits are still in USBSTS, those to be cleared are
  recorded, and the runner was woken or has yet to register. `EventsAreKept`
  and `NoFlagForgotten` follow, and by `PortsUseIrqHandler` they hold in
  `PortEvents` too. Both are about the same-core case (`SameCore`); for other
  cores `EventReachesRunner` has a counterexample. `NoRequestIsSleptOn` holds
  with one interrupt endpoint per device, the case that `EndpointRequestsTwo`
  shows to be needed. `RequestsInv` says for every slot that has yet to be
  served that the runner waits there, is awake, or comes by its loop before it
  sleeps (`Attends`).
* `BootProofs`, from `HandoffAssumption` and `StartupAssumption`. `HandoffInv`
  says that while the BIOS drives and the walk goes on, links lead from the
  current capability to USBLEGSUP (`LegSupAhead`): otherwise the walk could end
  with a `Stack` beside a driving BIOS. `StartupInv` says what each phase, and
  each write of the initialisation, leaves in the registers; `TimeInv` that the
  runner never sleeps past its deadline. `DrivesAlone`, `NoJunkSchedule`,
  `RunningMeansOn` and `TimeoutsOnTime` follow. Of the request path, from
  `SignalAssumption`, `OneshotAssumption` and `ChannelAssumption`: `NoLostWakeup`
  (`SleepsOnlyRegistered`) is inductive by itself; `LatestValueSlot`
  (`NewestValue`) rests on the type invariant. For `TrueAnswers`, `OneshotInv`
  adds that the cell is written before `stored` is set, and that where the two
  ends alternate, a poll that found `stored` unset counts references before the
  sender moves. `RequestsUseSignal` and `RequestsUseOneshot` show that the
  composition implements both components, so that `RequestPathIsSafe` follows
  from what is proved of each.
* `DeviceSetupProofs`, from `SetupAssumption` (lengths and times are natural
  numbers, a device's configurations are trees, `b_nbr_ports` is a byte). For
  hubs of up to 255 ports and any delay, `HubInv` says that the hub
  descriptor, though read through the buffer, holds the hub's own numbers
  (`DescriptorInv`), that the packet under way is the one of the driver's step
  (`RequestInv`), so that the device's answer concerns the present port, and
  that the delay outlasts the power-up (`PowerInv`); it is inductive as long as
  no transfer is wiped out (`HubInvariant`), and `PortsHavePower`
  (`PowerGoodFirst`) follows. For devices with any number of configurations,
  interfaces and endpoints, `SetupInv` is inductive. `InfoMatchesDevice` speaks
  of the end of `get_info` only; the invariant says that the configurations read
  so far are the device's first ones (`KeptInv`) and what the shared buffer
  holds when each transfer has ended (`ReadingInv`), wiped out or not: 0 bytes
  are never taken for a configuration. `ConfiguresChosen` needs
  that no transfer after SET_CONFIGURATION is another one (`ChosenInv`).
  `InfoIsOfDevice`, `ChosenIsConfigured` and `ConformingDevicesPass` (the safety
  half of `SetupEnds`: as long as no transfer is wiped out, nothing but the
  `todo!()` panics) follow. The proof of the
  last needs that a conforming hub's first interface is no alternate setting:
  otherwise `b_num_interfaces` may be 0, nothing is kept, and
  `set_configuration` looks for the hub's endpoint in vain (`device.rs:219`). All rest on the
  parser: `FromDescriptorReads` says that on what a device lays out, cut off
  anywhere, `from_descriptor` panics or returns the interfaces that are counted,
  and that it returns when nothing is cut off. Its argument is an invariant of
  the two loops: after each descriptor, the interfaces are the tree's first
  ones and the last has the endpoints seen so far. `RoundTrip` is the special
  case without alternate settings, where it returns the whole tree.
* `ResetDeviceProofs`, from `ResetAssumption`, with all faults at once.
  `GivenInv` keeps every address in one place (request, result or caller),
  `BusInv` that a device at address 0 that can be enabled is the one the loop
  works on, `CallInv` that a call is in one place, and `AnswerInv` that an
  answered device keeps its address until it leaves. One lemma per action and
  conjunct; `AddressesAreUnique`, `AnswerNamesTheDevice`, `QhIsReturned`,
  `AddressesAreNotRepeated` and `CallsGetTheirAnswer` follow. `BusInv` assumes
  devices that obey, `CallInv` that no call is cancelled, as the properties do.
* `PeriodicListProofs`, from `PeriodicAssumption` and `PowersOfTwo`, the
  equations of the powers of two: the provers know nothing of `^`, TLC evaluates
  them. `ChainInv` says that the links number the QHs from the head on, also
  the new one once it is published, and that the metadata mirrors them;
  `FirstSlotInv` where slot 0 leads while the slots are being written;
  `TableInv` that the table has an entry for each interval present, without
  which the search for neighbours could miss one. `NobodyStarves` follows. For
  `IntervalsAreKept`, `SlotsInv` says that as long as no interval comes new
  after a shorter one, the slots in which a QH is due lead to the whole chain,
  except those still to be written, which lead to all of it but the new QH: the
  new interval divides the longer ones (`PowerDivides`, `Coarser`), so the new
  head takes every slot in which another QH is due, and leads on to it.
* `InterruptEndpointProofs`, from `InterruptAssumption`. `InterruptInv` adds
  to the queue what makes it one: what `watch` has written so far, that every
  QTD points into the buffer and, once given back, to its own place
  (`BufferInv`), and that the unread packets are in their places (`PlacesInv`).
  `ControllerStaysInRing`, `RingIsAQueue` and `PeekShowsTheOldest` follow. The
  arithmetic modulo the number of QTDs is in lemmas of its own.
* `ControlEndpointProofs`, from `ControlAssumption`, for any number and size of
  buffers and packets and any number of transfers. `QuietInv` says that between transfers
  the overlay leads nowhere, `RingInv` that the QTDs the controller has not yet
  reached are as they were written, `AtMostInv` that no more is read than was
  sent, whatever the write of the token wipes out and whichever packets the
  toggles drop, and `ExactInv` that in the first transfer, when the buffers
  keep the toggles in step (`TogglesInStep`), the device's toggle is the
  overlay's, so that nothing is dropped and the bytes read, those in the buffer
  at work and those unsent add up to the answer. `TransferReturnsBytesRead` and `ControlQtdsAreFree` follow. The sum over the
  buffers is a recursive function; `SumsExist` and `ReadChange` say that it is
  defined and what one more byte read does to it.

Walks, sums, layouts and the parser's loops are recursive functions over an
interval of numbers. What is said of all their arguments is proved by looking at
the least one for which it fails (`Least`, from the well-foundedness of the
naturals); the library's induction theorems are not used.

Every safety invariant that a run checks is also proved. Only model-checked: the
liveness properties, since fairness and ENABLED are beyond the prover.

## Not modelled

* Bit layouts of registers, QHs, QTDs and of `bmRequestType`; address arithmetic
  (`get_addr_offset`, `BufferPtrs` beyond page 0, whose check of the length
  leaves out the offset in the first page, `buffer_ptrs.rs:13`). The models use
  the fields.
* Byte offsets of descriptors: a descriptor is one unit, so a `b_length` of 0,
  at which the loops of `device_info.rs:131` would not advance, does not occur.
  Strings and the fields that are only copied.
* Error counters, NAK counters and split transactions.
* `bInterval` 0 and above 16, for which `interrupt_endpoint.rs:98` overflows,
  and `advance` without a packet (`interrupt_endpoint.rs:231`): callers of
  the models keep to the interface.
* `transfer_out` and `remove_qh` of the periodic list (`todo!()`), what follows
  `todo!("assign addr")` in `hub.rs`, `deallocate_addr` (no caller), and
  `device_old.rs` (not compiled).
* Removal from the runner's tables: `control_endpoints` and
  `interrupt_endpoints` only grow, and `devices` loses a device only to the next
  one on its port (`runner.rs:560`).
* `usb_int_signal` of a device, which the runner signals (`runner.rs:331`) and
  nothing in the repository reads.
* `Stack` construction beyond the initial states: it splits the registers into
  handles and has no protocol of its own.

## What to do when the code changes

* When `hub.rs` assigns addresses, `DeviceSetup` and `ResetDevice` share address
  0: compose them, and make "at most one enabled port" an invariant.
* When `remove_qh` of the periodic list is written, give `PeriodicList` the
  removal, with a controller in the middle of a frame as in `AsyncList`.
* When `deallocate_addr` gets a caller, `AddressHandedOutOnce` becomes a
  statement about addresses in use.
* A fix of one of the deviations shows as the condition in its property that
  can be dropped.
