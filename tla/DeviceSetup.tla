---------------------------- MODULE DeviceSetup ----------------------------
(***************************************************************************)
(* From a loaded device to a configured one, and a hub's ports: get_info,  *)
(* set_configuration and Hub::get_info, each a sequence of control         *)
(* transfers that reuse one setup packet and one buffer.  A transfer ends  *)
(* in one step: with the device's answer, or, when it is not the first on  *)
(* the endpoint, in one of the ways ControlEndpoint shows that the token   *)
(* attach_qtd writes may spoil it.  The device (external) decodes the      *)
(* packet it is sent.                                                      *)
(*                                                                         *)
(* Time is counted in units of 2 ms.                                       *)
(***************************************************************************)
EXTENDS Descriptors

CONSTANTS Devices,        \* the devices that may be there
          MaxDescriptors, \* how many descriptors the buffer holds after the header
          MaxWiped,       \* per device: how many transfers may return wiped out (a bound)
          ResetTime       \* how long get_info waits for a port reset, 50 ms

\* Lengths and times are natural numbers, and b_nbr_ports is a u8.
ASSUME SetupAssumption ==
  /\ ResetTime \in Nat /\ MaxDescriptors \in Nat /\ MaxWiped \in [Devices -> Nat]
  /\ \A d \in Devices :
       /\ d.len \in Nat /\ d.configurations \in Seq(ConfigurationTrees)
       /\ d.hub.ports \in 0..255 /\ d.hub.power_good \in Nat /\ d.hub.len \in Nat

VARIABLES
  device,           \* the device, its descriptors and its hub part
  active,           \* the number of the configuration it is in, 0 for none
  powered, resetting, enabled,  \* the hub ports that are
  good_in,          \* per hub port: the time until its power is good
  step,             \* the driver's place
  setup,            \* the setup packet in memory
  in_flight,        \* whether its transfer is under way
  buffer, bytes,    \* the buffer, and how much the transfer has written
  wiped,            \* how many transfers have returned without their SETUP or data
  device_descriptor, configurations,  \* DeviceInfo
  chosen,           \* the index set_configuration was given
  announced,        \* per interface: the endpoints whose AddEndpointReq was signalled
  hub_descriptor, i,   \* the loop over the ports
  delay             \* what delay_until still waits for

hubVars == <<powered, resetting, enabled, good_in>>
memVars == <<setup, in_flight, buffer, bytes>>
infoVars == <<device_descriptor, configurations, chosen, announced>>
probeVars == <<hub_descriptor, i, delay>>
vars == <<device, active, hubVars, step, memVars, wiped, infoVars, probeVars>>

Nothing == [kind |-> "none"]

Init ==
  /\ device \in Devices
  /\ active = 0
  /\ powered = {} /\ resetting = {} /\ enabled = {}
  /\ good_in = [p \in 1..device.hub.ports |-> 0]
  /\ step = "loaded"
  /\ setup = new_set_configuration(0) /\ in_flight = FALSE /\ buffer = Nothing /\ bytes = 0
  /\ wiped = 0
  /\ device_descriptor = Nothing /\ configurations = <<>> /\ chosen = 0 /\ announced = <<>>
  /\ hub_descriptor = Nothing /\ i = 0 /\ delay = 0

-----------------------------------------------------------------------------
\* The packet is written and the transfer started; the driver goes on at to
\* when it has ended.
Transfer(packet, to) ==
  /\ setup' = packet /\ in_flight' = TRUE
  /\ step' = to
  /\ UNCHANGED <<buffer, bytes>>

At(s) == step = s /\ ~in_flight /\ delay = 0
GoTo(s) == step' = s /\ UNCHANGED memVars
DeviceRests == UNCHANGED <<device, active, hubVars, wiped>>

\* LoadedDevice::get_info
get_info ==
  /\ At("loaded")
  /\ Transfer(new_get_device_descriptor(18), "device_descriptor")
  /\ DeviceRests /\ UNCHANGED <<infoVars, probeVars>>

\* DeviceDescriptor::read_from_bytes wants all of the 18 bytes.
ReadDeviceDescriptor ==
  /\ At("device_descriptor")
  /\ IF bytes = 18
       THEN device_descriptor' = buffer /\ GoTo("configurations")
       ELSE GoTo("panicked") /\ UNCHANGED device_descriptor
  /\ DeviceRests /\ UNCHANGED <<configurations, chosen, announced, probeVars>>

\* A wrong loop: the bound is read through the buffer, which is written over.
NumConfigurations_Aliased == IF buffer.kind = "device" THEN buffer.b_num_configurations ELSE 1

NumConfigurations == device_descriptor.b_num_configurations

\* What a control transfer reads at most: "this should support all real hardware".
MAX_CONFIGURATION_DESCRIPTOR_LEN == 4096

\* for n in 0..b_num_configurations
GetConfiguration ==
  /\ At("configurations")
  /\ LET n == Len(configurations)
     IN  IF n < NumConfigurations
           THEN Transfer(new_get_configuration_descriptor(MAX_CONFIGURATION_DESCRIPTOR_LEN, n), "configuration")
           ELSE GoTo("has_info")
  /\ DeviceRests /\ UNCHANGED <<infoVars, probeVars>>

\* from_descriptor(full_descriptor), of which the header must be there.
ParseConfiguration ==
  /\ At("configuration")
  /\ IF bytes = 0 \/ ParsePanics(buffer)
       THEN GoTo("panicked") /\ UNCHANGED configurations
       ELSE /\ configurations' = Append(configurations, from_descriptor(buffer))
            /\ GoTo("configurations")
  /\ DeviceRests /\ UNCHANGED <<device_descriptor, chosen, announced, probeVars>>

-----------------------------------------------------------------------------
\* A wrong set_configuration: the index is sent for the number.
ConfigurationNumber_Index(index) == index

ConfigurationNumber(index) == configurations[index].number

\* DeviceWithInfo::set_configuration, for any index of the configurations.
set_configuration(index) ==
  /\ At("has_info")
  /\ chosen' = index
  /\ Transfer(new_set_configuration(ConfigurationNumber(index)), "set_configuration")
  /\ DeviceRests /\ UNCHANGED <<device_descriptor, configurations, announced, probeVars>>

\* The endpoints of an interface that the runner is asked to add.
InterruptEndpoints(interface) ==
  {k \in DOMAIN interface.endpoints : interface.endpoints[k] = "Interrupt"}

\* A hub's first interface must begin with an interrupt endpoint.
IsHub == device_descriptor.device_class = 9
HubEndpointIsThere(c) ==
  /\ c.interfaces # <<>> /\ c.interfaces[1].endpoints # <<>>
  /\ c.interfaces[1].endpoints[1] = "Interrupt"

Configured ==
  /\ At("set_configuration")
  /\ announced' = [k \in DOMAIN configurations[chosen].interfaces |->
                    InterruptEndpoints(configurations[chosen].interfaces[k])]
  /\ GoTo(IF ~IsHub THEN "configured"
          ELSE IF HubEndpointIsThere(configurations[chosen]) THEN "hub" ELSE "panicked")
  /\ DeviceRests /\ UNCHANGED <<device_descriptor, configurations, chosen, probeVars>>

-----------------------------------------------------------------------------
\* Hub::get_info
get_hub_info ==
  /\ At("hub")
  /\ Transfer(new_get_hub_descriptor(HubFixedLen + RemovableLen), "hub_descriptor")
  /\ DeviceRests /\ UNCHANGED <<infoVars, probeVars>>

ReadHubDescriptor ==
  /\ At("hub_descriptor")
  /\ IF bytes < HubFixedLen \/ HubFromBytesPanics(buffer.b_nbr_ports, bytes)
       THEN GoTo("panicked") /\ UNCHANGED hub_descriptor
       ELSE hub_descriptor' = buffer /\ GoTo("ports")
  /\ DeviceRests /\ UNCHANGED <<infoVars, i, delay>>

port_number == 1 + i

\* for i in 0..b_nbr_ports: the port is powered ...
PowerPort ==
  /\ At("ports")
  /\ IF i < hub_descriptor.b_nbr_ports
       THEN Transfer(new_set_feature_port_power(port_number), "powered")
       ELSE GoTo("probed")
  /\ DeviceRests /\ UNCHANGED <<infoVars, probeVars>>

\* A wrong delay: the field is taken for milliseconds.
PowerDelay_Ms == (hub_descriptor.b_pwr_on_2_pwr_good + 1) \div 2

\* Duration::from_millis(2) times the field.
PowerDelay == hub_descriptor.b_pwr_on_2_pwr_good

\* ... delay_until ...
Sleep(from, to, time) ==
  /\ At(from) /\ GoTo(to)
  /\ delay' = time
  /\ DeviceRests /\ UNCHANGED <<infoVars, hub_descriptor, i>>

\* ... get_port_status ...
AskStatus(from, to) ==
  /\ At(from)
  /\ Transfer(new_get_port_status(port_number), to)
  /\ DeviceRests /\ UNCHANGED <<infoVars, probeVars>>

\* A wrong loop: a port that did not come up is tried again at once.
AfterReset_Retry == IF buffer.port_enable THEN "panicked" ELSE "reset"

\* What follows a reset: todo!("assign addr") for a port with a device, or the
\* next port.
AfterReset == IF buffer.port_enable THEN "panicked" ELSE "ports"

NextPort == i' = i + 1

\* ... assert_eq!(len, 4), and a connected port is reset ...
ReadStatus ==
  /\ At("status")
  /\ IF bytes # 4 THEN GoTo("panicked") /\ UNCHANGED i
     ELSE IF buffer.current_connect_status
     THEN Transfer(new_set_feature_port_reset(port_number), "reset") /\ UNCHANGED i
     ELSE GoTo("ports") /\ NextPort
  /\ DeviceRests /\ UNCHANGED <<infoVars, hub_descriptor, delay>>

\* ... and looked at again.
ReadResetStatus ==
  /\ At("reset_status")
  /\ GoTo(IF bytes # 4 THEN "panicked" ELSE AfterReset)
  /\ IF step' = "ports" THEN NextPort ELSE UNCHANGED i
  /\ DeviceRests /\ UNCHANGED <<infoVars, hub_descriptor, delay>>

ProbePorts ==
  \/ get_hub_info \/ ReadHubDescriptor \/ PowerPort
  \/ Sleep("powered", "power_good", PowerDelay) \/ AskStatus("power_good", "status") \/ ReadStatus
  \/ Sleep("reset", "reset_over", ResetTime) \/ AskStatus("reset_over", "reset_status")
  \/ ReadResetStatus

-----------------------------------------------------------------------------
Asks(type, recipient, request) ==
  /\ setup.request_type = type /\ setup.recipient = recipient /\ setup.b_request = request

\* An answer of n bytes (of n descriptors, the header among them, for a
\* configuration).
Answer(what, n) ==
  /\ buffer' = what
  /\ bytes' = IF n < setup.w_length THEN n ELSE setup.w_length

\* External: the device answers a GET_DESCRIPTOR.
AnswerDescriptor ==
  /\ setup.direction = "In" /\ UNCHANGED <<active, hubVars>>
  /\ \/ /\ Asks("Standard", "Device", GetDescriptor) /\ setup.w_value = <<0, DeviceType>>
        /\ Answer([kind |-> "device", device_class |-> device.class,
                   b_num_configurations |-> Len(device.configurations)], device.len)
     \/ /\ Asks("Standard", "Device", GetDescriptor) /\ setup.w_value[2] = ConfigurationType
        /\ setup.w_value[1] < Len(device.configurations)
        /\ LET c == Flatten(device.configurations[setup.w_value[1] + 1])
               n == IF Len(c.rest) < MaxDescriptors THEN Len(c.rest) ELSE MaxDescriptors
           IN  Answer([kind |-> "configuration", b_configuration_value |-> c.b_configuration_value,
                       b_num_interfaces |-> c.b_num_interfaces, rest |-> SubSeq(c.rest, 1, n)], 1 + n)
     \/ /\ Asks("Class", "Device", GetDescriptor) /\ setup.w_value = <<0, HubType>>
        /\ Answer([kind |-> "hub", b_nbr_ports |-> device.hub.ports,
                   b_pwr_on_2_pwr_good |-> device.hub.power_good], device.hub.len)

\* External: the device enters a configuration.
AnswerSetConfiguration ==
  /\ setup.direction = "Out" /\ Asks("Standard", "Device", SetConfiguration)
  /\ \E k \in DOMAIN device.configurations : device.configurations[k].number = setup.w_value[1]
  /\ active' = setup.w_value[1]
  /\ UNCHANGED <<hubVars, buffer, bytes>>

PowerIsGood(p) == p \in powered /\ good_in[p] = 0

\* External: the hub powers or resets a port, or gives its status.
AnswerPort ==
  LET p == setup.w_index
  IN  /\ p \in 1..device.hub.ports /\ UNCHANGED active
      /\ \/ /\ Asks("Class", "Other", SetFeature) /\ setup.w_value = <<PortPower, 0>>
            /\ powered' = powered \cup {p}
            /\ good_in' = [good_in EXCEPT ![p] = device.hub.power_good]
            /\ UNCHANGED <<resetting, enabled, buffer, bytes>>
         \/ /\ Asks("Class", "Other", SetFeature) /\ setup.w_value = <<PortReset, 0>>
            /\ resetting' = resetting \cup {p}
            /\ UNCHANGED <<powered, good_in, enabled, buffer, bytes>>
         \/ /\ Asks("Class", "Other", GetStatus)
            /\ Answer([kind |-> "status", port_enable |-> p \in enabled,
                       current_connect_status |-> PowerIsGood(p) /\ p \in device.hub.attached], 4)
            /\ UNCHANGED hubVars

DeviceAnswers ==
  /\ in_flight
  /\ AnswerDescriptor \/ AnswerSetConfiguration \/ AnswerPort
  /\ in_flight' = FALSE
  /\ UNCHANGED <<device, step, setup, wiped, infoVars, probeVars>>

\* The transfers whose queue head is not halted while attach_qtd writes it: all
\* but the endpoint's first.  The controller may take up a QTD between the two
\* writes, and the token wipes it out.
MayBeWiped == in_flight /\ step # "device_descriptor"

\* External: what was wiped out is the SETUP of a request with data, which the
\* device then has nothing to send for, or the status stage.  The transfer
\* never returns; what the device has done for it no longer matters.
TransferHangs ==
  /\ MayBeWiped
  /\ in_flight' = FALSE /\ step' = "hung"
  /\ UNCHANGED <<device, active, hubVars, setup, buffer, bytes, wiped, infoVars, probeVars>>

\* External: what was wiped out is the IN QTD, which counts as empty, or the
\* SETUP of a request without data, which the device has not seen.  The
\* transfer returns.
TransferIsWiped ==
  /\ MayBeWiped /\ wiped < MaxWiped[device]
  /\ in_flight' = FALSE /\ wiped' = wiped + 1
  /\ bytes' = IF setup.direction = "In" THEN 0 ELSE bytes
  /\ UNCHANGED <<device, active, hubVars, step, setup, buffer, infoVars, probeVars>>

\* External: the reset of a hub port ends, and the device on it is enabled.
HubEnables(p) ==
  /\ p \in resetting
  /\ resetting' = resetting \ {p} /\ enabled' = enabled \cup {p}
  /\ UNCHANGED <<device, active, powered, good_in, step, memVars, wiped, infoVars, probeVars>>

\* External: time passes for the driver and for the power of the ports.
Tick ==
  /\ delay > 0
  /\ delay' = delay - 1
  /\ good_in' = [p \in DOMAIN good_in |-> IF good_in[p] = 0 THEN 0 ELSE good_in[p] - 1]
  /\ UNCHANGED <<device, active, powered, resetting, enabled, step, memVars, wiped, infoVars, hub_descriptor, i>>

-----------------------------------------------------------------------------
Driver ==
  \/ get_info \/ ReadDeviceDescriptor \/ GetConfiguration \/ ParseConfiguration
  \/ Configured \/ ProbePorts

Next ==
  \/ Driver
  \/ \E index \in DOMAIN configurations : set_configuration(index)
  \/ DeviceAnswers \/ TransferHangs \/ TransferIsWiped
  \/ \E p \in resetting : HubEnables(p)
  \/ Tick

\* A wake-driven executor polls a future that can go on, the device answers
\* what reaches it and time passes.  No fairness is assumed of the transfers
\* that go wrong.
Fairness == WF_vars(Driver) /\ WF_vars(DeviceAnswers) /\ WF_vars(Tick)

Spec == Init /\ [][Next]_vars
FairSpec == Spec /\ Fairness

-----------------------------------------------------------------------------
\* What get_info returns is what the device is: every configuration, though all
\* were read through the buffer that also held the device descriptor, each with
\* its number, its interfaces and their endpoints in order; a transfer that
\* returned without data is never taken for a configuration.  Of one
\* with alternate settings the first interface descriptors only are kept, as
\* many as there are interfaces (device_info.rs, from_descriptor).
InfoMatchesDevice ==
  step = "has_info" =>
    /\ device_descriptor.device_class = device.class
    /\ Len(configurations) = Len(device.configurations)
    /\ \A k \in DOMAIN configurations :
         LET read == configurations[k]
             meant == Meaning(device.configurations[k])
         IN  /\ read.number = meant.number
             /\ Len(read.interfaces) <= Len(meant.interfaces)
             /\ read.interfaces = SubSeq(meant.interfaces, 1, Len(read.interfaces))
             /\ \/ Len(read.interfaces) = Len(meant.interfaces)
                \/ \E j \in DOMAIN meant.interfaces : meant.interfaces[j].alternate

\* set_configuration leaves the device in the configuration whose index the
\* caller chose, unless a transfer was wiped out, and announces to the runner
\* one request for each interrupt endpoint of that configuration, in the
\* interfaces get_info kept, and no other.
ConfiguresChosen ==
  step \in {"configured", "hub", "ports", "probed"} =>
    /\ wiped = 0 => active = device.configurations[chosen].number
    /\ announced = [k \in DOMAIN configurations[chosen].interfaces |->
                      InterruptEndpoints(device.configurations[chosen].interfaces[k])]

\* Hub::get_info asks for the status of a port, and resets it, only when the
\* port's power is good, though the descriptor that says when was read into the
\* buffer that the statuses overwrite; and when it returns every port of the
\* hub has been powered, for up to 255 ports: as long as no transfer was wiped
\* out, for that may have been a request for power.
PowerGoodFirst ==
  wiped = 0 =>
    /\ in_flight /\ setup.recipient = "Other" /\ setup.w_value # <<PortPower, 0>>
         => PowerIsGood(setup.w_index)
    /\ step = "probed" => powered = 1..device.hub.ports

\* What a device must be for the driver to get along with it.  The length is
\* the code's demand: read_from_bytes(..).unwrap() panics on a device descriptor
\* of fewer than 18 bytes, which the repository's README calls okay.
Conforming ==
  /\ device.len = 18
  /\ \A k \in DOMAIN device.configurations : Len(Flatten(device.configurations[k]).rest) <= MaxDescriptors
  /\ device.class = 9 =>
       /\ device.hub.len >= HubFixedLen + 1 + device.hub.ports \div 8
       /\ \A k \in DOMAIN device.configurations :
            /\ HubEndpointIsThere(device.configurations[k])
            /\ ~device.configurations[k].interfaces[1].alternate

\* A hub's port has enabled a device: todo!("assign addr").
DeviceBehindHub == buffer.kind = "status" /\ buffer.port_enable

\* Once begun, get_info, set_configuration and Hub::get_info do not go on for
\* ever: they return, or wait for a transfer whose QTD was wiped out, or panic;
\* and with a conforming device, when no transfer was wiped out, the unwraps,
\* slices and asserts on the way hold, and the only panic left is the todo!()
\* for a device behind a hub.  A port that does not come up after its reset is
\* passed over.
Returned == step \in {"has_info", "configured", "probed"}
SetupEnds ==
  ~Returned ~>
    \/ Returned \/ step = "hung"
    \/ step = "panicked" /\ (Conforming /\ wiped = 0 => DeviceBehindHub)
=============================================================================
