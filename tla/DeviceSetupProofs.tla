------------------------- MODULE DeviceSetupProofs -------------------------
(***************************************************************************)
(* Setting up a device or a hub.                                           *)
(*                                                                         *)
(* Hub::get_info: a port is looked at when its power is good, for hubs of  *)
(* up to 255 ports, what b_nbr_ports can say, as long as no transfer is    *)
(* wiped out.                                                              *)
(*                                                                         *)
(* get_info and set_configuration: what the driver reads of a device's     *)
(* descriptors is what the device means by them, and the configuration     *)
(* that the caller chose is the one the device is put in.  First the       *)
(* invariant of the transfers, from what is needed of the descriptors;     *)
(* then that from_descriptor undoes Flatten, for configurations of every   *)
(* shape.                                                                  *)
(***************************************************************************)
EXTENDS DeviceSetup, Integers, TLAPS

\* Every leaf goes to Zenon unless it names another prover.
USE ZenonT(30)

-----------------------------------------------------------------------------
\* What the loop of Hub::get_info counts with, and the hub's ports.
HubTypeOK ==
  /\ device \in Devices /\ i \in Nat /\ delay \in Nat
  /\ powered \subseteq 1..device.hub.ports /\ good_in \in [1..device.hub.ports -> Nat]

\* Hub::get_info has the hub's own numbers: the buffer holds them when they are
\* read from it, and what was read is not in the buffer.
Describes(d) == d.b_nbr_ports = device.hub.ports /\ d.b_pwr_on_2_pwr_good = device.hub.power_good
OfPort == {"powered", "power_good", "status", "reset", "reset_over", "reset_status"}
DescriptorInv ==
  /\ step = "hub_descriptor" =>
       setup = new_get_hub_descriptor(HubFixedLen + RemovableLen) /\ (in_flight \/ Describes(buffer))
  /\ step \in OfPort \cup {"ports", "probed"} => Describes(hub_descriptor)
  /\ step \in OfPort => i < device.hub.ports
  /\ step = "probed" => i >= device.hub.ports

\* The packet in memory is the one of the step, while it is under way.
RequestInv ==
  in_flight =>
    \/ step = "powered" /\ setup = new_set_feature_port_power(port_number)
    \/ step \in {"status", "reset_status"} /\ setup = new_get_port_status(port_number)
    \/ step = "reset" /\ setup = new_set_feature_port_reset(port_number)
    \/ /\ step \in {"device_descriptor", "configuration", "set_configuration", "hub_descriptor"}
       /\ setup.recipient = "Device"

\* The ports passed are powered; the delay lasts until the power of the present
\* one is good.
PowerInv ==
  /\ 1..i \subseteq powered
  /\ step = "powered" /\ ~in_flight =>
       port_number \in powered /\ good_in[port_number] <= device.hub.power_good
  /\ step = "power_good" => port_number \in powered /\ good_in[port_number] <= delay
  /\ step \in {"status", "reset", "reset_over", "reset_status"} => PowerIsGood(port_number)

HubInv == HubTypeOK /\ DescriptorInv /\ RequestInv /\ PowerInv
-----------------------------------------------------------------------------
\* A hub descriptor's numbers, of which the ports are a byte.
LEMMA HubNumbers ==
  ASSUME NEW d \in Devices
  PROVE  d.hub.ports \in Nat /\ d.hub.power_good \in Nat
<1>1. d.hub.ports \in 0..255 /\ d.hub.power_good \in Nat
  BY SetupAssumption
<1> QED
  BY <1>1, SMTT(30)

\* What get_info and set_configuration do before the hub is looked at, and a
\* panic, concern no port.
LEMMA EarlyStepKeeps ==
  ASSUME HubInv, UNCHANGED <<device, hubVars, probeVars>>,
         step' \notin OfPort \cup {"ports", "probed"},
         in_flight' => /\ step' \in {"device_descriptor", "configuration", "set_configuration", "hub_descriptor"}
                       /\ setup'.recipient = "Device",
         step' = "hub_descriptor" => in_flight' /\ setup' = new_get_hub_descriptor(HubFixedLen + RemovableLen)
  PROVE  HubInv'
<1>1. HubTypeOK'
  BY DEF HubInv, HubTypeOK, hubVars, probeVars
<1>2. DescriptorInv'
  BY DEF DescriptorInv
<1>3. RequestInv'
  BY DEF RequestInv
<1>4. PowerInv'
  BY DEF HubInv, PowerInv, OfPort, hubVars, probeVars
<1> QED
  BY <1>1, <1>2, <1>3, <1>4 DEF HubInv

\* The steps of get_info and set_configuration are of that kind.
LEMMA InfoStepsKeep ==
  ASSUME HubInv,
         \/ get_info \/ ReadDeviceDescriptor \/ GetConfiguration \/ ParseConfiguration \/ Configured
         \/ get_hub_info \/ \E index \in DOMAIN configurations : set_configuration(index)
  PROVE  HubInv'
<1> USE DEF DeviceRests, At, GoTo, Transfer, memVars, OfPort
<1>1. CASE get_info
  BY <1>1, EarlyStepKeeps DEF get_info, new_get_device_descriptor, SetupPacket
<1>2. CASE ReadDeviceDescriptor
  BY <1>2, EarlyStepKeeps DEF ReadDeviceDescriptor
<1>3. CASE GetConfiguration
  <2>1. CASE step' = "configuration"
    BY <1>3, <2>1, EarlyStepKeeps, SMTT(30) DEF GetConfiguration, new_get_configuration_descriptor, SetupPacket
  <2>2. CASE step' = "has_info"
    BY <1>3, <2>2, EarlyStepKeeps, SMTT(30) DEF GetConfiguration
  <2> QED
    BY <1>3, <2>1, <2>2, SMTT(30) DEF GetConfiguration
<1>4. CASE ParseConfiguration
  BY <1>4, EarlyStepKeeps DEF ParseConfiguration
<1>5. CASE Configured
  BY <1>5, EarlyStepKeeps DEF Configured
<1>6. CASE get_hub_info
  BY <1>6, EarlyStepKeeps DEF get_hub_info, new_get_hub_descriptor, SetupPacket
<1>7. ASSUME NEW index \in DOMAIN configurations, set_configuration(index) PROVE HubInv'
  BY <1>7, EarlyStepKeeps DEF set_configuration, new_set_configuration, SetupPacket
<1> QED
  BY <1>1, <1>2, <1>3, <1>4, <1>5, <1>6, <1>7

\* The loop over the ports.
LEMMA ProbeKeeps ==
  ASSUME HubInv, ProbePorts
  PROVE  HubInv'
<1> USE DEF DeviceRests, At, GoTo, Transfer, memVars, hubVars, port_number, OfPort
<1>0. /\ device \in Devices /\ device.hub.ports \in Nat /\ device.hub.power_good \in Nat
      /\ ResetTime \in Nat /\ i \in Nat /\ delay \in Nat
  BY SetupAssumption, HubNumbers DEF HubInv, HubTypeOK
<1>1. CASE get_hub_info
  BY <1>1, InfoStepsKeep
<1>2. CASE ReadHubDescriptor
  <2> USE <1>2 DEF ReadHubDescriptor, infoVars
  <2>1. CASE step' = "panicked"
    BY <1>0, <2>1, EarlyStepKeeps DEF probeVars, HubInv
  <2>2. CASE step' = "ports"
    <3>1. HubTypeOK' /\ RequestInv' /\ PowerInv'
      BY <2>2 DEF HubInv, HubTypeOK, RequestInv, PowerInv
    <3>2. DescriptorInv'
      BY <2>2 DEF HubInv, DescriptorInv, Describes
    <3> QED
      BY <3>1, <3>2 DEF HubInv
  <2> QED
    BY <2>1, <2>2
<1>3. CASE PowerPort
  <2> USE <1>3 DEF PowerPort, probeVars
  <2>1. HubTypeOK'
    BY DEF HubInv, HubTypeOK
  <2>2. DescriptorInv'
    BY <1>0, SMTT(30) DEF HubInv, DescriptorInv, Describes
  <2>3. RequestInv'
    <3>1. CASE step' = "powered"
      BY <3>1 DEF RequestInv
    <3>2. CASE step' = "probed"
      <4>1. GoTo("probed")
        BY <3>2
      <4>2. ~in_flight'
        BY <4>1
      <4> QED
        BY <4>2 DEF RequestInv
    <3> QED
      BY <3>1, <3>2
  <2>4. PowerInv'
    BY DEF HubInv, PowerInv
  <2> QED
    BY <2>1, <2>2, <2>3, <2>4 DEF HubInv
<1>4. CASE Sleep("powered", "power_good", PowerDelay)
  <2> USE <1>4 DEF Sleep, PowerDelay
  <2>0. delay' = device.hub.power_good
    BY DEF HubInv, DescriptorInv, Describes
  <2>1. HubTypeOK'
    BY <1>0, <2>0 DEF HubInv, HubTypeOK
  <2>2. DescriptorInv'
    BY DEF HubInv, DescriptorInv, Describes
  <2>3. RequestInv'
    BY DEF RequestInv
  <2>4. PowerInv'
    BY <2>0 DEF HubInv, PowerInv
  <2> QED
    BY <2>1, <2>2, <2>3, <2>4 DEF HubInv
<1>5. CASE AskStatus("power_good", "status")
  <2> USE <1>5 DEF AskStatus, probeVars
  <2>1. HubTypeOK'
    BY DEF HubInv, HubTypeOK
  <2>2. DescriptorInv'
    BY DEF HubInv, DescriptorInv, Describes
  <2>3. RequestInv'
    BY DEF RequestInv
  <2>4. PowerInv'
    <3>1. port_number \in powered /\ good_in[port_number] \in Nat /\ good_in[port_number] <= 0
      BY DEF HubInv, PowerInv, HubTypeOK
    <3>2. PowerIsGood(port_number)'
      BY <3>1, SMTT(30) DEF PowerIsGood
    <3> QED
      BY <3>2 DEF HubInv, PowerInv
  <2> QED
    BY <2>1, <2>2, <2>3, <2>4 DEF HubInv
<1>6. CASE ReadStatus
  <2> USE <1>6 DEF ReadStatus, NextPort
  <2>1. HubTypeOK'
    BY <1>0, SMTT(30) DEF HubInv, HubTypeOK
  <2>2. DescriptorInv'
    BY DEF HubInv, DescriptorInv, Describes
  <2>3. RequestInv'
    <3>1. CASE step' = "reset"
      BY <3>1 DEF RequestInv
    <3>2. CASE step' # "reset"
      <4>1. UNCHANGED memVars
        BY <3>2
      <4>2. ~in_flight'
        BY <4>1
      <4> QED
        BY <4>2 DEF RequestInv
    <3> QED
      BY <3>1, <3>2
  <2>4. PowerInv'
    <3>1. PowerIsGood(port_number) /\ 1..i \subseteq powered
      BY DEF HubInv, PowerInv
    <3>2. 1..i' \subseteq powered
      BY <1>0, <3>1, SMTT(30) DEF PowerIsGood
    <3> QED
      BY <3>1, <3>2 DEF PowerInv, PowerIsGood
  <2> QED
    BY <2>1, <2>2, <2>3, <2>4 DEF HubInv
<1>7. CASE Sleep("reset", "reset_over", ResetTime)
  <2> USE <1>7 DEF Sleep
  <2>1. HubTypeOK'
    BY <1>0 DEF HubInv, HubTypeOK
  <2>2. DescriptorInv'
    BY DEF HubInv, DescriptorInv, Describes
  <2>3. RequestInv'
    BY DEF RequestInv
  <2>4. PowerInv'
    BY DEF HubInv, PowerInv, PowerIsGood
  <2> QED
    BY <2>1, <2>2, <2>3, <2>4 DEF HubInv
<1>8. CASE AskStatus("reset_over", "reset_status")
  <2> USE <1>8 DEF AskStatus, probeVars
  <2>1. HubTypeOK'
    BY DEF HubInv, HubTypeOK
  <2>2. DescriptorInv'
    BY DEF HubInv, DescriptorInv, Describes
  <2>3. RequestInv'
    BY DEF RequestInv
  <2>4. PowerInv'
    BY DEF HubInv, PowerInv, PowerIsGood
  <2> QED
    BY <2>1, <2>2, <2>3, <2>4 DEF HubInv
<1>9. CASE ReadResetStatus
  <2> USE <1>9 DEF ReadResetStatus, AfterReset, NextPort
  <2>1. HubTypeOK'
    BY <1>0, SMTT(30) DEF HubInv, HubTypeOK
  <2>2. DescriptorInv'
    BY DEF HubInv, DescriptorInv, Describes
  <2>3. RequestInv'
    BY DEF RequestInv
  <2>4. PowerInv'
    <3>1. PowerIsGood(port_number) /\ 1..i \subseteq powered
      BY DEF HubInv, PowerInv
    <3>2. 1..i' \subseteq powered
      BY <1>0, <3>1, SMTT(30) DEF PowerIsGood
    <3> QED
      BY <3>2 DEF PowerInv
  <2> QED
    BY <2>1, <2>2, <2>3, <2>4 DEF HubInv
<1> QED
  BY <1>1, <1>2, <1>3, <1>4, <1>5, <1>6, <1>7, <1>8, <1>9 DEF ProbePorts

\* The device answers the packet of the step: only the request for power
\* changes the power of a port, and it is that of the present one.
LEMMA AnswerKeeps ==
  ASSUME HubInv, DeviceAnswers
  PROVE  HubInv'
<1> USE DEF DeviceAnswers, infoVars, probeVars, hubVars, port_number, Asks, SetupPacket,
            GetStatus, SetFeature, GetDescriptor, SetConfiguration, PortPower, PortReset
<1>0. /\ device \in Devices /\ device.hub.ports \in Nat /\ device.hub.power_good \in Nat /\ i \in Nat
  BY SetupAssumption, HubNumbers DEF HubInv, HubTypeOK
<1>1. RequestInv'
  BY DEF RequestInv
<1>2. CASE setup.recipient = "Device"
  <2>1. UNCHANGED hubVars
    <3>1. ~AnswerPort
      BY <1>2 DEF AnswerPort
    <3> QED
      BY <3>1 DEF AnswerDescriptor, AnswerSetConfiguration
  <2>2. HubTypeOK'
    BY <2>1 DEF HubInv, HubTypeOK
  <2>3. step \in {"device_descriptor", "configuration", "set_configuration", "hub_descriptor"}
    BY <1>2, SMTT(30) DEF HubInv, RequestInv, new_set_feature_port_power, new_get_port_status,
                             new_set_feature_port_reset
  <2>4. PowerInv'
    BY <2>1, <2>3 DEF HubInv, PowerInv
  <2>5. ASSUME step = "hub_descriptor" PROVE Describes(buffer')
    <3>1. setup = new_get_hub_descriptor(HubFixedLen + RemovableLen)
      BY <2>5 DEF HubInv, DescriptorInv
    <3>2. buffer' = [kind |-> "hub", b_nbr_ports |-> device.hub.ports,
                     b_pwr_on_2_pwr_good |-> device.hub.power_good]
      BY <3>1 DEF new_get_hub_descriptor, AnswerDescriptor, AnswerSetConfiguration, AnswerPort, Answer,
                  HubType, DeviceType, ConfigurationType
    <3> QED
      BY <3>2 DEF Describes
  <2>6. DescriptorInv'
    BY <2>3, <2>5 DEF HubInv, DescriptorInv, Describes, OfPort
  <2> QED
    BY <1>1, <2>2, <2>4, <2>6 DEF HubInv
<1>3. CASE step = "powered" /\ setup = new_set_feature_port_power(port_number)
  <2>1. /\ port_number \in 1..device.hub.ports /\ powered' = powered \cup {port_number}
        /\ good_in' = [good_in EXCEPT ![port_number] = device.hub.power_good]
    BY <1>3, SMTT(30) DEF new_set_feature_port_power, AnswerDescriptor, AnswerSetConfiguration, AnswerPort
  <2>2. HubTypeOK'
    <3>1. powered' \subseteq 1..device.hub.ports /\ good_in' \in [1..device.hub.ports -> Nat]
      BY <1>0, <2>1 DEF HubInv, HubTypeOK
    <3> QED
      BY <3>1 DEF HubInv, HubTypeOK
  <2>3. DescriptorInv'
    BY <1>3 DEF HubInv, DescriptorInv, Describes, OfPort
  <2>4. PowerInv'
    BY <1>0, <1>3, <2>1, SMTT(30) DEF HubInv, HubTypeOK, PowerInv
  <2> QED
    BY <1>1, <2>2, <2>3, <2>4 DEF HubInv
<1>4. CASE \/ step \in {"status", "reset_status"} /\ setup = new_get_port_status(port_number)
           \/ step = "reset" /\ setup = new_set_feature_port_reset(port_number)
  <2>1. UNCHANGED <<powered, good_in>>
    <3>1. setup.recipient = "Other"
      BY <1>4, SMTT(30) DEF new_get_port_status, new_set_feature_port_reset
    <3>2. setup.w_value # <<PortPower, 0>>
      BY <1>4, SMTT(30) DEF new_get_port_status, new_set_feature_port_reset
    <3>3. AnswerPort
      BY <3>1 DEF AnswerDescriptor, AnswerSetConfiguration
    <3> QED
      BY <3>2, <3>3 DEF AnswerPort
  <2>2. HubTypeOK'
    BY <2>1 DEF HubInv, HubTypeOK
  <2>3. DescriptorInv'
    BY <1>4 DEF HubInv, DescriptorInv, Describes, OfPort
  <2>4. PowerInv'
    BY <1>4, <2>1 DEF HubInv, PowerInv, PowerIsGood
  <2> QED
    BY <1>1, <2>2, <2>3, <2>4 DEF HubInv
<1> QED
  BY <1>2, <1>3, <1>4 DEF HubInv, RequestInv

\* Time brings the end of the delay and good power equally near.
LEMMA TickKeeps ==
  ASSUME HubInv, Tick
  PROVE  HubInv'
<1> USE DEF Tick, memVars, port_number
<1>0. /\ delay \in Nat \ {0} /\ delay' = delay - 1 /\ good_in \in [1..device.hub.ports -> Nat]
      /\ powered \subseteq 1..device.hub.ports
  BY SMTT(30) DEF HubInv, HubTypeOK
<1>1. \A p \in powered : /\ good_in'[p] = IF good_in[p] = 0 THEN 0 ELSE good_in[p] - 1
                         /\ good_in[p] \in Nat /\ good_in'[p] \in Nat /\ good_in'[p] <= good_in[p]
  BY <1>0, SMTT(30)
<1>2. HubTypeOK'
  BY <1>0, SMTT(30) DEF HubInv, HubTypeOK
<1>3. DescriptorInv'
  BY DEF HubInv, DescriptorInv, Describes
<1>4. RequestInv'
  BY DEF HubInv, RequestInv
<1>5. PowerInv'
  <2>1. ASSUME step = "powered", ~in_flight
        PROVE  port_number \in powered /\ good_in'[port_number] <= device.hub.power_good
    <3>1. /\ port_number \in powered /\ device.hub.power_good \in Nat
          /\ good_in[port_number] <= device.hub.power_good
      BY <2>1, SetupAssumption DEF HubInv, PowerInv, HubTypeOK
    <3>2. /\ good_in[port_number] \in Nat /\ good_in'[port_number] \in Nat
          /\ good_in'[port_number] <= good_in[port_number]
      BY <1>1, <3>1
    <3> QED
      BY ONLY <3>1, <3>2, SMTT(30)
  <2>2. ASSUME step = "power_good" PROVE port_number \in powered /\ good_in'[port_number] <= delay'
    <3>1. port_number \in powered /\ good_in[port_number] <= delay
      BY <2>2 DEF HubInv, PowerInv
    <3>2. /\ good_in[port_number] \in Nat
          /\ good_in'[port_number] = IF good_in[port_number] = 0 THEN 0 ELSE good_in[port_number] - 1
      BY <1>1, <3>1
    <3> QED
      BY ONLY <1>0, <3>1, <3>2, SMTT(30)
  <2>3. ASSUME step \in {"status", "reset", "reset_over", "reset_status"} PROVE PowerIsGood(port_number)'
    <3>1. port_number \in powered /\ good_in[port_number] = 0
      BY <2>3 DEF HubInv, PowerInv, PowerIsGood
    <3> QED
      BY <1>1, <3>1 DEF PowerIsGood
  <2>4. 1..i \subseteq powered
    BY DEF HubInv, PowerInv
  <2> QED
    BY <2>1, <2>2, <2>3, <2>4 DEF PowerInv
<1> QED
  BY <1>2, <1>3, <1>4, <1>5 DEF HubInv

\* Only a transfer that is wiped out counts as such.
LEMMA WipedRests ==
  ASSUME [Next]_vars, ~TransferIsWiped
  PROVE  wiped' = wiped
<1> USE DEF DeviceRests
<1>1. CASE Driver
  BY <1>1 DEF Driver, get_info, ReadDeviceDescriptor, GetConfiguration, ParseConfiguration, Configured,
              ProbePorts, get_hub_info, ReadHubDescriptor, PowerPort, Sleep, AskStatus, ReadStatus,
              ReadResetStatus
<1>2. CASE \E index \in DOMAIN configurations : set_configuration(index)
  BY <1>2 DEF set_configuration
<1>3. CASE DeviceAnswers \/ TransferHangs \/ (\E p \in resetting : HubEnables(p)) \/ Tick \/ UNCHANGED vars
  BY <1>3 DEF DeviceAnswers, TransferHangs, HubEnables, Tick, vars
<1> QED
  BY <1>1, <1>2, <1>3 DEF Next

\* As long as no transfer is wiped out, the loop of Hub::get_info keeps its
\* invariant, with hubs of any number of ports that take any time to power them.
THEOREM HubInvariant == Spec => [](wiped \in Nat /\ (wiped = 0 => HubInv))
<1> DEFINE UnlessWiped == wiped \in Nat /\ (wiped = 0 => HubInv)
<1>1. Init => UnlessWiped
  <2> SUFFICES ASSUME Init PROVE wiped \in Nat /\ HubInv
    OBVIOUS
  <2>1. HubTypeOK
    BY DEF Init, HubTypeOK
  <2>2. DescriptorInv /\ RequestInv
    BY DEF Init, DescriptorInv, RequestInv, OfPort
  <2>3. PowerInv
    BY SMTT(30) DEF Init, PowerInv
  <2>4. wiped \in Nat
    BY SMTT(30) DEF Init
  <2> QED
    BY <2>1, <2>2, <2>3, <2>4 DEF HubInv
<1>2. ASSUME HubInv, [Next]_vars, ~TransferIsWiped PROVE HubInv'
  <2> USE <1>2
  <2>1. CASE ProbePorts
    BY <2>1, ProbeKeeps
  <2>2. CASE \/ get_info \/ ReadDeviceDescriptor \/ GetConfiguration \/ ParseConfiguration \/ Configured
             \/ \E index \in DOMAIN configurations : set_configuration(index)
    BY <2>2, InfoStepsKeep
  <2>3. CASE DeviceAnswers
    BY <2>3, AnswerKeeps
  <2>4. CASE (\E p \in resetting : HubEnables(p)) \/ UNCHANGED vars
    <3>1. UNCHANGED <<device, powered, good_in, step, setup, in_flight, buffer, probeVars>>
      BY <2>4 DEF HubEnables, vars, hubVars, memVars
    <3> QED
      BY <3>1 DEF HubInv, HubTypeOK, DescriptorInv, Describes, RequestInv, PowerInv, PowerIsGood,
                  port_number, probeVars
  <2>5. CASE Tick
    BY <2>5, TickKeeps
  <2>6. CASE TransferHangs
    BY <2>6, EarlyStepKeeps DEF TransferHangs, OfPort
  <2> QED
    BY <2>1, <2>2, <2>3, <2>4, <2>5, <2>6 DEF Next, Driver
<1>3. ASSUME wiped \in Nat, TransferIsWiped PROVE wiped' \in Nat /\ wiped' # 0
  BY <1>3, SMTT(30) DEF TransferIsWiped
<1>4. ASSUME [Next]_vars, ~TransferIsWiped PROVE wiped' = wiped
  BY <1>4, WipedRests
<1>5. UnlessWiped /\ [Next]_vars => UnlessWiped'
  BY <1>2, <1>3, <1>4
<1> QED
  BY <1>1, <1>5, PTL DEF Spec

\* Hub::get_info asks a port, and resets it, only when its power is good, and
\* returns when every port is powered, whatever the hub's times and ports, as
\* long as no transfer is wiped out.
THEOREM PortsHavePower == Spec => []PowerGoodFirst
<1>1. (wiped \in Nat /\ (wiped = 0 => HubInv)) => PowerGoodFirst
  <2> SUFFICES ASSUME HubInv PROVE PowerGoodFirst
    BY DEF PowerGoodFirst
  <2>1. ASSUME in_flight, setup.recipient = "Other", setup.w_value # <<PortPower, 0>>
        PROVE  PowerIsGood(setup.w_index)
    <3>1. \/ step \in {"status", "reset_status"} /\ setup = new_get_port_status(port_number)
          \/ step = "reset" /\ setup = new_set_feature_port_reset(port_number)
      BY <2>1, SMTT(30) DEF HubInv, RequestInv, new_set_feature_port_power, SetupPacket
    <3>2. setup.w_index = port_number /\ PowerIsGood(port_number)
      BY <3>1, SMTT(30) DEF HubInv, PowerInv, new_get_port_status, new_set_feature_port_reset, SetupPacket
    <3> QED
      BY <3>2
  <2>2. ASSUME step = "probed" PROVE powered = 1..device.hub.ports
    <3>1. /\ device.hub.ports \in Nat /\ i \in Nat /\ i >= device.hub.ports
          /\ 1..i \subseteq powered /\ powered \subseteq 1..device.hub.ports
      BY <2>2, HubNumbers DEF HubInv, HubTypeOK, DescriptorInv, PowerInv
    <3>2. 1..device.hub.ports \subseteq 1..i
      BY <3>1, SMTT(30)
    <3> QED
      BY <3>1, <3>2
  <2> QED
    BY <2>1, <2>2 DEF PowerGoodFirst
<1> QED
  BY <1>1, HubInvariant, PTL

-----------------------------------------------------------------------------
\* What InterfaceInfo keeps of an interface, of the first k interfaces of t, and
\* what ConfigurationInfo keeps of a configuration: as many interfaces as its
\* header counts.
InterfaceInfos == [alternate : BOOLEAN, endpoints : Seq(TransferTypes)]
Infos(t, k) == [x \in 1..k |-> [alternate |-> t[x].alternate, endpoints |-> t[x].endpoints]]
ReadOf(c) == [number |-> c.number, interfaces |-> Infos(c.interfaces, NumInterfaces(c))]

\* What a buffer b holds of c's descriptor when it has room for n descriptors,
\* and how many the driver's buffer has room for.
Holds(b, c, n) ==
  /\ b.b_configuration_value = c.number /\ b.b_num_interfaces = NumInterfaces(c)
  /\ b.rest = SubSeq(Flatten(c).rest, 1, n)
AtMost(n, max) == IF n < max THEN n ELSE max
Room(c) == AtMost(Len(Flatten(c).rest), MaxDescriptors)

\* What the transfers need of the descriptors.  b_num_interfaces counts some of
\* the interfaces: all of them when there are no alternate settings, and one at
\* least when the first is none.  from_descriptor keeps what the descriptor
\* means, whatever was not in the buffer, and returns when all of it is.
CountsInterfaces(c) ==
  /\ NumInterfaces(c) \in 0..Len(c.interfaces)
  /\ NumInterfaces(c) # Len(c.interfaces) => \E k \in DOMAIN c.interfaces : c.interfaces[k].alternate
  /\ c.interfaces # <<>> /\ ~c.interfaces[1].alternate => NumInterfaces(c) # 0
ReadsBack(c) ==
  /\ Len(Flatten(c).rest) \in Nat
  /\ \A n \in 0..Len(Flatten(c).rest) : \A b : Holds(b, c, n) =>
       /\ ~ParsePanics(b) => from_descriptor(b) = ReadOf(c)
       /\ n = Len(Flatten(c).rest) => ~ParsePanics(b)
DescriptorFacts == \A c \in ConfigurationTrees : CountsInterfaces(c) /\ ReadsBack(c)

\* The device's and the hub's descriptor, as the buffer holds them.
DescriptorOfDevice ==
  [kind |-> "device", device_class |-> device.class, b_num_configurations |-> Len(device.configurations)]
DescriptorOfHub ==
  [kind |-> "hub", b_nbr_ports |-> device.hub.ports, b_pwr_on_2_pwr_good |-> device.hub.power_good]

\* The driver's places: with a hub, with a configured device, with the whole of
\* DeviceInfo, and with the device descriptor.
OnHub == {"hub", "hub_descriptor", "ports", "powered", "power_good", "status", "reset", "reset_over",
          "reset_status", "probed"}
Settled == {"configured"} \cup OnHub
AllRead == {"has_info", "set_configuration"} \cup Settled
Described == {"configurations", "configuration"} \cup AllRead

\* What has been read stays, whatever the buffer is used for afterwards: the
\* configurations so far are the first ones of the device.
KeptInv ==
  /\ device \in Devices
  /\ step \in Described => device_descriptor = DescriptorOfDevice
  /\ Len(configurations) \in 0..Len(device.configurations)
  /\ configurations = [k \in 1..Len(configurations) |-> ReadOf(device.configurations[k])]
  /\ step \in AllRead => Len(configurations) = Len(device.configurations)

\* The configuration that get_info has come to.
Asked == device.configurations[Len(configurations) + 1]

\* The transfers of get_info, and what the buffer holds when they have ended.
ReadingInv ==
  /\ step = "device_descriptor" =>
       /\ setup = new_get_device_descriptor(18)
       /\ ~in_flight => buffer = DescriptorOfDevice /\ bytes = AtMost(device.len, 18)
  /\ step = "configuration" =>
       /\ Len(configurations) < Len(device.configurations)
       /\ setup = new_get_configuration_descriptor(MAX_CONFIGURATION_DESCRIPTOR_LEN, Len(configurations))
       /\ ~in_flight /\ bytes = 0 => wiped # 0
       /\ ~in_flight /\ bytes # 0 => Holds(buffer, Asked, Room(Asked))

\* The configuration that was chosen, once the device is in it, is the one it
\* stays in: no later transfer is a SET_CONFIGURATION.
ChosenInv ==
  /\ step = "set_configuration" =>
       /\ chosen \in DOMAIN configurations
       /\ setup = new_set_configuration(ConfigurationNumber(chosen))
       /\ ~in_flight /\ wiped = 0 => active = ConfigurationNumber(chosen)
  /\ step \in Settled =>
       /\ chosen \in DOMAIN configurations
       /\ wiped = 0 => active = ConfigurationNumber(chosen)
       /\ announced = [k \in DOMAIN configurations[chosen].interfaces |->
                         InterruptEndpoints(configurations[chosen].interfaces[k])]
       /\ in_flight => setup.b_request # SetConfiguration

\* The answers of a hub that the driver's assertions are about.
HubAnswersInv ==
  /\ step \in OnHub => device.class = 9
  /\ step = "hub_descriptor" =>
       /\ setup = new_get_hub_descriptor(HubFixedLen + RemovableLen)
       /\ ~in_flight /\ wiped = 0 =>
            buffer = DescriptorOfHub /\ bytes = AtMost(device.hub.len, HubFixedLen + RemovableLen)
  /\ step \in {"status", "reset_status"} =>
       /\ setup = new_get_port_status(port_number)
       /\ ~in_flight /\ wiped = 0 => buffer.kind = "status" /\ bytes = 4

\* With a device that conforms, and no transfer wiped out, the driver has stopped
\* only at the todo!() for a device behind a hub: no slice, unwrap or assertion
\* before it has failed.
StopsOnlyAtTodo == step = "panicked" => ~in_flight /\ (Conforming /\ wiped = 0 => DeviceBehindHub)

SetupInv == KeptInv /\ ReadingInv /\ ChosenInv /\ HubAnswersInv /\ StopsOnlyAtTodo

-----------------------------------------------------------------------------
\* What a sequence is.
LEMMA SeqLength ==
  ASSUME NEW S, NEW s \in Seq(S)
  PROVE  Len(s) \in Nat /\ DOMAIN s = 1..Len(s) /\ s \in [1..Len(s) -> S]
BY SMTT(30)

\* Its members.
LEMMA SeqMember ==
  ASSUME NEW S, NEW s \in Seq(S), NEW k \in 1..Len(s)
  PROVE  s[k] \in S
BY SMTT(30)

\* The sequence without any.
LEMMA NoElements ==
  ASSUME NEW S
  PROVE  <<>> \in Seq(S) /\ Len(<<>>) = 0
BY SMTT(30)

\* Sequences of one length are equal when their members are.
LEMMA SameElements ==
  ASSUME NEW S, NEW r \in Seq(S), NEW s \in Seq(S), Len(r) = Len(s), \A k \in 1..Len(r) : r[k] = s[k]
  PROVE  r = s
BY SMTT(30)

\* What is before and after the seam of two sequences.
LEMMA Concatenation ==
  ASSUME NEW S, NEW r \in Seq(S), NEW s \in Seq(S)
  PROVE  /\ r \o s \in Seq(S) /\ Len(r \o s) = Len(r) + Len(s)
         /\ \A k \in 1..(Len(r) + Len(s)) : (r \o s)[k] = IF k <= Len(r) THEN r[k] ELSE s[k - Len(r)]
BY SMTT(30)

\* A sequence with one member more.
LEMMA Appending ==
  ASSUME NEW S, NEW s \in Seq(S), NEW e \in S
  PROVE  /\ Append(s, e) \in Seq(S) /\ Len(Append(s, e)) = Len(s) + 1
         /\ Append(s, e)[Len(s) + 1] = e /\ \A k \in 1..Len(s) : Append(s, e)[k] = s[k]
BY SMTT(30)

\* The beginnings of a sequence: none of it.
LEMMA SubSeqOfNone ==
  ASSUME NEW s
  PROVE  SubSeq(s, 1, 0) = <<>>
BY SMTT(30)

\* All of it.
LEMMA SubSeqOfAll ==
  ASSUME NEW S, NEW s \in Seq(S)
  PROVE  SubSeq(s, 1, Len(s)) = s
BY SMTT(30)

\* One member more.
LEMMA SubSeqGrows ==
  ASSUME NEW S, NEW s \in Seq(S), NEW n \in 0..(Len(s) - 1)
  PROVE  Append(SubSeq(s, 1, n), s[n + 1]) = SubSeq(s, 1, n + 1)
<1>1. /\ SubSeq(s, 1, n) \in Seq(S) /\ Len(SubSeq(s, 1, n)) = n
      /\ \A k \in 1..n : SubSeq(s, 1, n)[k] = s[k]
  BY SMTT(30)
<1>2. /\ SubSeq(s, 1, n + 1) \in Seq(S) /\ Len(SubSeq(s, 1, n + 1)) = n + 1
      /\ \A k \in 1..(n + 1) : SubSeq(s, 1, n + 1)[k] = s[k]
  BY SMTT(30)
<1> QED
  BY <1>1, <1>2, SMTT(30)

\* What is kept of k interfaces has k members.
LEMMA InfosType ==
  ASSUME NEW t \in Seq(InterfaceTrees), NEW k \in 0..Len(t)
  PROVE  Infos(t, k) \in Seq(InterfaceInfos) /\ Len(Infos(t, k)) = k
<1>1. k \in Nat /\ \A x \in 1..k : t[x] \in InterfaceTrees
  BY SMTT(30)
<1>2. \A x \in 1..k : [alternate |-> t[x].alternate, endpoints |-> t[x].endpoints] \in InterfaceInfos
  BY <1>1, SMTT(30) DEF InterfaceTrees, InterfaceInfos
<1> QED
  BY <1>1, <1>2, SMTT(30) DEF Infos

-----------------------------------------------------------------------------
\* Steps of a driver that has the configurations it had: what they keep.
LEMMA KeptByStep ==
  ASSUME SetupInv, UNCHANGED <<device, device_descriptor, configurations>>,
         step' \in Described => step \in Described, step' \in AllRead => step \in AllRead
  PROVE  KeptInv'
BY DEF SetupInv, KeptInv, DescriptorOfDevice

\* Steps of a driver that leave the choice and the device's configuration.
LEMMA ChosenByStep ==
  ASSUME SetupInv, UNCHANGED <<active, wiped, configurations, chosen, announced>>, step' # "set_configuration",
         step' \in Settled => step \in Settled, in_flight' => setup'.b_request # SetConfiguration
  PROVE  ChosenInv'
<1>1. UNCHANGED ConfigurationNumber(chosen)
  BY DEF ConfigurationNumber
<1> QED
  BY <1>1 DEF SetupInv, ChosenInv

\* get_info up to the loop over the configurations, and the loop's head.
LEMMA BeginKeeps ==
  ASSUME SetupInv, get_info \/ ReadDeviceDescriptor \/ GetConfiguration
  PROVE  SetupInv'
<1> USE DEF At, GoTo, Transfer, memVars, infoVars, probeVars, DeviceRests
<1>1. CASE get_info
  <2> USE <1>1 DEF get_info
  <2>1. step' = "device_descriptor" /\ step' \notin Described /\ step' \notin AllRead /\ step' \notin Settled
        /\ step' \notin OnHub
    BY DEF Described, AllRead, Settled, OnHub
  <2>2. KeptInv'
    BY <2>1, KeptByStep
  <2>3. ReadingInv'
    BY <2>1 DEF ReadingInv
  <2>4. ChosenInv' /\ HubAnswersInv' /\ StopsOnlyAtTodo'
    BY <2>1 DEF ChosenInv, HubAnswersInv, StopsOnlyAtTodo
  <2> QED
    BY <2>2, <2>3, <2>4 DEF SetupInv
<1>2. CASE ReadDeviceDescriptor
  <2> USE <1>2 DEF ReadDeviceDescriptor
  <2>1. buffer = DescriptorOfDevice /\ bytes = AtMost(device.len, 18)
    BY DEF SetupInv, ReadingInv
  <2>2. CASE bytes = 18
    <3>1. step' = "configurations" /\ step' \notin AllRead /\ step' \notin Settled /\ step' \notin OnHub
      BY <2>2 DEF AllRead, Settled, OnHub
    <3>2. device_descriptor' = DescriptorOfDevice'
      BY <2>1, <2>2 DEF DescriptorOfDevice
    <3>3. KeptInv'
      BY <3>1, <3>2 DEF SetupInv, KeptInv
    <3>4. ReadingInv' /\ ChosenInv' /\ HubAnswersInv' /\ StopsOnlyAtTodo'
      BY <3>1 DEF ReadingInv, ChosenInv, HubAnswersInv, StopsOnlyAtTodo
    <3> QED
      BY <3>3, <3>4 DEF SetupInv
  <2>3. CASE bytes # 18
    <3>1. /\ step' = "panicked" /\ step' \notin Described /\ step' \notin AllRead /\ step' \notin Settled
          /\ step' \notin OnHub /\ ~in_flight' /\ UNCHANGED <<device, device_descriptor, configurations>>
      BY <2>3 DEF Described, AllRead, Settled, OnHub
    <3>2. device.len # 18
      BY <2>1, <2>3 DEF AtMost
    <3>3. ~Conforming'
      BY <3>1, <3>2 DEF Conforming
    <3>4. KeptInv'
      BY <3>1, KeptByStep
    <3>5. ReadingInv' /\ ChosenInv' /\ HubAnswersInv' /\ StopsOnlyAtTodo'
      BY <3>1, <3>3 DEF ReadingInv, ChosenInv, HubAnswersInv, StopsOnlyAtTodo
    <3> QED
      BY <3>4, <3>5 DEF SetupInv
  <2> QED
    BY <2>2, <2>3
<1>3. CASE GetConfiguration
  <2> USE <1>3 DEF GetConfiguration
  <2> DEFINE n == Len(configurations)
             all == Len(device.configurations)
  <2>1. NumConfigurations = all
    <3>1. step \in Described
      BY DEF Described
    <3>2. device_descriptor = DescriptorOfDevice
      BY <3>1 DEF SetupInv, KeptInv
    <3> QED
      BY <3>2 DEF NumConfigurations, DescriptorOfDevice
  <2>2. n \in 0..all
    BY DEF SetupInv, KeptInv
  <2>3. CASE n < all
    <3>1. Transfer(new_get_configuration_descriptor(MAX_CONFIGURATION_DESCRIPTOR_LEN, n), "configuration")
      BY <2>1, <2>3
    <3>2. /\ step' = "configuration" /\ step' \notin AllRead /\ step' \notin Settled /\ step' \notin OnHub
          /\ step \in Described /\ in_flight' /\ setup' = new_get_configuration_descriptor(MAX_CONFIGURATION_DESCRIPTOR_LEN, n)
      BY <3>1 DEF Described, AllRead, Settled, OnHub
    <3>3. KeptInv'
      BY <3>2, KeptByStep
    <3>4. ReadingInv'
      BY <2>3, <3>2, SMTT(30) DEF ReadingInv
    <3>5. ChosenInv' /\ HubAnswersInv' /\ StopsOnlyAtTodo'
      BY <3>2 DEF ChosenInv, HubAnswersInv, StopsOnlyAtTodo
    <3> QED
      BY <3>3, <3>4, <3>5 DEF SetupInv
  <2>4. CASE ~(n < all)
    <3>0. GoTo("has_info")
      BY <2>1, <2>4, SMTT(30)
    <3>1. step' = "has_info" /\ step' \notin Settled /\ step' \notin OnHub /\ step \in Described
      BY <3>0 DEF Described, Settled, OnHub
    <3>2. n = all
      <4>1. all \in Nat
        BY SetupAssumption, SMTT(30) DEF SetupInv, KeptInv
      <4> HIDE DEF n, all
      <4> QED
        BY <2>2, <2>4, <4>1, SMTT(30)
    <3>3. KeptInv'
      BY <3>1, <3>2 DEF SetupInv, KeptInv, DescriptorOfDevice
    <3>4. ReadingInv' /\ ChosenInv' /\ HubAnswersInv' /\ StopsOnlyAtTodo'
      BY <3>1 DEF ReadingInv, ChosenInv, HubAnswersInv, StopsOnlyAtTodo
    <3> QED
      BY <3>3, <3>4 DEF SetupInv
  <2> QED
    BY <2>3, <2>4
<1> QED
  BY <1>1, <1>2, <1>3

\* set_configuration.
LEMMA ChooseKeeps ==
  ASSUME SetupInv, NEW index \in DOMAIN configurations, set_configuration(index)
  PROVE  SetupInv'
<1> USE DEF At, GoTo, Transfer, memVars, infoVars, probeVars, DeviceRests, set_configuration
<1>1. step' = "set_configuration" /\ step \in Described /\ step \in AllRead /\ step' \notin Settled
      /\ step' \notin OnHub /\ in_flight' /\ UNCHANGED configurations /\ chosen' = index
  BY DEF Described, AllRead, Settled, OnHub
<1>2. KeptInv'
  BY <1>1, KeptByStep
<1>3. ChosenInv'
  <2>1. setup' = new_set_configuration(ConfigurationNumber(chosen))'
    BY <1>1 DEF ConfigurationNumber
  <2> QED
    BY <1>1, <2>1 DEF ChosenInv
<1>4. ReadingInv' /\ HubAnswersInv' /\ StopsOnlyAtTodo'
  BY <1>1 DEF ReadingInv, HubAnswersInv, StopsOnlyAtTodo
<1> QED
  BY <1>2, <1>3, <1>4 DEF SetupInv

\* A hub's descriptor is long enough, up to 255 ports, unless it does not conform.
LEMMA HubDescriptorFits ==
  ASSUME NEW ports \in 0..255, NEW len \in Nat, len >= HubFixedLen + 1 + ports \div 8
  PROVE  LET bytesRead == AtMost(len, HubFixedLen + RemovableLen)
         IN  ~(bytesRead < HubFixedLen) /\ ~HubFromBytesPanics(ports, bytesRead)
BY SMTT(30) DEF AtMost, HubFixedLen, RemovableLen, HubFromBytesPanics, BytesToCopy

\* Hub::get_info's steps stay with the device and its configuration.
LEMMA HubStep ==
  ASSUME SetupInv, DeviceRests, UNCHANGED infoVars, step \in OnHub, step' \in OnHub \cup {"panicked"},
         in_flight' => setup'.b_request # SetConfiguration
  PROVE  KeptInv' /\ ReadingInv' /\ ChosenInv' /\ device.class = 9 /\ UNCHANGED device
<1> USE DEF infoVars, DeviceRests
<1>1. /\ step \in Described /\ step \in AllRead /\ step \in Settled /\ step' # "device_descriptor"
      /\ step' # "configuration" /\ step' # "set_configuration"
  BY DEF Described, AllRead, Settled, OnHub
<1>2. KeptInv'
  BY <1>1, KeptByStep
<1>3. ReadingInv'
  BY <1>1 DEF ReadingInv
<1>4. ChosenInv'
  BY <1>1, ChosenByStep
<1> QED
  BY <1>2, <1>3, <1>4 DEF SetupInv, HubAnswersInv

\* The loop over a hub's ports overwrites the buffer and nothing else.
LEMMA ProbeKeepsInfo ==
  ASSUME SetupInv, ProbePorts
  PROVE  SetupInv'
<1> USE DEF At, GoTo, Transfer, memVars, probeVars, GetStatus, SetFeature, GetDescriptor, SetConfiguration,
            SetupPacket
<1>1. CASE get_hub_info
  <2> USE <1>1 DEF get_hub_info
  <2>1. step \in OnHub /\ step' = "hub_descriptor" /\ in_flight' /\ DeviceRests /\ UNCHANGED infoVars
        /\ setup' = new_get_hub_descriptor(HubFixedLen + RemovableLen)
    BY DEF OnHub
  <2>2. setup'.b_request # SetConfiguration
    BY <2>1, SMTT(30) DEF new_get_hub_descriptor
  <2>3. KeptInv' /\ ReadingInv' /\ ChosenInv' /\ device.class = 9 /\ UNCHANGED device
    BY <2>1, <2>2, HubStep DEF OnHub
  <2>4. HubAnswersInv' /\ StopsOnlyAtTodo'
    BY <2>1, <2>3 DEF HubAnswersInv, StopsOnlyAtTodo
  <2> QED
    BY <2>3, <2>4 DEF SetupInv
<1>2. CASE ReadHubDescriptor
  <2> USE <1>2 DEF ReadHubDescriptor
  <2>1. /\ step = "hub_descriptor" /\ step \in OnHub /\ step' \in {"ports", "panicked"} /\ ~in_flight'
        /\ DeviceRests /\ UNCHANGED infoVars
    BY DEF OnHub
  <2>2. KeptInv' /\ ReadingInv' /\ ChosenInv' /\ device.class = 9 /\ UNCHANGED device
    BY <2>1, HubStep DEF OnHub
  <2>3. HubAnswersInv'
    BY <2>1, <2>2 DEF HubAnswersInv
  <2>4. ASSUME step' = "panicked", wiped = 0 PROVE ~Conforming
    <3>1. /\ buffer = DescriptorOfHub /\ bytes = AtMost(device.hub.len, HubFixedLen + RemovableLen)
          /\ device \in Devices
      BY <2>1, <2>4 DEF SetupInv, HubAnswersInv, KeptInv
    <3>2. buffer.b_nbr_ports = device.hub.ports
      BY <3>1 DEF DescriptorOfHub
    <3>3. bytes < HubFixedLen \/ HubFromBytesPanics(device.hub.ports, bytes)
      BY <2>4, <3>2
    <3>4. device.hub.ports \in 0..255 /\ device.hub.len \in Nat
      BY <3>1, SetupAssumption
    <3>5. ~(device.hub.len >= HubFixedLen + 1 + device.hub.ports \div 8)
      BY <3>1, <3>3, <3>4, HubDescriptorFits
    <3> QED
      BY <2>2, <3>5 DEF Conforming
  <2>5. StopsOnlyAtTodo'
    <3>1. step' = "panicked" /\ wiped' = 0 => ~Conforming'
      BY <2>1, <2>2, <2>4 DEF Conforming, DeviceRests
    <3> QED
      BY <2>1, <3>1 DEF StopsOnlyAtTodo
  <2> QED
    BY <2>2, <2>3, <2>5 DEF SetupInv
<1>3. CASE PowerPort \/ Sleep("powered", "power_good", PowerDelay) \/ Sleep("reset", "reset_over", ResetTime)
  <2> USE <1>3 DEF PowerPort, Sleep
  <2>1. /\ step \in OnHub /\ step' \in {"powered", "probed", "power_good", "reset_over"}
        /\ DeviceRests /\ UNCHANGED infoVars
    BY DEF OnHub
  <2>2. in_flight' => setup' = new_set_feature_port_power(port_number)
    OBVIOUS
  <2>3. in_flight' => setup'.b_request # SetConfiguration
    BY <2>2, SMTT(30) DEF new_set_feature_port_power
  <2>4. KeptInv' /\ ReadingInv' /\ ChosenInv' /\ device.class = 9 /\ UNCHANGED device
    BY <2>1, <2>3, HubStep DEF OnHub
  <2>5. HubAnswersInv' /\ StopsOnlyAtTodo'
    BY <2>1, <2>4 DEF HubAnswersInv, StopsOnlyAtTodo
  <2> QED
    BY <2>4, <2>5 DEF SetupInv
<1>4. CASE AskStatus("power_good", "status") \/ AskStatus("reset_over", "reset_status")
  <2> USE <1>4 DEF AskStatus
  <2>1. /\ step \in OnHub /\ step' \in {"status", "reset_status"} /\ in_flight'
        /\ DeviceRests /\ UNCHANGED infoVars /\ setup' = new_get_port_status(port_number) /\ i' = i
    BY DEF OnHub
  <2>2. setup'.b_request # SetConfiguration
    BY <2>1, SMTT(30) DEF new_get_port_status
  <2>3. KeptInv' /\ ReadingInv' /\ ChosenInv' /\ device.class = 9 /\ UNCHANGED device
    BY <2>1, <2>2, HubStep DEF OnHub
  <2>4. setup' = new_get_port_status(port_number)'
    BY <2>1 DEF port_number
  <2>5. HubAnswersInv' /\ StopsOnlyAtTodo'
    BY <2>1, <2>3, <2>4 DEF HubAnswersInv, StopsOnlyAtTodo
  <2> QED
    BY <2>3, <2>5 DEF SetupInv
<1>5. CASE ReadStatus \/ ReadResetStatus
  <2> USE <1>5 DEF ReadStatus, ReadResetStatus, AfterReset
  <2>1. step \in {"status", "reset_status"} /\ step \in OnHub /\ ~in_flight /\ DeviceRests /\ UNCHANGED infoVars
    BY DEF OnHub
  <2>2. wiped = 0 => buffer.kind = "status" /\ bytes = 4
    BY <2>1 DEF SetupInv, HubAnswersInv
  <2>3. /\ step' \in {"reset", "ports", "panicked"}
        /\ in_flight' => setup' = new_set_feature_port_reset(port_number)
    BY <2>1, SMTT(30)
  <2>4. in_flight' => setup'.b_request # SetConfiguration
    BY <2>3, SMTT(30) DEF new_set_feature_port_reset
  <2>5. KeptInv' /\ ReadingInv' /\ ChosenInv' /\ device.class = 9 /\ UNCHANGED device
    BY <2>1, <2>3, <2>4, HubStep DEF OnHub
  <2>6. step' = "panicked" => ~in_flight' /\ (wiped' = 0 => DeviceBehindHub')
    BY <2>1, <2>2 DEF DeviceBehindHub, DeviceRests
  <2>7. HubAnswersInv' /\ StopsOnlyAtTodo'
    BY <2>3, <2>5, <2>6 DEF HubAnswersInv, StopsOnlyAtTodo
  <2> QED
    BY <2>5, <2>7 DEF SetupInv
<1> QED
  BY <1>1, <1>2, <1>3, <1>4, <1>5 DEF ProbePorts

\* The configuration that get_info has come to is one of the device's, and as
\* many of its descriptors as the buffer holds are all of them, if they fit.
LEMMA AskedIsConfiguration ==
  ASSUME DescriptorFacts, KeptInv, Len(configurations) < Len(device.configurations)
  PROVE  /\ Asked \in ConfigurationTrees
         /\ Len(Flatten(Asked).rest) \in Nat /\ Room(Asked) \in 0..Len(Flatten(Asked).rest) /\ Room(Asked) \in Nat
         /\ Len(Flatten(Asked).rest) <= MaxDescriptors => Room(Asked) = Len(Flatten(Asked).rest)
<1> DEFINE n == Len(configurations)
           m == Len(device.configurations)
<1>1. device.configurations \in Seq(ConfigurationTrees) /\ MaxDescriptors \in Nat
  BY SetupAssumption DEF KeptInv
<1>2. m \in Nat
  BY <1>1, SeqLength
<1>3. n \in 0..m /\ n < m
  BY DEF KeptInv
<1>4. n + 1 \in 1..m
  <2> HIDE DEF n, m
  <2> QED
    BY <1>2, <1>3, SMTT(30)
<1>5. Asked \in ConfigurationTrees
  BY <1>1, <1>4, SeqMember DEF Asked
<1>6. Len(Flatten(Asked).rest) \in Nat
  BY <1>5 DEF DescriptorFacts, ReadsBack
<1> QED
  BY <1>1, <1>5, <1>6, SMTT(30) DEF Room, AtMost

\* The device answers the packet of the step: its descriptors go into the
\* buffer, and only a SET_CONFIGURATION changes its configuration.
LEMMA AnswerKeepsInfo ==
  ASSUME DescriptorFacts, SetupInv, DeviceAnswers
  PROVE  SetupInv'
<1> USE DEF DeviceAnswers, infoVars, probeVars, Asks, SetupPacket, GetStatus, SetFeature, GetDescriptor,
            SetConfiguration
<1>1. /\ in_flight /\ UNCHANGED <<device, step, setup, wiped, device_descriptor, configurations, chosen, announced, i>>
      /\ AnswerDescriptor \/ AnswerSetConfiguration \/ AnswerPort
  OBVIOUS
<1>2. KeptInv'
  BY <1>1, KeptByStep
<1>3. ASSUME step = "device_descriptor"
      PROVE  buffer' = DescriptorOfDevice /\ bytes' = AtMost(device.len, 18)
  <2>1. setup = new_get_device_descriptor(18)
    BY <1>3 DEF SetupInv, ReadingInv
  <2>2. /\ setup.direction = "In" /\ setup.recipient = "Device" /\ setup.request_type = "Standard"
        /\ setup.w_value[2] = 1 /\ setup.w_length = 18 /\ setup.w_value # <<0, HubType>>
    BY <2>1, SMTT(30) DEF new_get_device_descriptor, DeviceType, HubType
  <2>3. ~AnswerSetConfiguration /\ ~AnswerPort
    BY <2>2, SMTT(30) DEF AnswerSetConfiguration, AnswerPort
  <2>4. AnswerDescriptor
    BY <1>1, <2>3
  <2> QED
    BY <2>2, <2>4, SMTT(30) DEF AnswerDescriptor, Answer, ConfigurationType, AtMost, DescriptorOfDevice
<1>4. ASSUME step = "configuration" PROVE Holds(buffer', Asked, Room(Asked)) /\ bytes' # 0
  <2> DEFINE n == Len(configurations)
  <2>1. setup = new_get_configuration_descriptor(MAX_CONFIGURATION_DESCRIPTOR_LEN, n) /\ Asked = device.configurations[n + 1]
    BY <1>4 DEF SetupInv, ReadingInv, Asked
  <2>2. /\ setup.direction = "In" /\ setup.recipient = "Device" /\ setup.request_type = "Standard"
        /\ setup.w_value[2] = ConfigurationType /\ setup.w_value[1] = n
        /\ setup.w_value # <<0, HubType>> /\ setup.w_value # <<0, DeviceType>>
    BY <2>1, SMTT(30) DEF new_get_configuration_descriptor, DeviceType, HubType, ConfigurationType
  <2>3. ~AnswerSetConfiguration /\ ~AnswerPort
    BY <2>2, SMTT(30) DEF AnswerSetConfiguration, AnswerPort
  <2>4. AnswerDescriptor
    BY <1>1, <2>3
  <2> HIDE DEF n
  <2>5. buffer' = [kind |-> "configuration", b_configuration_value |-> Flatten(Asked).b_configuration_value,
                   b_num_interfaces |-> Flatten(Asked).b_num_interfaces,
                   rest |-> SubSeq(Flatten(Asked).rest, 1, Room(Asked))]
    BY <2>1, <2>2, <2>4 DEF AnswerDescriptor, Answer, Room, AtMost
  <2>6. Flatten(Asked).b_configuration_value = Asked.number /\ Flatten(Asked).b_num_interfaces = NumInterfaces(Asked)
    BY DEF Flatten
  <2>7. bytes' = AtMost(1 + Room(Asked), MAX_CONFIGURATION_DESCRIPTOR_LEN)
    <3>1. setup.w_length = MAX_CONFIGURATION_DESCRIPTOR_LEN
      BY <2>1, SMTT(30) DEF new_get_configuration_descriptor
    <3> QED
      BY <2>1, <2>2, <2>4, <3>1 DEF AnswerDescriptor, Answer, Room, AtMost
  <2>8. bytes' # 0
    <3>1. Room(Asked) \in Nat
      BY <1>4, AskedIsConfiguration DEF SetupInv, ReadingInv
    <3> QED
      BY <2>7, <3>1, SMTT(30) DEF AtMost, MAX_CONFIGURATION_DESCRIPTOR_LEN
  <2> QED
    BY <2>5, <2>6, <2>8 DEF Holds
<1>5. ReadingInv'
  <2>1. UNCHANGED <<DescriptorOfDevice, Asked>>
    BY <1>1 DEF DescriptorOfDevice, Asked
  <2> QED
    BY <1>1, <1>3, <1>4, <2>1 DEF SetupInv, ReadingInv
<1>6. ChosenInv'
  <2>1. UNCHANGED ConfigurationNumber(chosen)
    BY <1>1 DEF ConfigurationNumber
  <2>2. ASSUME step = "set_configuration" PROVE active' = ConfigurationNumber(chosen)
    <3>1. setup = new_set_configuration(ConfigurationNumber(chosen))
      BY <2>2 DEF SetupInv, ChosenInv
    <3>2. setup.recipient = "Device" /\ setup.direction = "Out" /\ setup.w_value[1] = ConfigurationNumber(chosen)
      BY <3>1, SMTT(30) DEF new_set_configuration
    <3>3. ~AnswerDescriptor /\ ~AnswerPort
      BY <3>2, SMTT(30) DEF AnswerDescriptor, AnswerPort
    <3> QED
      BY <1>1, <3>2, <3>3 DEF AnswerSetConfiguration
  <2>3. ASSUME step \in Settled PROVE active' = active
    <3>1. setup.b_request # SetConfiguration
      BY <1>1, <2>3 DEF SetupInv, ChosenInv
    <3> QED
      BY <1>1, <3>1 DEF AnswerDescriptor, AnswerSetConfiguration, AnswerPort
  <2> QED
    BY <1>1, <2>1, <2>2, <2>3 DEF SetupInv, ChosenInv
<1>7. HubAnswersInv'
  <2>1. ASSUME step = "hub_descriptor"
        PROVE  buffer' = DescriptorOfHub /\ bytes' = AtMost(device.hub.len, HubFixedLen + RemovableLen)
    <3>1. setup = new_get_hub_descriptor(HubFixedLen + RemovableLen)
      BY <2>1 DEF SetupInv, HubAnswersInv
    <3>2. /\ setup.direction = "In" /\ setup.recipient = "Device" /\ setup.request_type = "Class"
          /\ setup.w_length = HubFixedLen + RemovableLen
      BY <3>1, SMTT(30) DEF new_get_hub_descriptor
    <3>3. ~AnswerSetConfiguration /\ ~AnswerPort
      BY <3>2, SMTT(30) DEF AnswerSetConfiguration, AnswerPort
    <3>4. AnswerDescriptor
      BY <1>1, <3>3
    <3> QED
      BY <3>2, <3>4 DEF AnswerDescriptor, Answer, AtMost, DescriptorOfHub
  <2>2. ASSUME step \in {"status", "reset_status"} PROVE buffer'.kind = "status" /\ bytes' = 4
    <3>1. setup = new_get_port_status(port_number)
      BY <2>2 DEF SetupInv, HubAnswersInv
    <3>2. setup.recipient = "Other" /\ setup.b_request = GetStatus /\ setup.w_length = 4
      BY <3>1, SMTT(30) DEF new_get_port_status
    <3>3. ~AnswerSetConfiguration /\ ~AnswerDescriptor
      BY <3>2, SMTT(30) DEF AnswerSetConfiguration, AnswerDescriptor
    <3>4. AnswerPort
      BY <1>1, <3>3
    <3> QED
      BY <3>2, <3>4, SMTT(30) DEF AnswerPort, Answer
  <2>3. UNCHANGED <<port_number, DescriptorOfHub>>
    BY <1>1 DEF port_number, DescriptorOfHub
  <2> QED
    BY <1>1, <2>1, <2>2, <2>3 DEF SetupInv, HubAnswersInv
<1>8. StopsOnlyAtTodo'
  BY <1>1 DEF SetupInv, StopsOnlyAtTodo
<1> QED
  BY <1>2, <1>5, <1>6, <1>7, <1>8 DEF SetupInv

\* The steps of the ports and of time, and stuttering.
LEMMA RestKeepsInfo ==
  ASSUME SetupInv, Tick \/ (\E p \in resetting : HubEnables(p)) \/ UNCHANGED vars
  PROVE  SetupInv'
<1>1. UNCHANGED <<device, active, step, setup, in_flight, buffer, bytes, wiped, device_descriptor, configurations,
                  chosen, announced, i>>
  BY DEF Tick, HubEnables, vars, hubVars, memVars, infoVars, probeVars
<1>2. UNCHANGED <<ConfigurationNumber(chosen), port_number, DescriptorOfDevice, DescriptorOfHub, Asked, Conforming,
                  DeviceBehindHub>>
  BY <1>1 DEF ConfigurationNumber, port_number, DescriptorOfDevice, DescriptorOfHub, Asked, Conforming,
              HubEndpointIsThere, DeviceBehindHub
<1>3. KeptInv' /\ ReadingInv'
  BY <1>1, <1>2 DEF SetupInv, KeptInv, ReadingInv
<1>4. ChosenInv' /\ HubAnswersInv' /\ StopsOnlyAtTodo'
  BY <1>1, <1>2 DEF SetupInv, ChosenInv, HubAnswersInv, StopsOnlyAtTodo
<1> QED
  BY <1>3, <1>4 DEF SetupInv

\* A transfer that goes wrong: what was read stays, no data counts as read, and
\* nothing more is known of the device.
LEMMA WipedKeepsInfo ==
  ASSUME SetupInv, wiped \in Nat, TransferHangs \/ TransferIsWiped
  PROVE  SetupInv'
<1> USE DEF MayBeWiped, infoVars, probeVars
<1>1. CASE TransferHangs
  <2>1. /\ step' = "hung" /\ step' \notin Described /\ step' \notin AllRead /\ step' \notin Settled
        /\ step' \notin OnHub /\ UNCHANGED <<device, device_descriptor, configurations>>
    BY <1>1 DEF TransferHangs, Described, AllRead, Settled, OnHub
  <2>2. KeptInv'
    BY <2>1, KeptByStep
  <2>3. ReadingInv' /\ ChosenInv' /\ HubAnswersInv' /\ StopsOnlyAtTodo'
    BY <2>1 DEF ReadingInv, ChosenInv, HubAnswersInv, StopsOnlyAtTodo
  <2> QED
    BY <2>2, <2>3 DEF SetupInv
<1>2. CASE TransferIsWiped
  <2>1. /\ in_flight /\ ~in_flight' /\ step # "device_descriptor"
        /\ UNCHANGED <<device, active, step, setup, buffer, device_descriptor, configurations, chosen, announced, i>>
        /\ bytes' = IF setup.direction = "In" THEN 0 ELSE bytes
    BY <1>2 DEF TransferIsWiped
  <2>2. wiped' # 0
    BY <1>2, SMTT(30) DEF TransferIsWiped
  <2>3. KeptInv'
    BY <2>1, KeptByStep
  <2>4. ReadingInv'
    <3>1. ASSUME step = "configuration" PROVE bytes' = 0
      <4>1. setup.direction = "In"
        BY <3>1, SMTT(30) DEF SetupInv, ReadingInv, new_get_configuration_descriptor, SetupPacket
      <4> QED
        BY <2>1, <4>1
    <3> QED
      BY <2>1, <2>2, <3>1 DEF SetupInv, ReadingInv
  <2>5. ChosenInv'
    <3>1. UNCHANGED ConfigurationNumber(chosen)
      BY <2>1 DEF ConfigurationNumber
    <3> QED
      BY <2>1, <2>2, <3>1 DEF SetupInv, ChosenInv
  <2>6. HubAnswersInv' /\ StopsOnlyAtTodo'
    <3>1. UNCHANGED port_number
      BY <2>1 DEF port_number
    <3> QED
      BY <2>1, <2>2, <3>1 DEF SetupInv, HubAnswersInv, StopsOnlyAtTodo
  <2> QED
    BY <2>3, <2>4, <2>5, <2>6 DEF SetupInv
<1> QED
  BY <1>1, <1>2

\* The members of DeviceInfo's configurations.
LEMMA KeptConfiguration ==
  ASSUME KeptInv, NEW k \in DOMAIN configurations
  PROVE  /\ k \in 1..Len(configurations) /\ device.configurations[k] \in ConfigurationTrees
         /\ configurations[k] = ReadOf(device.configurations[k])
<1>1. device.configurations \in Seq(ConfigurationTrees)
  BY SetupAssumption DEF KeptInv
<1>2. Len(device.configurations) \in Nat
  BY <1>1, SeqLength
<1>3. /\ Len(configurations) \in 0..Len(device.configurations)
      /\ configurations = [j \in 1..Len(configurations) |-> ReadOf(device.configurations[j])]
  BY DEF KeptInv
<1>4. k \in 1..Len(configurations) /\ configurations[k] = ReadOf(device.configurations[k])
  BY <1>3
<1>5. k \in 1..Len(device.configurations)
  <2> DEFINE n == Len(configurations)
             m == Len(device.configurations)
  <2>1. n \in 0..m /\ m \in Nat /\ k \in 1..n
    BY <1>2, <1>3, <1>4
  <2> HIDE DEF n, m
  <2>2. k \in 1..m
    BY <2>1, SMTT(30)
  <2> QED
    BY <2>2 DEF m
<1> QED
  BY <1>1, <1>4, <1>5, SeqMember

\* A function's first values as a sequence, and one more.
LEMMA FirstValuesGrow ==
  ASSUME NEW F, NEW n \in Nat, NEW s, s = [k \in 1..n |-> F[k]]
  PROVE  Append(s, F[n + 1]) = [k \in 1..(n + 1) |-> F[k]] /\ Len(Append(s, F[n + 1])) = n + 1
<1> DEFINE S == {F[k] : k \in 1..(n + 1)}
           r == [k \in 1..(n + 1) |-> F[k]]
<1>1. /\ \A k \in 1..n : k \in 1..(n + 1) /\ k # n + 1
      /\ n + 1 \in 1..(n + 1) /\ \A k \in 1..(n + 1) : k \in 1..n \/ k = n + 1
  BY SMTT(30)
<1>2. \A k \in 1..(n + 1) : F[k] \in S
  OBVIOUS
<1> HIDE DEF S
<1>3. s \in Seq(S) /\ Len(s) = n /\ \A k \in 1..n : s[k] = F[k]
  BY <1>1, <1>2, SMTT(30)
<1>4. r \in Seq(S) /\ Len(r) = n + 1 /\ \A k \in 1..(n + 1) : r[k] = F[k]
  BY <1>1, <1>2, SMTT(30)
<1> HIDE DEF r
<1>5. /\ Append(s, F[n + 1]) \in Seq(S) /\ Len(Append(s, F[n + 1])) = n + 1
      /\ Append(s, F[n + 1])[n + 1] = F[n + 1] /\ \A k \in 1..n : Append(s, F[n + 1])[k] = s[k]
  <2> DEFINE e == F[n + 1]
  <2>1. e \in S
    BY <1>1, <1>2
  <2> HIDE DEF e
  <2>2. /\ Append(s, e) \in Seq(S) /\ Len(Append(s, e)) = Len(s) + 1
        /\ Append(s, e)[Len(s) + 1] = e /\ \A k \in 1..Len(s) : Append(s, e)[k] = s[k]
    BY <1>3, <2>1, SMTT(30)
  <2> QED
    BY <1>3, <2>2 DEF e
<1>6. \A k \in 1..(n + 1) : Append(s, F[n + 1])[k] = r[k]
  BY <1>1, <1>3, <1>4, <1>5
<1>7. Append(s, F[n + 1]) = r
  BY <1>4, <1>5, <1>6, SameElements
<1> QED
  BY <1>5, <1>7 DEF r

\* A configuration is read into the buffer and kept.
LEMMA ParseKeeps ==
  ASSUME DescriptorFacts, SetupInv, ParseConfiguration
  PROVE  SetupInv'
<1> USE DEF At, GoTo, memVars, probeVars, DeviceRests, ParseConfiguration
<1> DEFINE n == Len(configurations)
           m == Len(device.configurations)
<1>1. /\ KeptInv /\ n < m /\ n \in 0..m /\ step = "configuration" /\ ~in_flight
      /\ IF bytes = 0 THEN wiped # 0 ELSE Holds(buffer, Asked, Room(Asked))
  BY DEF SetupInv, ReadingInv, KeptInv
<1>2. device.configurations \in Seq(ConfigurationTrees) /\ MaxDescriptors \in Nat
  BY <1>1, SetupAssumption DEF KeptInv
<1>3. m \in Nat
  BY <1>2, SeqLength
<1>4. n \in Nat /\ n + 1 \in 1..m /\ n + 1 \in 0..m
  <2> HIDE DEF n, m
  <2> QED
    BY <1>1, <1>3, SMTT(30)
<1>5. Asked \in ConfigurationTrees
  BY <1>1, AskedIsConfiguration
<1>6. /\ Room(Asked) \in 0..Len(Flatten(Asked).rest)
      /\ Len(Flatten(Asked).rest) <= MaxDescriptors => Room(Asked) = Len(Flatten(Asked).rest)
  BY <1>1, AskedIsConfiguration
<1>7. ASSUME bytes # 0
      PROVE  /\ ~ParsePanics(buffer) => from_descriptor(buffer) = ReadOf(Asked)
             /\ Room(Asked) = Len(Flatten(Asked).rest) => ~ParsePanics(buffer)
  BY <1>1, <1>5, <1>6, <1>7 DEF DescriptorFacts, ReadsBack
<1>8. CASE bytes = 0 \/ ParsePanics(buffer)
  <2>1. /\ step' = "panicked" /\ step' \notin Described /\ step' \notin AllRead /\ step' \notin Settled
        /\ step' \notin OnHub /\ ~in_flight' /\ UNCHANGED <<device, device_descriptor, configurations>>
    BY <1>8 DEF Described, AllRead, Settled, OnHub
  <2>2. wiped = 0 => ~(Len(Flatten(Asked).rest) <= MaxDescriptors)
    BY <1>1, <1>6, <1>7, <1>8
  <2>3. wiped' = 0 => ~Conforming'
    <3>1. n + 1 \in DOMAIN device.configurations
      BY <1>2, <1>4, SeqLength
    <3> QED
      BY <2>1, <2>2, <3>1 DEF Conforming, Asked
  <2>4. KeptInv'
    BY <2>1, KeptByStep
  <2>5. ReadingInv' /\ ChosenInv' /\ HubAnswersInv' /\ StopsOnlyAtTodo'
    BY <2>1, <2>3 DEF ReadingInv, ChosenInv, HubAnswersInv, StopsOnlyAtTodo
  <2> QED
    BY <2>4, <2>5 DEF SetupInv
<1>9. CASE ~(bytes = 0 \/ ParsePanics(buffer))
  <2>1. /\ step' = "configurations" /\ step' \notin AllRead /\ step' \notin Settled /\ step' \notin OnHub
        /\ UNCHANGED <<device, device_descriptor>>
    BY <1>9 DEF AllRead, Settled, OnHub
  <2>2. configurations' = Append(configurations, ReadOf(Asked))
    BY <1>7, <1>9
  <2>3. configurations' = [k \in 1..(n + 1) |-> ReadOf(device.configurations[k])] /\ Len(configurations') = n + 1
    <3> DEFINE F == [k \in 1..m |-> ReadOf(device.configurations[k])]
    <3>1. F[n + 1] = ReadOf(Asked)
      BY <1>4 DEF Asked
    <3>2. \A k \in 1..(n + 1) : k \in 1..m
      <4> HIDE DEF n, m
      <4> QED
        BY <1>1, <1>3, <1>4, SMTT(30)
    <3>3. \A k \in 1..n : k \in 1..(n + 1)
      <4> HIDE DEF n
      <4> QED
        BY <1>4, SMTT(30)
    <3>4. configurations = [k \in 1..n |-> F[k]]
      <4>1. configurations = [k \in 1..n |-> ReadOf(device.configurations[k])]
        BY <1>1 DEF KeptInv
      <4>2. \A k \in 1..n : F[k] = ReadOf(device.configurations[k])
        BY <3>2, <3>3
      <4> HIDE DEF F, n
      <4> QED
        BY <4>1, <4>2
    <3>5. \A k \in 1..(n + 1) : F[k] = ReadOf(device.configurations[k])
      BY <3>2
    <3> HIDE DEF F, n, m
    <3>6. /\ Append(configurations, F[n + 1]) = [k \in 1..(n + 1) |-> F[k]]
          /\ Len(Append(configurations, F[n + 1])) = n + 1
      BY <1>4, <3>4, FirstValuesGrow
    <3> QED
      BY <2>2, <3>1, <3>5, <3>6
  <2>4. device_descriptor = DescriptorOfDevice
    BY <1>1 DEF KeptInv, Described
  <2>5. KeptInv'
    BY <1>1, <1>4, <2>1, <2>3, <2>4 DEF KeptInv, DescriptorOfDevice
  <2>6. ReadingInv' /\ ChosenInv' /\ HubAnswersInv' /\ StopsOnlyAtTodo'
    BY <2>1 DEF ReadingInv, ChosenInv, HubAnswersInv, StopsOnlyAtTodo
  <2> QED
    BY <2>5, <2>6 DEF SetupInv
<1> QED
  BY <1>8, <1>9

\* A hub's interrupt endpoint is where the device has it.
LEMMA HubEndpointKept ==
  ASSUME NEW c \in ConfigurationTrees, CountsInterfaces(c), HubEndpointIsThere(c), ~c.interfaces[1].alternate
  PROVE  HubEndpointIsThere(ReadOf(c))
<1> DEFINE t == c.interfaces
           num == NumInterfaces(c)
<1>1. t \in Seq(InterfaceTrees) /\ num \in 0..Len(t) /\ num # 0
  BY DEF CountsInterfaces, HubEndpointIsThere, ConfigurationTrees
<1>2. ReadOf(c).interfaces = Infos(t, num)
  BY DEF ReadOf
<1> HIDE DEF num
<1>3. 1 \in 1..num /\ Len(Infos(t, num)) # 0
  <2>1. Len(t) \in Nat
    BY <1>1, SeqLength
  <2>2. Len(Infos(t, num)) = num
    BY <1>1, InfosType
  <2> HIDE DEF t
  <2> QED
    BY <1>1, <2>1, <2>2, SMTT(30)
<1>4. Infos(t, num) # <<>>
  BY <1>3, NoElements
<1>5. Infos(t, num)[1].endpoints = t[1].endpoints
  BY <1>3 DEF Infos
<1> QED
  BY <1>2, <1>4, <1>5 DEF HubEndpointIsThere

\* The device is in the configuration, and its endpoints are announced.
LEMMA ConfiguredKeeps ==
  ASSUME DescriptorFacts, SetupInv, Configured
  PROVE  SetupInv'
<1> USE DEF At, GoTo, memVars, probeVars, DeviceRests, Configured
<1>1. /\ step = "set_configuration" /\ step \in AllRead /\ step \in Described /\ ~in_flight'
      /\ UNCHANGED <<device, active, wiped, device_descriptor, configurations, chosen>>
      /\ announced' = [k \in DOMAIN configurations[chosen].interfaces |->
                         InterruptEndpoints(configurations[chosen].interfaces[k])]
      /\ step' = IF ~IsHub THEN "configured"
                 ELSE IF HubEndpointIsThere(configurations[chosen]) THEN "hub" ELSE "panicked"
  BY DEF AllRead, Described
<1>2. step' # "device_descriptor" /\ step' # "configuration" /\ step' # "set_configuration"
      /\ step' # "hub_descriptor" /\ step' \notin {"status", "reset_status"}
      /\ step' \in OnHub => step' = "hub"
  BY <1>1 DEF OnHub
<1>3. KeptInv'
  BY <1>1, KeptByStep
<1>4. chosen \in DOMAIN configurations /\ (wiped = 0 => active = ConfigurationNumber(chosen))
  BY <1>1 DEF SetupInv, ChosenInv
<1>5. ChosenInv'
  <2>1. UNCHANGED ConfigurationNumber(chosen)
    BY <1>1 DEF ConfigurationNumber
  <2> QED
    BY <1>1, <1>2, <1>4, <2>1 DEF ChosenInv
<1>6. IsHub <=> device.class = 9
  <2>1. device_descriptor = DescriptorOfDevice
    BY <1>1 DEF SetupInv, KeptInv
  <2>2. DescriptorOfDevice.device_class = device.class
    BY DEF DescriptorOfDevice
  <2> QED
    BY <2>1, <2>2 DEF IsHub
<1>7. ReadingInv' /\ HubAnswersInv'
  BY <1>1, <1>2, <1>6 DEF ReadingInv, HubAnswersInv
<1>8. ASSUME step' = "panicked" PROVE ~Conforming'
  <2>1. device.class = 9 /\ ~HubEndpointIsThere(configurations[chosen])
    BY <1>1, <1>6, <1>8
  <2>2. /\ chosen \in 1..Len(configurations) /\ device.configurations[chosen] \in ConfigurationTrees
        /\ configurations[chosen] = ReadOf(device.configurations[chosen])
    BY <1>4, KeptConfiguration DEF SetupInv
  <2>3. \/ ~HubEndpointIsThere(device.configurations[chosen])
        \/ device.configurations[chosen].interfaces[1].alternate
    BY <2>1, <2>2, HubEndpointKept DEF DescriptorFacts
  <2>4. chosen \in DOMAIN device.configurations
    <3>1. Len(configurations) = Len(device.configurations) /\ device \in Devices
      BY <1>1 DEF SetupInv, KeptInv
    <3>2. device.configurations \in Seq(ConfigurationTrees)
      BY <3>1, SetupAssumption
    <3> QED
      BY <2>2, <3>1, <3>2, SeqLength
  <2>5. ~Conforming
    BY <2>1, <2>3, <2>4 DEF Conforming
  <2> QED
    BY <1>1, <2>5 DEF Conforming, HubEndpointIsThere
<1>9. StopsOnlyAtTodo'
  BY <1>1, <1>8 DEF StopsOnlyAtTodo
<1> QED
  BY <1>3, <1>5, <1>7, <1>9 DEF SetupInv

\* A loaded device.
LEMMA SetupBegins ==
  ASSUME Init
  PROVE  SetupInv
<1>1. /\ step = "loaded" /\ step \notin Described /\ step \notin AllRead /\ step \notin Settled
      /\ step \notin OnHub /\ device \in Devices /\ configurations = <<>>
  BY DEF Init, Described, AllRead, Settled, OnHub
<1>2. Len(configurations) \in 0..Len(device.configurations) /\ Len(configurations) = 0
  <2>1. device.configurations \in Seq(ConfigurationTrees)
    BY <1>1, SetupAssumption
  <2>2. Len(device.configurations) \in Nat /\ Len(<<>>) = 0
    BY <2>1, SeqLength, NoElements
  <2> QED
    BY <1>1, <2>2, SMTT(30)
<1>3. configurations = [k \in 1..Len(configurations) |-> ReadOf(device.configurations[k])]
  BY <1>1, <1>2, SMTT(30)
<1>4. KeptInv
  BY <1>1, <1>2, <1>3 DEF KeptInv
<1>5. ReadingInv /\ ChosenInv /\ HubAnswersInv /\ StopsOnlyAtTodo
  BY <1>1 DEF ReadingInv, ChosenInv, HubAnswersInv, StopsOnlyAtTodo
<1> QED
  BY <1>4, <1>5 DEF SetupInv

\* Every step keeps the invariant.
LEMMA SetupGoesOn ==
  ASSUME DescriptorFacts, SetupInv, wiped \in Nat, [Next]_vars
  PROVE  SetupInv'
<1>1. CASE get_info \/ ReadDeviceDescriptor \/ GetConfiguration
  BY <1>1, BeginKeeps
<1>2. CASE ParseConfiguration
  BY <1>2, ParseKeeps
<1>3. ASSUME NEW index \in DOMAIN configurations, set_configuration(index) PROVE SetupInv'
  BY <1>3, ChooseKeeps
<1>4. CASE Configured
  BY <1>4, ConfiguredKeeps
<1>5. CASE ProbePorts
  BY <1>5, ProbeKeepsInfo
<1>6. CASE DeviceAnswers
  BY <1>6, AnswerKeepsInfo
<1>7. CASE Tick \/ (\E p \in resetting : HubEnables(p)) \/ UNCHANGED vars
  BY <1>7, RestKeepsInfo
<1>8. CASE TransferHangs \/ TransferIsWiped
  BY <1>8, WipedKeepsInfo
<1> QED
  BY <1>1, <1>2, <1>3, <1>4, <1>5, <1>6, <1>7, <1>8 DEF Next, Driver

\* What get_info has read when it returns.
LEMMA InfoIsRead ==
  ASSUME DescriptorFacts, SetupInv, step = "has_info"
  PROVE  InfoMatchesDevice
<1>1. /\ KeptInv /\ device_descriptor.device_class = device.class
      /\ Len(configurations) = Len(device.configurations)
  <2>1. step \in Described /\ step \in AllRead
    BY DEF Described, AllRead
  <2>2. KeptInv /\ device_descriptor = DescriptorOfDevice /\ Len(configurations) = Len(device.configurations)
    BY <2>1 DEF SetupInv, KeptInv
  <2>3. DescriptorOfDevice.device_class = device.class
    BY DEF DescriptorOfDevice
  <2> QED
    BY <2>2, <2>3
<1>2. ASSUME NEW k \in DOMAIN configurations, NEW read, NEW meant,
             read = configurations[k], meant = Meaning(device.configurations[k])
      PROVE  /\ read.number = meant.number
             /\ Len(read.interfaces) <= Len(meant.interfaces)
             /\ read.interfaces = SubSeq(meant.interfaces, 1, Len(read.interfaces))
             /\ \/ Len(read.interfaces) = Len(meant.interfaces)
                \/ \E j \in DOMAIN meant.interfaces : meant.interfaces[j].alternate
  <2> DEFINE c == device.configurations[k]
             t == c.interfaces
             num == NumInterfaces(c)
  <2>1. c \in ConfigurationTrees /\ configurations[k] = ReadOf(c)
    BY <1>1, KeptConfiguration
  <2>2. /\ t \in Seq(InterfaceTrees) /\ num \in 0..Len(t)
        /\ num # Len(t) => \E j \in DOMAIN t : t[j].alternate
    BY <2>1 DEF DescriptorFacts, CountsInterfaces, ConfigurationTrees
  <2>3. DOMAIN t = 1..Len(t) /\ Len(t) \in Nat
    BY <2>2, SeqLength
  <2>4. /\ read.number = c.number /\ read.interfaces = Infos(t, num)
        /\ meant.number = c.number /\ meant.interfaces = Infos(t, Len(t))
    <3>1. read.number = c.number /\ read.interfaces = Infos(t, num)
      <4>1. ReadOf(c).number = c.number /\ ReadOf(c).interfaces = Infos(t, num)
        BY DEF ReadOf
      <4> QED
        BY <1>2, <2>1, <4>1
    <3>2. meant.number = c.number /\ meant.interfaces = [j \in DOMAIN t |->
                                       [alternate |-> t[j].alternate, endpoints |-> t[j].endpoints]]
      BY <1>2 DEF Meaning
    <3>3. Infos(t, Len(t)) = [j \in DOMAIN t |-> [alternate |-> t[j].alternate, endpoints |-> t[j].endpoints]]
      BY <2>3 DEF Infos
    <3> QED
      BY <3>1, <3>2, <3>3
  <2> HIDE DEF c, t, num
  <2>5. Len(t) \in 0..Len(t) /\ num <= Len(t) /\ num \in Nat /\ \A j \in 1..num : j \in 1..Len(t)
    <3>1. \A l \in Nat : \A h \in 0..l : l \in 0..l /\ h <= l /\ h \in Nat /\ \A j \in 1..h : j \in 1..l
      BY SMTT(30)
    <3> QED
      BY <2>2, <2>3, <3>1
  <2>6. /\ Infos(t, num) \in Seq(InterfaceInfos) /\ Len(Infos(t, num)) = num
        /\ Infos(t, Len(t)) \in Seq(InterfaceInfos) /\ Len(Infos(t, Len(t))) = Len(t)
    BY <2>2, <2>5, InfosType
  <2>7. \A j \in 1..num : Infos(t, num)[j] = Infos(t, Len(t))[j]
    BY <2>5 DEF Infos
  <2>8. SubSeq(Infos(t, Len(t)), 1, num) = Infos(t, num)
    <3>1. \A a, b \in Seq(InterfaceInfos) :
            Len(b) <= Len(a) /\ (\A j \in 1..Len(b) : b[j] = a[j]) => SubSeq(a, 1, Len(b)) = b
      BY SMTT(30)
    <3> QED
      BY <2>5, <2>6, <2>7, <3>1
  <2>9. num # Len(t) => \E j \in 1..Len(t) : Infos(t, Len(t))[j].alternate
    BY <2>2, <2>3 DEF Infos
  <2>10. DOMAIN Infos(t, Len(t)) = 1..Len(t)
    BY DEF Infos
  <2> QED
    BY <2>4, <2>5, <2>6, <2>8, <2>9, <2>10
<1> QED
  BY <1>1, <1>2 DEF InfoMatchesDevice

\* What the device is in when set_configuration returns.
LEMMA ChosenIsActive ==
  ASSUME SetupInv
  PROVE  ConfiguresChosen
<1> SUFFICES ASSUME step \in {"configured", "hub", "ports", "probed"}
             PROVE  /\ wiped = 0 => active = device.configurations[chosen].number
                    /\ announced = [k \in DOMAIN configurations[chosen].interfaces |->
                                      InterruptEndpoints(device.configurations[chosen].interfaces[k])]
  BY DEF ConfiguresChosen
<1> DEFINE c == device.configurations[chosen]
           num == NumInterfaces(c)
<1>1. step \in Settled
  BY DEF Settled, OnHub
<1>2. /\ KeptInv /\ chosen \in DOMAIN configurations /\ (wiped = 0 => active = configurations[chosen].number)
      /\ announced = [k \in DOMAIN configurations[chosen].interfaces |->
                        InterruptEndpoints(configurations[chosen].interfaces[k])]
  BY <1>1 DEF SetupInv, ChosenInv, ConfigurationNumber
<1>3. configurations[chosen] = ReadOf(c)
  BY <1>2, KeptConfiguration
<1> HIDE DEF c
<1>4. ReadOf(c).number = c.number /\ ReadOf(c).interfaces = Infos(c.interfaces, num)
  BY DEF ReadOf
<1>5. /\ DOMAIN Infos(c.interfaces, num) = 1..num
      /\ \A k \in 1..num : Infos(c.interfaces, num)[k].endpoints = c.interfaces[k].endpoints
  BY DEF Infos
<1>6. \A k \in 1..num : InterruptEndpoints(Infos(c.interfaces, num)[k]) = InterruptEndpoints(c.interfaces[k])
  BY <1>5 DEF InterruptEndpoints
<1>7. announced = [k \in 1..num |-> InterruptEndpoints(c.interfaces[k])]
  BY <1>2, <1>3, <1>4, <1>5, <1>6
<1> QED
  BY <1>2, <1>3, <1>4, <1>5, <1>7 DEF c

-----------------------------------------------------------------------------
INSTANCE WellFoundedInduction

\* A set of naturals that is not empty has a least member.
LEMMA Least ==
  ASSUME NEW S \in SUBSET Nat, S # {}
  PROVE  \E m \in S : \A k \in S : m <= k
<1> DEFINE R == OpToRel(<, Nat)
<1>1. \A x, y \in Nat : <<x, y>> \in R <=> x < y
  BY SMTT(30) DEF OpToRel
<1>2. IsWellFoundedOn(R, Nat)
  BY NatLessThanWellFounded
<1> HIDE DEF R
<1>3. PICK m \in S : \A y \in S : ~ (<<y, m>> \in R)
  BY <1>2, WFMin
<1>4. ASSUME NEW k \in S PROVE m <= k
  <2>1. ~(<<k, m>> \in R) /\ k \in Nat /\ m \in Nat
    BY <1>3
  <2> QED
    BY <2>1, <1>1, SMTT(30)
<1> QED
  BY <1>3, <1>4

\* The descriptors of the first interfaces, one sequence after the other.
IsLaid(f, t, m) ==
  /\ f = [k \in 0..m |-> f[k]] /\ f[0] = <<>>
  /\ \A k \in 1..m : f[k] = f[k - 1] \o FlattenInterface(t[k])

\* The recursion of Flatten has a solution.
LEMMA LaidExists ==
  ASSUME NEW t, NEW m \in Nat
  PROVE  \E f : IsLaid(f, t, m)
<1> DEFINE S == {k \in 0..m : \A f : ~IsLaid(f, t, k)}
<1>1. S = {}
  <2> SUFFICES ASSUME S # {} PROVE FALSE
    OBVIOUS
  <2>1. S \in SUBSET Nat /\ S \subseteq 0..m
    BY SMTT(30)
  <2>2. \A k \in S : \A f : ~IsLaid(f, t, k)
    OBVIOUS
  <2>3. \A k \in 0..m : k \notin S => \E f : IsLaid(f, t, k)
    OBVIOUS
  <2> HIDE DEF S
  <2>4. PICK k \in S : \A h \in S : k <= h
    BY <2>1, Least
  <2>5. k \in 0..m
    BY <2>1
  <2>6. CASE k = 0
    <3> DEFINE f == [q \in 0..0 |-> <<>>]
    <3>1. f[0] = <<>> /\ f = [q \in 0..0 |-> f[q]] /\ 1..0 = {}
      BY SMTT(30)
    <3> HIDE DEF f
    <3>2. IsLaid(f, t, 0)
      BY <3>1 DEF IsLaid
    <3> QED
      BY <2>2, <2>6, <3>2
  <2>7. CASE k # 0
    <3>1. k - 1 \in 0..m /\ ~(k <= k - 1) /\ k \in 1..m /\ 0 # k /\ 0 \in 0..k /\ k \in 0..k
          /\ \A q \in 1..k : /\ q \in 0..k /\ q - 1 \in 0..k /\ q - 1 # k
                             /\ q = k \/ q \in 1..(k - 1)
      BY <2>5, <2>7, SMTT(30)
    <3>2. PICK f : IsLaid(f, t, k - 1)
      BY <2>3, <2>4, <3>1
    <3> DEFINE g == [q \in 0..k |-> IF q = k THEN f[k - 1] \o FlattenInterface(t[k]) ELSE f[q]]
    <3>3. g[0] = <<>>
      BY <3>1, <3>2 DEF IsLaid
    <3>4. \A q \in 0..k : g[q] = IF q = k THEN f[k - 1] \o FlattenInterface(t[k]) ELSE f[q]
      OBVIOUS
    <3>5. g = [q \in 0..k |-> g[q]]
      OBVIOUS
    <3> HIDE DEF g
    <3>6. ASSUME NEW q \in 1..k PROVE g[q] = g[q - 1] \o FlattenInterface(t[q])
      <4>1. g[q - 1] = f[q - 1]
        BY <3>1, <3>4
      <4>2. CASE q = k
        BY <3>1, <3>4, <4>1, <4>2
      <4>3. CASE q # k
        <5>1. f[q] = f[q - 1] \o FlattenInterface(t[q])
          BY <3>1, <3>2, <4>3 DEF IsLaid
        <5>2. g[q] = f[q]
          BY <3>1, <3>4, <4>3
        <5> QED
          BY <4>1, <5>1, <5>2
      <4> QED
        BY <4>2, <4>3
    <3>7. IsLaid(g, t, k)
      BY <3>3, <3>5, <3>6 DEF IsLaid
    <3> QED
      BY <2>2, <3>7
  <2> QED
    BY <2>6, <2>7
<1>2. m \in 0..m
  BY SMTT(30)
<1> QED
  BY <1>1, <1>2

\* What a device's configuration descriptor is.
LEMMA FlattenIsLaid ==
  ASSUME NEW c, Len(c.interfaces) \in Nat
  PROVE  /\ Flatten(c).b_configuration_value = c.number /\ Flatten(c).b_num_interfaces = NumInterfaces(c)
         /\ \E f : IsLaid(f, c.interfaces, Len(c.interfaces)) /\ Flatten(c).rest = f[Len(c.interfaces)]
<1> DEFINE m == Len(c.interfaces)
           R(g) == g = [k \in 0..m |-> IF k = 0 THEN <<>> ELSE g[k - 1] \o FlattenInterface(c.interfaces[k])]
           laid == CHOOSE g : R(g)
<1>0. m \in Nat
  OBVIOUS
<1>1. PICK g : IsLaid(g, c.interfaces, m)
  BY LaidExists
<1>2. R(g)
  <2>1. \A k \in 0..m : g[k] = IF k = 0 THEN <<>> ELSE g[k - 1] \o FlattenInterface(c.interfaces[k])
    <3> SUFFICES ASSUME NEW k \in 0..m
                 PROVE  g[k] = IF k = 0 THEN <<>> ELSE g[k - 1] \o FlattenInterface(c.interfaces[k])
      OBVIOUS
    <3>1. k = 0 \/ (k \in 1..m /\ k # 0)
      BY <1>0, SMTT(30)
    <3> QED
      BY <1>1, <3>1 DEF IsLaid
  <2>2. g = [k \in 0..m |-> g[k]]
    BY <1>1 DEF IsLaid
  <2> QED
    BY <2>1, <2>2
<1>3. R(laid)
  <2> HIDE DEF R
  <2> QED
    BY <1>2
<1>4. Flatten(c) = [b_configuration_value |-> c.number, b_num_interfaces |-> NumInterfaces(c), rest |-> laid[m]]
  BY DEF Flatten
<1>5. /\ Flatten(c).b_configuration_value = c.number /\ Flatten(c).b_num_interfaces = NumInterfaces(c)
      /\ Flatten(c).rest = laid[m]
  <2> HIDE DEF laid, m
  <2> QED BY <1>4, SMTT(30)
<1> HIDE DEF laid
<1>6. IsLaid(laid, c.interfaces, m)
  <2>1. 0 \in 0..m /\ \A k \in 1..m : k \in 0..m /\ k # 0
    BY SMTT(30)
  <2>2. \A k \in 0..m : laid[k] = IF k = 0 THEN <<>> ELSE laid[k - 1] \o FlattenInterface(c.interfaces[k])
    BY <1>3
  <2>3. laid = [k \in 0..m |-> laid[k]]
    BY <1>3, <2>2
  <2> HIDE DEF R, m
  <2> QED
    BY <2>1, <2>2, <2>3 DEF IsLaid
<1> QED
  BY <1>5, <1>6

\* The descriptors there are in a configuration.
DescriptorTypes ==
  [type : {InterfaceType}, alternate : BOOLEAN, b_num_endpoints : Nat]
    \cup [type : {EndpointType}, transfer_type : TransferTypes] \cup [type : {33}]

\* How many class-specific descriptors come before the endpoints of interface x
\* and after them.
Before(x) == IF x.extra = "before" THEN 1 ELSE 0
After(x) == IF x.extra = "after" THEN 1 ELSE 0

\* Where the descriptors of an interface are.
LEMMA InterfaceLayout ==
  ASSUME NEW x \in InterfaceTrees
  PROVE  /\ FlattenInterface(x) \in Seq(DescriptorTypes)
         /\ Len(FlattenInterface(x)) = 1 + Before(x) + Len(x.endpoints) + After(x)
         /\ FlattenInterface(x)[1] =
              [type |-> InterfaceType, alternate |-> x.alternate, b_num_endpoints |-> Len(x.endpoints)]
         /\ \A j \in 2..Len(FlattenInterface(x)) :
              IF j - 1 - Before(x) \in 1..Len(x.endpoints)
                THEN FlattenInterface(x)[j] =
                       [type |-> EndpointType, transfer_type |-> x.endpoints[j - 1 - Before(x)]]
                ELSE FlattenInterface(x)[j] = [type |-> 33]
<1> DEFINE D == DescriptorTypes
           m == Len(x.endpoints)
           other == <<[type |-> 33]>>
           head == <<[type |-> InterfaceType, alternate |-> x.alternate, b_num_endpoints |-> m]>>
           before == IF x.extra = "before" THEN other ELSE <<>>
           endpoints == [k \in DOMAIN x.endpoints |->
                           [type |-> EndpointType, transfer_type |-> x.endpoints[k]]]
           after == IF x.extra = "after" THEN other ELSE <<>>
<1>1. m \in Nat /\ DOMAIN x.endpoints = 1..m /\ x.alternate \in BOOLEAN
      /\ \A k \in 1..m : x.endpoints[k] \in TransferTypes
  BY SMTT(30) DEF InterfaceTrees
<1>2. head \in Seq(D) /\ Len(head) = 1 /\ head[1] = [type |-> InterfaceType, alternate |-> x.alternate, b_num_endpoints |-> m]
  BY <1>1, SMTT(30) DEF DescriptorTypes
<1>3. other \in Seq(D) /\ Len(other) = 1 /\ other[1] = [type |-> 33]
  BY SMTT(30) DEF DescriptorTypes
<1>4. before \in Seq(D) /\ Len(before) = Before(x) /\ \A k \in 1..Before(x) : before[k] = [type |-> 33]
  BY <1>3, SMTT(30) DEF Before
<1>5. after \in Seq(D) /\ Len(after) = After(x) /\ \A k \in 1..After(x) : after[k] = [type |-> 33]
  BY <1>3, SMTT(30) DEF After
<1>6. /\ endpoints \in Seq(D) /\ Len(endpoints) = m
      /\ \A k \in 1..m : endpoints[k] = [type |-> EndpointType, transfer_type |-> x.endpoints[k]]
  <2>1. \A k \in 1..m : [type |-> EndpointType, transfer_type |-> x.endpoints[k]] \in D
    BY <1>1, SMTT(30) DEF DescriptorTypes
  <2> QED
    BY <1>1, <2>1, SMTT(30)
<1>7. FlattenInterface(x) = ((head \o before) \o endpoints) \o after
  BY DEF FlattenInterface
<1>8. Before(x) \in Nat /\ After(x) \in Nat
  BY DEF Before, After
<1> HIDE DEF D, m, other, head, before, endpoints, after
<1> DEFINE s1 == head \o before
           s2 == s1 \o endpoints
           s == s2 \o after
<1>9. /\ s1 \in Seq(D) /\ Len(s1) = 1 + Before(x) /\ s1[1] = head[1]
      /\ \A j \in 2..Len(s1) : s1[j] = [type |-> 33]
  <2>1. /\ s1 \in Seq(D) /\ Len(s1) = 1 + Before(x)
        /\ \A j \in 1..(1 + Before(x)) : s1[j] = IF j <= 1 THEN head[j] ELSE before[j - 1]
    <3>1. /\ s1 \in Seq(D) /\ Len(s1) = Len(head) + Len(before)
          /\ \A j \in 1..(Len(head) + Len(before)) :
               s1[j] = IF j <= Len(head) THEN head[j] ELSE before[j - Len(head)]
      BY <1>2, <1>4, Concatenation
    <3> HIDE DEF s1
    <3> QED
      BY <1>2, <1>4, <3>1
  <2> HIDE DEF s1
  <2> QED
    BY <1>4, <1>8, <2>1, SMTT(30)
<1> HIDE DEF s1
<1>10. /\ s2 \in Seq(D) /\ Len(s2) = 1 + Before(x) + m
       /\ \A j \in 1..(1 + Before(x) + m) : s2[j] = IF j <= 1 + Before(x) THEN s1[j] ELSE endpoints[j - (1 + Before(x))]
  <2>1. /\ s2 \in Seq(D) /\ Len(s2) = Len(s1) + Len(endpoints)
        /\ \A j \in 1..(Len(s1) + Len(endpoints)) :
             s2[j] = IF j <= Len(s1) THEN s1[j] ELSE endpoints[j - Len(s1)]
    BY <1>6, <1>9, Concatenation
  <2> HIDE DEF s2
  <2> QED
    BY <1>6, <1>9, <2>1
<1> HIDE DEF s2
<1>11. /\ s \in Seq(D) /\ Len(s) = 1 + Before(x) + m + After(x)
       /\ \A j \in 1..(1 + Before(x) + m + After(x)) :
            s[j] = IF j <= 1 + Before(x) + m THEN s2[j] ELSE after[j - (1 + Before(x) + m)]
  <2>1. /\ s \in Seq(D) /\ Len(s) = Len(s2) + Len(after)
        /\ \A j \in 1..(Len(s2) + Len(after)) :
             s[j] = IF j <= Len(s2) THEN s2[j] ELSE after[j - Len(s2)]
    BY <1>5, <1>10, Concatenation
  <2> HIDE DEF s
  <2> QED
    BY <1>5, <1>10, <2>1
<1>12. s = FlattenInterface(x)
  BY <1>7 DEF s1, s2
<1> HIDE DEF s
<1>13. s[1] = head[1]
  BY <1>1, <1>8, <1>9, <1>10, <1>11, SMTT(30)
<1>14. ASSUME NEW j \in 2..Len(s)
       PROVE  IF j - 1 - Before(x) \in 1..m
                THEN s[j] = [type |-> EndpointType, transfer_type |-> x.endpoints[j - 1 - Before(x)]]
                ELSE s[j] = [type |-> 33]
  <2>1. CASE j - 1 - Before(x) \in 1..m
    <3>1. s[j] = endpoints[j - 1 - Before(x)]
      BY <1>1, <1>8, <1>10, <1>11, <2>1, SMTT(30)
    <3> QED
      BY <1>6, <2>1, <3>1
  <2>2. CASE j <= 1 + Before(x)
    <3>1. s[j] = s1[j] /\ j \in 2..Len(s1)
      BY <1>1, <1>8, <1>9, <1>10, <1>11, <2>2, SMTT(30)
    <3>2. j - 1 - Before(x) \notin 1..m
      BY <1>1, <1>8, <1>11, <2>2, SMTT(30)
    <3> QED
      BY <1>9, <3>1, <3>2
  <2>3. CASE j > 1 + Before(x) + m
    <3>1. s[j] = after[j - (1 + Before(x) + m)] /\ j - (1 + Before(x) + m) \in 1..After(x)
      BY <1>1, <1>8, <1>11, <2>3, SMTT(30)
    <3>2. j - 1 - Before(x) \notin 1..m
      BY <1>1, <1>8, <1>11, <2>3, SMTT(30)
    <3> QED
      BY <1>5, <3>1, <3>2
  <2> QED
    BY <1>1, <1>8, <1>11, <2>1, <2>2, <2>3, SMTT(30)
<1> QED
  BY <1>2, <1>11, <1>12, <1>13, <1>14 DEF D, m

\* The sequences of Flatten are sequences of descriptors, each one the last
\* with an interface's descriptors after it.
LEMMA LaidTypes ==
  ASSUME NEW t \in Seq(InterfaceTrees), NEW f, IsLaid(f, t, Len(t))
  PROVE  \A k \in 0..Len(t) : f[k] \in Seq(DescriptorTypes)
<1> DEFINE m == Len(t)
           S == {k \in 0..m : f[k] \notin Seq(DescriptorTypes)}
<1>0. m \in Nat /\ \A k \in 1..m : t[k] \in InterfaceTrees
  BY SMTT(30)
<1>1. S = {}
  <2> SUFFICES ASSUME S # {} PROVE FALSE
    OBVIOUS
  <2>1. S \in SUBSET Nat /\ S \subseteq 0..m
    BY <1>0, SMTT(30)
  <2>2. \A k \in S : f[k] \notin Seq(DescriptorTypes)
    OBVIOUS
  <2>3. \A k \in 0..m : k \notin S => f[k] \in Seq(DescriptorTypes)
    OBVIOUS
  <2> HIDE DEF S
  <2>4. PICK k \in S : \A h \in S : k <= h
    BY <2>1, Least
  <2>5. k \in 0..m
    BY <2>1
  <2>6. CASE k = 0
    BY <2>2, <2>6, NoElements DEF IsLaid
  <2>7. CASE k # 0
    <3>1. k - 1 \in 0..m /\ ~(k <= k - 1) /\ k \in 1..m
      BY <1>0, <2>5, <2>7, SMTT(30)
    <3>2. f[k - 1] \in Seq(DescriptorTypes)
      BY <2>3, <2>4, <3>1
    <3>3. FlattenInterface(t[k]) \in Seq(DescriptorTypes)
      BY <1>0, <3>1, InterfaceLayout
    <3>4. f[k] = f[k - 1] \o FlattenInterface(t[k])
      BY <3>1 DEF IsLaid
    <3>5. f[k - 1] \o FlattenInterface(t[k]) \in Seq(DescriptorTypes)
      BY <3>2, <3>3, Concatenation
    <3> QED
      BY <2>2, <3>4, <3>5
  <2> QED
    BY <2>6, <2>7
<1> QED
  BY <1>1

\* The next of them, position by position.
NextLaid(f, d, k) ==
  /\ Len(f[k - 1]) \in Nat /\ Len(f[k]) \in Nat /\ Len(d) \in Nat
  /\ Len(f[k]) = Len(f[k - 1]) + Len(d)
  /\ \A p \in 1..Len(f[k - 1]) : f[k][p] = f[k - 1][p]
  /\ \A p \in 1..Len(d) : f[k][Len(f[k - 1]) + p] = d[p]

\* Flatten's sequence with one interface more.
LEMMA LaidNext ==
  ASSUME NEW t \in Seq(InterfaceTrees), NEW f, IsLaid(f, t, Len(t)), NEW k \in 1..Len(t)
  PROVE  NextLaid(f, FlattenInterface(t[k]), k)
<1> DEFINE a == f[k - 1]
           b == FlattenInterface(t[k])
           r == f[k]
<1>1. Len(t) \in Nat /\ k - 1 \in 0..Len(t) /\ k \in 0..Len(t) /\ t[k] \in InterfaceTrees
  BY SMTT(30)
<1>2. a \in Seq(DescriptorTypes) /\ r \in Seq(DescriptorTypes)
  BY <1>1, LaidTypes
<1>3. b \in Seq(DescriptorTypes)
  BY <1>1, InterfaceLayout
<1>4. r = a \o b
  BY DEF IsLaid
<1> HIDE DEF a, b, r
<1>5. /\ Len(r) = Len(a) + Len(b)
      /\ \A j \in 1..(Len(a) + Len(b)) : r[j] = IF j <= Len(a) THEN a[j] ELSE b[j - Len(a)]
  BY <1>2, <1>3, <1>4, Concatenation
<1>6. Len(a) \in Nat /\ Len(b) \in Nat /\ Len(r) \in Nat
  BY <1>2, <1>3, SMTT(30)
<1>7. \A p \in 1..Len(a) : r[p] = a[p]
  BY <1>5, <1>6, SMTT(30)
<1>8. \A j \in 1..Len(b) : r[Len(a) + j] = b[j]
  BY <1>5, <1>6, SMTT(30)
<1> QED
  BY <1>5, <1>6, <1>7, <1>8 DEF a, b, r, NextLaid

\* What has been laid out stays.
LEMMA LaidStays ==
  ASSUME NEW t \in Seq(InterfaceTrees), NEW f, IsLaid(f, t, Len(t)), NEW k \in 0..Len(t)
  PROVE  \A n \in k..Len(t) : /\ Len(f[k]) <= Len(f[n])
                              /\ \A p \in 1..Len(f[k]) : f[n][p] = f[k][p]
<1> DEFINE m == Len(t)
           Keeps(n) == Len(f[k]) <= Len(f[n]) /\ \A p \in 1..Len(f[k]) : f[n][p] = f[k][p]
           S == {n \in k..m : ~Keeps(n)}
<1>0. m \in Nat /\ k \in Nat
  BY SMTT(30)
<1>1. \A n \in 0..m : Len(f[n]) \in Nat
  BY LaidTypes, SeqLength
<1>2. S = {}
  <2> SUFFICES ASSUME S # {} PROVE FALSE
    OBVIOUS
  <2>1. S \in SUBSET Nat /\ S \subseteq k..m
    BY <1>0, SMTT(30)
  <2>2. \A n \in S : ~Keeps(n)
    OBVIOUS
  <2>3. \A n \in k..m : n \notin S => Keeps(n)
    OBVIOUS
  <2> HIDE DEF S
  <2>4. PICK n \in S : \A h \in S : n <= h
    BY <2>1, Least
  <2>5. n \in k..m
    BY <2>1
  <2>6. CASE n = k
    BY <1>1, <2>2, <2>6, SMTT(30)
  <2>7. CASE n # k
    <3>1. n - 1 \in k..m /\ ~(n <= n - 1) /\ n \in 1..m
      BY <1>0, <2>5, <2>7, SMTT(30)
    <3>2. Keeps(n - 1)
      BY <2>3, <2>4, <3>1
    <3>3. NextLaid(f, FlattenInterface(t[n]), n)
      BY <3>1, LaidNext
    <3>4. Len(f[k]) \in Nat /\ Len(f[k]) <= Len(f[n - 1])
      BY <1>1, <3>2
    <3>5. Len(f[k]) <= Len(f[n])
      <4>1. /\ Len(f[n - 1]) \in Nat /\ Len(FlattenInterface(t[n])) \in Nat
            /\ Len(f[n]) = Len(f[n - 1]) + Len(FlattenInterface(t[n]))
        BY <3>3 DEF NextLaid
      <4>2. \A a, b, d \in Nat : a <= b => a <= b + d
        BY SMTT(30)
      <4> QED
        BY <3>4, <4>1, <4>2
    <3>6. ASSUME NEW p \in 1..Len(f[k]) PROVE f[n][p] = f[k][p]
      <4>1. p \in 1..Len(f[n - 1])
        BY <3>3, <3>4, SMTT(30) DEF NextLaid
      <4> QED
        BY <3>2, <3>3, <4>1 DEF NextLaid
    <3> QED
      BY <2>2, <3>5, <3>6
  <2> QED
    BY <2>6, <2>7
<1> QED
  BY <1>2

\* Where each interface's descriptors are in the whole.
LEMMA LaidLayout ==
  ASSUME NEW t \in Seq(InterfaceTrees), NEW f, IsLaid(f, t, Len(t)),
         NEW k \in 1..Len(t), NEW j \in 1..Len(FlattenInterface(t[k]))
  PROVE  /\ Len(f[k - 1]) + j \in 1..Len(f[Len(t)])
         /\ f[Len(t)][Len(f[k - 1]) + j] = FlattenInterface(t[k])[j]
<1>1. Len(t) \in Nat /\ Len(t) \in k..Len(t) /\ k \in 0..Len(t) /\ Len(t) \in 0..Len(t)
  BY SMTT(30)
<1>2. Len(f[Len(t)]) \in Nat
  BY <1>1, LaidTypes, SeqLength
<1>3. NextLaid(f, FlattenInterface(t[k]), k)
  BY LaidNext
<1>4. Len(f[k]) <= Len(f[Len(t)]) /\ \A p \in 1..Len(f[k]) : f[Len(t)][p] = f[k][p]
  BY <1>1, LaidStays
<1>5. Len(f[k - 1]) + j \in 1..Len(f[k]) /\ Len(f[k - 1]) + j \in 1..Len(f[Len(t)])
  <2>1. /\ Len(f[k - 1]) \in Nat /\ Len(f[k]) \in Nat /\ Len(FlattenInterface(t[k])) \in Nat
        /\ Len(f[k]) = Len(f[k - 1]) + Len(FlattenInterface(t[k])) /\ Len(f[k]) <= Len(f[Len(t)])
        /\ j \in 1..Len(FlattenInterface(t[k]))
    BY <1>3, <1>4 DEF NextLaid
  <2>2. \A a, b, d, e \in Nat : \A h \in 1..b : d = a + b /\ d <= e => a + h \in 1..d /\ a + h \in 1..e
    BY SMTT(30)
  <2> QED
    BY <1>2, <2>1, <2>2
<1> QED
  BY <1>3, <1>4, <1>5 DEF NextLaid

\* The states of the loops, one for every descriptor that they have passed.
IsParse(f, num, rest, m) ==
  /\ f = [n \in 0..m |-> f[n]] /\ f[0] = ParseInit
  /\ \A n \in 1..m : f[n] = ParseTurn(num, f[n - 1], rest[n])

\* The recursion of Parsed has a solution.
LEMMA ParseExists ==
  ASSUME NEW num, NEW rest, NEW m \in Nat
  PROVE  \E f : IsParse(f, num, rest, m)
<1> DEFINE S == {k \in 0..m : \A f : ~IsParse(f, num, rest, k)}
<1>1. S = {}
  <2> SUFFICES ASSUME S # {} PROVE FALSE
    OBVIOUS
  <2>1. S \in SUBSET Nat /\ S \subseteq 0..m
    BY SMTT(30)
  <2>2. \A k \in S : \A f : ~IsParse(f, num, rest, k)
    OBVIOUS
  <2>3. \A k \in 0..m : k \notin S => \E f : IsParse(f, num, rest, k)
    OBVIOUS
  <2> HIDE DEF S
  <2>4. PICK k \in S : \A h \in S : k <= h
    BY <2>1, Least
  <2>5. k \in 0..m
    BY <2>1
  <2>6. CASE k = 0
    <3> DEFINE f == [q \in 0..0 |-> ParseInit]
    <3>1. f[0] = ParseInit /\ f = [q \in 0..0 |-> f[q]] /\ 1..0 = {}
      BY SMTT(30)
    <3> HIDE DEF f
    <3>2. IsParse(f, num, rest, 0)
      BY <3>1 DEF IsParse
    <3> QED
      BY <2>2, <2>6, <3>2
  <2>7. CASE k # 0
    <3>1. k - 1 \in 0..m /\ ~(k <= k - 1) /\ k \in 1..m /\ 0 # k /\ 0 \in 0..k /\ k \in 0..k
          /\ \A q \in 1..k : /\ q \in 0..k /\ q - 1 \in 0..k /\ q - 1 # k
                             /\ q = k \/ q \in 1..(k - 1)
      BY <2>5, <2>7, SMTT(30)
    <3>2. PICK f : IsParse(f, num, rest, k - 1)
      BY <2>3, <2>4, <3>1
    <3> DEFINE g == [q \in 0..k |-> IF q = k THEN ParseTurn(num, f[k - 1], rest[k]) ELSE f[q]]
    <3>3. g[0] = ParseInit
      BY <3>1, <3>2 DEF IsParse
    <3>4. \A q \in 0..k : g[q] = IF q = k THEN ParseTurn(num, f[k - 1], rest[k]) ELSE f[q]
      OBVIOUS
    <3>5. g = [q \in 0..k |-> g[q]]
      OBVIOUS
    <3> HIDE DEF g
    <3>6. ASSUME NEW q \in 1..k PROVE g[q] = ParseTurn(num, g[q - 1], rest[q])
      <4>1. g[q - 1] = f[q - 1]
        BY <3>1, <3>4
      <4>2. CASE q = k
        BY <3>1, <3>4, <4>1, <4>2
      <4>3. CASE q # k
        <5>1. f[q] = ParseTurn(num, f[q - 1], rest[q])
          BY <3>1, <3>2, <4>3 DEF IsParse
        <5>2. g[q] = f[q]
          BY <3>1, <3>4, <4>3
        <5> QED
          BY <4>1, <5>1, <5>2
      <4> QED
        BY <4>2, <4>3
    <3>7. IsParse(g, num, rest, k)
      BY <3>3, <3>5, <3>6 DEF IsParse
    <3> QED
      BY <2>2, <3>7
  <2> QED
    BY <2>6, <2>7
<1>2. m \in 0..m
  BY SMTT(30)
<1> QED
  BY <1>1, <1>2

\* What the loops return.
LEMMA ParsedIsParse ==
  ASSUME NEW c, Len(c.rest) \in Nat
  PROVE  \E f : IsParse(f, c.b_num_interfaces, c.rest, Len(c.rest)) /\ Parsed(c) = f[Len(c.rest)]
<1> DEFINE m == Len(c.rest)
           num == c.b_num_interfaces
           R(g) == g = [n \in 0..m |-> IF n = 0 THEN ParseInit ELSE ParseTurn(num, g[n - 1], c.rest[n])]
           after == CHOOSE g : R(g)
<1>0. m \in Nat
  OBVIOUS
<1>1. PICK g : IsParse(g, num, c.rest, m)
  BY ParseExists
<1>2. R(g)
  <2>1. \A n \in 0..m : g[n] = IF n = 0 THEN ParseInit ELSE ParseTurn(num, g[n - 1], c.rest[n])
    <3> SUFFICES ASSUME NEW n \in 0..m
                 PROVE  g[n] = IF n = 0 THEN ParseInit ELSE ParseTurn(num, g[n - 1], c.rest[n])
      OBVIOUS
    <3>1. n = 0 \/ (n \in 1..m /\ n # 0)
      BY <1>0, SMTT(30)
    <3> QED
      BY <1>1, <3>1 DEF IsParse
  <2>2. g = [n \in 0..m |-> g[n]]
    BY <1>1 DEF IsParse
  <2> QED
    BY <2>1, <2>2
<1>3. R(after)
  <2> HIDE DEF R
  <2> QED
    BY <1>2
<1>4. Parsed(c) = after[m]
  BY DEF Parsed
<1> HIDE DEF after
<1>5. IsParse(after, num, c.rest, m)
  <2>1. 0 \in 0..m /\ \A n \in 1..m : n \in 0..m /\ n # 0
    BY SMTT(30)
  <2>2. \A n \in 0..m : after[n] = IF n = 0 THEN ParseInit ELSE ParseTurn(num, after[n - 1], c.rest[n])
    BY <1>3
  <2>3. after = [n \in 0..m |-> after[n]]
    BY <1>3, <2>2
  <2> HIDE DEF R, m
  <2> QED
    BY <2>1, <2>2, <2>3 DEF IsParse
<1> QED
  BY <1>4, <1>5

\* The loops after the first k interfaces of t, and after m endpoints of the kth.
Whole(t, k) == [interfaces |-> Infos(t, k), missing |-> 0]
Partial(t, k, m) ==
  [interfaces |-> Append(Infos(t, k - 1),
                         [alternate |-> t[k].alternate, endpoints |-> SubSeq(t[k].endpoints, 1, m)]),
   missing |-> Len(t[k].endpoints) - m]

\* How many endpoints are among the first j descriptors of interface x.
EndpointsIn(x, j) ==
  IF j <= 1 + Before(x) THEN 0
  ELSE IF j - 1 - Before(x) <= Len(x.endpoints) THEN j - 1 - Before(x) ELSE Len(x.endpoints)

\* After the last endpoint of an interface the inner loop has ended.
LEMMA PartialIsWhole ==
  ASSUME NEW t \in Seq(InterfaceTrees), NEW k \in 1..Len(t)
  PROVE  Partial(t, k, Len(t[k].endpoints)) = Whole(t, k)
<1> DEFINE info == [alternate |-> t[k].alternate, endpoints |-> t[k].endpoints]
<1>1. k \in Nat /\ k - 1 \in 0..Len(t) /\ t[k] \in InterfaceTrees
  BY SMTT(30)
<1>2. t[k].endpoints \in Seq(TransferTypes) /\ info \in InterfaceInfos
  BY <1>1, SMTT(30) DEF InterfaceTrees, InterfaceInfos
<1>3. SubSeq(t[k].endpoints, 1, Len(t[k].endpoints)) = t[k].endpoints
  BY <1>2, SubSeqOfAll
<1>4. Len(t[k].endpoints) \in Nat
  BY <1>2, SeqLength
<1>5. Len(t[k].endpoints) - Len(t[k].endpoints) = 0
  BY <1>4, SMTT(30)
<1>6. Append(Infos(t, k - 1), info) = Infos(t, k)
  <2>1. Infos(t, k - 1) \in Seq(InterfaceInfos) /\ Len(Infos(t, k - 1)) = k - 1
    BY <1>1, InfosType
  <2>2. Infos(t, k) \in Seq(InterfaceInfos) /\ Len(Infos(t, k)) = k
    <3>1. k \in 0..Len(t)
      BY SMTT(30)
    <3> QED
      BY <3>1, InfosType
  <2>3. \A x \in 1..k : x \in 1..(k - 1) \/ x = k
    BY <1>1, SMTT(30)
  <2>4. Len(Infos(t, k - 1)) + 1 = k
    BY <1>1, <2>1, SMTT(30)
  <2>5. /\ Append(Infos(t, k - 1), info) \in Seq(InterfaceInfos) /\ Len(Append(Infos(t, k - 1), info)) = k
        /\ \A x \in 1..(k - 1) : Append(Infos(t, k - 1), info)[x] = Infos(t, k - 1)[x]
        /\ Append(Infos(t, k - 1), info)[k] = info
    <3> HIDE DEF info
    <3>1. LET s == Infos(t, k - 1)
          IN  /\ Append(s, info) \in Seq(InterfaceInfos) /\ Len(Append(s, info)) = Len(s) + 1
              /\ \A x \in 1..Len(s) : Append(s, info)[x] = s[x]
              /\ Append(s, info)[Len(s) + 1] = info
      BY <1>2, <2>1, Appending, SMTT(30)
    <3> QED
      BY <2>1, <2>4, <3>1
  <2>6. \A x \in 1..k : Append(Infos(t, k - 1), info)[x] = Infos(t, k)[x]
    <3>1. \A x \in 1..(k - 1) : Infos(t, k - 1)[x] = Infos(t, k)[x]
      BY <1>1, SMTT(30) DEF Infos
    <3>2. Infos(t, k)[k] = info
      BY <1>1, SMTT(30) DEF Infos
    <3> QED
      BY <2>3, <2>5, <3>1, <3>2
  <2> QED
    BY <2>2, <2>5, <2>6, SameElements
<1> QED
  BY <1>3, <1>5, <1>6 DEF Partial, Whole

\* The outer loop ends when it has as many interfaces as the header says.
LEMMA WholeStays ==
  ASSUME NEW t \in Seq(InterfaceTrees), NEW num \in 0..Len(t), NEW d
  PROVE  ParseTurn(num, Whole(t, num), d) = Whole(t, num) /\ ParseDone(num, Whole(t, num))
<1>1. Len(Infos(t, num)) = num
  BY InfosType
<1>2. Whole(t, num).missing = 0 /\ Whole(t, num).interfaces = Infos(t, num)
  BY DEF Whole
<1>3. ~(0 > 0)
  BY SMTT(30)
<1> QED
  BY <1>1, <1>2, <1>3 DEF ParseTurn, ParseDone

\* An interface descriptor begins an interface.
LEMMA TurnBegins ==
  ASSUME NEW t \in Seq(InterfaceTrees), NEW num \in 0..Len(t), NEW k \in 1..num
  PROVE  ParseTurn(num, Whole(t, k - 1),
                   [type |-> InterfaceType, alternate |-> t[k].alternate, b_num_endpoints |-> Len(t[k].endpoints)])
           = Partial(t, k, 0)
<1> DEFINE d == [type |-> InterfaceType, alternate |-> t[k].alternate, b_num_endpoints |-> Len(t[k].endpoints)]
<1>1. k - 1 \in 0..Len(t) /\ k - 1 # num /\ ~(0 > 0) /\ 0 < 1 /\ t[k] \in InterfaceTrees
  BY SMTT(30)
<1>2. Len(Infos(t, k - 1)) = k - 1
  BY <1>1, InfosType
<1>3. Whole(t, k - 1).missing = 0 /\ Whole(t, k - 1).interfaces = Infos(t, k - 1)
  BY DEF Whole
<1>4. d.type = InterfaceType /\ d.alternate = t[k].alternate /\ d.b_num_endpoints = Len(t[k].endpoints)
  OBVIOUS
<1>5. ParseTurn(num, Whole(t, k - 1), d) = ParseInterface(Whole(t, k - 1), d)
  BY <1>1, <1>2, <1>3 DEF ParseTurn, ParseDone
<1>6. ParseInterface(Whole(t, k - 1), d) =
        [interfaces |-> Append(Infos(t, k - 1), [alternate |-> t[k].alternate, endpoints |-> <<>>]),
         missing |-> Len(t[k].endpoints)]
  <2> HIDE DEF d
  <2> QED
    BY <1>3, <1>4 DEF ParseInterface
<1>7. SubSeq(t[k].endpoints, 1, 0) = <<>>
  BY <1>1, SubSeqOfNone, SMTT(30)
<1>8. Len(t[k].endpoints) - 0 = Len(t[k].endpoints)
  BY <1>1, SMTT(30) DEF InterfaceTrees
<1> QED
  BY <1>5, <1>6, <1>7, <1>8 DEF Partial

\* An endpoint that is pushed.
LEMMA EndpointPushed ==
  ASSUME NEW e \in InterfaceInfos, NEW v
  PROVE  [e EXCEPT !.endpoints = Append(@, v)] = [alternate |-> e.alternate, endpoints |-> Append(e.endpoints, v)]
<1>1. PICK x, y : e = [alternate |-> x, endpoints |-> y]
  BY DEF InterfaceInfos
<1>2. e.alternate = x /\ e.endpoints = y
  BY <1>1
<1>3. [e EXCEPT !.endpoints = Append(@, v)] = [alternate |-> x, endpoints |-> Append(y, v)]
  BY <1>1, SMTT(30)
<1> QED
  BY <1>2, <1>3

\* It is pushed to the interface that was begun last.
Pushed(a, v) == [a EXCEPT ![Len(a)].endpoints = Append(@, v)]
\* The EXCEPT of the inner loop replaces the last member.
LEMMA LastWritten ==
  ASSUME NEW s \in Seq(InterfaceInfos), NEW e \in InterfaceInfos, NEW v \in TransferTypes,
         NEW a, a = Append(s, e)
  PROVE  Pushed(a, v) = Append(s, [alternate |-> e.alternate, endpoints |-> Append(e.endpoints, v)])
<1> DEFINE u == [alternate |-> e.alternate, endpoints |-> Append(e.endpoints, v)]
           n == Len(s)
<1>1. n \in Nat /\ a \in Seq(InterfaceInfos) /\ Len(a) = n + 1 /\ a[n + 1] = e /\ \A x \in 1..n : a[x] = s[x]
  BY SMTT(30)
<1>2. n + 1 \in 1..(n + 1) /\ \A x \in 1..(n + 1) : x \in 1..n \/ x = n + 1
  BY <1>1, SMTT(30)
<1>3. \A x \in 1..n : x # n + 1
  BY <1>1, SMTT(30)
<1>4. e.endpoints \in Seq(TransferTypes) /\ e.alternate \in BOOLEAN
  BY DEF InterfaceInfos
<1>5. u \in InterfaceInfos
  <2>1. Append(e.endpoints, v) \in Seq(TransferTypes)
    BY <1>4, Appending
  <2> QED
    BY <1>4, <2>1 DEF InterfaceInfos
<1>6. [e EXCEPT !.endpoints = Append(@, v)] = u
  BY EndpointPushed
<1> HIDE DEF u, n
<1> DEFINE r == [a EXCEPT ![Len(a)] = u]
           q == Append(s, u)
<1>7. Pushed(a, v) = r
  <2>1. Len(a) \in DOMAIN a /\ a[Len(a)] = e
    BY <1>1, <1>2, SeqLength
  <2>2. [a EXCEPT ![Len(a)].endpoints = Append(@, v)] = [a EXCEPT ![Len(a)] = [a[Len(a)] EXCEPT !.endpoints = Append(@, v)]]
    BY <2>1
  <2> QED
    BY <1>6, <2>1, <2>2 DEF Pushed
<1>8. DOMAIN r = 1..(n + 1) /\ r[n + 1] = u /\ \A x \in 1..n : r[x] = a[x]
  <2>1. DOMAIN a = 1..(n + 1) /\ Len(a) = n + 1
    BY <1>1, SeqLength
  <2>2. r = [a EXCEPT ![n + 1] = u]
    BY <2>1
  <2> HIDE DEF r
  <2> DEFINE last == n + 1
  <2>3. r = [a EXCEPT ![last] = u] /\ last \in DOMAIN a /\ \A x \in 1..n : x # last /\ x \in DOMAIN a
    BY <1>2, <1>3, <2>1, <2>2, <1>1, SMTT(30)
  <2> HIDE DEF last
  <2>4. DOMAIN r = DOMAIN a /\ r[last] = u /\ \A x \in 1..n : r[x] = a[x]
    BY <2>3
  <2> QED
    BY <2>1, <2>4 DEF last
<1>9. q \in Seq(InterfaceInfos) /\ Len(q) = n + 1 /\ q[n + 1] = u /\ \A x \in 1..n : q[x] = s[x]
  BY <1>5, SMTT(30) DEF n
<1> HIDE DEF r, q
<1>10. DOMAIN q = 1..(n + 1)
  BY <1>9, SeqLength
<1>11. r = q
  <2>1. \A x \in 1..(n + 1) : r[x] = q[x]
    BY <1>1, <1>2, <1>8, <1>9
  <2>2. r = [x \in 1..(n + 1) |-> r[x]] /\ q = [x \in 1..(n + 1) |-> q[x]]
    BY <1>8, <1>9, <1>10, SeqLength DEF r
  <2> QED
    BY <2>1, <2>2
<1> QED
  BY <1>7, <1>11 DEF u, q

\* An endpoint descriptor brings the next endpoint.
LEMMA TurnReadsEndpoint ==
  ASSUME NEW t \in Seq(InterfaceTrees), NEW k \in 1..Len(t), NEW m \in 0..(Len(t[k].endpoints) - 1)
  PROVE  ParseEndpoint(Partial(t, k, m), [type |-> EndpointType, transfer_type |-> t[k].endpoints[m + 1]])
           = Partial(t, k, m + 1)
<1> DEFINE ep == t[k].endpoints
           e == [alternate |-> t[k].alternate, endpoints |-> SubSeq(ep, 1, m)]
           v == ep[m + 1]
           d == [type |-> EndpointType, transfer_type |-> v]
           s == Infos(t, k - 1)
           a == Append(s, e)
<1> SUFFICES ParseEndpoint(Partial(t, k, m), d) = Partial(t, k, m + 1)
  OBVIOUS
<1>1. k - 1 \in 0..Len(t) /\ t[k] \in InterfaceTrees
  BY SMTT(30)
<1>2. ep \in Seq(TransferTypes) /\ t[k].alternate \in BOOLEAN
  BY <1>1 DEF InterfaceTrees
<1>3. Len(ep) \in Nat /\ m \in Nat /\ m + 1 \in 1..Len(ep) /\ m + 1 - 1 = m /\ m \in Int /\ 1 \in 1..Len(ep)
      /\ m + 1 \in 1..Len(ep) /\ \A x \in 1..m : x \in 1..Len(ep)
  BY <1>2, SMTT(30)
<1>4. v \in TransferTypes
  BY <1>2, <1>3, SeqMember
<1>5. SubSeq(ep, 1, m) \in Seq(TransferTypes)
  BY <1>2, <1>3, SMTT(30)
<1>6. e \in InterfaceInfos /\ e.alternate = t[k].alternate /\ e.endpoints = SubSeq(ep, 1, m)
  BY <1>2, <1>5 DEF InterfaceInfos
<1>7. s \in Seq(InterfaceInfos)
  BY <1>1, InfosType
<1>8. Append(SubSeq(ep, 1, m), v) = SubSeq(ep, 1, m + 1)
  <2>1. m \in 0..(Len(ep) - 1)
    OBVIOUS
  <2> HIDE DEF ep
  <2> QED
    BY <1>2, <2>1, SubSeqGrows DEF v
<1>9. /\ Partial(t, k, m).interfaces = a /\ Partial(t, k, m).missing = Len(ep) - m
      /\ d.type = EndpointType /\ d.transfer_type = v
  BY DEF Partial
<1>10. Pushed(a, v) = Append(s, [alternate |-> e.alternate, endpoints |-> Append(e.endpoints, v)])
  <2>1. a = Append(s, e)
    OBVIOUS
  <2> HIDE DEF e, v, s, a
  <2> QED
    BY <1>4, <1>6, <1>7, <2>1, LastWritten
<1>11. (Len(ep) - m) - 1 = Len(ep) - (m + 1)
  BY <1>3, SMTT(30)
<1>12. ParseEndpoint(Partial(t, k, m), d) =
         [interfaces |-> Pushed(a, v), missing |-> (Len(ep) - m) - 1]
  <2> HIDE DEF ep, d, a, v
  <2> QED
    BY <1>9 DEF ParseEndpoint, Pushed
<1>13. Partial(t, k, m + 1) =
         [interfaces |-> Append(s, [alternate |-> t[k].alternate, endpoints |-> SubSeq(ep, 1, m + 1)]),
          missing |-> Len(ep) - (m + 1)]
  BY DEF Partial
<1> HIDE DEF ep, e, a, s, v, d
<1> QED
  BY <1>6, <1>8, <1>10, <1>11, <1>12, <1>13

\* The descriptors after the first of an interface bring its endpoints, in order,
\* and the class-specific ones are passed over.
LEMMA TurnWithin ==
  ASSUME NEW t \in Seq(InterfaceTrees), NEW num \in 0..Len(t), NEW k \in 1..num,
         NEW j \in 1..(Len(FlattenInterface(t[k])) - 1)
  PROVE  ParseTurn(num, Partial(t, k, EndpointsIn(t[k], j)), FlattenInterface(t[k])[j + 1])
           = Partial(t, k, EndpointsIn(t[k], j + 1))
<1> DEFINE x == t[k]
           l == Len(x.endpoints)
           b == Before(x)
           m == EndpointsIn(x, j)
           d == FlattenInterface(x)[j + 1]
           s == Partial(t, k, m)
<1> SUFFICES ParseTurn(num, s, d) = Partial(t, k, EndpointsIn(x, j + 1))
  OBVIOUS
<1>1. x \in InterfaceTrees /\ k \in 1..Len(t)
  BY SMTT(30)
<1>2. l \in Nat /\ b \in 0..1 /\ After(x) \in 0..1
  BY <1>1, SMTT(30) DEF InterfaceTrees, Before, After
<1>3. Len(FlattenInterface(x)) = 1 + b + l + After(x)
  BY <1>1, InterfaceLayout
<1>4. j \in Nat \ {0} /\ j + 1 \in 2..Len(FlattenInterface(x)) /\ j + 1 <= 1 + b + l + After(x)
      /\ j + 1 - 1 - b = j - b
  BY <1>2, <1>3, SMTT(30)
<1>5. IF j - b \in 1..l THEN d = [type |-> EndpointType, transfer_type |-> x.endpoints[j - b]]
                        ELSE d = [type |-> 33]
  <2>1. IF j + 1 - 1 - b \in 1..l
          THEN d = [type |-> EndpointType, transfer_type |-> x.endpoints[j + 1 - 1 - b]]
          ELSE d = [type |-> 33]
    <3>1. \A h \in 2..Len(FlattenInterface(x)) :
            IF h - 1 - Before(x) \in 1..Len(x.endpoints)
              THEN FlattenInterface(x)[h] = [type |-> EndpointType, transfer_type |-> x.endpoints[h - 1 - Before(x)]]
              ELSE FlattenInterface(x)[h] = [type |-> 33]
      <4> HIDE DEF x
      <4> QED
        BY <1>1, InterfaceLayout
    <3> HIDE DEF x
    <3> QED
      BY <1>4, <3>1, SMTT(30)
  <2> QED
    BY <1>4, <2>1
<1>6. s.missing = l - m
  BY DEF Partial
<1> HIDE DEF d, s
<1>0. \A h : EndpointsIn(x, h) = IF h <= 1 + b THEN 0 ELSE IF h - 1 - b <= l THEN h - 1 - b ELSE l
  BY DEF EndpointsIn
<1> HIDE DEF x, l, b
<1>7. m = IF j <= 1 + b THEN 0 ELSE IF j - 1 - b <= l THEN j - 1 - b ELSE l
  BY <1>0
<1>8. EndpointsIn(x, j + 1) = IF j + 1 <= 1 + b THEN 0 ELSE IF j - b <= l THEN j - b ELSE l
  <2> DEFINE h == j + 1
  <2>1. h = j + 1 /\ h - 1 - b = j - b
    BY <1>4, SMTT(30)
  <2> HIDE DEF h
  <2>2. EndpointsIn(x, h) = IF h <= 1 + b THEN 0 ELSE IF h - 1 - b <= l THEN h - 1 - b ELSE l
    BY <1>0
  <2> QED
    BY <2>1, <2>2
<1> HIDE DEF m
<1>9. m \in 0..l
  BY <1>2, <1>4, <1>7, SMTT(30)
<1>10. CASE m = l
  <2>1. EndpointsIn(x, j + 1) = l /\ j - b \notin 1..l
    BY <1>2, <1>4, <1>7, <1>8, <1>10, SMTT(30)
  <2>2. d = [type |-> 33]
    BY <1>5, <2>1
  <2>3. d.type # InterfaceType
    BY <2>2, SMTT(30) DEF InterfaceType
  <2>4. ~(s.missing > 0)
    BY <1>2, <1>6, <1>10, SMTT(30)
  <2>5. ParseTurn(num, s, d) = s
    BY <2>3, <2>4 DEF ParseTurn, ParseInterface
  <2> QED
    BY <1>10, <2>1, <2>5 DEF s
<1>11. CASE m # l /\ j - b \in 1..l
  <2>1. m = j - b - 1 /\ m + 1 = j - b /\ EndpointsIn(x, j + 1) = m + 1 /\ m \in 0..(l - 1)
    BY <1>2, <1>4, <1>7, <1>8, <1>11, SMTT(30)
  <2>2. d = [type |-> EndpointType, transfer_type |-> x.endpoints[m + 1]]
    BY <1>5, <1>11, <2>1
  <2>3. s.missing > 0
    BY <1>2, <1>6, <1>9, <1>11, SMTT(30)
  <2>4. ParseEndpoint(Partial(t, k, m), [type |-> EndpointType, transfer_type |-> x.endpoints[m + 1]])
          = Partial(t, k, m + 1)
    BY <1>1, <2>1, TurnReadsEndpoint DEF x, l
  <2>5. ParseTurn(num, s, d) = ParseEndpoint(s, d)
    BY <2>3 DEF ParseTurn
  <2> QED
    BY <2>1, <2>2, <2>4, <2>5 DEF s
<1>12. CASE m # l /\ j - b \notin 1..l
  <2>1. EndpointsIn(x, j + 1) = m
    BY <1>2, <1>4, <1>7, <1>8, <1>12, SMTT(30)
  <2>2. d = [type |-> 33]
    BY <1>5, <1>12
  <2>3. d.type # EndpointType
    BY <2>2, SMTT(30) DEF EndpointType
  <2>4. s.missing > 0
    BY <1>2, <1>6, <1>9, <1>12, SMTT(30)
  <2>5. ParseTurn(num, s, d) = s
    BY <2>3, <2>4 DEF ParseTurn, ParseEndpoint
  <2> QED
    BY <2>1, <2>5 DEF s
<1> QED
  BY <1>10, <1>11, <1>12

\* Where the loops are after n descriptors: in which interface, and how far in it.
Read(t, num, laid, f, n) ==
  \E k \in 1..Len(t) : \E j \in 1..Len(FlattenInterface(t[k])) :
    /\ n = Len(laid[k - 1]) + j
    /\ f[n] = IF k <= num THEN Partial(t, k, EndpointsIn(t[k], j)) ELSE Whole(t, num)

\* They begin at the first interface.
LEMMA ReadBegins ==
  ASSUME NEW t \in Seq(InterfaceTrees), NEW num \in 0..Len(t), NEW laid, IsLaid(laid, t, Len(t)),
         NEW f, NEW k \in 1..Len(t), NEW n,
         n = Len(laid[k - 1]) + 1,
         f[n] = ParseTurn(num, IF k - 1 <= num THEN Whole(t, k - 1) ELSE Whole(t, num), FlattenInterface(t[k])[1])
  PROVE  Read(t, num, laid, f, n)
<1>1. t[k] \in InterfaceTrees /\ k \in Nat /\ num \in Nat /\ Len(t) \in Nat
  BY SMTT(30)
<1>2. Before(t[k]) \in Nat /\ After(t[k]) \in Nat /\ Len(t[k].endpoints) \in Nat
  BY <1>1, SMTT(30) DEF Before, After, InterfaceTrees
<1>3. 1 \in 1..Len(FlattenInterface(t[k]))
  <2>1. Len(FlattenInterface(t[k])) = 1 + Before(t[k]) + Len(t[k].endpoints) + After(t[k])
    BY <1>1, InterfaceLayout
  <2> QED
    BY <1>2, <2>1, SMTT(30)
<1>4. FlattenInterface(t[k])[1] =
        [type |-> InterfaceType, alternate |-> t[k].alternate, b_num_endpoints |-> Len(t[k].endpoints)]
  BY <1>1, InterfaceLayout
<1>5. EndpointsIn(t[k], 1) = 0
  BY <1>2, SMTT(30) DEF EndpointsIn
<1>6. f[n] = IF k <= num THEN Partial(t, k, EndpointsIn(t[k], 1)) ELSE Whole(t, num)
  <2>1. CASE k <= num
    <3>1. k - 1 <= num /\ k \in 1..num
      BY <1>1, <2>1, SMTT(30)
    <3> QED
      BY <1>4, <1>5, <2>1, <3>1, TurnBegins
  <2>2. CASE ~(k <= num)
    <3>1. k - 1 <= num => k - 1 = num
      BY <1>1, <2>2, SMTT(30)
    <3>2. f[n] = ParseTurn(num, Whole(t, num), FlattenInterface(t[k])[1])
      BY <3>1
    <3> QED
      BY <2>2, <3>2, WholeStays
  <2> QED
    BY <2>1, <2>2
<1> QED
  BY <1>3, <1>6 DEF Read

\* How far an interface's last descriptor brings them.
LEMMA AllEndpointsIn ==
  ASSUME NEW x \in InterfaceTrees
  PROVE  /\ Len(FlattenInterface(x)) \in Nat \ {0}
         /\ EndpointsIn(x, Len(FlattenInterface(x))) = Len(x.endpoints)
         /\ \A j \in 1..Len(FlattenInterface(x)) : EndpointsIn(x, j) \in 0..Len(x.endpoints)
<1> DEFINE l == Len(x.endpoints)
           b == Before(x)
           a == After(x)
           n == Len(FlattenInterface(x))
<1>1. l \in Nat /\ b \in 0..1 /\ a \in 0..1 /\ (a = 0 \/ b = 0)
  BY SMTT(30) DEF InterfaceTrees, Before, After
<1>2. n = 1 + b + l + a
  BY InterfaceLayout
<1>3. \A h : EndpointsIn(x, h) = IF h <= 1 + b THEN 0 ELSE IF h - 1 - b <= l THEN h - 1 - b ELSE l
  BY DEF EndpointsIn
<1> HIDE DEF l, b, a, n
<1>4. EndpointsIn(x, n) = IF n <= 1 + b THEN 0 ELSE IF n - 1 - b <= l THEN n - 1 - b ELSE l
  BY <1>3
<1>5. n \in Nat \ {0} /\ EndpointsIn(x, n) = l
  BY <1>1, <1>2, <1>4, SMTT(30)
<1>6. ASSUME NEW j \in 1..n PROVE EndpointsIn(x, j) \in 0..l
  <2>1. EndpointsIn(x, j) = IF j <= 1 + b THEN 0 ELSE IF j - 1 - b <= l THEN j - 1 - b ELSE l
    BY <1>3
  <2> QED
    BY <1>1, <1>5, <2>1, SMTT(30)
<1> QED
  BY <1>5, <1>6 DEF l, n

\* One descriptor further.
LEMMA ReadContinues ==
  ASSUME NEW t \in Seq(InterfaceTrees), NEW num \in 0..Len(t), NEW laid, IsLaid(laid, t, Len(t)),
         NEW f, NEW n, Read(t, num, laid, f, n), n + 1 <= Len(laid[Len(t)]),
         f[n + 1] = ParseTurn(num, f[n], laid[Len(t)][n + 1])
  PROVE  Read(t, num, laid, f, n + 1)
<1>1. PICK k \in 1..Len(t) : \E j \in 1..Len(FlattenInterface(t[k])) :
        /\ n = Len(laid[k - 1]) + j
        /\ f[n] = IF k <= num THEN Partial(t, k, EndpointsIn(t[k], j)) ELSE Whole(t, num)
  BY DEF Read
<1>2. PICK j \in 1..Len(FlattenInterface(t[k])) :
        /\ n = Len(laid[k - 1]) + j
        /\ f[n] = IF k <= num THEN Partial(t, k, EndpointsIn(t[k], j)) ELSE Whole(t, num)
  BY <1>1
<1> DEFINE size == Len(FlattenInterface(t[k]))
           start == Len(laid[k - 1])
<1>3. t[k] \in InterfaceTrees /\ Len(t) \in Nat /\ num \in Nat /\ k \in Nat
  BY SMTT(30)
<1>4. size \in Nat \ {0} /\ EndpointsIn(t[k], size) = Len(t[k].endpoints)
  BY <1>3, AllEndpointsIn
<1>5. NextLaid(laid, FlattenInterface(t[k]), k)
  BY LaidNext
<1>6. start \in Nat /\ Len(laid[k]) = start + size
  BY <1>5 DEF NextLaid
<1>7. CASE j # size
  <2>1. j + 1 \in 1..size /\ j \in 1..(size - 1) /\ n + 1 = start + (j + 1)
    <3> HIDE DEF size, start
    <3>1. j \in 1..size /\ n = start + j
      BY <1>2 DEF size, start
    <3> QED
      BY <1>4, <1>6, <1>7, <3>1, SMTT(30)
  <2>2. laid[Len(t)][start + (j + 1)] = FlattenInterface(t[k])[j + 1]
    BY <2>1, LaidLayout
  <2>3. f[n + 1] = ParseTurn(num, f[n], FlattenInterface(t[k])[j + 1])
    BY <2>1, <2>2
  <2>4. f[n + 1] = IF k <= num THEN Partial(t, k, EndpointsIn(t[k], j + 1)) ELSE Whole(t, num)
    <3>1. CASE k <= num
      <4>1. k \in 1..num
        BY <1>3, <3>1, SMTT(30)
      <4> QED
        BY <1>2, <2>1, <2>3, <3>1, <4>1, TurnWithin
    <3>2. CASE ~(k <= num)
      BY <1>2, <2>3, <3>2, WholeStays
    <3> QED
      BY <3>1, <3>2
  <2> QED
    BY <2>1, <2>4 DEF Read
<1>8. CASE j = size
  <2>1. n = Len(laid[k])
    BY <1>2, <1>6, <1>8
  <2>2. k # Len(t)
    <3>1. \A h \in Nat : ~(h + 1 <= h)
      BY SMTT(30)
    <3>2. Len(laid[k]) \in Nat
      BY <1>5 DEF NextLaid
    <3> QED
      BY <2>1, <3>1, <3>2
  <2>3. k + 1 \in 1..Len(t) /\ (k + 1) - 1 = k
    BY <1>3, <2>2, SMTT(30)
  <2>4. t[k + 1] \in InterfaceTrees
    BY <2>3, SMTT(30)
  <2>5. 1 \in 1..Len(FlattenInterface(t[k + 1]))
    <3>1. \A h \in Nat \ {0} : 1 \in 1..h
      BY SMTT(30)
    <3> QED
      BY <2>4, <3>1, AllEndpointsIn
  <2>6. laid[Len(t)][Len(laid[(k + 1) - 1]) + 1] = FlattenInterface(t[k + 1])[1]
    BY <2>3, <2>5, LaidLayout
  <2>7. f[n] = IF k <= num THEN Whole(t, k) ELSE Whole(t, num)
    BY <1>2, <1>4, <1>8, PartialIsWhole
  <2>8. n + 1 = Len(laid[(k + 1) - 1]) + 1
    BY <2>1, <2>3
  <2>9. f[n + 1] = ParseTurn(num, IF (k + 1) - 1 <= num THEN Whole(t, (k + 1) - 1) ELSE Whole(t, num), FlattenInterface(t[k + 1])[1])
    BY <2>3, <2>6, <2>7, <2>8
  <2> QED
    BY <2>3, <2>8, <2>9, ReadBegins
<1> QED
  BY <1>7, <1>8

\* The descriptors that the loops are given are the first of the whole.
IsBeginning(rest, m, whole) == m \in 0..Len(whole) /\ \A n \in 1..m : rest[n] = whole[n]

\* After every descriptor, however many there were room for, the loops have what
\* was laid out until there.
LEMMA AlwaysRead ==
  ASSUME NEW t \in Seq(InterfaceTrees), NEW num \in 0..Len(t), NEW laid, IsLaid(laid, t, Len(t)),
         NEW rest, NEW m, IsBeginning(rest, m, laid[Len(t)]), NEW f, IsParse(f, num, rest, m)
  PROVE  \A n \in 1..m : Read(t, num, laid, f, n)
<1> DEFINE whole == laid[Len(t)]
           S == {n \in 1..m : ~Read(t, num, laid, f, n)}
<1>0. Len(t) \in Nat /\ Len(t) \in 0..Len(t)
  BY SMTT(30)
<1>1. Len(whole) \in Nat
  BY <1>0, LaidTypes, SeqLength
<1>2. m \in Nat /\ m <= Len(whole)
  <2>1. \A a \in Nat : \A b \in 0..a : b \in Nat /\ b <= a
    BY SMTT(30)
  <2> QED
    BY <1>1, <2>1 DEF IsBeginning
<1>3. S = {}
  <2> SUFFICES ASSUME S # {} PROVE FALSE
    OBVIOUS
  <2>1. S \in SUBSET Nat /\ S \subseteq 1..m
    BY <1>2, SMTT(30)
  <2>2. \A n \in S : ~Read(t, num, laid, f, n)
    OBVIOUS
  <2>3. \A n \in 1..m : n \notin S => Read(t, num, laid, f, n)
    OBVIOUS
  <2> HIDE DEF S
  <2>4. PICK n \in S : \A h \in S : n <= h
    BY <2>1, Least
  <2>5. n \in 1..m
    BY <2>1
  <2>6. f[n] = ParseTurn(num, f[n - 1], whole[n])
    BY <2>5 DEF IsParse, IsBeginning
  <2>7. CASE n = 1
    <3>1. 1 \in 1..Len(t) /\ 1 - 1 = 0 /\ 0 \in 0..Len(t) /\ 0 <= num
      <4>1. Len(t) # 0
        <5>1. SUFFICES ASSUME Len(t) = 0 PROVE FALSE
          OBVIOUS
        <5>2. Len(whole) = 0
          BY <5>1, NoElements DEF IsLaid
        <5> QED
          BY <1>2, <2>5, <5>2, SMTT(30)
      <4> QED
        BY <1>0, <4>1, SMTT(30)
    <3>2. laid[0] = <<>> /\ Len(<<>>) = 0 /\ 0 + 1 = 1
      BY NoElements, SMTT(30) DEF IsLaid
    <3>3. t[1] \in InterfaceTrees
      BY <3>1, SMTT(30)
    <3>4. 1 \in 1..Len(FlattenInterface(t[1]))
      <4>1. \A h \in Nat \ {0} : 1 \in 1..h
        BY SMTT(30)
      <4> QED
        BY <3>3, <4>1, AllEndpointsIn
    <3>5. whole[Len(laid[1 - 1]) + 1] = FlattenInterface(t[1])[1]
      BY <3>1, <3>4, LaidLayout
    <3>6. ParseInit = Whole(t, 0)
      <4>1. Infos(t, 0) = <<>>
        BY SMTT(30) DEF Infos
      <4> QED
        BY <4>1 DEF ParseInit, Whole
    <3>7. n = Len(laid[1 - 1]) + 1
      BY <2>7, <3>1, <3>2
    <3>8. f[n] = ParseTurn(num, Whole(t, 0), FlattenInterface(t[1])[1])
      BY <2>6, <2>7, <3>1, <3>5, <3>6, <3>7 DEF IsParse
    <3>9. f[n] = ParseTurn(num, IF 1 - 1 <= num THEN Whole(t, 1 - 1) ELSE Whole(t, num), FlattenInterface(t[1])[1])
      BY <3>1, <3>8
    <3>10. Read(t, num, laid, f, n)
      BY <3>1, <3>7, <3>9, ReadBegins
    <3> QED
      BY <2>2, <3>10
  <2>8. CASE n # 1
    <3>1. n - 1 \in 1..m /\ ~(n <= n - 1) /\ (n - 1) + 1 = n
      BY <1>2, <2>5, <2>8, SMTT(30)
    <3>2. Read(t, num, laid, f, n - 1)
      BY <2>3, <2>4, <3>1
    <3>3. n <= Len(whole)
      <4>1. \A a, b \in Nat : \A h \in 1..a : a <= b => h <= b
        BY SMTT(30)
      <4> QED
        BY <1>1, <1>2, <2>5, <4>1
    <3>4. Read(t, num, laid, f, (n - 1) + 1)
      <4> DEFINE p == n - 1
      <4>1. p + 1 <= Len(whole) /\ f[p + 1] = ParseTurn(num, f[p], whole[p + 1]) /\ Read(t, num, laid, f, p)
        BY <2>6, <3>1, <3>2, <3>3
      <4> HIDE DEF p
      <4>2. Read(t, num, laid, f, p + 1)
        BY <4>1, ReadContinues
      <4> QED
        BY <4>2 DEF p
    <3> QED
      BY <2>2, <3>1, <3>4
  <2> QED
    BY <2>7, <2>8
<1> QED
  BY <1>3

\* When both loops have ended they have the interfaces that the header counts.
LEMMA DoneIsWhole ==
  ASSUME NEW t \in Seq(InterfaceTrees), NEW num \in 0..Len(t), NEW laid, NEW f, NEW n,
         Read(t, num, laid, f, n), ParseDone(num, f[n])
  PROVE  f[n] = Whole(t, num)
<1>1. PICK k \in 1..Len(t) : \E j \in 1..Len(FlattenInterface(t[k])) :
        f[n] = IF k <= num THEN Partial(t, k, EndpointsIn(t[k], j)) ELSE Whole(t, num)
  BY DEF Read
<1>2. PICK j \in 1..Len(FlattenInterface(t[k])) :
        f[n] = IF k <= num THEN Partial(t, k, EndpointsIn(t[k], j)) ELSE Whole(t, num)
  BY <1>1
<1>3. CASE k <= num
  <2> DEFINE m == EndpointsIn(t[k], j)
             l == Len(t[k].endpoints)
             e == [alternate |-> t[k].alternate, endpoints |-> SubSeq(t[k].endpoints, 1, m)]
  <2>1. t[k] \in InterfaceTrees /\ k \in Nat /\ k - 1 \in 0..Len(t) /\ (k - 1) + 1 = k
    BY SMTT(30)
  <2>2. t[k].endpoints \in Seq(TransferTypes) /\ t[k].alternate \in BOOLEAN
    BY <2>1 DEF InterfaceTrees
  <2>3. m \in 0..l /\ l \in Nat
    BY <2>1, <2>2, AllEndpointsIn, SeqLength
  <2>4. f[n].missing = l - m /\ f[n].interfaces = Append(Infos(t, k - 1), e)
    BY <1>2, <1>3, SMTT(30) DEF Partial
  <2>5. m = l
    <3>1. f[n].missing = 0
      BY DEF ParseDone
    <3> HIDE DEF m, l
    <3> QED
      BY <2>3, <2>4, <3>1, SMTT(30)
  <2>6. Len(Append(Infos(t, k - 1), e)) = k
    <3>1. e = [alternate |-> t[k].alternate, endpoints |-> t[k].endpoints]
      BY <2>2, <2>5, SubSeqOfAll
    <3>2. e \in InterfaceInfos
      BY <2>2, <3>1 DEF InterfaceInfos
    <3>3. Infos(t, k - 1) \in Seq(InterfaceInfos) /\ Len(Infos(t, k - 1)) = k - 1
      BY <2>1, InfosType
    <3> HIDE DEF e
    <3>4. Len(Append(Infos(t, k - 1), e)) = Len(Infos(t, k - 1)) + 1
      BY <3>2, <3>3, Appending
    <3> QED
      BY <2>1, <3>3, <3>4
  <2>7. k = num
    BY <2>4, <2>6 DEF ParseDone
  <2> QED
    BY <1>2, <1>3, <2>5, <2>7, PartialIsWhole
<1> QED
  BY <1>2, <1>3

\* After the last descriptor of the whole both have ended.
LEMMA EndIsDone ==
  ASSUME NEW t \in Seq(InterfaceTrees), NEW num \in 0..Len(t), NEW laid, IsLaid(laid, t, Len(t)), NEW f,
         Read(t, num, laid, f, Len(laid[Len(t)]))
  PROVE  f[Len(laid[Len(t)])] = Whole(t, num)
<1> DEFINE n == Len(laid[Len(t)])
<1>1. PICK k \in 1..Len(t) : \E j \in 1..Len(FlattenInterface(t[k])) :
        /\ n = Len(laid[k - 1]) + j
        /\ f[n] = IF k <= num THEN Partial(t, k, EndpointsIn(t[k], j)) ELSE Whole(t, num)
  BY DEF Read
<1>2. PICK j \in 1..Len(FlattenInterface(t[k])) :
        /\ n = Len(laid[k - 1]) + j
        /\ f[n] = IF k <= num THEN Partial(t, k, EndpointsIn(t[k], j)) ELSE Whole(t, num)
  BY <1>1
<1>3. t[k] \in InterfaceTrees /\ Len(t) \in Nat /\ num \in Nat /\ k \in Nat /\ k \in 0..Len(t) /\ Len(t) \in k..Len(t)
      /\ k <= Len(t)
  BY SMTT(30)
<1>4. NextLaid(laid, FlattenInterface(t[k]), k)
  BY LaidNext
<1>5. Len(laid[k]) <= n
  BY <1>3, LaidStays
<1> DEFINE size == Len(FlattenInterface(t[k]))
           start == Len(laid[k - 1])
           end == Len(laid[k])
<1>6. j = size /\ end = n
  <2>1. start \in Nat /\ size \in Nat /\ end = start + size /\ j \in 1..size /\ n = start + j /\ end <= n
    BY <1>2, <1>4, <1>5 DEF NextLaid
  <2> HIDE DEF start, size, end, n
  <2> QED
    BY <2>1, SMTT(30)
<1>7. k = Len(t)
  <2> SUFFICES ASSUME k # Len(t) PROVE FALSE
    OBVIOUS
  <2>1. k + 1 \in 1..Len(t) /\ (k + 1) - 1 = k /\ k + 1 \in 0..Len(t) /\ Len(t) \in (k + 1)..Len(t)
    BY <1>3, SMTT(30)
  <2>2. t[k + 1] \in InterfaceTrees
    BY <2>1, SMTT(30)
  <2>3. Len(FlattenInterface(t[k + 1])) \in Nat \ {0}
    BY <2>2, AllEndpointsIn
  <2>4. NextLaid(laid, FlattenInterface(t[k + 1]), k + 1)
    BY <2>1, LaidNext
  <2>5. end \in Nat /\ Len(laid[k + 1]) = end + Len(FlattenInterface(t[k + 1]))
    BY <2>1, <2>4 DEF NextLaid
  <2>6. Len(laid[k + 1]) <= n
    BY <2>1, LaidStays
  <2>7. \A a \in Nat : \A b \in Nat \ {0} : ~(a + b <= a)
    BY SMTT(30)
  <2> QED
    BY <1>6, <2>3, <2>5, <2>6, <2>7
<1>8. CASE k <= num
  <2>1. k = num
    BY <1>3, <1>7, <1>8, SMTT(30)
  <2>2. EndpointsIn(t[k], size) = Len(t[k].endpoints)
    BY <1>3, AllEndpointsIn
  <2> QED
    BY <1>2, <1>6, <1>8, <2>1, <2>2, PartialIsWhole
<1> QED
  BY <1>2, <1>8

\* Where a configuration's descriptors are laid out there are no fewer than its
\* interfaces.
LEMMA FlattenEmpty ==
  ASSUME NEW c \in ConfigurationTrees, CountsInterfaces(c), Len(Flatten(c).rest) = 0
  PROVE  NumInterfaces(c) = 0
<1> DEFINE t == c.interfaces
<1>1. t \in Seq(InterfaceTrees)
  BY DEF ConfigurationTrees
<1>2. Len(t) \in Nat
  BY <1>1, SeqLength
<1>3. PICK laid : IsLaid(laid, t, Len(t)) /\ Flatten(c).rest = laid[Len(t)]
  BY <1>2, FlattenIsLaid
<1>4. Len(t) = 0
  <2> SUFFICES ASSUME Len(t) # 0 PROVE FALSE
    OBVIOUS
  <2>1. Len(t) \in 1..Len(t)
    BY <1>2, SMTT(30)
  <2>2. t[Len(t)] \in InterfaceTrees
    BY <1>1, <2>1, SeqMember
  <2> HIDE DEF t
  <2>3. Len(FlattenInterface(t[Len(t)])) \in Nat \ {0}
    BY <2>2, AllEndpointsIn
  <2>4. NextLaid(laid, FlattenInterface(t[Len(t)]), Len(t))
    BY <1>1, <1>3, <2>1, LaidNext
  <2>5. \A a \in Nat : \A b \in Nat \ {0} : a + b # 0
    BY SMTT(30)
  <2> QED
    BY <1>3, <2>3, <2>4, <2>5 DEF NextLaid
<1>5. NumInterfaces(c) \in 0..Len(t)
  BY DEF CountsInterfaces
<1> QED
  BY <1>4, <1>5, SMTT(30)

\* from_descriptor returns what the descriptor means, whatever was not in the
\* buffer, and returns when all of it is.
LEMMA FromDescriptorReads ==
  ASSUME NEW c \in ConfigurationTrees, CountsInterfaces(c), NEW n \in 0..Len(Flatten(c).rest),
         NEW b, Holds(b, c, n)
  PROVE  /\ ~ParsePanics(b) => from_descriptor(b) = ReadOf(c)
         /\ n = Len(Flatten(c).rest) => ~ParsePanics(b)
<1> DEFINE t == c.interfaces
           num == NumInterfaces(c)
           whole == Flatten(c).rest
<1>1. t \in Seq(InterfaceTrees) /\ num \in 0..Len(t)
  BY DEF CountsInterfaces, ConfigurationTrees
<1>2. Len(t) \in Nat /\ Len(t) \in 0..Len(t)
  BY <1>1, SMTT(30)
<1>3. PICK laid : IsLaid(laid, t, Len(t)) /\ whole = laid[Len(t)]
  BY <1>2, FlattenIsLaid
<1>4. whole \in Seq(DescriptorTypes)
  BY <1>1, <1>2, <1>3, LaidTypes
<1>5. Len(whole) \in Nat
  BY <1>4, SeqLength
<1> HIDE DEF t, num, whole
<1>6. Len(b.rest) = n /\ \A p \in 1..n : b.rest[p] = whole[p]
  <2>1. n \in Nat /\ n \in 0..Len(whole)
    BY <1>5, SMTT(30) DEF whole
  <2>2. b.rest = SubSeq(whole, 1, n)
    BY DEF Holds, whole
  <2>3. Len(SubSeq(whole, 1, n)) = n /\ \A p \in 1..n : SubSeq(whole, 1, n)[p] = whole[p]
    BY <1>4, <1>5, <2>1, SMTT(30)
  <2> QED
    BY <2>2, <2>3
<1>7. n \in Nat /\ n \in 0..Len(whole)
  BY <1>5, SMTT(30) DEF whole
<1>8. PICK f : IsParse(f, num, b.rest, n) /\ Parsed(b) = f[n]
  <2>1. b.b_num_interfaces = num
    BY DEF Holds, num
  <2> QED
    BY <1>6, <1>7, <2>1, ParsedIsParse
<1>9. (ParseDone(num, f[n]) => f[n] = Whole(t, num)) /\ (n = Len(whole) => f[n] = Whole(t, num))
  <2>1. CASE n = 0
    <3>1. f[n] = ParseInit
      BY <1>8, <2>1 DEF IsParse
    <3>2. ParseInit = Whole(t, 0)
      <4>1. Infos(t, 0) = <<>>
        BY SMTT(30) DEF Infos
      <4> QED
        BY <4>1 DEF ParseInit, Whole
    <3>3. ParseDone(num, ParseInit) => num = 0
      BY NoElements DEF ParseDone, ParseInit
    <3>4. n = Len(whole) => num = 0
      BY <2>1, FlattenEmpty DEF whole, num
    <3> QED
      BY <3>1, <3>2, <3>3, <3>4
  <2>2. CASE n # 0
    <3>1. n \in 1..n
      BY <1>7, <2>2, SMTT(30)
    <3>2. IsBeginning(b.rest, n, laid[Len(t)])
      BY <1>3, <1>6, <1>7 DEF IsBeginning
    <3>3. Read(t, num, laid, f, n)
      BY <1>1, <1>3, <1>8, <3>1, <3>2, AlwaysRead
    <3>4. ParseDone(num, f[n]) => f[n] = Whole(t, num)
      BY <1>1, <3>3, DoneIsWhole, SMTT(30)
    <3>5. n = Len(whole) => f[n] = Whole(t, num)
      BY <1>1, <1>3, <3>3, EndIsDone
    <3> QED
      BY <3>4, <3>5
  <2> QED
    BY <2>1, <2>2
<1>10. ParsePanics(b) <=> ~ParseDone(num, f[n])
  BY <1>8 DEF ParsePanics, Holds, num
<1>11. ParseDone(num, Whole(t, num))
  BY <1>1, WholeStays
<1>12. f[n] = Whole(t, num) => from_descriptor(b) = ReadOf(c)
  <2>1. Whole(t, num).interfaces = Infos(t, num)
    BY DEF Whole
  <2>2. b.b_configuration_value = c.number
    BY DEF Holds
  <2> QED
    BY <1>8, <2>1, <2>2 DEF from_descriptor, ReadOf, t, num
<1> QED
  BY <1>9, <1>10, <1>11, <1>12 DEF whole

\* A configuration descriptor is a sequence of descriptors.
LEMMA FlattenLength ==
  ASSUME NEW c \in ConfigurationTrees
  PROVE  Flatten(c).rest \in Seq(DescriptorTypes) /\ Len(Flatten(c).rest) \in Nat
<1>1. c.interfaces \in Seq(InterfaceTrees)
  BY DEF ConfigurationTrees
<1>2. Len(c.interfaces) \in Nat /\ Len(c.interfaces) \in 0..Len(c.interfaces)
  BY <1>1, SMTT(30)
<1>3. PICK laid : IsLaid(laid, c.interfaces, Len(c.interfaces)) /\ Flatten(c).rest = laid[Len(c.interfaces)]
  BY <1>2, FlattenIsLaid
<1>4. Flatten(c).rest \in Seq(DescriptorTypes)
  BY <1>1, <1>2, <1>3, LaidTypes
<1> QED
  BY <1>4, SeqLength

-----------------------------------------------------------------------------
INSTANCE FiniteSetTheorems

\* b_num_interfaces is a number of the interfaces.
LEMMA NumInterfacesBounds ==
  ASSUME NEW c \in ConfigurationTrees
  PROVE  CountsInterfaces(c)
<1> DEFINE n == Len(c.interfaces)
           T == {k \in DOMAIN c.interfaces : ~c.interfaces[k].alternate}
<1>1. c.interfaces \in Seq(InterfaceTrees)
  BY DEF ConfigurationTrees
<1>2. n \in Nat /\ DOMAIN c.interfaces = 1..n
  BY <1>1, SeqLength
<1>3. IsFiniteSet(1..n) /\ Cardinality(1..n) = n
  <2>1. 1 \in Int /\ n \in Int /\ (IF 1 > n THEN 0 ELSE n - 1 + 1) = n
    BY <1>2, SMTT(30)
  <2> HIDE DEF n
  <2> QED
    BY <2>1, FS_Interval
<1>4. T \in SUBSET (1..n)
  BY <1>2
<1>5. NumInterfaces(c) = Cardinality(T)
  BY DEF NumInterfaces
<1>6. \A k \in 1..n : k \notin T => c.interfaces[k].alternate
  BY <1>2
<1>7. c.interfaces # <<>> /\ ~c.interfaces[1].alternate => 1 \in T
  <2>1. c.interfaces # <<>> => 1 \in 1..n
    BY <1>1, <1>2, NoElements, SMTT(30)
  <2> QED
    BY <1>2, <2>1
<1> HIDE DEF T, n
<1>8. IsFiniteSet(T) /\ Cardinality(T) <= n /\ (Cardinality(T) = n => T = 1..n)
  BY <1>3, <1>4, FS_Subset
<1>9. Cardinality(T) \in 0..n
  <2>1. Cardinality(T) \in Nat
    BY <1>8, FS_CardinalityType
  <2> QED
    BY <1>2, <1>8, <2>1, SMTT(30)
<1>10. T = 1..n => Cardinality(T) = n
  BY <1>3
<1>11. Cardinality(T) # n => \E k \in 1..n : c.interfaces[k].alternate
  BY <1>4, <1>6, <1>10
<1>12. 1 \in T => Cardinality(T) # 0
  BY <1>8, FS_EmptySet
<1> QED
  BY <1>2, <1>5, <1>7, <1>9, <1>11, <1>12 DEF n, CountsInterfaces

\* What the transfers need of the descriptors holds.
LEMMA DescriptorsRead == DescriptorFacts
<1> SUFFICES ASSUME NEW c \in ConfigurationTrees PROVE CountsInterfaces(c) /\ ReadsBack(c)
  BY DEF DescriptorFacts
<1>1. CountsInterfaces(c)
  BY NumInterfacesBounds
<1>2. Len(Flatten(c).rest) \in Nat
  BY FlattenLength
<1>3. ASSUME NEW n \in 0..Len(Flatten(c).rest), NEW b, Holds(b, c, n)
      PROVE  /\ ~ParsePanics(b) => from_descriptor(b) = ReadOf(c)
             /\ n = Len(Flatten(c).rest) => ~ParsePanics(b)
  BY <1>1, <1>3, FromDescriptorReads
<1> QED
  BY <1>1, <1>2, <1>3 DEF ReadsBack

\* from_descriptor undoes what a device does to send a configuration: of a
\* descriptor that is all in the buffer, with class-specific descriptors
\* anywhere and no alternate settings, every interface and endpoint is kept in
\* order, and no loop runs over the end.
THEOREM RoundTrip ==
  \A c \in ConfigurationTrees :
    (\A k \in DOMAIN c.interfaces : ~c.interfaces[k].alternate) =>
      ~ParsePanics(Flatten(c)) /\ from_descriptor(Flatten(c)) = Meaning(c)
<1> SUFFICES ASSUME NEW c \in ConfigurationTrees, \A k \in DOMAIN c.interfaces : ~c.interfaces[k].alternate
             PROVE  ~ParsePanics(Flatten(c)) /\ from_descriptor(Flatten(c)) = Meaning(c)
  OBVIOUS
<1> DEFINE n == Len(Flatten(c).rest)
<1>1. c.interfaces \in Seq(InterfaceTrees)
  BY DEF ConfigurationTrees
<1>2. NumInterfaces(c) = Len(c.interfaces) /\ DOMAIN c.interfaces = 1..Len(c.interfaces)
  BY <1>1, NumInterfacesBounds, SeqLength DEF CountsInterfaces
<1>3. Flatten(c).rest \in Seq(DescriptorTypes) /\ n \in Nat
  BY FlattenLength
<1>4. Holds(Flatten(c), c, n)
  <2>1. SubSeq(Flatten(c).rest, 1, n) = Flatten(c).rest
    BY <1>3, SubSeqOfAll
  <2>2. Flatten(c).b_configuration_value = c.number /\ Flatten(c).b_num_interfaces = NumInterfaces(c)
    BY DEF Flatten
  <2> QED
    BY <2>1, <2>2 DEF Holds
<1>5. n \in 0..n
  BY <1>3, SMTT(30)
<1>6. ~ParsePanics(Flatten(c)) /\ from_descriptor(Flatten(c)) = ReadOf(c)
  BY <1>4, <1>5, NumInterfacesBounds, FromDescriptorReads
<1>7. ReadOf(c) = Meaning(c)
  BY <1>2 DEF ReadOf, Meaning, Infos
<1> QED
  BY <1>6, <1>7

\* get_info, set_configuration and Hub::get_info keep their invariant, with
\* devices of any number of configurations, interfaces and endpoints, also when
\* transfers go wrong.
THEOREM SetupInvariant == Spec => []SetupInv
<1>1. Init => SetupInv
  BY SetupBegins
<1>2. SetupInv /\ wiped \in Nat /\ [Next]_vars => SetupInv'
  BY DescriptorsRead, SetupGoesOn
<1> QED
  BY <1>1, <1>2, HubInvariant, PTL DEF Spec

\* What get_info returns is what the device is, whatever its configurations, and
\* whichever of its transfers are wiped out.
THEOREM InfoIsOfDevice == Spec => []InfoMatchesDevice
<1>1. SetupInv => InfoMatchesDevice
  <2>1. step # "has_info" => InfoMatchesDevice
    BY DEF InfoMatchesDevice
  <2> QED
    BY <2>1, DescriptorsRead, InfoIsRead
<1> QED
  BY <1>1, SetupInvariant, PTL

\* set_configuration puts the device in the configuration that was chosen, unless
\* a transfer is wiped out, and announces its interrupt endpoints, whatever the
\* numbers and the endpoints.
THEOREM ChosenIsConfigured == Spec => []ConfiguresChosen
<1>1. SetupInv => ConfiguresChosen
  BY ChosenIsActive
<1> QED
  BY <1>1, SetupInvariant, PTL

\* With a device that conforms, and no transfer wiped out, the driver stops only
\* at the todo!() for a device behind a hub: no slice of a descriptor, no unwrap
\* of an endpoint and no assertion on a length fails.
THEOREM ConformingDevicesPass ==
  Spec => [](step = "panicked" /\ Conforming /\ wiped = 0 => DeviceBehindHub)
<1>1. SetupInv => (step = "panicked" /\ Conforming /\ wiped = 0 => DeviceBehindHub)
  BY DEF SetupInv, StopsOnlyAtTodo
<1> QED
  BY <1>1, SetupInvariant, PTL
=============================================================================
