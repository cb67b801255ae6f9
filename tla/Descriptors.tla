----------------------------- MODULE Descriptors -----------------------------
(***************************************************************************)
(* Setup packets, and the descriptors that devices answer them with.       *)
(*                                                                         *)
(* A configuration descriptor in memory is a header and a sequence of      *)
(* descriptors, told apart by b_descriptor_type; one step of b_length      *)
(* bytes in the code is one element here.  What a device means by it is a  *)
(* tree: interfaces with their endpoints.  Flatten lays the tree out, and  *)
(* from_descriptor reads it back.                                          *)
(***************************************************************************)
EXTENDS Naturals, Sequences, FiniteSets

-----------------------------------------------------------------------------
\* SetupPacket, with w_value as its two bytes.
SetupPacket(recipient, type, direction, request, value, index, length) ==
  [recipient |-> recipient, request_type |-> type, direction |-> direction,
   b_request |-> request, w_value |-> value, w_index |-> index, w_length |-> length]

GetStatus == 0
SetFeature == 3
GetDescriptor == 6
SetConfiguration == 9
PortReset == 4
PortPower == 8
DeviceType == 1
ConfigurationType == 2
InterfaceType == 4
EndpointType == 5
HubType == 41

new_get_device_descriptor(length) ==
  SetupPacket("Device", "Standard", "In", GetDescriptor, <<0, DeviceType>>, 0, length)
new_get_configuration_descriptor(length, num) ==
  SetupPacket("Device", "Standard", "In", GetDescriptor, <<num, ConfigurationType>>, 0, length)
new_set_configuration(number) ==
  SetupPacket("Device", "Standard", "Out", SetConfiguration, <<number, 0>>, 0, 0)
new_get_hub_descriptor(length) ==
  SetupPacket("Device", "Class", "In", GetDescriptor, <<0, HubType>>, 0, length)
new_set_feature_port_power(port) ==
  SetupPacket("Other", "Class", "Out", SetFeature, <<PortPower, 0>>, port, 0)
new_get_port_status(port) == SetupPacket("Other", "Class", "In", GetStatus, <<0, 0>>, port, 4)
new_set_feature_port_reset(port) ==
  SetupPacket("Other", "Class", "Out", SetFeature, <<PortReset, 0>>, port, 0)

-----------------------------------------------------------------------------
\* The trees: interfaces, or alternate settings of one, with the transfer types
\* of their endpoints, and configurations.
TransferTypes == {"Control", "Isochronous", "Bulk", "Interrupt"}
InterfaceTrees ==
  [alternate : BOOLEAN, endpoints : Seq(TransferTypes), extra : {"none", "before", "after"}]
ConfigurationTrees == [number : Nat, interfaces : Seq(InterfaceTrees)]

\* b_num_interfaces counts interfaces and not their alternate settings.
NumInterfaces(c) == Cardinality({k \in DOMAIN c.interfaces : ~c.interfaces[k].alternate})

\* The descriptors of an interface of the tree: itself, its endpoints, and
\* class-specific ones (HID, say) before or after them.
FlattenInterface(i) ==
  LET other == <<[type |-> 33]>>
      endpoints == [k \in DOMAIN i.endpoints |-> [type |-> EndpointType, transfer_type |-> i.endpoints[k]]]
  IN  <<[type |-> InterfaceType, alternate |-> i.alternate, b_num_endpoints |-> Len(i.endpoints)]>>
        \o (IF i.extra = "before" THEN other ELSE <<>>)
        \o endpoints
        \o (IF i.extra = "after" THEN other ELSE <<>>)

\* External: the configuration descriptor of a device.
Flatten(c) ==
  LET laid[k \in 0..Len(c.interfaces)] ==
        IF k = 0 THEN <<>> ELSE laid[k - 1] \o FlattenInterface(c.interfaces[k])
  IN  [b_configuration_value |-> c.number, b_num_interfaces |-> NumInterfaces(c),
       rest |-> laid[Len(c.interfaces)]]

\* The tree without what ConfigurationInfo does not keep.
Meaning(c) ==
  [number |-> c.number,
   interfaces |-> [k \in DOMAIN c.interfaces |->
                     [alternate |-> c.interfaces[k].alternate, endpoints |-> c.interfaces[k].endpoints]]]

\* The loops' state: the interfaces so far, and how many endpoints the last one
\* still wants.
ParseInit == [interfaces |-> <<>>, missing |-> 0]
ParseDone(num, s) == s.missing = 0 /\ Len(s.interfaces) = num

\* A wrong inner loop: the descriptor after an interface is one of its endpoints.
ParseEndpoint_Adjacent(s, d) ==
  [interfaces |-> [s.interfaces EXCEPT ![Len(s.interfaces)].endpoints =
                     Append(@, IF d.type = EndpointType THEN d.transfer_type ELSE "Control")],
   missing |-> s.missing - 1]

\* One turn of the inner loop, on descriptor d.
ParseEndpoint(s, d) ==
  IF d.type = EndpointType
    THEN [interfaces |-> [s.interfaces EXCEPT ![Len(s.interfaces)].endpoints = Append(@, d.transfer_type)],
          missing |-> s.missing - 1]
    ELSE s

\* One turn of the outer loop.
ParseInterface(s, d) ==
  IF d.type = InterfaceType
    THEN [interfaces |-> Append(s.interfaces, [alternate |-> d.alternate, endpoints |-> <<>>]),
          missing |-> d.b_num_endpoints]
    ELSE s

\* A turn of the inner loop while endpoints are missing, else of the outer one
\* unless it has ended.
ParseTurn(num, s, d) ==
  IF s.missing > 0 THEN ParseEndpoint(s, d)
  ELSE IF ParseDone(num, s) THEN s ELSE ParseInterface(s, d)

\* The loops, over the descriptors that were read.
Parsed(c) ==
  LET after[n \in 0..Len(c.rest)] ==
        IF n = 0 THEN ParseInit ELSE ParseTurn(c.b_num_interfaces, after[n - 1], c.rest[n])
  IN  after[Len(c.rest)]

\* The loops read past the end of the slice: a panic.
ParsePanics(c) == ~ParseDone(c.b_num_interfaces, Parsed(c))

\* ConfigurationInfo::from_descriptor
from_descriptor(c) == [number |-> c.b_configuration_value, interfaces |-> Parsed(c).interfaces]

-----------------------------------------------------------------------------
HubFixedLen == 7
RemovableLen == 32

\* A wrong count: one more bit than the reserved one and the ports'.
BytesToCopy_Extra(ports) == (ports + 9) \div 8

\* HubDescriptor::from_bytes copies a bit per port, and one, from what follows
\* the fixed fields; it panics when the slice is too short.
BytesToCopy(ports) == (ports + 8) \div 8
HubFromBytesPanics(ports, len) ==
  BytesToCopy(ports) > RemovableLen \/ len < HubFixedLen + BytesToCopy(ports)

=============================================================================
