--------------------------- MODULE MCDeviceSetup ---------------------------
(***************************************************************************)
(* The devices of the instance: keyboards and disks with every layout of   *)
(* descriptors, hubs at the boundaries of the removable bits and of u8,    *)
(* and devices whose answers are short or too long.                        *)
(***************************************************************************)
EXTENDS DeviceSetup

Interface(alternate, endpoints, extra) ==
  [alternate |-> alternate, endpoints |-> endpoints, extra |-> extra]
Configuration(number, interfaces) == [number |-> number, interfaces |-> interfaces]
NoHub == [ports |-> 0, power_good |-> 0, len |-> 0, attached |-> {}]
Plain(all) ==
  [len |-> 18, class |-> 0, hub |-> NoHub, configurations |-> all]

Keyboard(extra) == Interface(FALSE, <<"Interrupt">>, extra)
Disk(extra) == Interface(FALSE, <<"Bulk", "Bulk">>, extra)
Composite(extra) == Interface(FALSE, <<"Interrupt", "Isochronous", "Interrupt">>, extra)
Extras == {"none", "before", "after"}

\* Two configurations whose numbers are not their indexes.
Swapped ==
  {Plain(<<Configuration(2, <<Keyboard(x), Disk(y)>>), Configuration(1, <<Composite(x)>>)>>) :
     x \in Extras, y \in Extras}
Alternates == {Plain(<<Configuration(1, <<Keyboard("none"), Interface(TRUE, <<"Bulk">>, x), Disk("none")>>)>>) : x \in Extras}
Odd ==
  {Plain(<<>>), Plain(<<Configuration(1, <<>>)>>), Plain(<<Configuration(3, <<Interface(FALSE, <<>>, "none")>>)>>),
   [Plain(<<Configuration(1, <<Keyboard("none")>>)>>) EXCEPT !.len = 8],
   Plain(<<Configuration(1, <<Composite("before"), Composite("after"), Disk("after")>>)>>)}

HubWith(endpoints, hub) ==
  [len |-> 18, class |-> 9, hub |-> hub,
   configurations |-> <<Configuration(1, <<Interface(FALSE, endpoints, "none")>>)>>]
HubOf(ports, good, attached) ==
  [ports |-> ports, power_good |-> good, len |-> HubFixedLen + 2 * (ports \div 8 + 1), attached |-> attached]
\* A hub without an interface that is not an alternate setting of another.
AlternateHub ==
  [HubWith(<<>>, HubOf(2, 1, {})) EXCEPT
     !.configurations = <<Configuration(1, <<Interface(TRUE, <<"Interrupt">>, "none")>>)>>]
Hubs ==
  {HubWith(<<"Interrupt">>, HubOf(ports, good, {})) : ports \in {0, 2, 7, 8}, good \in {0, 3}}
    \cup {HubWith(<<"Interrupt">>, HubOf(255, 1, {}))}
    \cup {HubWith(<<"Interrupt">>, HubOf(3, good, attached)) : good \in {0, 3}, attached \in SUBSET (1..3)}
    \cup {AlternateHub} \cup {HubWith(e, HubOf(2, 1, {})) : e \in {<<>>, <<"Bulk">>}}
    \cup {HubWith(<<"Interrupt">>, [HubOf(8, 1, {}) EXCEPT !.len = l]) : l \in {4, 8, 9}}

MCDevices == Swapped \cup Alternates \cup Odd \cup Hubs

\* Two transfers are wiped out, but with the hub of 255 ports none.
MCMaxWiped == [d \in MCDevices |-> IF d.hub.ports = 255 THEN 0 ELSE 2]
=============================================================================
