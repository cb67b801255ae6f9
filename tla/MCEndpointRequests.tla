------------------------- MODULE MCEndpointRequests -------------------------
(***************************************************************************)
(* The devices of the instances: one, and three of which two are on the    *)
(* same root port, the second in the place of the first.                   *)
(***************************************************************************)
EXTENDS EndpointRequests

CONSTANTS p1, p2

MCOneDevice == {<<p1, 1>>}
MCDevices == {<<p1, 1>>, <<p1, 2>>, <<p2, 1>>}
=============================================================================
