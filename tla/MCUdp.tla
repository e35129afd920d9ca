------------------------------- MODULE MCUdp -------------------------------
(***************************************************************************)
(* Instances of UdpTransport: two endpoints that want the same address, or *)
(* talk to each other, and another program.                                *)
(***************************************************************************)
EXTENDS UdpTransport

CONSTANTS e1, e2, a1, a2

MCEndpoints == {e1, e2}
MCAddresses == {a1, a2}
MCAddressesFor == [e \in MCEndpoints |-> IF e = e1 THEN {a1} ELSE {a1, a2}]
=============================================================================
