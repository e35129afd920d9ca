------------------------------ MODULE MCProxy ------------------------------
(***************************************************************************)
(* Instances of SimulationProxy.  The settings cover: latency below its    *)
(* jitter, so that the delay is cut at zero; no jitter; jitter with a      *)
(* delay that stays positive; and values the constructor has to clamp.     *)
(***************************************************************************)
EXTENDS SimulationProxy

MCRawSettings ==
  {[loss |-> 0,   base |-> 0,  jitter |-> 1],
   [loss |-> -10, base |-> 1,  jitter |-> 1],
   [loss |-> 50,  base |-> 1,  jitter |-> 0],
   [loss |-> 150, base |-> -1, jitter |-> -1]}

MCLiveSettings ==
  {[loss |-> -10, base |-> 1, jitter |-> 1]}

MCMaxPackets == [s \in Side |-> IF s = "client" THEN 2 ELSE 0]
MCOnePacket == [s \in Side |-> 1]
=============================================================================
