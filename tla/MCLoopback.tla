----------------------------- MODULE MCLoopback -----------------------------
(***************************************************************************)
(* Instance of LoopbackTransport: two threads call the client's endpoint   *)
(* and one the server's, as when a game thread and a network thread share  *)
(* the endpoint of a listen server.                                        *)
(***************************************************************************)
EXTENDS LoopbackTransport

CONSTANTS t1, t2, t3

MCThread == {t1, t2, t3}
MCSideOf == [t \in MCThread |-> IF t = t3 THEN "server" ELSE "client"]
MCLocalAddress == [s \in Side |-> s]
=============================================================================
