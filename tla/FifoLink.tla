------------------------------ MODULE FifoLink ------------------------------
(***************************************************************************)
(* What a pair of connected loopback endpoints promises: two queues, one   *)
(* per direction, in which a datagram is sent, and from which it is        *)
(* polled, in one indivisible step.  Nothing is lost, duplicated, invented *)
(* or reordered.                                                           *)
(***************************************************************************)
EXTENDS Endpoints

CONSTANT Packet        \* the datagrams that can be sent

VARIABLES
  incoming,            \* incoming[s]: sent to side s, not polled yet
  polled               \* polled[s]: what side s has polled, oldest first

linkVars == <<incoming, polled>>

Init ==
  /\ incoming = Empty
  /\ polled = Empty

\* Side s sends packet p to its peer.
Send(s, p) ==
  /\ incoming' = [incoming EXCEPT ![Peer(s)] = Append(@, p)]
  /\ UNCHANGED polled

\* Side s polls the oldest packet that waits for it.
Poll(s) ==
  /\ incoming[s] # << >>
  /\ polled' = [polled EXCEPT ![s] = Append(@, Head(incoming[s]))]
  /\ incoming' = [incoming EXCEPT ![s] = Tail(@)]

Next ==
  \E s \in Side : Poll(s) \/ \E p \in Packet : Send(s, p)

Spec == Init /\ [][Next]_linkVars
=============================================================================
