----------------------------- MODULE Endpoints -----------------------------
(***************************************************************************)
(* What the two ends of a transport share: the sides, and the pair of      *)
(* deques through which the loopback transport connects them.  A deque is  *)
(* indexed by the side that READS it: incoming["client"] is the code's     *)
(* packetsForClient, incoming["server"] its packetsForServer.              *)
(***************************************************************************)
EXTENDS Sequences

Side == {"client", "server"}

Peer(s) == IF s = "client" THEN "server" ELSE "client"

\* Mutant of IncomingQueueToRead: the deque of the other side.
QueueOfPeer(s) == Peer(s)

\* The deque a side pops from, and the deque it pushes to.
IncomingQueueToRead(s) == s
PeerIncomingQueueToWrite(s) == Peer(s)

Empty == [s \in Side |-> << >>]
=============================================================================
