---------------------------- MODULE DatagramLink ----------------------------
(***************************************************************************)
(* What two endpoints behind simulation proxies promise each other: a      *)
(* datagram service.  A packet reaches its receiver at most once, unchanged *)
(* and no sooner than the link's least latency; packets may overtake one   *)
(* another, and may be lost where the link is lossy.                       *)
(***************************************************************************)
EXTENDS Endpoints, Naturals

VARIABLES
  now,                 \* the clock
  quality,             \* quality[s]: of the direction in which s sends
  sentCount,           \* packets side s has sent
  inflight,            \* packets neither received nor lost
  polled               \* polled[s]: packets received by s, in order

linkVars == <<now, quality, sentCount, inflight, polled>>

Init ==
  /\ now = 0
  /\ quality \in [Side -> [minLatency : Nat, lossy : BOOLEAN]]
  /\ sentCount = [s \in Side |-> 0]
  /\ inflight = {}
  /\ polled = Empty

NewPacket(s) == [from |-> s, seq |-> sentCount[s] + 1, at |-> now]

Send(s) ==
  /\ sentCount' = [sentCount EXCEPT ![s] = @ + 1]
  /\ inflight' = inflight \cup {NewPacket(s)}
  /\ UNCHANGED <<now, quality, polled>>

SendInVain(s) ==
  /\ quality[s].lossy
  /\ sentCount' = [sentCount EXCEPT ![s] = @ + 1]
  /\ UNCHANGED <<now, quality, inflight, polled>>

Lose(p) ==
  /\ quality[p.from].lossy
  /\ inflight' = inflight \ {p}
  /\ UNCHANGED <<now, quality, sentCount, polled>>

Deliver(p) ==
  /\ now >= p.at + quality[p.from].minLatency
  /\ inflight' = inflight \ {p}
  /\ polled' = [polled EXCEPT ![Peer(p.from)] = Append(@, p)]
  /\ UNCHANGED <<now, quality, sentCount>>

Tick ==
  /\ now' = now + 1
  /\ UNCHANGED <<quality, sentCount, inflight, polled>>

Next ==
  \/ \E s \in Side : Send(s) \/ SendInVain(s)
  \/ \E p \in inflight : Lose(p) \/ Deliver(p)
  \/ Tick

Spec == Init /\ [][Next]_linkVars
=============================================================================
