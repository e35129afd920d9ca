-------------------------- MODULE SimulationProxy --------------------------
(***************************************************************************)
(* NetworkTransportSimulationProxy: delays, drops and reorders the packets *)
(* of the endpoint it wraps.  Here both ends of a link are proxied, each   *)
(* called by one thread (the class has no lock), over a pair of atomic     *)
(* queues: what LoopbackTransport is proved to implement.                  *)
(*                                                                         *)
(* A call is one step per iteration of its loops; the clock can advance    *)
(* between any two steps, since each helper reads it anew.  The two deques *)
(* of scheduled packets are sorted before their front is read, by a sort   *)
(* that is not stable: they are sets, and the front is any entry of the    *)
(* least time.                                                             *)
(***************************************************************************)
EXTENDS Endpoints, Integers, FiniteSets

CONSTANTS
  RawSettings,         \* settings a caller can construct a proxy with
  EndpointMayFail,     \* whether mEndpoint->SendPacket can return false
  MaxPackets,          \* bound: MaxPackets[s] SendPacket calls of side s
  MaxIdleTime          \* bound: the clock runs on past it only while needed

ASSUME ProxyAssumption ==
  /\ RawSettings \subseteq [loss : Int, base : Int, jitter : Int]
  /\ EndpointMayFail \in BOOLEAN
  /\ MaxPackets \in [Side -> Nat]
  /\ MaxIdleTime \in Nat

VARIABLES
  now,                 \* steady_clock::now(), in ticks
  settings,            \* mSettings of each proxy; loss is in percent
  pc,                  \* where the thread of each side is
  cutoff,              \* currTime of the flush; 0 outside a call
  scheduledOut,        \* mScheduledOutgoingPackets
  scheduledIn,         \* mScheduledIncomingPackets
  incoming,            \* the queues of the wrapped endpoints
  sentCount,           \* history: packets SendPacket has accepted
  lost,                \* history: packets dropped, by sender
  polled               \* history: entries handed to the callers of PollPacket

vars == <<now, settings, pc, cutoff, scheduledOut, scheduledIn, incoming,
          sentCount, lost, polled>>

-----------------------------------------------------------------------------
(* Settings.                                                               *)

Least(a, b) == IF a < b THEN a ELSE b
Greatest(a, b) == IF a > b THEN a ELSE b

\* Mutant of Clamp: the jitter is left as given.
ClampNoJitter(raw) ==
  [loss |-> Least(100, Greatest(0, raw.loss)), base |-> Greatest(0, raw.base),
   jitter |-> raw.jitter]

\* The constructor clamps what the caller asks for.
Clamp(raw) ==
  [loss   |-> Least(100, Greatest(0, raw.loss)),
   base   |-> Greatest(0, raw.base),
   jitter |-> Greatest(0, raw.jitter)]

\* Mutant of Delays: the jitter counts twice.
DelaysTwiceJitter(s) ==
  {Greatest(0, settings[s].base + 2 * offset) :
     offset \in (-settings[s].jitter)..settings[s].jitter}

\* ComputeDeliveryTimePoint: the delays that can be added to the clock.
Delays(s) ==
  {Greatest(0, settings[s].base + offset) :
     offset \in (-settings[s].jitter)..settings[s].jitter}

MinDelay(s) == Greatest(0, settings[s].base - settings[s].jitter)
MaxDelay(s) == settings[s].base + settings[s].jitter

\* ShouldDropPacket: a draw from [0, 1) is less than the probability.
MayDrop(s) == settings[s].loss > 0
MayKeep(s) == settings[s].loss < 100

-----------------------------------------------------------------------------
(* Packets and where they are.                                             *)

Packet == [from : Side, seq : Nat, at : Nat]

OutEntry == [time : Nat, packet : Packet]
InEntry == [time : Nat, packet : Packet, arrived : Nat]

\* Mutant of Fronts: the comparison of the sort is the wrong way round.
FrontsReversed(entries) == {e \in entries : \A f \in entries : e.time >= f.time}

\* After the sort the front of a deque has the least time.
Fronts(entries) == {e \in entries : \A f \in entries : e.time <= f.time}

PacketsIn(entries) == {e.packet : e \in entries}
Elements(queue) == {queue[i] : i \in DOMAIN queue}

Init ==
  /\ now = 0
  /\ settings \in [Side -> {Clamp(raw) : raw \in RawSettings}]
  /\ pc = [s \in Side |-> "idle"]
  /\ cutoff = [s \in Side |-> 0]
  /\ scheduledOut = [s \in Side |-> {}]
  /\ scheduledIn = [s \in Side |-> {}]
  /\ incoming = Empty
  /\ sentCount = [s \in Side |-> 0]
  /\ lost = [s \in Side |-> {}]
  /\ polled = Empty

Lose(p) == lost' = [lost EXCEPT ![p.from] = @ \cup {p}]

-----------------------------------------------------------------------------
(* Both methods begin with FlushScheduledOutgoingPackets.                  *)

Enter(s, to) ==
  /\ pc[s] = "idle"
  /\ pc' = [pc EXCEPT ![s] = to]
  /\ cutoff' = [cutoff EXCEPT ![s] = now]
  /\ UNCHANGED <<now, settings, scheduledOut, scheduledIn, incoming,
                 sentCount, lost, polled>>

CallSend(s) == sentCount[s] < MaxPackets[s] /\ Enter(s, "send")

\* Mutant of CallPoll: only SendPacket flushes.
CallPollNoFlush(s) == Enter(s, "pump")

CallPoll(s) == Enter(s, "poll")

Return(s) ==
  /\ pc' = [pc EXCEPT ![s] = "idle"]
  /\ cutoff' = [cutoff EXCEPT ![s] = 0]

Due(s) == {e \in Fronts(scheduledOut[s]) : e.time <= cutoff[s]}

\* Mutant of FlushOne: the packet is sent and stays scheduled.
FlushOneKeeps(s) ==
  /\ pc[s] \in {"send", "poll"}
  /\ \E e \in Due(s) :
       incoming' = [incoming EXCEPT ![PeerIncomingQueueToWrite(s)] =
                      Append(@, e.packet)]
  /\ pc' = [pc EXCEPT ![s] = IF pc[s] = "send" THEN "schedule" ELSE "pump"]
  /\ UNCHANGED <<now, settings, cutoff, scheduledOut, scheduledIn, sentCount, lost, polled>>

\* The result of mEndpoint->SendPacket is ignored: a packet the endpoint
\* refuses is gone.
FlushOne(s) ==
  /\ pc[s] \in {"send", "poll"}
  /\ \E e \in Due(s) :
       /\ scheduledOut' = [scheduledOut EXCEPT ![s] = @ \ {e}]
       /\ \/ /\ incoming' = [incoming EXCEPT ![PeerIncomingQueueToWrite(s)] =
                               Append(@, e.packet)]
             /\ UNCHANGED lost
          \/ EndpointMayFail /\ Lose(e.packet) /\ UNCHANGED incoming
  /\ UNCHANGED <<now, settings, pc, cutoff, scheduledIn, sentCount, polled>>

\* Mutant of FlushDone: the flush may stop while packets are due.
FlushDoneEarly(s) ==
  /\ \/ pc[s] = "send" /\ pc' = [pc EXCEPT ![s] = "schedule"]
     \/ pc[s] = "poll" /\ pc' = [pc EXCEPT ![s] = "pump"]
  /\ UNCHANGED <<now, settings, cutoff, scheduledOut, scheduledIn,
                 incoming, sentCount, lost, polled>>

FlushDone(s) ==
  /\ Due(s) = {}
  /\ \/ pc[s] = "send" /\ pc' = [pc EXCEPT ![s] = "schedule"]
     \/ pc[s] = "poll" /\ pc' = [pc EXCEPT ![s] = "pump"]
  /\ UNCHANGED <<now, settings, cutoff, scheduledOut, scheduledIn,
                 incoming, sentCount, lost, polled>>

-----------------------------------------------------------------------------
(* The rest of SendPacket: drop the packet, or schedule it.                *)

NewPacket(s) == [from |-> s, seq |-> sentCount[s] + 1, at |-> now]

Schedule(s) ==
  /\ pc[s] = "schedule"
  /\ \/ MayDrop(s) /\ Lose(NewPacket(s)) /\ UNCHANGED scheduledOut
     \/ /\ MayKeep(s)
        /\ \E delay \in Delays(s) :
             scheduledOut' = [scheduledOut EXCEPT ![s] =
               @ \cup {[time |-> now + delay, packet |-> NewPacket(s)]}]
        /\ UNCHANGED lost
  /\ sentCount' = [sentCount EXCEPT ![s] = @ + 1]
  /\ Return(s)
  /\ UNCHANGED <<now, settings, scheduledIn, incoming, polled>>

-----------------------------------------------------------------------------
(* The rest of PollPacket: PumpUnderlyingIncomingPackets empties the       *)
(* wrapped endpoint, then at most one packet that is due is delivered.     *)

PumpOne(s) ==
  LET p == Head(incoming[s]) IN
  /\ pc[s] = "pump"
  /\ incoming[s] # << >>
  /\ incoming' = [incoming EXCEPT ![IncomingQueueToRead(s)] = Tail(@)]
  /\ \/ MayDrop(s) /\ Lose(p) /\ UNCHANGED scheduledIn
     \/ /\ MayKeep(s)
        /\ \E delay \in Delays(s) :
             scheduledIn' = [scheduledIn EXCEPT ![s] =
               @ \cup {[time |-> now + delay, packet |-> p, arrived |-> now]}]
        /\ UNCHANGED lost
  /\ UNCHANGED <<now, settings, pc, cutoff, scheduledOut, sentCount, polled>>

PumpDone(s) ==
  /\ pc[s] = "pump"
  /\ incoming[s] = << >>
  /\ pc' = [pc EXCEPT ![s] = "deliver"]
  /\ UNCHANGED <<now, settings, cutoff, scheduledOut, scheduledIn,
                 incoming, sentCount, lost, polled>>

\* Mutant of Deliver: the front is delivered whether it is due or not.
DeliverAtOnce(s) ==
  /\ pc[s] = "deliver"
  /\ \/ scheduledIn[s] = {} /\ UNCHANGED <<scheduledIn, polled>>
     \/ \E e \in Fronts(scheduledIn[s]) :
          /\ scheduledIn' = [scheduledIn EXCEPT ![s] = @ \ {e}]
          /\ polled' = [polled EXCEPT ![s] = Append(@, e)]
  /\ Return(s)
  /\ UNCHANGED <<now, settings, scheduledOut, incoming, sentCount, lost>>

Deliver(s) ==
  LET ready == {e \in Fronts(scheduledIn[s]) : e.time <= now} IN
  /\ pc[s] = "deliver"
  /\ \/ ready = {} /\ UNCHANGED <<scheduledIn, polled>>
     \/ \E e \in ready :
          /\ scheduledIn' = [scheduledIn EXCEPT ![s] = @ \ {e}]
          /\ polled' = [polled EXCEPT ![s] = Append(@, e)]
  /\ Return(s)
  /\ UNCHANGED <<now, settings, scheduledOut, incoming, sentCount, lost>>

-----------------------------------------------------------------------------
\* The clock advances at any moment; past MaxIdleTime only for a packet that
\* is not due yet.
Tick ==
  /\ \/ now < MaxIdleTime
     \/ \E s \in Side : \E e \in scheduledOut[s] \cup scheduledIn[s] : e.time > now
  /\ now' = now + 1
  /\ UNCHANGED <<settings, pc, cutoff, scheduledOut, scheduledIn,
                 incoming, sentCount, lost, polled>>

\* What a thread does once it is inside a call.
Work(s) ==
  \/ FlushOne(s)
  \/ FlushDone(s)
  \/ Schedule(s)
  \/ PumpOne(s)
  \/ PumpDone(s)
  \/ Deliver(s)

Next == Tick \/ \E s \in Side : CallSend(s) \/ CallPoll(s) \/ Work(s)

Spec == Init /\ [][Next]_vars

\* A call that began goes on, time passes, and each side polls again and again,
\* as GameSession::Frame does (src/apps/common/src/session/play_session.cpp:26).
Fairness == WF_vars(Tick) /\ \A s \in Side : WF_vars(Work(s)) /\ WF_vars(CallPoll(s))

FairSpec == Spec /\ Fairness

-----------------------------------------------------------------------------
(* Properties.                                                             *)

TypeOK ==
  /\ now \in Nat
  /\ settings \in [Side -> [loss : 0..100, base : Nat, jitter : Nat]]
  /\ pc \in [Side -> {"idle", "send", "schedule", "poll", "pump", "deliver"}]
  /\ cutoff \in [Side -> Nat]
  /\ scheduledOut \in [Side -> SUBSET OutEntry]
  /\ scheduledIn \in [Side -> SUBSET InEntry]
  /\ incoming \in [Side -> Seq(Packet)]
  /\ sentCount \in [Side -> Nat]
  /\ lost \in [Side -> SUBSET Packet]
  /\ polled \in [Side -> Seq(InEntry)]

\* The packets of side s that wait to be flushed, that wait in the wrapped
\* endpoint of its peer, that wait to be delivered there, that were delivered.
Waiting(s) == PacketsIn(scheduledOut[s])
Wire(s) == Elements(incoming[Peer(s)])
Arrived(s) == PacketsIn(scheduledIn[Peer(s)])
Delivered(s) == {e.packet : e \in Elements(polled[Peer(s)])}

InFlight(s) == Waiting(s) \cup Wire(s) \cup Arrived(s)

Numbers(packets) == {p.seq : p \in packets}

\* Every packet SendPacket has accepted is in exactly one place: scheduled to
\* leave, in the wrapped endpoint, scheduled to be delivered, delivered or
\* dropped.  The moves between the deques of FlushScheduledOutgoingPackets,
\* PumpUnderlyingIncomingPackets and PollPacket leave none behind or twice.
ExactlyOnePlace ==
  \A s \in Side :
    LET places == <<Waiting(s), Wire(s), Arrived(s), Delivered(s), lost[s]>> IN
    /\ UNION {Numbers(places[i]) : i \in 1..5} = 1..sentCount[s]
    /\ \A i, j \in 1..5 : i # j => Numbers(places[i]) \cap Numbers(places[j]) = {}
    /\ \A queue \in {incoming[s], polled[s]} : \A i, j \in DOMAIN queue :
         i # j => queue[i] # queue[j]

\* A packet still scheduled by FlushScheduledOutgoingPackets is overtaken only
\* by packets that were scheduled at most the spread of the delays after it, and
\* PollPacket lets a packet be overtaken only by packets pumped that soon after
\* it.  Without jitter only packets of the same instant can change places.
BoundedReordering ==
  \A s \in Side :
    /\ \A p \in Waiting(s), q \in Wire(s) \cup Arrived(s) \cup Delivered(s) :
         q.at - p.at <= MaxDelay(s) - MinDelay(s)
    /\ \A e \in scheduledIn[s], f \in Elements(polled[s]) :
         f.arrived - e.arrived <= MaxDelay(s) - MinDelay(s)

\* When a call goes on from its flush, every packet that was due when the call
\* began has reached the wrapped endpoint: SendPacket never lets a packet it
\* schedules jump ahead of one that had to leave before, and no packet that is
\* due waits for a second call.
NothingDueIsHeld ==
  \A s \in Side :
    pc[s] \in {"schedule", "pump", "deliver"} =>
      \A e \in scheduledOut[s] : e.time > cutoff[s]

\* No packet waits longer than the simulated latency before it is due.
DueInTime ==
  \A s \in Side :
    /\ \A e \in scheduledOut[s] : e.time <= e.packet.at + MaxDelay(s)
    /\ \A e \in scheduledIn[s] : e.time <= e.arrived + MaxDelay(s)

\* The proxies are a datagram link: no packet is invented, altered or delivered
\* twice, none is delivered before the least delay of the sending and of the
\* receiving proxy have passed, and none is lost unless the clamped settings
\* of one of the two call for loss or the wrapped endpoint refuses packets.
Datagrams == INSTANCE DatagramLink WITH
  quality <- [s \in Side |->
                [minLatency |-> MinDelay(s) + MinDelay(Peer(s)),
                 lossy |-> \/ settings[s].loss > 0
                           \/ settings[Peer(s)].loss > 0
                           \/ EndpointMayFail]],
  inflight <- UNION {InFlight(s) : s \in Side},
  polled <- [s \in Side |-> [i \in DOMAIN polled[s] |-> polled[s][i].packet]]
DatagramSpec == Datagrams!Spec

\* A packet SendPacket accepted is delivered or dropped in the end, if both
\* sides go on polling: no later send is needed to push it out.
EventuallySettled ==
  \A s \in Side : \A n \in 1..MaxPackets[s] :
    (sentCount[s] >= n) ~> (n \in Numbers(Delivered(s) \cup lost[s]))
=============================================================================
