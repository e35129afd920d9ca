----------------------- MODULE SimulationProxyProofs ------------------------
(***************************************************************************)
(* What SimulationProxy promises for all settings, any number of packets   *)
(* and any advance of the clock: no packet that is due is held back, none  *)
(* is late, none is overtaken by more than the spread of the delays, every *)
(* packet is in one place, and the two sides are a datagram link.          *)
(*                                                                         *)
(* The argument for the order: a packet that left was at the front of the  *)
(* sorted deque, so what stayed is scheduled no earlier than it was, and   *)
(* what is scheduled later is scheduled no earlier than its own sending    *)
(* allows.                                                                 *)
(***************************************************************************)
EXTENDS SimulationProxy, TLAPS, FiniteSetTheorems, WellFoundedInduction

\* The packets of side s that have left its proxy.
Passed(s) == Wire(s) \cup Arrived(s) \cup Delivered(s)

OutTimes ==
  \A s \in Side : \A e \in scheduledOut[s] :
    /\ e.packet.at <= now
    /\ e.packet.at + MinDelay(s) <= e.time
    /\ e.time <= e.packet.at + MaxDelay(s)

InTimes ==
  \A s \in Side : \A e \in scheduledIn[s] :
    /\ e.arrived <= now
    /\ e.arrived + MinDelay(s) <= e.time
    /\ e.time <= e.arrived + MaxDelay(s)

Past ==
  \A s \in Side :
    /\ \A q \in Passed(s) : q.at <= now
    /\ \A f \in Elements(polled[s]) : f.arrived <= now

Overtaking ==
  \A s \in Side :
    /\ \A q \in Passed(s) : \A e \in scheduledOut[s] : q.at + MinDelay(s) <= e.time
    /\ \A f \in Elements(polled[s]) : \A e \in scheduledIn[s] :
         f.arrived + MinDelay(s) <= e.time

IInv == TypeOK /\ NothingDueIsHeld /\ OutTimes /\ InTimes /\ Past /\ Overtaking

-----------------------------------------------------------------------------
(* Numbers, sequences and the front of a deque.                            *)

\* A set of natural numbers that is not empty has a least element: among the
\* intervals from zero to its elements one contains no other.
LEMMA LeastElement ==
  ASSUME NEW T \in SUBSET Nat, T # {}
  PROVE  \E x \in T : \A y \in T : x <= y
<1> DEFINE Upto == {0..x : x \in T}
<1>1. Upto # {} /\ Upto \subseteq FiniteSubsetsOf(Nat)
  <2>1. \A x \in T : 0..x \in SUBSET Nat /\ IsFiniteSet(0..x)
    BY FS_Interval
  <2> QED BY <2>1 DEF FiniteSubsetsOf
<1>2. PICK u \in Upto : \A v \in Upto : ~ (<<v, u>> \in StrictSubsetOrdering(Nat))
  <2> HIDE DEF Upto
  <2> QED BY <1>1, FS_StrictSubsetOrderingWellFounded, WFMin
<1>3. PICK x \in T : u = 0..x
  OBVIOUS
<1>4. ASSUME NEW y \in T PROVE x <= y
  <2>1. SUFFICES ASSUME y < x PROVE FALSE
    OBVIOUS
  <2>2. 0..y \subseteq 0..x /\ 0..x \subseteq Nat /\ x \in 0..x /\ x \notin 0..y
    BY <2>1
  <2>3. <<0..y, u>> \in StrictSubsetOrdering(Nat)
    BY <1>3, <2>2 DEF StrictSubsetOrdering
  <2> QED BY <1>2, <2>3
<1> QED BY <1>4

\* A deque that is not empty has a front, scheduled no later than any entry.
LEMMA FrontExists ==
  ASSUME NEW E, \A e \in E : e.time \in Nat, NEW e \in E
  PROVE  \E f \in Fronts(E) : f.time <= e.time
<1> DEFINE Times == {g.time : g \in E}
<1>1. Times \in SUBSET Nat /\ Times # {}
  OBVIOUS
<1>2. PICK t \in Times : \A u \in Times : t <= u
  <2> HIDE DEF Times
  <2> QED BY <1>1, LeastElement
<1>3. PICK f \in E : f.time = t
  OBVIOUS
<1>4. \A g \in E : f.time <= g.time
  BY <1>2, <1>3
<1> QED BY <1>3, <1>4 DEF Fronts

LEMMA ElementsAppend ==
  ASSUME NEW S, NEW q \in Seq(S), NEW x \in S
  PROVE  Elements(Append(q, x)) = Elements(q) \cup {x}
<1>1. \A i \in 1..Len(q) : Append(q, x)[i] = q[i]
  OBVIOUS
<1>2. Append(q, x)[Len(q) + 1] = x /\ DOMAIN Append(q, x) = 1..(Len(q) + 1)
  OBVIOUS
<1>3. DOMAIN q = 1..Len(q) /\ 1..(Len(q) + 1) = (1..Len(q)) \cup {Len(q) + 1}
  OBVIOUS
<1> QED BY <1>1, <1>2, <1>3 DEF Elements

LEMMA ElementsTail ==
  ASSUME NEW S, NEW q \in Seq(S), q # << >>
  PROVE  /\ Elements(Tail(q)) \subseteq Elements(q)
         /\ Head(q) \in Elements(q)
         /\ Head(q) \in S
         /\ Tail(q) \in Seq(S)
<1>1. \A i \in DOMAIN Tail(q) : Tail(q)[i] = q[i + 1] /\ i + 1 \in DOMAIN q
  OBVIOUS
<1>2. 1 \in DOMAIN q /\ Head(q) = q[1]
  OBVIOUS
<1> QED BY <1>1, <1>2 DEF Elements

LEMMA ElementsIn ==
  ASSUME NEW S, NEW q \in Seq(S)
  PROVE  Elements(q) \subseteq S
BY DEF Elements

LEMMA PeerType ==
  ASSUME NEW s \in Side
  PROVE  Peer(s) \in Side /\ Peer(s) # s /\ Peer(Peer(s)) = s
BY DEF Peer, Side

\* The delays that are added to the clock lie between the least and the most.
LEMMA DelayBounds ==
  ASSUME TypeOK, NEW s \in Side
  PROVE  /\ MinDelay(s) \in Nat
         /\ MaxDelay(s) \in Nat
         /\ \A d \in Delays(s) : d \in Nat /\ MinDelay(s) <= d /\ d <= MaxDelay(s)
<1>1. settings[s].base \in Nat /\ settings[s].jitter \in Nat
  BY DEF TypeOK
<1> QED BY <1>1 DEF MinDelay, MaxDelay, Delays, Greatest

LEMMA LoseType ==
  ASSUME TypeOK, NEW p \in Packet, Lose(p)
  PROVE  lost' \in [Side -> SUBSET Packet]
<1>1. p.from \in Side /\ lost \in [Side -> SUBSET Packet]
  BY DEF Packet, TypeOK
<1> QED BY <1>1 DEF Lose

\* The times that are compared are numbers.
LEMMA Numbered ==
  ASSUME TypeOK, NEW s \in Side
  PROVE  /\ \A e \in scheduledOut[s] : e.packet.at \in Nat /\ e.time \in Nat
         /\ \A e \in scheduledIn[s] : e.arrived \in Nat /\ e.time \in Nat
         /\ \A q \in Passed(s) : q.at \in Nat
         /\ \A f \in Elements(polled[s]) : f.arrived \in Nat
<1>1. /\ scheduledOut[s] \subseteq OutEntry
      /\ scheduledIn[s] \subseteq InEntry
      /\ scheduledIn[Peer(s)] \subseteq InEntry
      /\ Elements(polled[s]) \subseteq InEntry
      /\ Elements(polled[Peer(s)]) \subseteq InEntry
      /\ Elements(incoming[Peer(s)]) \subseteq Packet
  BY PeerType, ElementsIn DEF TypeOK
<1> QED BY <1>1 DEF Passed, Wire, Arrived, Delivered, PacketsIn, Packet, OutEntry, InEntry

-----------------------------------------------------------------------------
(* The invariant holds at the beginning and is kept by every action.       *)

LEMMA InitIInv == Init => IInv
<1> SUFFICES ASSUME Init PROVE IInv
  OBVIOUS
<1>1. settings \in [Side -> [loss : 0..100, base : Nat, jitter : Nat]]
  <2>1. \A raw \in RawSettings : Clamp(raw) \in [loss : 0..100, base : Nat, jitter : Nat]
    <3> SUFFICES ASSUME NEW raw \in RawSettings
                 PROVE  Clamp(raw) \in [loss : 0..100, base : Nat, jitter : Nat]
      OBVIOUS
    <3>1. raw.loss \in Int /\ raw.base \in Int /\ raw.jitter \in Int
      BY ProxyAssumption DEF ProxyAssumption
    <3> QED BY <3>1 DEF Clamp, Least, Greatest
  <2> QED BY <2>1 DEF Init
<1>2. TypeOK
  BY <1>1 DEF Init, TypeOK, Empty
<1>3. \A s \in Side : /\ scheduledOut[s] = {} /\ scheduledIn[s] = {}
                      /\ incoming[s] = << >> /\ polled[s] = << >>
  BY DEF Init, Empty
<1>4. \A s \in Side : Passed(s) = {} /\ Elements(polled[s]) = {}
  <2>1. Elements(<< >>) = {} /\ PacketsIn({}) = {}
    BY DEF Elements, PacketsIn
  <2>2. \A s \in Side : Wire(s) = {} /\ Arrived(s) = {} /\ Delivered(s) = {}
    BY <1>3, <2>1, PeerType DEF Wire, Arrived, Delivered
  <2> QED BY <1>3, <2>1, <2>2 DEF Passed
<1>5. NothingDueIsHeld
  BY <1>3 DEF NothingDueIsHeld
<1> QED BY <1>2, <1>3, <1>4, <1>5 DEF IInv, OutTimes, InTimes, Past, Overtaking

\* What does not move packets keeps what is said about them.
LEMMA SamePackets ==
  ASSUME IInv, UNCHANGED <<settings, scheduledOut, scheduledIn, incoming, polled>>,
         now' \in Nat, now <= now'
  PROVE  OutTimes' /\ InTimes' /\ Past' /\ Overtaking'
<1>1. \A s \in Side : MinDelay(s)' = MinDelay(s) /\ MaxDelay(s)' = MaxDelay(s)
  BY DEF MinDelay, MaxDelay
<1>2. \A s \in Side : Passed(s)' = Passed(s) /\ Elements(polled[s])' = Elements(polled[s])
  BY DEF Passed, Wire, Arrived, Delivered, Elements, PacketsIn
<1>3. now \in Nat
  BY DEF IInv, TypeOK
<1>4. TypeOK
  BY DEF IInv
<1> QED BY <1>1, <1>2, <1>3, <1>4, Numbered DEF IInv, OutTimes, InTimes, Past, Overtaking

LEMMA TickIInv == IInv /\ Tick => IInv'
<1> SUFFICES ASSUME IInv, Tick PROVE IInv'
  OBVIOUS
<1>1. TypeOK'
  BY DEF IInv, TypeOK, Tick
<1>2. NothingDueIsHeld'
  BY DEF IInv, NothingDueIsHeld, Tick
<1>3. OutTimes' /\ InTimes' /\ Past' /\ Overtaking'
  BY SamePackets DEF IInv, TypeOK, Tick
<1> QED BY <1>1, <1>2, <1>3 DEF IInv

LEMMA EnterIInv ==
  ASSUME IInv, NEW s \in Side, NEW to \in {"send", "poll"}, Enter(s, to)
  PROVE  IInv'
<1>1. TypeOK'
  BY DEF IInv, TypeOK, Enter
<1>2. NothingDueIsHeld'
  BY DEF IInv, TypeOK, NothingDueIsHeld, Enter
<1>3. OutTimes' /\ InTimes' /\ Past' /\ Overtaking'
  BY SamePackets DEF IInv, TypeOK, Enter
<1> QED BY <1>1, <1>2, <1>3 DEF IInv

\* The flush ends when no front is due, so when nothing is.
LEMMA FlushDoneIInv ==
  ASSUME IInv, NEW s \in Side, FlushDone(s)
  PROVE  IInv'
<1>1. TypeOK'
  BY DEF IInv, TypeOK, FlushDone
<1>2. \A e \in scheduledOut[s] : e.time > cutoff[s]
  <2> SUFFICES ASSUME NEW e \in scheduledOut[s], e.time <= cutoff[s] PROVE FALSE
    BY DEF IInv, TypeOK, OutEntry
  <2>1. \A g \in scheduledOut[s] : g.time \in Nat
    BY DEF IInv, TypeOK, OutEntry
  <2>2. PICK f \in Fronts(scheduledOut[s]) : f.time <= e.time
    BY <2>1, FrontExists
  <2>3. f.time \in Nat /\ cutoff[s] \in Nat
    BY <2>1 DEF Fronts, IInv, TypeOK
  <2>4. f \in Due(s)
    BY <2>1, <2>2, <2>3 DEF Due
  <2> QED BY <2>4 DEF FlushDone
<1>3. NothingDueIsHeld'
  BY <1>2 DEF IInv, TypeOK, NothingDueIsHeld, FlushDone
<1>4. OutTimes' /\ InTimes' /\ Past' /\ Overtaking'
  BY SamePackets DEF IInv, TypeOK, FlushDone
<1> QED BY <1>1, <1>3, <1>4 DEF IInv

LEMMA PumpDoneIInv ==
  ASSUME IInv, NEW s \in Side, PumpDone(s)
  PROVE  IInv'
<1>1. TypeOK'
  BY DEF IInv, TypeOK, PumpDone
<1>2. NothingDueIsHeld'
  BY DEF IInv, TypeOK, NothingDueIsHeld, PumpDone
<1>3. OutTimes' /\ InTimes' /\ Past' /\ Overtaking'
  BY SamePackets DEF IInv, TypeOK, PumpDone
<1> QED BY <1>1, <1>2, <1>3 DEF IInv

\* A flushed packet was at the front: what stays is scheduled no earlier.
LEMMA FlushOneIInv ==
  ASSUME IInv, NEW s \in Side, FlushOne(s)
  PROVE  IInv'
<1> USE DEF PeerIncomingQueueToWrite
<1>1. PICK e \in Due(s) :
        /\ scheduledOut' = [scheduledOut EXCEPT ![s] = @ \ {e}]
        /\ \/ /\ incoming' = [incoming EXCEPT ![Peer(s)] = Append(@, e.packet)]
              /\ lost' = lost
           \/ incoming' = incoming /\ Lose(e.packet)
  BY DEF FlushOne
<1>2. /\ e \in scheduledOut[s]
      /\ \A f \in scheduledOut[s] : e.time <= f.time
  BY <1>1 DEF Due, Fronts
<1>3. TypeOK /\ e.packet \in Packet /\ Peer(s) \in Side
  BY <1>2, PeerType DEF IInv, TypeOK, OutEntry
<1>4. UNCHANGED <<now, settings, pc, cutoff, scheduledIn, sentCount, polled>>
  BY DEF FlushOne
<1>5. TypeOK'
  <2>1. incoming' \in [Side -> Seq(Packet)]
    <3>1. incoming \in [Side -> Seq(Packet)] /\ incoming[Peer(s)] \in Seq(Packet)
      BY <1>3 DEF TypeOK
    <3>2. Append(incoming[Peer(s)], e.packet) \in Seq(Packet)
      BY <1>3, <3>1
    <3> QED BY <1>1, <3>1, <3>2
  <2>2. lost' \in [Side -> SUBSET Packet]
    BY <1>1, <1>3, LoseType DEF TypeOK
  <2>3. scheduledOut' \in [Side -> SUBSET OutEntry]
    BY <1>1, <1>3 DEF TypeOK
  <2> QED BY <1>3, <1>4, <2>1, <2>2, <2>3 DEF TypeOK
<1>6. \A t \in Side : scheduledOut'[t] \subseteq scheduledOut[t]
  BY <1>1, <1>3 DEF TypeOK
<1>7. \A t \in Side : \A q \in Passed(t)' : q \in Passed(t) \/ (t = s /\ q = e.packet)
  <2> SUFFICES ASSUME NEW t \in Side, NEW q \in Passed(t)'
               PROVE  q \in Passed(t) \/ (t = s /\ q = e.packet)
    OBVIOUS
  <2>1. Arrived(t)' = Arrived(t) /\ Delivered(t)' = Delivered(t)
    BY <1>4 DEF Arrived, Delivered
  <2>2. CASE q \in Wire(t)'
    <3>1. q \in Elements(incoming'[Peer(t)])
      BY <2>2 DEF Wire
    <3>2. CASE t = s /\ incoming' # incoming
      <4>1. incoming[Peer(s)] \in Seq(Packet)
        BY <1>3 DEF TypeOK
      <4>2. incoming'[Peer(s)] = Append(incoming[Peer(s)], e.packet)
        BY <1>1, <1>3, <3>2 DEF TypeOK
      <4>3. q \in Elements(incoming[Peer(s)]) \cup {e.packet}
        BY <1>3, <3>1, <3>2, <4>1, <4>2, ElementsAppend
      <4> QED BY <3>2, <4>3 DEF Passed, Wire
    <3>3. CASE t # s \/ incoming' = incoming
      <4>1. Peer(t) \in Side /\ (t # s => Peer(t) # Peer(s))
        BY DEF Peer, Side
      <4>2. incoming'[Peer(t)] = incoming[Peer(t)]
        BY <1>1, <1>3, <3>3, <4>1 DEF TypeOK
      <4> QED BY <3>1, <4>2 DEF Passed, Wire
    <3> QED BY <3>2, <3>3
  <2> QED BY <2>1, <2>2 DEF Passed
<1>8. \A t \in Side : MinDelay(t)' = MinDelay(t) /\ MaxDelay(t)' = MaxDelay(t)
  BY <1>4 DEF MinDelay, MaxDelay
<1>9. /\ e.packet.at <= now
      /\ e.packet.at + MinDelay(s) <= e.time
  BY <1>2 DEF IInv, OutTimes
<1>10. \A f \in scheduledOut[s] : e.packet.at + MinDelay(s) <= f.time
  BY <1>2, <1>3, <1>9, DelayBounds, Numbered
<1>11. NothingDueIsHeld'
  BY <1>4, <1>6 DEF IInv, NothingDueIsHeld
<1>12. OutTimes' /\ InTimes' /\ Past'
  BY <1>4, <1>6, <1>7, <1>8, <1>9 DEF IInv, OutTimes, InTimes, Past
<1>13. Overtaking'
  BY <1>4, <1>6, <1>7, <1>8, <1>10 DEF IInv, Overtaking
<1> QED BY <1>5, <1>11, <1>12, <1>13 DEF IInv

\* A packet is scheduled no earlier than now and the least delay, and what has
\* left was sent before now.
LEMMA ScheduleIInv ==
  ASSUME IInv, NEW s \in Side, Schedule(s)
  PROVE  IInv'
<1>1. UNCHANGED <<now, settings, scheduledIn, incoming, polled>>
  BY DEF Schedule
<1>2. TypeOK /\ now \in Nat /\ MinDelay(s) \in Nat /\ MaxDelay(s) \in Nat
  BY DelayBounds DEF IInv, TypeOK
<1>3. NewPacket(s) \in Packet /\ NewPacket(s).at = now /\ NewPacket(s).from = s
  BY DEF IInv, TypeOK, NewPacket, Packet
<1>4. \A t \in Side : \A e \in scheduledOut'[t] :
        \/ e \in scheduledOut[t]
        \/ /\ t = s /\ e \in OutEntry /\ e.packet.at = now
           /\ now + MinDelay(s) <= e.time /\ e.time <= now + MaxDelay(s)
  <2>1. CASE UNCHANGED scheduledOut
    BY <2>1
  <2>2. CASE \E delay \in Delays(s) :
               scheduledOut' = [scheduledOut EXCEPT ![s] =
                 @ \cup {[time |-> now + delay, packet |-> NewPacket(s)]}]
    <3>1. PICK delay \in Delays(s) :
            scheduledOut' = [scheduledOut EXCEPT ![s] =
              @ \cup {[time |-> now + delay, packet |-> NewPacket(s)]}]
      BY <2>2
    <3>2. delay \in Nat /\ MinDelay(s) <= delay /\ delay <= MaxDelay(s)
      BY <1>2, DelayBounds
    <3> DEFINE x == [time |-> now + delay, packet |-> NewPacket(s)]
    <3>3. x \in OutEntry /\ x.packet.at = now /\ x.time = now + delay
      BY <1>2, <1>3, <3>2 DEF OutEntry
    <3>4. \A t \in Side : \A e \in scheduledOut'[t] :
            e \in scheduledOut[t] \/ (t = s /\ e = x)
      BY <1>2, <3>1 DEF TypeOK
    <3>5. now + MinDelay(s) <= x.time /\ x.time <= now + MaxDelay(s)
      BY <1>2, <3>2, <3>3
    <3> HIDE DEF x
    <3> QED BY <3>3, <3>4, <3>5
  <2> QED BY <2>1, <2>2 DEF Schedule
<1>5. TypeOK'
  <2>1. lost' \in [Side -> SUBSET Packet]
    BY <1>2, <1>3, LoseType DEF TypeOK, Schedule
  <2>2. scheduledOut' \in [Side -> SUBSET OutEntry]
    <3>1. DOMAIN scheduledOut' = Side /\ scheduledOut' = [t \in Side |-> scheduledOut'[t]]
      BY <1>2 DEF TypeOK, Schedule
    <3>2. \A t \in Side : scheduledOut'[t] \subseteq OutEntry
      BY <1>2, <1>4 DEF TypeOK
    <3> QED BY <3>1, <3>2
  <2>3. /\ sentCount' \in [Side -> Nat]
        /\ cutoff' \in [Side -> Nat]
        /\ pc' \in [Side -> {"idle", "send", "schedule", "poll", "pump", "deliver"}]
    BY <1>2 DEF TypeOK, Schedule, Return
  <2> QED BY <1>1, <1>2, <2>1, <2>2, <2>3 DEF TypeOK
<1>6. \A t \in Side : MinDelay(t)' = MinDelay(t) /\ MaxDelay(t)' = MaxDelay(t)
  BY <1>1 DEF MinDelay, MaxDelay
<1>7. \A t \in Side : Passed(t)' = Passed(t)
  BY <1>1 DEF Passed, Wire, Arrived, Delivered
<1>8. NothingDueIsHeld'
  <2>1. \A t \in Side : t # s => /\ scheduledOut'[t] = scheduledOut[t]
                                 /\ pc'[t] = pc[t] /\ cutoff'[t] = cutoff[t]
    BY <1>2 DEF TypeOK, Schedule, Return
  <2>2. pc'[s] = "idle"
    BY <1>2 DEF TypeOK, Schedule, Return
  <2> QED BY <2>1, <2>2 DEF IInv, NothingDueIsHeld
<1>9. OutTimes'
  BY <1>1, <1>2, <1>4, <1>6 DEF IInv, OutTimes
<1>10. InTimes' /\ Past'
  BY <1>1, <1>6, <1>7 DEF IInv, InTimes, Past
<1>11. Overtaking'
  <2>1. \A q \in Passed(s) : q.at <= now /\ q.at \in Nat
    BY <1>2, Numbered DEF IInv, Past
  <2>2. \A q \in Passed(s) : \A e \in OutEntry :
          now + MinDelay(s) <= e.time => q.at + MinDelay(s) <= e.time
    BY <1>2, <2>1 DEF OutEntry
  <2> QED BY <1>1, <1>4, <1>6, <1>7, <2>2 DEF IInv, Overtaking
<1> QED BY <1>5, <1>8, <1>9, <1>10, <1>11 DEF IInv

\* A pumped packet only changes place, and is due no earlier than now and the
\* least delay.
LEMMA PumpOneIInv ==
  ASSUME IInv, NEW s \in Side, PumpOne(s)
  PROVE  IInv'
<1> DEFINE p == Head(incoming[s])
<1>1. /\ UNCHANGED <<now, settings, pc, cutoff, scheduledOut, sentCount, polled>>
      /\ incoming[s] # << >>
      /\ incoming' = [incoming EXCEPT ![s] = Tail(@)]
  BY DEF PumpOne, IncomingQueueToRead
<1>2. TypeOK /\ now \in Nat /\ MinDelay(s) \in Nat /\ MaxDelay(s) \in Nat
  BY DelayBounds DEF IInv, TypeOK
<1>3. /\ incoming[s] \in Seq(Packet)
      /\ p \in Packet /\ p \in Elements(incoming[s])
      /\ Tail(incoming[s]) \in Seq(Packet)
      /\ Elements(Tail(incoming[s])) \subseteq Elements(incoming[s])
  <2>1. incoming[s] \in Seq(Packet)
    BY <1>2 DEF TypeOK
  <2> QED BY <1>1, <2>1, ElementsTail
<1>4. \A t \in Side : \A e \in scheduledIn'[t] :
        \/ e \in scheduledIn[t]
        \/ /\ t = s /\ e \in InEntry /\ e.packet = p /\ e.arrived = now
           /\ now + MinDelay(s) <= e.time /\ e.time <= now + MaxDelay(s)
  <2>1. CASE UNCHANGED scheduledIn
    BY <2>1
  <2>2. CASE \E delay \in Delays(s) :
               scheduledIn' = [scheduledIn EXCEPT ![s] =
                 @ \cup {[time |-> now + delay, packet |-> p, arrived |-> now]}]
    <3>1. PICK delay \in Delays(s) :
            scheduledIn' = [scheduledIn EXCEPT ![s] =
              @ \cup {[time |-> now + delay, packet |-> p, arrived |-> now]}]
      BY <2>2
    <3>2. delay \in Nat /\ MinDelay(s) <= delay /\ delay <= MaxDelay(s)
      BY <1>2, DelayBounds
    <3> DEFINE x == [time |-> now + delay, packet |-> p, arrived |-> now]
    <3>3. x \in InEntry /\ x.packet = p /\ x.arrived = now /\ x.time = now + delay
      BY <1>2, <1>3, <3>2 DEF InEntry
    <3>4. \A t \in Side : \A e \in scheduledIn'[t] :
            e \in scheduledIn[t] \/ (t = s /\ e = x)
      BY <1>2, <3>1 DEF TypeOK
    <3>5. now + MinDelay(s) <= x.time /\ x.time <= now + MaxDelay(s)
      BY <1>2, <3>2, <3>3
    <3> HIDE DEF x
    <3> QED BY <3>3, <3>4, <3>5
  <2> QED BY <2>1, <2>2 DEF PumpOne
<1>5. TypeOK'
  <2>1. lost' \in [Side -> SUBSET Packet]
    BY <1>2, <1>3, LoseType DEF TypeOK, PumpOne
  <2>2. incoming' \in [Side -> Seq(Packet)]
    <3>1. incoming \in [Side -> Seq(Packet)]
      BY <1>2 DEF TypeOK
    <3> QED BY <1>1, <1>3, <3>1
  <2>3. scheduledIn' \in [Side -> SUBSET InEntry]
    <3>1. DOMAIN scheduledIn' = Side /\ scheduledIn' = [t \in Side |-> scheduledIn'[t]]
      BY <1>2 DEF TypeOK, PumpOne
    <3>2. \A t \in Side : scheduledIn'[t] \subseteq InEntry
      BY <1>2, <1>4 DEF TypeOK
    <3> QED BY <3>1, <3>2
  <2> QED BY <1>1, <1>2, <2>1, <2>2, <2>3 DEF TypeOK
<1>6. \A t \in Side : MinDelay(t)' = MinDelay(t) /\ MaxDelay(t)' = MaxDelay(t)
  BY <1>1 DEF MinDelay, MaxDelay
<1>7. \A t \in Side : Passed(t)' \subseteq Passed(t)
  <2> SUFFICES ASSUME NEW t \in Side, NEW q \in Passed(t)'
               PROVE  q \in Passed(t)
    OBVIOUS
  <2>1. Peer(t) \in Side
    BY PeerType
  <2>2. CASE q \in Wire(t)'
    <3>1. q \in Elements(incoming'[Peer(t)])
      BY <2>2 DEF Wire
    <3>2. \/ incoming'[Peer(t)] = incoming[Peer(t)]
          \/ Peer(t) = s /\ incoming'[Peer(t)] = Tail(incoming[s])
      BY <1>1, <1>2, <2>1 DEF TypeOK
    <3>3. q \in Elements(incoming[Peer(t)])
      BY <1>3, <3>1, <3>2
    <3> QED BY <3>3 DEF Passed, Wire
  <2>3. CASE q \in Arrived(t)'
    <3>1. PICK e \in scheduledIn'[Peer(t)] : q = e.packet
      BY <2>3 DEF Arrived, PacketsIn
    <3>2. CASE e \in scheduledIn[Peer(t)]
      BY <3>1, <3>2 DEF Passed, Arrived, PacketsIn
    <3>3. CASE Peer(t) = s /\ e.packet = p
      BY <1>3, <3>1, <3>3 DEF Passed, Wire
    <3> QED BY <1>4, <2>1, <3>2, <3>3
  <2>4. CASE q \in Delivered(t)'
    BY <1>1, <2>4 DEF Passed, Delivered
  <2> QED BY <2>2, <2>3, <2>4 DEF Passed
<1>8. NothingDueIsHeld'
  BY <1>1 DEF IInv, NothingDueIsHeld
<1>9. OutTimes' /\ Past'
  BY <1>1, <1>6, <1>7 DEF IInv, OutTimes, Past
<1>10. InTimes'
  BY <1>1, <1>2, <1>4, <1>6 DEF IInv, InTimes
<1>11. Overtaking'
  <2>1. \A f \in Elements(polled[s]) : f.arrived <= now /\ f.arrived \in Nat
    BY <1>2, Numbered DEF IInv, Past
  <2>2. \A f \in Elements(polled[s]) : \A e \in InEntry :
          now + MinDelay(s) <= e.time => f.arrived + MinDelay(s) <= e.time
    BY <1>2, <2>1 DEF InEntry
  <2> QED BY <1>1, <1>4, <1>6, <1>7, <2>2 DEF IInv, Overtaking
<1> QED BY <1>5, <1>8, <1>9, <1>10, <1>11 DEF IInv

\* A delivered packet was at the front: what stays is due no earlier.
LEMMA DeliverIInv ==
  ASSUME IInv, NEW s \in Side, Deliver(s)
  PROVE  IInv'
<1>1. UNCHANGED <<now, settings, scheduledOut, incoming, sentCount, lost>>
  BY DEF Deliver
<1>2. TypeOK
  BY DEF IInv
<1>3. /\ cutoff' \in [Side -> Nat]
      /\ pc' \in [Side -> {"idle", "send", "schedule", "poll", "pump", "deliver"}]
  BY <1>2 DEF TypeOK, Deliver, Return
<1>4. NothingDueIsHeld'
  <2>1. \A t \in Side : t # s => pc'[t] = pc[t] /\ cutoff'[t] = cutoff[t]
    BY <1>2 DEF TypeOK, Deliver, Return
  <2>2. pc'[s] = "idle"
    BY <1>2 DEF TypeOK, Deliver, Return
  <2> QED BY <1>1, <2>1, <2>2 DEF IInv, NothingDueIsHeld
<1>5. \A t \in Side : MinDelay(t)' = MinDelay(t) /\ MaxDelay(t)' = MaxDelay(t)
  BY <1>1 DEF MinDelay, MaxDelay
<1>6. CASE UNCHANGED <<scheduledIn, polled>>
  <2>1. TypeOK'
    BY <1>1, <1>2, <1>3, <1>6 DEF TypeOK
  <2>2. OutTimes' /\ InTimes' /\ Past' /\ Overtaking'
    BY <1>1, <1>2, <1>6, SamePackets DEF TypeOK
  <2> QED BY <1>4, <2>1, <2>2 DEF IInv
<1>7. ASSUME NEW e \in Fronts(scheduledIn[s]),
             scheduledIn' = [scheduledIn EXCEPT ![s] = @ \ {e}],
             polled' = [polled EXCEPT ![s] = Append(@, e)]
      PROVE  IInv'
  <2>1. /\ e \in scheduledIn[s] /\ e \in InEntry
        /\ \A f \in scheduledIn[s] : e.time <= f.time
    BY <1>2 DEF Fronts, TypeOK
  <2>2. polled \in [Side -> Seq(InEntry)] /\ polled[s] \in Seq(InEntry)
    BY <1>2 DEF TypeOK
  <2>3. Append(polled[s], e) \in Seq(InEntry)
    BY <2>1, <2>2
  <2>4. TypeOK'
    <3>1. polled' \in [Side -> Seq(InEntry)]
      BY <1>7, <2>2, <2>3
    <3>2. scheduledIn' \in [Side -> SUBSET InEntry]
      BY <1>2, <1>7 DEF TypeOK
    <3> QED BY <1>1, <1>2, <1>3, <3>1, <3>2 DEF TypeOK
  <2>5. \A t \in Side : scheduledIn'[t] \subseteq scheduledIn[t]
    BY <1>2, <1>7 DEF TypeOK
  <2>6. \A t \in Side : \A f \in Elements(polled'[t]) :
          f \in Elements(polled[t]) \/ (t = s /\ f = e)
    <3>1. Elements(polled'[s]) = Elements(polled[s]) \cup {e}
      BY <1>7, <2>1, <2>2, ElementsAppend
    <3>2. \A t \in Side : t # s => polled'[t] = polled[t]
      BY <1>7, <2>2
    <3> QED BY <3>1, <3>2
  <2>7. \A t \in Side : Passed(t)' \subseteq Passed(t)
    <3> SUFFICES ASSUME NEW t \in Side, NEW q \in Passed(t)'
                 PROVE  q \in Passed(t)
      OBVIOUS
    <3>1. Peer(t) \in Side
      BY PeerType
    <3>2. CASE q \in Wire(t)'
      BY <1>1, <3>2 DEF Passed, Wire
    <3>3. CASE q \in Arrived(t)'
      BY <2>5, <3>1, <3>3 DEF Passed, Arrived, PacketsIn
    <3>4. CASE q \in Delivered(t)'
      <4>1. PICK f \in Elements(polled'[Peer(t)]) : q = f.packet
        BY <3>4 DEF Delivered
      <4>2. CASE f \in Elements(polled[Peer(t)])
        BY <4>1, <4>2 DEF Passed, Delivered
      <4>3. CASE Peer(t) = s /\ f = e
        BY <2>1, <4>1, <4>3 DEF Passed, Arrived, PacketsIn
      <4> QED BY <2>6, <3>1, <4>1, <4>2, <4>3
    <3> QED BY <3>2, <3>3, <3>4 DEF Passed
  <2>8. /\ e.arrived <= now
        /\ e.arrived + MinDelay(s) <= e.time
    BY <2>1 DEF IInv, InTimes
  <2>9. \A f \in scheduledIn[s] : e.arrived + MinDelay(s) <= f.time
    BY <1>2, <2>1, <2>8, DelayBounds, Numbered
  <2>10. OutTimes' /\ InTimes' /\ Past'
    BY <1>1, <1>5, <2>5, <2>6, <2>7, <2>8 DEF IInv, OutTimes, InTimes, Past
  <2>11. Overtaking'
    BY <1>1, <1>5, <2>5, <2>6, <2>7, <2>9 DEF IInv, Overtaking
  <2> QED BY <1>4, <2>4, <2>10, <2>11 DEF IInv
<1> QED BY <1>6, <1>7 DEF Deliver

LEMMA StutterIInv == IInv /\ UNCHANGED vars => IInv'
<1> SUFFICES ASSUME IInv, UNCHANGED vars PROVE IInv'
  OBVIOUS
<1>1. TypeOK'
  BY DEF IInv, TypeOK, vars
<1>2. NothingDueIsHeld'
  BY DEF IInv, NothingDueIsHeld, vars
<1>3. OutTimes' /\ InTimes' /\ Past' /\ Overtaking'
  BY SamePackets DEF IInv, TypeOK, vars
<1> QED BY <1>1, <1>2, <1>3 DEF IInv

LEMMA NextIInv == IInv /\ [Next]_vars => IInv'
<1> SUFFICES ASSUME IInv, [Next]_vars PROVE IInv'
  OBVIOUS
<1>1. CASE Tick
  BY <1>1, TickIInv
<1>2. ASSUME NEW s \in Side, CallSend(s) PROVE IInv'
  BY <1>2, EnterIInv DEF CallSend
<1>3. ASSUME NEW s \in Side, CallPoll(s) PROVE IInv'
  BY <1>3, EnterIInv DEF CallPoll
<1>4. ASSUME NEW s \in Side, FlushOne(s) PROVE IInv'
  BY <1>4, FlushOneIInv
<1>5. ASSUME NEW s \in Side, FlushDone(s) PROVE IInv'
  BY <1>5, FlushDoneIInv
<1>6. ASSUME NEW s \in Side, Schedule(s) PROVE IInv'
  BY <1>6, ScheduleIInv
<1>7. ASSUME NEW s \in Side, PumpOne(s) PROVE IInv'
  BY <1>7, PumpOneIInv
<1>8. ASSUME NEW s \in Side, PumpDone(s) PROVE IInv'
  BY <1>8, PumpDoneIInv
<1>9. ASSUME NEW s \in Side, Deliver(s) PROVE IInv'
  BY <1>9, DeliverIInv
<1>10. CASE UNCHANGED vars
  BY <1>10, StutterIInv
<1> QED BY <1>1, <1>2, <1>3, <1>4, <1>5, <1>6, <1>7, <1>8, <1>9, <1>10 DEF Next, Work

LEMMA Invariance == Spec => []IInv
BY InitIInv, NextIInv, PTL DEF Spec

-----------------------------------------------------------------------------
(* The theorems.                                                           *)

\* The variables keep their types, the settings the ranges the constructor
\* clamps them to, whatever the caller asked for.
THEOREM TypeCorrect == Spec => []TypeOK
<1>1. IInv => TypeOK
  BY DEF IInv
<1> QED BY <1>1, Invariance, PTL

\* FlushScheduledOutgoingPackets, whose loop looks only at the front of the
\* sorted deque, leaves no packet behind that was due when the call began.
THEOREM NothingHeld == Spec => []NothingDueIsHeld
<1>1. IInv => NothingDueIsHeld
  BY DEF IInv
<1> QED BY <1>1, Invariance, PTL

\* ComputeDeliveryTimePoint never adds more than latency and jitter: no packet
\* waits longer than that in either deque before it is due.
THEOREM Punctual == Spec => []DueInTime
<1>1. IInv => DueInTime
  BY DEF IInv, OutTimes, InTimes, DueInTime
<1> QED BY <1>1, Invariance, PTL

\* A packet that waits is overtaken only by packets sent, or pumped, at most the
\* spread of the delays after it, however many packets there are.
THEOREM OvertakingBounded == Spec => []BoundedReordering
<1>1. IInv => BoundedReordering
  <2> SUFFICES ASSUME IInv, NEW s \in Side
               PROVE  /\ \A p \in Waiting(s), q \in Passed(s) :
                           q.at - p.at <= MaxDelay(s) - MinDelay(s)
                      /\ \A e \in scheduledIn[s], f \in Elements(polled[s]) :
                           f.arrived - e.arrived <= MaxDelay(s) - MinDelay(s)
    BY DEF BoundedReordering, Passed
  <2>1. TypeOK /\ MinDelay(s) \in Nat /\ MaxDelay(s) \in Nat
    BY DelayBounds DEF IInv
  <2>2. ASSUME NEW e \in scheduledOut[s], NEW q \in Passed(s)
        PROVE  q.at - e.packet.at <= MaxDelay(s) - MinDelay(s)
    <3>1. q.at + MinDelay(s) <= e.time /\ e.time <= e.packet.at + MaxDelay(s)
      BY DEF IInv, Overtaking, OutTimes
    <3> QED BY <2>1, <3>1, Numbered
  <2>3. ASSUME NEW e \in scheduledIn[s], NEW f \in Elements(polled[s])
        PROVE  f.arrived - e.arrived <= MaxDelay(s) - MinDelay(s)
    <3>1. f.arrived + MinDelay(s) <= e.time /\ e.time <= e.arrived + MaxDelay(s)
      BY DEF IInv, Overtaking, InTimes
    <3> QED BY <2>1, <3>1, Numbered
  <2> QED BY <2>2, <2>3 DEF Waiting, PacketsIn
<1> QED BY <1>1, Invariance, PTL

-----------------------------------------------------------------------------
(* Two proxied endpoints implement a datagram link: every packet is in one *)
(* place.  The packets a side has sent are followed by their numbers       *)
(* through the five places they can be in.  Each step moves one number     *)
(* from one place to another, or puts the next number into the first or    *)
(* the last.                                                               *)

Seqs(entries) == {e.packet.seq : e \in entries}
WireSeqs(queue) == {queue[i].seq : i \in DOMAIN queue}
GotSeqs(queue) == {queue[i].packet.seq : i \in DOMAIN queue}

\* Each of a deque's packets is there once.
Single(entries) == \A e, f \in entries : e.packet.seq = f.packet.seq => e = f
SingleWire(queue) == \A i, j \in DOMAIN queue : queue[i].seq = queue[j].seq => i = j
SingleGot(queue) == \A i, j \in DOMAIN queue : queue[i].packet.seq = queue[j].packet.seq => i = j

Split(W, X, A, D, L, all) ==
  /\ all = W \cup X \cup A \cup D \cup L
  /\ W \cap (X \cup A \cup D \cup L) = {}
  /\ X \cap (A \cup D \cup L) = {}
  /\ A \cap (D \cup L) = {}
  /\ D \cap L = {}

\* The packets from s, where it has sent count of them: those scheduled to leave,
\* on the wire, scheduled to be delivered, delivered, and lost.
PlacedIn(s, out, wire, in, got, gone, count) ==
  /\ out \in SUBSET OutEntry /\ wire \in Seq(Packet) /\ in \in SUBSET InEntry
  /\ got \in Seq(InEntry) /\ gone \in SUBSET Packet /\ count \in Nat
  /\ \A p \in PacketsIn(out) \cup Elements(wire) \cup PacketsIn(in) : p.from = s
  /\ Single(out) /\ SingleWire(wire) /\ Single(in) /\ SingleGot(got)
  /\ Split(Seqs(out), WireSeqs(wire), Seqs(in), GotSeqs(got), Numbers(gone), 1..count)

Placed(s) ==
  PlacedIn(s, scheduledOut[s], incoming[Peer(s)], scheduledIn[Peer(s)], polled[Peer(s)],
           lost[s], sentCount[s])

\* A packet that has left took its least delay.
Latency ==
  \A s \in Side :
    /\ cutoff[s] <= now
    /\ \A q \in Wire(s) : q.at + MinDelay(s) <= now
    /\ \A e \in scheduledIn[Peer(s)] : e.packet.at + MinDelay(s) <= e.arrived

LinkInv == IInv /\ Latency /\ \A s \in Side : Placed(s)

-----------------------------------------------------------------------------
(* Numbers put into a place and taken from it.                             *)

LEMMA SeqsPut ==
  ASSUME NEW E, NEW x, Single(E), x.packet.seq \notin Seqs(E)
  PROVE  Seqs(E \cup {x}) = Seqs(E) \cup {x.packet.seq} /\ Single(E \cup {x})
BY DEF Seqs, Single

LEMMA SeqsTake ==
  ASSUME NEW E, NEW e \in E, Single(E)
  PROVE  /\ e.packet.seq \in Seqs(E)
         /\ Seqs(E \ {e}) = Seqs(E) \ {e.packet.seq}
         /\ Single(E \ {e})
BY DEF Seqs, Single

LEMMA WireAppend ==
  ASSUME NEW q \in Seq(Packet), NEW x \in Packet, SingleWire(q), x.seq \notin WireSeqs(q)
  PROVE  /\ Append(q, x) \in Seq(Packet)
         /\ WireSeqs(Append(q, x)) = WireSeqs(q) \cup {x.seq}
         /\ SingleWire(Append(q, x))
<1> DEFINE r == Append(q, x)
<1>1. /\ r \in Seq(Packet) /\ Len(q) \in Nat /\ DOMAIN q = 1..Len(q)
      /\ DOMAIN r = 1..(Len(q) + 1) /\ r[Len(q) + 1] = x
      /\ \A i \in 1..Len(q) : r[i] = q[i]
  OBVIOUS
<1>2. 1..(Len(q) + 1) = (1..Len(q)) \cup {Len(q) + 1} /\ Len(q) + 1 \notin 1..Len(q)
  BY <1>1
<1> HIDE DEF r
<1>3. WireSeqs(r) = WireSeqs(q) \cup {x.seq}
  BY <1>1, <1>2 DEF WireSeqs
<1>4. SingleWire(r)
  BY <1>1, <1>2 DEF WireSeqs, SingleWire
<1> QED BY <1>1, <1>3, <1>4 DEF r

LEMMA GotAppend ==
  ASSUME NEW q \in Seq(InEntry), NEW x \in InEntry, SingleGot(q), x.packet.seq \notin GotSeqs(q)
  PROVE  /\ Append(q, x) \in Seq(InEntry)
         /\ GotSeqs(Append(q, x)) = GotSeqs(q) \cup {x.packet.seq}
         /\ SingleGot(Append(q, x))
<1> DEFINE r == Append(q, x)
<1>1. /\ r \in Seq(InEntry) /\ Len(q) \in Nat /\ DOMAIN q = 1..Len(q)
      /\ DOMAIN r = 1..(Len(q) + 1) /\ r[Len(q) + 1] = x
      /\ \A i \in 1..Len(q) : r[i] = q[i]
  OBVIOUS
<1>2. 1..(Len(q) + 1) = (1..Len(q)) \cup {Len(q) + 1} /\ Len(q) + 1 \notin 1..Len(q)
  BY <1>1
<1> HIDE DEF r
<1>3. GotSeqs(r) = GotSeqs(q) \cup {x.packet.seq}
  BY <1>1, <1>2 DEF GotSeqs
<1>4. SingleGot(r)
  BY <1>1, <1>2 DEF GotSeqs, SingleGot
<1> QED BY <1>1, <1>3, <1>4 DEF r

LEMMA WireTail ==
  ASSUME NEW q \in Seq(Packet), q # << >>, SingleWire(q)
  PROVE  /\ Tail(q) \in Seq(Packet) /\ Head(q) \in Packet /\ Head(q) \in Elements(q)
         /\ Elements(q) = Elements(Tail(q)) \cup {Head(q)}
         /\ Head(q).seq \in WireSeqs(q)
         /\ WireSeqs(Tail(q)) = WireSeqs(q) \ {Head(q).seq}
         /\ SingleWire(Tail(q))
<1> DEFINE r == Tail(q)
<1>1. /\ r \in Seq(Packet) /\ Len(q) \in Nat /\ Len(q) > 0 /\ DOMAIN q = 1..Len(q)
      /\ Head(q) = q[1] /\ Head(q) \in Packet
      /\ DOMAIN r = 1..(Len(q) - 1)
      /\ \A i \in 1..(Len(q) - 1) : r[i] = q[i + 1]
  OBVIOUS
<1>2. /\ \A i \in 1..(Len(q) - 1) : i + 1 \in 1..Len(q) /\ i + 1 # 1
      /\ \A i \in 1..Len(q) : i = 1 \/ (i - 1 \in 1..(Len(q) - 1) /\ (i - 1) + 1 = i)
      /\ \A i, j \in 1..(Len(q) - 1) : i + 1 = j + 1 => i = j
      /\ 1 \in 1..Len(q)
  BY <1>1
<1> HIDE DEF r
<1>3. Elements(q) = Elements(r) \cup {Head(q)}
  <2>1. Elements(r) \cup {Head(q)} \subseteq Elements(q)
    BY <1>1, <1>2 DEF Elements
  <2>2. ASSUME NEW i \in 1..Len(q)
        PROVE  q[i] \in Elements(r) \cup {Head(q)}
    <3>1. CASE i = 1
      BY <1>1, <3>1
    <3>2. CASE i - 1 \in 1..(Len(q) - 1) /\ (i - 1) + 1 = i
      <4>1. r[i - 1] = q[i]
        BY <1>1, <3>2
      <4> QED BY <1>1, <3>2, <4>1 DEF Elements
    <3> QED BY <1>2, <3>1, <3>2
  <2>3. Elements(q) \subseteq Elements(r) \cup {Head(q)}
    <3> SUFFICES ASSUME NEW x \in Elements(q) PROVE x \in Elements(r) \cup {Head(q)}
      OBVIOUS
    <3>1. PICK i \in 1..Len(q) : x = q[i]
      BY <1>1 DEF Elements
    <3> QED BY <2>2, <3>1
  <2> QED BY <2>1, <2>3
<1>4. WireSeqs(r) = WireSeqs(q) \ {Head(q).seq}
  <2>1. ASSUME NEW i \in 1..(Len(q) - 1)
        PROVE  r[i].seq \in WireSeqs(q) \ {Head(q).seq}
    <3>1. r[i] = q[i + 1] /\ i + 1 \in 1..Len(q) /\ i + 1 # 1
      BY <1>1, <1>2
    <3>2. q[i + 1].seq # q[1].seq
      BY <1>1, <1>2, <3>1 DEF SingleWire
    <3> QED BY <1>1, <3>1, <3>2 DEF WireSeqs
  <2>2. ASSUME NEW i \in 1..Len(q), q[i].seq # Head(q).seq
        PROVE  q[i].seq \in WireSeqs(r)
    <3>1. i - 1 \in 1..(Len(q) - 1) /\ (i - 1) + 1 = i
      BY <1>1, <1>2, <2>2
    <3>2. r[i - 1] = q[i]
      BY <1>1, <3>1
    <3> QED BY <1>1, <3>1, <3>2 DEF WireSeqs
  <2> QED BY <1>1, <2>1, <2>2 DEF WireSeqs
<1>5. SingleWire(r)
  <2> SUFFICES ASSUME NEW i \in 1..(Len(q) - 1), NEW j \in 1..(Len(q) - 1), r[i].seq = r[j].seq
               PROVE  i = j
    BY <1>1 DEF SingleWire
  <2>1. i + 1 = j + 1
    BY <1>1, <1>2 DEF SingleWire
  <2> QED BY <1>2, <2>1
<1>6. Head(q).seq \in WireSeqs(q) /\ Head(q) \in Elements(q)
  BY <1>1, <1>2 DEF WireSeqs, Elements
<1> QED BY <1>1, <1>3, <1>4, <1>5, <1>6 DEF r

-----------------------------------------------------------------------------
(* The moves of a packet.                                                  *)

\* FlushScheduledOutgoingPackets gives a packet to the wrapped endpoint, which
\* takes it or refuses it.
LEMMA FlushedPlaced ==
  ASSUME NEW s, NEW out, NEW wire, NEW in, NEW got, NEW gone, NEW count,
         PlacedIn(s, out, wire, in, got, gone, count), NEW e \in out
  PROVE  /\ PlacedIn(s, out \ {e}, Append(wire, e.packet), in, got, gone, count)
         /\ PlacedIn(s, out \ {e}, wire, in, got, gone \cup {e.packet}, count)
<1> DEFINE n == e.packet.seq
<1>1. /\ out \in SUBSET OutEntry /\ wire \in Seq(Packet) /\ in \in SUBSET InEntry
      /\ got \in Seq(InEntry) /\ gone \in SUBSET Packet /\ count \in Nat
      /\ \A p \in PacketsIn(out) \cup Elements(wire) \cup PacketsIn(in) : p.from = s
      /\ Single(out) /\ SingleWire(wire) /\ Single(in) /\ SingleGot(got)
      /\ Split(Seqs(out), WireSeqs(wire), Seqs(in), GotSeqs(got), Numbers(gone), 1..count)
  BY DEF PlacedIn
<1>2. e.packet \in Packet /\ e.packet.from = s
  BY <1>1 DEF OutEntry, PacketsIn
<1>3. n \in Seqs(out) /\ Seqs(out \ {e}) = Seqs(out) \ {n} /\ Single(out \ {e})
  BY <1>1, SeqsTake
<1>4. /\ Split(Seqs(out) \ {n}, WireSeqs(wire) \cup {n}, Seqs(in), GotSeqs(got), Numbers(gone), 1..count)
      /\ Split(Seqs(out) \ {n}, WireSeqs(wire), Seqs(in), GotSeqs(got), Numbers(gone) \cup {n}, 1..count)
      /\ n \notin WireSeqs(wire)
  <2> HIDE DEF n
  <2> QED BY <1>1, <1>3 DEF Split
<1>5. /\ Append(wire, e.packet) \in Seq(Packet)
      /\ WireSeqs(Append(wire, e.packet)) = WireSeqs(wire) \cup {n}
      /\ SingleWire(Append(wire, e.packet))
      /\ Elements(Append(wire, e.packet)) = Elements(wire) \cup {e.packet}
  BY <1>1, <1>2, <1>4, WireAppend, ElementsAppend
<1>6. Numbers(gone \cup {e.packet}) = Numbers(gone) \cup {n} /\ gone \cup {e.packet} \in SUBSET Packet
  BY <1>1, <1>2 DEF Numbers
<1>7. PacketsIn(out \ {e}) \subseteq PacketsIn(out) /\ out \ {e} \in SUBSET OutEntry
  BY <1>1 DEF PacketsIn
<1> HIDE DEF n
<1>8. \A p \in PacketsIn(out \ {e}) \cup Elements(Append(wire, e.packet)) \cup PacketsIn(in) : p.from = s
  BY <1>1, <1>2, <1>5, <1>7
<1>9. \A p \in PacketsIn(out \ {e}) \cup Elements(wire) \cup PacketsIn(in) : p.from = s
  BY <1>1, <1>7
<1>10. PlacedIn(s, out \ {e}, Append(wire, e.packet), in, got, gone, count)
  BY <1>1, <1>3, <1>4, <1>5, <1>7, <1>8 DEF PlacedIn
<1>11. PlacedIn(s, out \ {e}, wire, in, got, gone \cup {e.packet}, count)
  BY <1>1, <1>3, <1>4, <1>6, <1>7, <1>9 DEF PlacedIn
<1> QED BY <1>10, <1>11

\* SendPacket schedules a new packet, or drops it.
LEMMA SentPlaced ==
  ASSUME NEW s, NEW out, NEW wire, NEW in, NEW got, NEW gone, NEW count,
         PlacedIn(s, out, wire, in, got, gone, count),
         NEW p \in Packet, p.from = s, p.seq = count + 1,
         NEW x \in OutEntry, x.packet = p
  PROVE  /\ PlacedIn(s, out \cup {x}, wire, in, got, gone, count + 1)
         /\ PlacedIn(s, out, wire, in, got, gone \cup {p}, count + 1)
<1> DEFINE n == count + 1
<1>1. /\ out \in SUBSET OutEntry /\ wire \in Seq(Packet) /\ in \in SUBSET InEntry
      /\ got \in Seq(InEntry) /\ gone \in SUBSET Packet /\ count \in Nat
      /\ \A q \in PacketsIn(out) \cup Elements(wire) \cup PacketsIn(in) : q.from = s
      /\ Single(out) /\ SingleWire(wire) /\ Single(in) /\ SingleGot(got)
      /\ Split(Seqs(out), WireSeqs(wire), Seqs(in), GotSeqs(got), Numbers(gone), 1..count)
  BY DEF PlacedIn
<1>2. n \notin 1..count /\ 1..n = (1..count) \cup {n} /\ n \in Nat
  BY <1>1
<1>3. /\ Split(Seqs(out) \cup {n}, WireSeqs(wire), Seqs(in), GotSeqs(got), Numbers(gone), (1..count) \cup {n})
      /\ Split(Seqs(out), WireSeqs(wire), Seqs(in), GotSeqs(got), Numbers(gone) \cup {n}, (1..count) \cup {n})
      /\ n \notin Seqs(out)
  <2> HIDE DEF n
  <2> QED BY <1>1, <1>2 DEF Split
<1>4. Seqs(out \cup {x}) = Seqs(out) \cup {n} /\ Single(out \cup {x})
  BY <1>1, <1>3, SeqsPut
<1>5. Numbers(gone \cup {p}) = Numbers(gone) \cup {n} /\ gone \cup {p} \in SUBSET Packet
  BY <1>1 DEF Numbers
<1>6. PacketsIn(out \cup {x}) = PacketsIn(out) \cup {p}
  BY DEF PacketsIn
<1> HIDE DEF n
<1>7. /\ PlacedIn(s, out \cup {x}, wire, in, got, gone, n)
      /\ PlacedIn(s, out, wire, in, got, gone \cup {p}, n)
  BY <1>1, <1>2, <1>3, <1>4, <1>5, <1>6 DEF PlacedIn
<1> QED BY <1>7 DEF n

\* PumpUnderlyingIncomingPackets drops a packet of the wrapped endpoint, or
\* schedules it.
LEMMA PumpedPlaced ==
  ASSUME NEW s, NEW out, NEW wire, NEW in, NEW got, NEW gone, NEW count,
         PlacedIn(s, out, wire, in, got, gone, count), wire # << >>,
         NEW x \in InEntry, x.packet = Head(wire)
  PROVE  /\ PlacedIn(s, out, Tail(wire), in \cup {x}, got, gone, count)
         /\ PlacedIn(s, out, Tail(wire), in, got, gone \cup {Head(wire)}, count)
         /\ Head(wire) \in Packet /\ Head(wire).from = s
<1> DEFINE p == Head(wire)
           n == p.seq
<1>1. /\ out \in SUBSET OutEntry /\ wire \in Seq(Packet) /\ in \in SUBSET InEntry
      /\ got \in Seq(InEntry) /\ gone \in SUBSET Packet /\ count \in Nat
      /\ \A q \in PacketsIn(out) \cup Elements(wire) \cup PacketsIn(in) : q.from = s
      /\ Single(out) /\ SingleWire(wire) /\ Single(in) /\ SingleGot(got)
      /\ Split(Seqs(out), WireSeqs(wire), Seqs(in), GotSeqs(got), Numbers(gone), 1..count)
  BY DEF PlacedIn
<1>2. /\ Tail(wire) \in Seq(Packet) /\ p \in Packet /\ p \in Elements(wire)
      /\ Elements(Tail(wire)) \subseteq Elements(wire)
      /\ n \in WireSeqs(wire) /\ WireSeqs(Tail(wire)) = WireSeqs(wire) \ {n}
      /\ SingleWire(Tail(wire))
  BY <1>1, WireTail
<1>3. p.from = s
  BY <1>1, <1>2
<1> HIDE DEF p
<1>4. /\ Split(Seqs(out), WireSeqs(wire) \ {n}, Seqs(in) \cup {n}, GotSeqs(got), Numbers(gone), 1..count)
      /\ Split(Seqs(out), WireSeqs(wire) \ {n}, Seqs(in), GotSeqs(got), Numbers(gone) \cup {n}, 1..count)
      /\ n \notin Seqs(in)
  <2> HIDE DEF n
  <2> QED BY <1>1, <1>2 DEF Split
<1>5. x.packet.seq = n /\ x.packet = p
  BY DEF p
<1>6. Seqs(in \cup {x}) = Seqs(in) \cup {n} /\ Single(in \cup {x})
  BY <1>1, <1>4, <1>5, SeqsPut
<1>7. Numbers(gone \cup {p}) = Numbers(gone) \cup {n} /\ gone \cup {p} \in SUBSET Packet
  BY <1>1, <1>2 DEF Numbers
<1>8. PacketsIn(in \cup {x}) = PacketsIn(in) \cup {p}
  BY <1>5 DEF PacketsIn
<1> HIDE DEF n
<1>9. \A q \in PacketsIn(out) \cup Elements(Tail(wire)) \cup PacketsIn(in \cup {x}) : q.from = s
  BY <1>1, <1>2, <1>3, <1>8
<1>10. \A q \in PacketsIn(out) \cup Elements(Tail(wire)) \cup PacketsIn(in) : q.from = s
  BY <1>1, <1>2
<1>11. PlacedIn(s, out, Tail(wire), in \cup {x}, got, gone, count)
  BY <1>1, <1>2, <1>4, <1>6, <1>9 DEF PlacedIn
<1>12. PlacedIn(s, out, Tail(wire), in, got, gone \cup {p}, count)
  BY <1>1, <1>2, <1>4, <1>7, <1>10 DEF PlacedIn
<1> QED BY <1>2, <1>3, <1>11, <1>12 DEF p

\* PollPacket delivers a packet.
LEMMA DeliveredPlaced ==
  ASSUME NEW s, NEW out, NEW wire, NEW in, NEW got, NEW gone, NEW count,
         PlacedIn(s, out, wire, in, got, gone, count), NEW e \in in
  PROVE  PlacedIn(s, out, wire, in \ {e}, Append(got, e), gone, count)
<1> DEFINE n == e.packet.seq
<1>1. /\ out \in SUBSET OutEntry /\ wire \in Seq(Packet) /\ in \in SUBSET InEntry
      /\ got \in Seq(InEntry) /\ gone \in SUBSET Packet /\ count \in Nat
      /\ \A p \in PacketsIn(out) \cup Elements(wire) \cup PacketsIn(in) : p.from = s
      /\ Single(out) /\ SingleWire(wire) /\ Single(in) /\ SingleGot(got)
      /\ Split(Seqs(out), WireSeqs(wire), Seqs(in), GotSeqs(got), Numbers(gone), 1..count)
  BY DEF PlacedIn
<1>2. n \in Seqs(in) /\ Seqs(in \ {e}) = Seqs(in) \ {n} /\ Single(in \ {e})
  BY <1>1, SeqsTake
<1>3. /\ Split(Seqs(out), WireSeqs(wire), Seqs(in) \ {n}, GotSeqs(got) \cup {n}, Numbers(gone), 1..count)
      /\ n \notin GotSeqs(got)
  <2> HIDE DEF n
  <2> QED BY <1>1, <1>2 DEF Split
<1>4. /\ Append(got, e) \in Seq(InEntry)
      /\ GotSeqs(Append(got, e)) = GotSeqs(got) \cup {n}
      /\ SingleGot(Append(got, e))
  BY <1>1, <1>3, GotAppend
<1>5. PacketsIn(in \ {e}) \subseteq PacketsIn(in)
  BY DEF PacketsIn
<1> HIDE DEF n
<1> QED BY <1>1, <1>2, <1>3, <1>4, <1>5 DEF PlacedIn

-----------------------------------------------------------------------------
(* The invariant.                                                          *)

LEMMA InitLinkInv == Init => LinkInv
<1> SUFFICES ASSUME Init PROVE LinkInv
  OBVIOUS
<1>1. IInv
  BY InitIInv
<1>2. \A s \in Side : /\ scheduledOut[s] = {} /\ scheduledIn[s] = {} /\ lost[s] = {}
                      /\ incoming[s] = << >> /\ polled[s] = << >>
                      /\ sentCount[s] = 0 /\ cutoff[s] = 0 /\ now = 0
  BY DEF Init, Empty
<1>3. Latency
  <2>1. Elements(<< >>) = {}
    BY DEF Elements
  <2>2. ASSUME NEW s \in Side
        PROVE  Wire(s) = {} /\ scheduledIn[Peer(s)] = {} /\ cutoff[s] <= now
    <3>1. incoming[Peer(s)] = << >> /\ scheduledIn[Peer(s)] = {} /\ cutoff[s] = 0 /\ now = 0
      BY <1>2, PeerType
    <3> QED BY <2>1, <3>1 DEF Wire
  <2> QED BY <2>2 DEF Latency
<1>4. ASSUME NEW s \in Side PROVE Placed(s)
  <2>1. /\ << >> \in Seq(Packet) /\ << >> \in Seq(InEntry)
        /\ Elements(<< >>) = {} /\ PacketsIn({}) = {}
        /\ Seqs({}) = {} /\ WireSeqs(<< >>) = {} /\ GotSeqs(<< >>) = {} /\ Numbers({}) = {}
        /\ Single({}) /\ SingleWire(<< >>) /\ SingleGot(<< >>)
        /\ 1..0 = {}
    BY DEF Elements, PacketsIn, Seqs, WireSeqs, GotSeqs, Numbers, Single, SingleWire, SingleGot
  <2>2. Split(Seqs({}), WireSeqs(<< >>), Seqs({}), GotSeqs(<< >>), Numbers({}), 1..0)
    BY <2>1 DEF Split
  <2>3. \A p \in PacketsIn({}) \cup Elements(<< >>) \cup PacketsIn({}) : p.from = s
    BY <2>1
  <2>4. PlacedIn(s, {}, << >>, {}, << >>, {}, 0)
    BY <2>1, <2>2, <2>3 DEF PlacedIn
  <2>5. /\ scheduledOut[s] = {} /\ incoming[Peer(s)] = << >> /\ scheduledIn[Peer(s)] = {}
        /\ polled[Peer(s)] = << >> /\ lost[s] = {} /\ sentCount[s] = 0
    BY <1>2, PeerType
  <2> QED BY <2>4, <2>5 DEF Placed
<1> QED BY <1>1, <1>3, <1>4 DEF LinkInv

\* The packets from t are where they were.
Untouched(t) ==
  /\ scheduledOut'[t] = scheduledOut[t] /\ incoming'[Peer(t)] = incoming[Peer(t)]
  /\ scheduledIn'[Peer(t)] = scheduledIn[Peer(t)] /\ polled'[Peer(t)] = polled[Peer(t)]
  /\ lost'[t] = lost[t] /\ sentCount'[t] = sentCount[t]

LEMMA UntouchedPlaced ==
  ASSUME NEW t \in Side, Placed(t), Untouched(t)
  PROVE  Placed(t)'
BY DEF Placed, Untouched

\* Lose touches only what was lost of the sender.
LEMMA LostThere ==
  ASSUME TypeOK, NEW p \in Packet, Lose(p), NEW t \in Side
  PROVE  lost'[t] = IF t = p.from THEN lost[t] \cup {p} ELSE lost[t]
BY DEF TypeOK, Packet, Lose

LEMMA FlushOnePlaced ==
  ASSUME TypeOK, \A t \in Side : Placed(t), NEW s \in Side, FlushOne(s)
  PROVE  \A t \in Side : Placed(t)'
<1>1. PICK e \in Due(s) :
        /\ scheduledOut' = [scheduledOut EXCEPT ![s] = @ \ {e}]
        /\ \/ /\ incoming' = [incoming EXCEPT ![Peer(s)] = Append(@, e.packet)]
              /\ lost' = lost
           \/ incoming' = incoming /\ Lose(e.packet)
  BY DEF FlushOne, PeerIncomingQueueToWrite
<1>2. e \in scheduledOut[s] /\ Peer(s) \in Side /\ Peer(s) # s /\ Peer(Peer(s)) = s
  BY PeerType DEF Due, Fronts
<1>3. e.packet \in Packet /\ e.packet.from = s
  BY <1>2 DEF Placed, PlacedIn, OutEntry, PacketsIn
<1>4. UNCHANGED <<scheduledIn, sentCount, polled>>
  BY DEF FlushOne
<1>5. scheduledOut'[s] = scheduledOut[s] \ {e} /\ scheduledOut'[Peer(s)] = scheduledOut[Peer(s)]
  BY <1>1, <1>2 DEF TypeOK
<1>6. \/ /\ incoming'[Peer(s)] = Append(incoming[Peer(s)], e.packet) /\ lost'[s] = lost[s]
         /\ incoming'[s] = incoming[s] /\ lost'[Peer(s)] = lost[Peer(s)]
      \/ /\ incoming'[Peer(s)] = incoming[Peer(s)] /\ lost'[s] = lost[s] \cup {e.packet}
         /\ incoming'[s] = incoming[s] /\ lost'[Peer(s)] = lost[Peer(s)]
  <2>1. CASE incoming' = [incoming EXCEPT ![Peer(s)] = Append(@, e.packet)] /\ lost' = lost
    BY <1>2, <2>1 DEF TypeOK
  <2>2. CASE incoming' = incoming /\ Lose(e.packet)
    BY <1>2, <1>3, <2>2, LostThere
  <2> QED BY <1>1, <2>1, <2>2
<1>7. Placed(s)'
  <2>1. PlacedIn(s, scheduledOut[s], incoming[Peer(s)], scheduledIn[Peer(s)], polled[Peer(s)],
                 lost[s], sentCount[s])
    BY DEF Placed
  <2>2. /\ PlacedIn(s, scheduledOut[s] \ {e}, Append(incoming[Peer(s)], e.packet),
                    scheduledIn[Peer(s)], polled[Peer(s)], lost[s], sentCount[s])
        /\ PlacedIn(s, scheduledOut[s] \ {e}, incoming[Peer(s)],
                    scheduledIn[Peer(s)], polled[Peer(s)], lost[s] \cup {e.packet}, sentCount[s])
    BY <1>2, <2>1, FlushedPlaced
  <2> QED BY <1>4, <1>5, <1>6, <2>2 DEF Placed
<1>8. Untouched(Peer(s))
  BY <1>2, <1>4, <1>5, <1>6 DEF Untouched
<1>9. Placed(Peer(s))'
  BY <1>2, <1>8, UntouchedPlaced
<1>10. \A t \in Side : t = s \/ t = Peer(s)
  BY DEF Peer, Side
<1> QED BY <1>7, <1>9, <1>10

LEMMA SchedulePlaced ==
  ASSUME TypeOK, \A t \in Side : Placed(t), NEW s \in Side, Schedule(s)
  PROVE  \A t \in Side : Placed(t)'
<1> DEFINE p == NewPacket(s)
<1>1. p \in Packet /\ p.from = s /\ p.seq = sentCount[s] + 1
  BY DEF TypeOK, NewPacket, Packet
<1>2. Peer(s) \in Side /\ Peer(s) # s /\ Peer(Peer(s)) = s
  BY PeerType
<1>3. UNCHANGED <<scheduledIn, incoming, polled>>
  BY DEF Schedule
<1>4. sentCount'[s] = sentCount[s] + 1 /\ sentCount'[Peer(s)] = sentCount[Peer(s)]
  BY <1>2 DEF Schedule, TypeOK
<1>5. PICK x \in OutEntry :
        /\ x.packet = p
        /\ \/ /\ lost' = lost
              /\ scheduledOut' = [scheduledOut EXCEPT ![s] = @ \cup {x}]
           \/ scheduledOut' = scheduledOut /\ Lose(p)
  <2>1. CASE Lose(p) /\ scheduledOut' = scheduledOut
    <3>1. [time |-> 0, packet |-> p] \in OutEntry /\ [time |-> 0, packet |-> p].packet = p
      BY <1>1 DEF OutEntry
    <3> QED BY <2>1, <3>1
  <2>2. CASE lost' = lost /\ \E delay \in Delays(s) :
               scheduledOut' = [scheduledOut EXCEPT ![s] =
                 @ \cup {[time |-> now + delay, packet |-> p]}]
    <3>1. PICK delay \in Delays(s) :
            scheduledOut' = [scheduledOut EXCEPT ![s] = @ \cup {[time |-> now + delay, packet |-> p]}]
      BY <2>2
    <3>2. now + delay \in Nat
      BY DelayBounds DEF TypeOK
    <3>3. [time |-> now + delay, packet |-> p] \in OutEntry
      BY <1>1, <3>2 DEF OutEntry
    <3>4. [time |-> now + delay, packet |-> p].packet = p
      OBVIOUS
    <3> QED BY <2>2, <3>1, <3>3, <3>4
  <2> QED BY <2>1, <2>2 DEF Schedule
<1> HIDE DEF p
<1>6. \/ /\ scheduledOut'[s] = scheduledOut[s] \cup {x} /\ lost'[s] = lost[s]
         /\ scheduledOut'[Peer(s)] = scheduledOut[Peer(s)] /\ lost'[Peer(s)] = lost[Peer(s)]
      \/ /\ scheduledOut'[s] = scheduledOut[s] /\ lost'[s] = lost[s] \cup {p}
         /\ scheduledOut'[Peer(s)] = scheduledOut[Peer(s)] /\ lost'[Peer(s)] = lost[Peer(s)]
  <2>1. CASE lost' = lost /\ scheduledOut' = [scheduledOut EXCEPT ![s] = @ \cup {x}]
    BY <1>2, <2>1 DEF TypeOK
  <2>2. CASE scheduledOut' = scheduledOut /\ Lose(p)
    BY <1>1, <1>2, <2>2, LostThere
  <2> QED BY <1>5, <2>1, <2>2
<1>7. Placed(s)'
  <2>1. PlacedIn(s, scheduledOut[s], incoming[Peer(s)], scheduledIn[Peer(s)], polled[Peer(s)],
                 lost[s], sentCount[s])
    BY DEF Placed
  <2>2. /\ PlacedIn(s, scheduledOut[s] \cup {x}, incoming[Peer(s)],
                    scheduledIn[Peer(s)], polled[Peer(s)], lost[s], sentCount[s] + 1)
        /\ PlacedIn(s, scheduledOut[s], incoming[Peer(s)],
                    scheduledIn[Peer(s)], polled[Peer(s)], lost[s] \cup {p}, sentCount[s] + 1)
    BY <1>1, <1>5, <2>1, SentPlaced
  <2> QED BY <1>3, <1>4, <1>6, <2>2 DEF Placed
<1>8. Untouched(Peer(s))
  BY <1>2, <1>3, <1>4, <1>6 DEF Untouched
<1>9. Placed(Peer(s))'
  BY <1>2, <1>8, UntouchedPlaced
<1>10. \A t \in Side : t = s \/ t = Peer(s)
  BY DEF Peer, Side
<1> QED BY <1>7, <1>9, <1>10

LEMMA PumpOnePlaced ==
  ASSUME TypeOK, \A t \in Side : Placed(t), NEW s \in Side, PumpOne(s)
  PROVE  /\ \A t \in Side : Placed(t)'
         /\ Head(incoming[s]) \in Packet /\ Head(incoming[s]).from = Peer(s)
<1> DEFINE p == Head(incoming[s])
           t == Peer(s)
<1>1. /\ UNCHANGED <<now, scheduledOut, sentCount, polled>>
      /\ incoming[s] # << >>
      /\ incoming' = [incoming EXCEPT ![s] = Tail(@)]
  BY DEF PumpOne, IncomingQueueToRead
<1>2. t \in Side /\ t # s /\ Peer(t) = s
  BY PeerType
<1>3. PlacedIn(t, scheduledOut[t], incoming[s], scheduledIn[s], polled[s], lost[t], sentCount[t])
  BY <1>2 DEF Placed
<1>4. p \in Packet
  BY <1>1, ElementsTail DEF TypeOK
<1>5. PICK x \in InEntry :
        /\ x.packet = p
        /\ \/ /\ lost' = lost
              /\ scheduledIn' = [scheduledIn EXCEPT ![s] = @ \cup {x}]
           \/ scheduledIn' = scheduledIn /\ Lose(p)
  <2>1. CASE Lose(p) /\ scheduledIn' = scheduledIn
    <3> DEFINE z == [time |-> 0, packet |-> p, arrived |-> 0]
    <3>1. z \in InEntry /\ z.packet = p
      BY <1>4 DEF InEntry
    <3> HIDE DEF z
    <3> QED BY <2>1, <3>1
  <2>2. CASE lost' = lost /\ \E delay \in Delays(s) :
               scheduledIn' = [scheduledIn EXCEPT ![s] =
                 @ \cup {[time |-> now + delay, packet |-> p, arrived |-> now]}]
    <3>1. PICK delay \in Delays(s) :
            scheduledIn' = [scheduledIn EXCEPT ![s] =
              @ \cup {[time |-> now + delay, packet |-> p, arrived |-> now]}]
      BY <2>2
    <3>2. now + delay \in Nat /\ now \in Nat
      <4>1. delay \in Nat
        BY DelayBounds
      <4>2. now \in Nat
        BY DEF TypeOK
      <4> QED BY <4>1, <4>2
    <3> DEFINE z == [time |-> now + delay, packet |-> p, arrived |-> now]
    <3>3. z \in InEntry /\ z.packet = p
      BY <1>4, <3>2 DEF InEntry
    <3>4. scheduledIn' = [scheduledIn EXCEPT ![s] = @ \cup {z}]
      BY <3>1
    <3> HIDE DEF z
    <3> QED BY <2>2, <3>3, <3>4
  <2> QED BY <2>1, <2>2 DEF PumpOne
<1>6. /\ PlacedIn(t, scheduledOut[t], Tail(incoming[s]), scheduledIn[s] \cup {x}, polled[s],
                  lost[t], sentCount[t])
      /\ PlacedIn(t, scheduledOut[t], Tail(incoming[s]), scheduledIn[s], polled[s],
                  lost[t] \cup {p}, sentCount[t])
      /\ p.from = t
  <2> DEFINE out == scheduledOut[t]
             wire == incoming[s]
             deque == scheduledIn[s]
             got == polled[s]
             gone == lost[t]
             count == sentCount[t]
  <2>1. PlacedIn(t, out, wire, deque, got, gone, count) /\ wire # << >> /\ x.packet = Head(wire)
    BY <1>1, <1>3, <1>5
  <2> HIDE DEF out, wire, deque, got, gone, count
  <2>2. /\ PlacedIn(t, out, Tail(wire), deque \cup {x}, got, gone, count)
        /\ PlacedIn(t, out, Tail(wire), deque, got, gone \cup {Head(wire)}, count)
        /\ Head(wire).from = t
    BY <2>1, PumpedPlaced
  <2> QED BY <2>2 DEF out, wire, deque, got, gone, count
<1> HIDE DEF p
<1>7. incoming'[s] = Tail(incoming[s]) /\ incoming'[t] = incoming[t]
  BY <1>1, <1>2 DEF TypeOK
<1>8. \/ /\ scheduledIn'[s] = scheduledIn[s] \cup {x} /\ lost'[t] = lost[t]
         /\ scheduledIn'[t] = scheduledIn[t] /\ lost'[s] = lost[s]
      \/ /\ scheduledIn'[s] = scheduledIn[s] /\ lost'[t] = lost[t] \cup {p}
         /\ scheduledIn'[t] = scheduledIn[t] /\ lost'[s] = lost[s]
  <2>1. CASE lost' = lost /\ scheduledIn' = [scheduledIn EXCEPT ![s] = @ \cup {x}]
    BY <1>2, <2>1 DEF TypeOK
  <2>2. CASE scheduledIn' = scheduledIn /\ Lose(p)
    BY <1>2, <1>4, <1>6, <2>2, LostThere
  <2> QED BY <1>5, <2>1, <2>2
<1>9. Placed(t)'
  <2>1. PlacedIn(t, scheduledOut'[t], incoming'[s], scheduledIn'[s], polled'[s], lost'[t], sentCount'[t])
    BY <1>1, <1>6, <1>7, <1>8
  <2> QED BY <1>2, <2>1 DEF Placed
<1>10. Untouched(s)
  BY <1>1, <1>7, <1>8 DEF Untouched
<1>11. Placed(s)'
  BY <1>10, UntouchedPlaced
<1>12. \A r \in Side : r = s \/ r = t
  BY DEF Peer, Side
<1> QED BY <1>4, <1>6, <1>9, <1>11, <1>12 DEF p

LEMMA DeliverPlaced ==
  ASSUME TypeOK, \A t \in Side : Placed(t), NEW s \in Side, NEW e \in scheduledIn[s],
         scheduledIn' = [scheduledIn EXCEPT ![s] = @ \ {e}],
         polled' = [polled EXCEPT ![s] = Append(@, e)],
         UNCHANGED <<scheduledOut, incoming, sentCount, lost>>
  PROVE  \A t \in Side : Placed(t)'
<1> DEFINE t == Peer(s)
<1>1. t \in Side /\ t # s /\ Peer(t) = s
  BY PeerType
<1>2. PlacedIn(t, scheduledOut[t], incoming[s], scheduledIn[s], polled[s], lost[t], sentCount[t])
  BY <1>1 DEF Placed
<1>3. PlacedIn(t, scheduledOut[t], incoming[s], scheduledIn[s] \ {e}, Append(polled[s], e),
               lost[t], sentCount[t])
  BY <1>2, DeliveredPlaced
<1>4. /\ scheduledIn'[s] = scheduledIn[s] \ {e} /\ scheduledIn'[t] = scheduledIn[t]
      /\ polled'[s] = Append(polled[s], e) /\ polled'[t] = polled[t]
  BY <1>1 DEF TypeOK
<1>5. Placed(t)'
  <2>1. PlacedIn(t, scheduledOut'[t], incoming'[s], scheduledIn'[s], polled'[s], lost'[t], sentCount'[t])
    BY <1>3, <1>4
  <2> QED BY <1>1, <2>1 DEF Placed
<1>6. Untouched(s)
  BY <1>4 DEF Untouched
<1>7. Placed(s)'
  BY <1>6, UntouchedPlaced
<1>8. \A r \in Side : r = s \/ r = t
  BY DEF Peer, Side
<1> QED BY <1>5, <1>7, <1>8

LEMMA NextPlaced ==
  ASSUME TypeOK, \A t \in Side : Placed(t), [Next]_vars
  PROVE  \A t \in Side : Placed(t)'
<1>1. ASSUME UNCHANGED <<scheduledOut, incoming, scheduledIn, polled, lost, sentCount>>
      PROVE  \A t \in Side : Placed(t)'
  <2>1. \A t \in Side : Untouched(t)
    BY <1>1 DEF Untouched
  <2> QED BY <2>1, UntouchedPlaced
<1>2. CASE Tick \/ UNCHANGED vars
  BY <1>1, <1>2 DEF Tick, vars
<1>3. ASSUME NEW s \in Side, CallSend(s) \/ CallPoll(s) \/ FlushDone(s) \/ PumpDone(s)
      PROVE  \A t \in Side : Placed(t)'
  BY <1>1, <1>3 DEF CallSend, CallPoll, Enter, FlushDone, PumpDone
<1>4. ASSUME NEW s \in Side, FlushOne(s) PROVE \A t \in Side : Placed(t)'
  BY <1>4, FlushOnePlaced
<1>5. ASSUME NEW s \in Side, Schedule(s) PROVE \A t \in Side : Placed(t)'
  BY <1>5, SchedulePlaced
<1>6. ASSUME NEW s \in Side, PumpOne(s) PROVE \A t \in Side : Placed(t)'
  BY <1>6, PumpOnePlaced
<1>7. ASSUME NEW s \in Side, Deliver(s) PROVE \A t \in Side : Placed(t)'
  <2>1. UNCHANGED <<scheduledOut, incoming, sentCount, lost>>
    BY <1>7 DEF Deliver
  <2>2. CASE UNCHANGED <<scheduledIn, polled>>
    BY <1>1, <2>1, <2>2
  <2>3. CASE \E e \in scheduledIn[s] :
               /\ scheduledIn' = [scheduledIn EXCEPT ![s] = @ \ {e}]
               /\ polled' = [polled EXCEPT ![s] = Append(@, e)]
    BY <2>1, <2>3, DeliverPlaced
  <2> QED BY <1>7, <2>2, <2>3 DEF Deliver, Fronts
<1> QED BY <1>2, <1>3, <1>4, <1>5, <1>6, <1>7 DEF Next, Work

\* Latency is kept where what is new on the wire, or scheduled to be delivered,
\* took its time.
LEMMA LatencyKept ==
  ASSUME IInv, Latency, UNCHANGED settings, now' \in Nat, now <= now',
         \A t \in Side : cutoff'[t] <= now',
         \A t \in Side : \A q \in Wire(t)' : q \in Wire(t) \/ q.at + MinDelay(t) <= now',
         \A t \in Side : \A e \in scheduledIn'[Peer(t)] :
           e \in scheduledIn[Peer(t)] \/ e.packet.at + MinDelay(t) <= e.arrived
  PROVE  Latency'
<1>1. \A t \in Side : MinDelay(t)' = MinDelay(t)
  BY DEF MinDelay
<1>2. TypeOK /\ now \in Nat
  BY DEF IInv, TypeOK
<1>3. ASSUME NEW t \in Side, NEW q \in Wire(t)
      PROVE  q.at + MinDelay(t) <= now'
  <2>1. q.at \in Nat /\ MinDelay(t) \in Nat
    BY <1>2, DelayBounds, Numbered DEF Passed
  <2>2. q.at + MinDelay(t) <= now
    BY DEF Latency
  <2> QED BY <1>2, <2>1, <2>2
<1> QED BY <1>1, <1>3 DEF Latency

LEMMA NextLatency ==
  ASSUME IInv, Latency, [Next]_vars
  PROVE  Latency'
<1>1. TypeOK /\ now \in Nat
  BY DEF IInv, TypeOK
<1>2. ASSUME UNCHANGED <<settings, now, incoming>>,
             \A t \in Side : cutoff'[t] \in {0, now, cutoff[t]},
             \A t \in Side : scheduledIn'[t] \subseteq scheduledIn[t]
      PROVE  Latency'
  <2>1. \A t \in Side : Wire(t)' = Wire(t) /\ scheduledIn'[Peer(t)] \subseteq scheduledIn[Peer(t)]
    BY <1>2, PeerType DEF Wire
  <2>2. \A t \in Side : cutoff'[t] <= now'
    BY <1>1, <1>2 DEF Latency
  <2> QED BY <1>1, <1>2, <2>1, <2>2, LatencyKept
<1>3. CASE Tick
  <2>1. \A t \in Side : Wire(t)' = Wire(t)
    BY <1>3 DEF Tick, Wire
  <2>2. \A t \in Side : cutoff[t] \in Nat
    BY <1>1 DEF TypeOK
  <2>3. now' \in Nat /\ now <= now' /\ UNCHANGED <<settings, cutoff, scheduledIn>>
    BY <1>1, <1>3 DEF Tick
  <2>4. \A t \in Side : cutoff'[t] <= now'
    BY <1>1, <2>2, <2>3 DEF Latency
  <2> QED BY <2>1, <2>3, <2>4, LatencyKept
<1>4. CASE UNCHANGED vars
  BY <1>2, <1>4 DEF vars
<1>5. ASSUME NEW s \in Side, CallSend(s) \/ CallPoll(s) \/ FlushDone(s) \/ Schedule(s) \/ PumpDone(s)
      PROVE  Latency'
  <2>1. UNCHANGED <<settings, now, incoming, scheduledIn>>
    BY <1>5 DEF CallSend, CallPoll, Enter, FlushDone, Schedule, PumpDone
  <2>2. \A t \in Side : cutoff'[t] \in {0, now, cutoff[t]}
    BY <1>1, <1>5 DEF CallSend, CallPoll, Enter, FlushDone, Schedule, PumpDone, Return, TypeOK
  <2> QED BY <1>2, <2>1, <2>2
<1>6. ASSUME NEW s \in Side, Deliver(s)
      PROVE  Latency'
  <2>1. UNCHANGED <<settings, now, incoming>>
    BY <1>6 DEF Deliver
  <2>2. \A t \in Side : cutoff'[t] \in {0, now, cutoff[t]}
    BY <1>1, <1>6 DEF Deliver, Return, TypeOK
  <2>3. \A t \in Side : scheduledIn'[t] \subseteq scheduledIn[t]
    <3>1. scheduledIn \in [Side -> SUBSET InEntry]
      BY <1>1 DEF TypeOK
    <3>2. scheduledIn' = scheduledIn \/ \E e : scheduledIn' = [scheduledIn EXCEPT ![s] = @ \ {e}]
      BY <1>6 DEF Deliver
    <3> QED BY <3>1, <3>2
  <2> QED BY <1>2, <2>1, <2>2, <2>3
<1>7. ASSUME NEW s \in Side, FlushOne(s)
      PROVE  Latency'
  <2>1. PICK e \in Due(s) :
          \/ incoming' = [incoming EXCEPT ![Peer(s)] = Append(@, e.packet)]
          \/ incoming' = incoming
    BY <1>7 DEF FlushOne, PeerIncomingQueueToWrite
  <2>2. e \in scheduledOut[s] /\ e.time <= cutoff[s] /\ cutoff[s] <= now
    BY DEF Due, Fronts, Latency
  <2>3. e.packet \in Packet /\ e.packet.at \in Nat /\ e.time \in Nat /\ cutoff[s] \in Nat
    <3>1. scheduledOut[s] \in SUBSET OutEntry /\ cutoff[s] \in Nat
      BY <1>1 DEF TypeOK
    <3>2. e \in OutEntry
      BY <2>2, <3>1
    <3> QED BY <3>1, <3>2 DEF OutEntry, Packet
  <2>4. e.packet.at + MinDelay(s) <= now
    <3>1. e.packet.at + MinDelay(s) <= e.time /\ MinDelay(s) \in Nat
      BY <1>1, <2>2, DelayBounds DEF IInv, OutTimes
    <3> QED BY <1>1, <2>2, <2>3, <3>1
  <2>5. UNCHANGED <<settings, now, cutoff, scheduledIn>>
    BY <1>7 DEF FlushOne
  <2>6. ASSUME NEW t \in Side, NEW q \in Wire(t)'
        PROVE  q \in Wire(t) \/ q.at + MinDelay(t) <= now'
    <3>1. Peer(t) \in Side /\ Peer(s) \in Side /\ (Peer(t) = Peer(s) => t = s)
      BY DEF Peer, Side
    <3>2. CASE t = s /\ incoming' # incoming
      <4>1. incoming[Peer(s)] \in Seq(Packet)
        BY <1>1, <3>1 DEF TypeOK
      <4>2. incoming'[Peer(s)] = Append(incoming[Peer(s)], e.packet)
        BY <1>1, <2>1, <3>1, <3>2 DEF TypeOK
      <4>3. q \in Elements(incoming[Peer(s)]) \cup {e.packet}
        BY <2>3, <3>2, <4>1, <4>2, ElementsAppend DEF Wire
      <4> QED BY <2>4, <2>5, <3>2, <4>3 DEF Wire
    <3>3. CASE t # s \/ incoming' = incoming
      <4>1. incoming'[Peer(t)] = incoming[Peer(t)]
        BY <1>1, <2>1, <3>1, <3>3 DEF TypeOK
      <4> QED BY <4>1 DEF Wire
    <3> QED BY <3>2, <3>3
  <2>7. \A t \in Side : cutoff'[t] <= now'
    BY <2>5 DEF Latency
  <2> QED BY <1>1, <2>5, <2>6, <2>7, LatencyKept
<1>8. ASSUME NEW s \in Side, PumpOne(s)
      PROVE  Latency'
  <2> DEFINE p == Head(incoming[s])
  <2>1. /\ UNCHANGED <<now, settings, cutoff>>
        /\ incoming[s] # << >>
        /\ incoming' = [incoming EXCEPT ![s] = Tail(@)]
    BY <1>8 DEF PumpOne, IncomingQueueToRead
  <2>2. /\ p \in Elements(incoming[s]) /\ Elements(Tail(incoming[s])) \subseteq Elements(incoming[s])
    BY <1>1, <2>1, ElementsTail DEF TypeOK
  <2>3. ASSUME NEW t \in Side, NEW q \in Wire(t)'
        PROVE  q \in Wire(t)
    <3>1. Peer(t) \in Side
      BY PeerType
    <3>2. incoming'[Peer(t)] = IF Peer(t) = s THEN Tail(incoming[s]) ELSE incoming[Peer(t)]
      BY <1>1, <2>1, <3>1 DEF TypeOK
    <3> QED BY <2>2, <3>2 DEF Wire
  <2>4. ASSUME NEW t \in Side, NEW e \in scheduledIn'[Peer(t)], e \notin scheduledIn[Peer(t)]
        PROVE  e.packet.at + MinDelay(t) <= e.arrived
    <3>1. Peer(t) \in Side /\ Peer(Peer(t)) = t
      BY PeerType
    <3>2. \E delay \in Delays(s) :
            scheduledIn' = [scheduledIn EXCEPT ![s] =
              @ \cup {[time |-> now + delay, packet |-> p, arrived |-> now]}]
      BY <1>8, <2>4 DEF PumpOne
    <3>3. Peer(t) = s /\ e.packet = p /\ e.arrived = now
      BY <1>1, <2>4, <3>1, <3>2 DEF TypeOK
    <3>4. p \in Wire(t)
      BY <2>2, <3>3 DEF Wire
    <3> QED BY <3>3, <3>4 DEF Latency
  <2>5. \A t \in Side : cutoff'[t] <= now'
    BY <2>1 DEF Latency
  <2> QED BY <1>1, <2>1, <2>3, <2>4, <2>5, LatencyKept
<1> QED BY <1>3, <1>4, <1>5, <1>6, <1>7, <1>8 DEF Next, Work

LEMMA LinkInvariance == Spec => []LinkInv
<1>1. LinkInv /\ [Next]_vars => LinkInv'
  <2> SUFFICES ASSUME LinkInv, [Next]_vars PROVE LinkInv'
    OBVIOUS
  <2>1. IInv /\ TypeOK /\ Latency /\ \A s \in Side : Placed(s)
    BY DEF LinkInv, IInv
  <2>2. IInv'
    BY <2>1, NextIInv
  <2>3. Latency'
    BY <2>1, NextLatency
  <2>4. \A s \in Side : Placed(s)'
    BY <2>1, NextPlaced
  <2> QED BY <2>2, <2>3, <2>4 DEF LinkInv
<1> QED BY <1>1, InitLinkInv, PTL DEF Spec

-----------------------------------------------------------------------------
(* The theorems.                                                           *)

\* Every packet SendPacket accepted is in exactly one place, once: the moves of
\* FlushScheduledOutgoingPackets, PumpUnderlyingIncomingPackets and PollPacket
\* between the deques neither forget nor repeat one.
THEOREM ExactlyOnce == Spec => []ExactlyOnePlace
<1>1. LinkInv => ExactlyOnePlace
  <2> SUFFICES ASSUME LinkInv, NEW s \in Side
               PROVE  LET places == <<Waiting(s), Wire(s), Arrived(s), Delivered(s), lost[s]>> IN
                      /\ UNION {Numbers(places[i]) : i \in 1..5} = 1..sentCount[s]
                      /\ \A i, j \in 1..5 : i # j => Numbers(places[i]) \cap Numbers(places[j]) = {}
                      /\ \A queue \in {incoming[s], polled[s]} : \A i, j \in DOMAIN queue :
                           i # j => queue[i] # queue[j]
    BY DEF ExactlyOnePlace
  <2> DEFINE places == <<Waiting(s), Wire(s), Arrived(s), Delivered(s), lost[s]>>
             N(i) == Numbers(places[i])
  <2>1. /\ N(1) = Seqs(scheduledOut[s])
        /\ N(2) = WireSeqs(incoming[Peer(s)])
        /\ N(3) = Seqs(scheduledIn[Peer(s)])
        /\ N(4) = GotSeqs(polled[Peer(s)])
        /\ N(5) = Numbers(lost[s])
    <3>1. Numbers(Waiting(s)) = Seqs(scheduledOut[s])
      BY DEF Numbers, Waiting, PacketsIn, Seqs
    <3>2. Numbers(Wire(s)) = WireSeqs(incoming[Peer(s)])
      BY DEF Numbers, Wire, Elements, WireSeqs
    <3>3. Numbers(Arrived(s)) = Seqs(scheduledIn[Peer(s)])
      BY DEF Numbers, Arrived, PacketsIn, Seqs
    <3>4. Numbers(Delivered(s)) = GotSeqs(polled[Peer(s)])
      BY DEF Numbers, Delivered, Elements, GotSeqs
    <3> QED BY <3>1, <3>2, <3>3, <3>4
  <2>2. Split(N(1), N(2), N(3), N(4), N(5), 1..sentCount[s])
    <3>1. Split(Seqs(scheduledOut[s]), WireSeqs(incoming[Peer(s)]), Seqs(scheduledIn[Peer(s)]),
                GotSeqs(polled[Peer(s)]), Numbers(lost[s]), 1..sentCount[s])
      BY DEF LinkInv, Placed, PlacedIn
    <3> HIDE DEF N
    <3> QED BY <2>1, <3>1
  <2>3. UNION {N(i) : i \in 1..5} = 1..sentCount[s]
    <3> HIDE DEF N
    <3>1. 1..5 = {1, 2, 3, 4, 5}
      OBVIOUS
    <3>2. UNION {N(i) : i \in {1, 2, 3, 4, 5}} = N(1) \cup N(2) \cup N(3) \cup N(4) \cup N(5)
      OBVIOUS
    <3> QED BY <2>2, <3>1, <3>2 DEF Split
  <2>4. \A i, j \in 1..5 : i # j => N(i) \cap N(j) = {}
    <3> HIDE DEF N
    <3>1. 1..5 = {1, 2, 3, 4, 5}
      OBVIOUS
    <3>2. \A i, j \in {1, 2, 3, 4, 5} : i # j => N(i) \cap N(j) = {}
      BY <2>2 DEF Split
    <3> QED BY <3>1, <3>2
  <2>5. \A queue \in {incoming[s], polled[s]} : \A i, j \in DOMAIN queue :
          i # j => queue[i] # queue[j]
    <3>1. Placed(Peer(s)) /\ Peer(Peer(s)) = s
      BY PeerType DEF LinkInv
    <3>2. SingleWire(incoming[s]) /\ SingleGot(polled[s])
      BY <3>1 DEF Placed, PlacedIn
    <3> QED BY <3>2 DEF SingleWire, SingleGot
  <2> QED BY <2>3, <2>4, <2>5
<1> QED BY <1>1, LinkInvariance, PTL

-----------------------------------------------------------------------------
(* Refinement of DatagramLink: what is in flight, and what was received.   *)

Flight(out, wire, in) == PacketsIn(out) \cup Elements(wire) \cup PacketsIn(in)
PacketsOf(queue) == [i \in DOMAIN queue |-> queue[i].packet]

AllInFlight == UNION {InFlight(s) : s \in Side}
Received == [s \in Side |-> [i \in DOMAIN polled[s] |-> polled[s][i].packet]]
Quality ==
  [s \in Side |->
     [minLatency |-> MinDelay(s) + MinDelay(Peer(s)),
      lossy |-> \/ settings[s].loss > 0
                \/ settings[Peer(s)].loss > 0
                \/ EndpointMayFail]]

LEMMA PacketsOfAppend ==
  ASSUME NEW q \in Seq(InEntry), NEW e \in InEntry
  PROVE  PacketsOf(Append(q, e)) = Append(PacketsOf(q), e.packet)
<1> DEFINE n == Len(q)
           r == Append(q, e)
           w == PacketsOf(q)
<1>1. /\ n \in Nat /\ DOMAIN q = 1..n /\ DOMAIN r = 1..(n + 1)
      /\ r[n + 1] = e /\ \A i \in 1..n : r[i] = q[i]
  OBVIOUS
<1>2. w \in Seq(Packet) /\ Len(w) = n /\ \A i \in 1..n : w[i] = q[i].packet
  <2>1. \A i \in 1..n : q[i].packet \in Packet
    <3>1. \A i \in 1..n : q[i] \in InEntry
      OBVIOUS
    <3>2. \A x \in InEntry : x.packet \in Packet
      BY DEF InEntry
    <3> QED BY <3>1, <3>2
  <2>2. w = [i \in 1..n |-> q[i].packet]
    BY <1>1 DEF PacketsOf
  <2> HIDE DEF w, n
  <2> QED BY <1>1, <2>1, <2>2
<1>3. e.packet \in Packet
  BY DEF InEntry
<1> HIDE DEF w, r, n
<1>4. /\ DOMAIN Append(w, e.packet) = 1..(n + 1)
      /\ Append(w, e.packet) = [i \in 1..(n + 1) |-> Append(w, e.packet)[i]]
      /\ Append(w, e.packet)[n + 1] = e.packet
      /\ \A i \in 1..n : Append(w, e.packet)[i] = w[i]
  BY <1>1, <1>2, <1>3
<1>5. \A i \in 1..(n + 1) : i = n + 1 \/ i \in 1..n
  BY <1>1
<1>6. PacketsOf(r) = [i \in 1..(n + 1) |-> r[i].packet]
  BY <1>1 DEF PacketsOf
<1>7. \A i \in 1..(n + 1) : r[i].packet = Append(w, e.packet)[i]
  BY <1>1, <1>2, <1>4, <1>5
<1>8. PacketsOf(r) = Append(w, e.packet)
  BY <1>4, <1>6, <1>7
<1> QED BY <1>8 DEF w, r

\* A packet taken from a deque of single packets is no longer in it.
LEMMA TakenPackets ==
  ASSUME NEW E, NEW e \in E, Single(E)
  PROVE  PacketsIn(E \ {e}) = PacketsIn(E) \ {e.packet} /\ e.packet \in PacketsIn(E)
BY DEF PacketsIn, Single

LEMMA FlushedFlight ==
  ASSUME NEW s, NEW out, NEW wire, NEW in, NEW got, NEW gone, NEW count,
         PlacedIn(s, out, wire, in, got, gone, count), NEW e \in out
  PROVE  /\ Flight(out \ {e}, Append(wire, e.packet), in) = Flight(out, wire, in)
         /\ Flight(out \ {e}, wire, in) = Flight(out, wire, in) \ {e.packet}
         /\ e.packet \in Flight(out, wire, in)
<1> DEFINE n == e.packet.seq
<1>1. /\ out \in SUBSET OutEntry /\ wire \in Seq(Packet)
      /\ Single(out)
      /\ Split(Seqs(out), WireSeqs(wire), Seqs(in), GotSeqs(got), Numbers(gone), 1..count)
  BY DEF PlacedIn
<1>2. n \in Seqs(out)
  BY DEF Seqs
<1>3. n \notin WireSeqs(wire) /\ n \notin Seqs(in)
  <2> HIDE DEF n
  <2> QED BY <1>1, <1>2 DEF Split
<1>4. e.packet \notin Elements(wire) /\ e.packet \notin PacketsIn(in)
  BY <1>3 DEF WireSeqs, Seqs, Elements, PacketsIn
<1>5. PacketsIn(out \ {e}) = PacketsIn(out) \ {e.packet} /\ e.packet \in PacketsIn(out)
  BY <1>1, TakenPackets
<1>6. Elements(Append(wire, e.packet)) = Elements(wire) \cup {e.packet}
  <2>1. e.packet \in Packet
    BY <1>1 DEF OutEntry
  <2> QED BY <1>1, <2>1, ElementsAppend
<1> QED BY <1>4, <1>5, <1>6 DEF Flight

LEMMA PumpedFlight ==
  ASSUME NEW s, NEW out, NEW wire, NEW in, NEW got, NEW gone, NEW count,
         PlacedIn(s, out, wire, in, got, gone, count), wire # << >>,
         NEW x, x.packet = Head(wire)
  PROVE  /\ Flight(out, Tail(wire), in \cup {x}) = Flight(out, wire, in)
         /\ Flight(out, Tail(wire), in) = Flight(out, wire, in) \ {Head(wire)}
         /\ Head(wire) \in Flight(out, wire, in)
<1> DEFINE p == Head(wire)
           n == p.seq
<1>1. /\ wire \in Seq(Packet) /\ SingleWire(wire)
      /\ Split(Seqs(out), WireSeqs(wire), Seqs(in), GotSeqs(got), Numbers(gone), 1..count)
  BY DEF PlacedIn
<1>2. /\ p \in Elements(wire) /\ Elements(wire) = Elements(Tail(wire)) \cup {p}
      /\ n \in WireSeqs(wire) /\ WireSeqs(Tail(wire)) = WireSeqs(wire) \ {n}
  BY <1>1, WireTail
<1>3. n \notin Seqs(out) /\ n \notin Seqs(in) /\ n \notin WireSeqs(Tail(wire))
  <2> HIDE DEF n
  <2> QED BY <1>1, <1>2 DEF Split
<1>4. p \notin PacketsIn(out) /\ p \notin PacketsIn(in) /\ p \notin Elements(Tail(wire))
  <2> HIDE DEF p
  <2> QED BY <1>3 DEF WireSeqs, Seqs, Elements, PacketsIn
<1>5. PacketsIn(in \cup {x}) = PacketsIn(in) \cup {p}
  BY DEF PacketsIn
<1> HIDE DEF p
<1>6. /\ Flight(out, Tail(wire), in \cup {x}) = Flight(out, wire, in)
      /\ Flight(out, Tail(wire), in) = Flight(out, wire, in) \ {p}
      /\ p \in Flight(out, wire, in)
  BY <1>2, <1>4, <1>5 DEF Flight
<1> QED BY <1>6 DEF p

LEMMA DeliveredFlight ==
  ASSUME NEW s, NEW out, NEW wire, NEW in, NEW got, NEW gone, NEW count,
         PlacedIn(s, out, wire, in, got, gone, count), NEW e \in in
  PROVE  /\ Flight(out, wire, in \ {e}) = Flight(out, wire, in) \ {e.packet}
         /\ e.packet \in Flight(out, wire, in)
<1> DEFINE n == e.packet.seq
<1>1. /\ Single(in)
      /\ Split(Seqs(out), WireSeqs(wire), Seqs(in), GotSeqs(got), Numbers(gone), 1..count)
  BY DEF PlacedIn
<1>2. n \in Seqs(in)
  BY DEF Seqs
<1>3. n \notin WireSeqs(wire) /\ n \notin Seqs(out)
  <2> HIDE DEF n
  <2> QED BY <1>1, <1>2 DEF Split
<1>4. e.packet \notin Elements(wire) /\ e.packet \notin PacketsIn(out)
  BY <1>3 DEF WireSeqs, Seqs, Elements, PacketsIn
<1>5. PacketsIn(in \ {e}) = PacketsIn(in) \ {e.packet} /\ e.packet \in PacketsIn(in)
  BY <1>1, TakenPackets
<1> QED BY <1>4, <1>5 DEF Flight

LEMMA FlightOf ==
  \A t \in Side : InFlight(t) = Flight(scheduledOut[t], incoming[Peer(t)], scheduledIn[Peer(t)])
BY DEF InFlight, Flight, Waiting, Wire, Arrived

LEMMA BothFlights ==
  ASSUME NEW t \in Side
  PROVE  AllInFlight = InFlight(t) \cup InFlight(Peer(t))
<1>1. Side = {t, Peer(t)}
  BY DEF Side, Peer
<1>2. AllInFlight = UNION {InFlight(s) : s \in {t, Peer(t)}}
  BY <1>1 DEF AllInFlight
<1> QED BY <1>2

LEMMA FlightFrom ==
  ASSUME \A t \in Side : Placed(t), NEW t \in Side, NEW p \in InFlight(t)
  PROVE  p.from = t
<1>1. \A q \in PacketsIn(scheduledOut[t]) \cup Elements(incoming[Peer(t)])
                 \cup PacketsIn(scheduledIn[Peer(t)]) : q.from = t
  BY DEF Placed, PlacedIn
<1> QED BY <1>1 DEF InFlight, Waiting, Wire, Arrived

\* A packet that leaves the flight of its sender leaves the flight of all.
LEMMA FlightLeft ==
  ASSUME \A t \in Side : Placed(t), NEW t \in Side, NEW p \in InFlight(t),
         InFlight(t)' = InFlight(t) \ {p}, InFlight(Peer(t))' = InFlight(Peer(t))
  PROVE  AllInFlight' = AllInFlight \ {p} /\ p \in AllInFlight /\ p.from = t
<1>1. Peer(t) \in Side /\ Peer(t) # t
  BY PeerType
<1>2. p.from = t /\ p \notin InFlight(Peer(t))
  BY <1>1, FlightFrom
<1>3. AllInFlight' = InFlight(t)' \cup InFlight(Peer(t))'
  <2>1. Side = {t, Peer(t)}
    BY DEF Side, Peer
  <2>2. AllInFlight' = UNION {InFlight(s)' : s \in {t, Peer(t)}}
    BY <2>1 DEF AllInFlight
  <2> QED BY <2>2
<1>4. AllInFlight = InFlight(t) \cup InFlight(Peer(t))
  BY BothFlights
<1> QED BY <1>2, <1>3, <1>4

LEMMA SameQuality ==
  ASSUME UNCHANGED settings
  PROVE  Quality' = Quality
BY DEF Quality, MinDelay

LEMMA SameReceived ==
  ASSUME UNCHANGED polled
  PROVE  Received' = Received
BY DEF Received

LEMMA DatagramVars ==
  Datagrams!linkVars = <<now, Quality, sentCount, AllInFlight, Received>>
BY DEF Datagrams!linkVars, Quality, AllInFlight, Received

LEMMA SameEnds ==
  /\ Datagrams!Side = Side
  /\ Datagrams!Empty = Empty
  /\ \A s \in Side : Datagrams!Peer(s) = Peer(s)
BY DEF Datagrams!Side, Side, Datagrams!Empty, Empty, Datagrams!Peer, Peer

\* The steps of DatagramLink, over what it maps to.
LEMMA SendRefines ==
  ASSUME NEW s \in Side,
         sentCount' = [sentCount EXCEPT ![s] = @ + 1],
         \/ AllInFlight' = AllInFlight \cup {NewPacket(s)}
         \/ Quality[s].lossy /\ AllInFlight' = AllInFlight,
         UNCHANGED <<now, Quality, Received>>
  PROVE  Datagrams!Next
<1>1. Datagrams!NewPacket(s) = NewPacket(s)
  BY DEF Datagrams!NewPacket, NewPacket
<1>2. CASE AllInFlight' = AllInFlight \cup {NewPacket(s)}
  <2>1. Datagrams!Send(s)
    BY <1>1, <1>2 DEF Datagrams!Send, Quality, AllInFlight, Received
  <2> QED BY <2>1, SameEnds DEF Datagrams!Next
<1>3. CASE Quality[s].lossy /\ AllInFlight' = AllInFlight
  <2>1. Datagrams!SendInVain(s)
    BY <1>3 DEF Datagrams!SendInVain, Quality, AllInFlight, Received
  <2> QED BY <2>1, SameEnds DEF Datagrams!Next
<1> QED BY <1>2, <1>3

LEMMA LoseRefines ==
  ASSUME NEW p \in AllInFlight, Quality[p.from].lossy,
         AllInFlight' = AllInFlight \ {p},
         UNCHANGED <<now, Quality, sentCount, Received>>
  PROVE  Datagrams!Next
<1>1. Datagrams!Lose(p)
  BY DEF Datagrams!Lose, Quality, AllInFlight, Received
<1> QED BY <1>1 DEF Datagrams!Next, AllInFlight

LEMMA DeliverRefines ==
  ASSUME NEW p \in AllInFlight, p.from \in Side,
         now >= p.at + Quality[p.from].minLatency,
         AllInFlight' = AllInFlight \ {p},
         Received' = [Received EXCEPT ![Peer(p.from)] = Append(@, p)],
         UNCHANGED <<now, Quality, sentCount>>
  PROVE  Datagrams!Next
<1>1. Datagrams!Deliver(p)
  BY SameEnds DEF Datagrams!Deliver, Quality, AllInFlight, Received
<1> QED BY <1>1 DEF Datagrams!Next, AllInFlight

LEMMA TickRefines ==
  ASSUME now' = now + 1, UNCHANGED <<Quality, sentCount, AllInFlight, Received>>
  PROVE  Datagrams!Next
<1>1. Datagrams!Tick
  BY DEF Datagrams!Tick, Quality, AllInFlight, Received
<1> QED BY <1>1 DEF Datagrams!Next

-----------------------------------------------------------------------------
(* Each step is a step of DatagramLink, or none.                           *)

LEMMA FlushOneRefines ==
  ASSUME TypeOK, \A t \in Side : Placed(t), NEW s \in Side, FlushOne(s)
  PROVE  Datagrams!Next \/ UNCHANGED <<now, Quality, sentCount, AllInFlight, Received>>
<1> DEFINE u == Peer(s)
<1>1. PICK e \in Due(s) :
        /\ scheduledOut' = [scheduledOut EXCEPT ![s] = @ \ {e}]
        /\ \/ incoming' = [incoming EXCEPT ![u] = Append(@, e.packet)]
           \/ EndpointMayFail /\ incoming' = incoming
  BY DEF FlushOne, PeerIncomingQueueToWrite
<1>2. e \in scheduledOut[s] /\ u \in Side /\ u # s /\ Peer(u) = s
  BY PeerType DEF Due, Fronts
<1>3. UNCHANGED <<now, Quality, sentCount, scheduledIn, Received>>
  BY SameQuality, SameReceived DEF FlushOne
<1>4. /\ scheduledOut'[s] = scheduledOut[s] \ {e} /\ scheduledOut'[u] = scheduledOut[u]
      /\ incoming'[s] = incoming[s] /\ scheduledIn' = scheduledIn
  BY <1>1, <1>2, <1>3 DEF TypeOK
<1>5. InFlight(u)' = InFlight(u)
  BY <1>2, <1>4 DEF InFlight, Waiting, Wire, Arrived
<1>6. PlacedIn(s, scheduledOut[s], incoming[u], scheduledIn[u], polled[u], lost[s], sentCount[s])
  BY DEF Placed
<1>7. /\ Flight(scheduledOut[s] \ {e}, Append(incoming[u], e.packet), scheduledIn[u]) = InFlight(s)
      /\ Flight(scheduledOut[s] \ {e}, incoming[u], scheduledIn[u]) = InFlight(s) \ {e.packet}
      /\ e.packet \in InFlight(s)
  <2>1. InFlight(s) = Flight(scheduledOut[s], incoming[u], scheduledIn[u])
    BY FlightOf
  <2> HIDE DEF u
  <2>2. /\ Flight(scheduledOut[s] \ {e}, Append(incoming[u], e.packet), scheduledIn[u])
             = Flight(scheduledOut[s], incoming[u], scheduledIn[u])
        /\ Flight(scheduledOut[s] \ {e}, incoming[u], scheduledIn[u])
             = Flight(scheduledOut[s], incoming[u], scheduledIn[u]) \ {e.packet}
        /\ e.packet \in Flight(scheduledOut[s], incoming[u], scheduledIn[u])
    BY <1>2, <1>6, FlushedFlight
  <2> QED BY <2>1, <2>2
<1>8. InFlight(s)' = Flight(scheduledOut'[s], incoming'[u], scheduledIn'[u])
  BY DEF InFlight, Flight, Waiting, Wire, Arrived
<1> HIDE DEF u
<1>9. CASE incoming' = [incoming EXCEPT ![u] = Append(@, e.packet)]
  <2>1. incoming'[u] = Append(incoming[u], e.packet)
    BY <1>2, <1>9 DEF TypeOK
  <2>2. InFlight(s)' = InFlight(s)
    BY <1>4, <1>7, <1>8, <2>1
  <2>3. AllInFlight' = AllInFlight
    <3>1. \A t \in Side : t = s \/ t = u
      BY DEF Side, Peer, u
    <3>2. \A t \in Side : InFlight(t)' = InFlight(t)
      BY <1>5, <2>2, <3>1
    <3> QED BY <3>2 DEF AllInFlight
  <2> QED BY <1>3, <2>3
<1>10. CASE EndpointMayFail /\ incoming' = incoming
  <2>1. InFlight(s)' = InFlight(s) \ {e.packet}
    BY <1>4, <1>7, <1>8, <1>10
  <2>2. AllInFlight' = AllInFlight \ {e.packet} /\ e.packet \in AllInFlight /\ e.packet.from = s
    BY <1>5, <1>7, <2>1, FlightLeft DEF u
  <2>3. Quality[e.packet.from].lossy
    BY <1>10, <2>2 DEF Quality
  <2> QED BY <1>3, <2>2, <2>3, LoseRefines
<1> QED BY <1>1, <1>9, <1>10

LEMMA PumpOneRefines ==
  ASSUME TypeOK, \A t \in Side : Placed(t), NEW s \in Side, PumpOne(s)
  PROVE  Datagrams!Next \/ UNCHANGED <<now, Quality, sentCount, AllInFlight, Received>>
<1> DEFINE t == Peer(s)
           p == Head(incoming[s])
<1>1. /\ incoming[s] # << >>
      /\ incoming' = [incoming EXCEPT ![s] = Tail(@)]
  BY DEF PumpOne, IncomingQueueToRead
<1>2. t \in Side /\ t # s /\ Peer(t) = s
  BY PeerType
<1>3. UNCHANGED <<now, Quality, sentCount, scheduledOut, Received>>
  BY SameQuality, SameReceived DEF PumpOne
<1>4. \/ MayDrop(s) /\ scheduledIn' = scheduledIn
      \/ \E x : x.packet = p /\ scheduledIn' = [scheduledIn EXCEPT ![s] = @ \cup {x}]
  <2>1. CASE MayDrop(s) /\ scheduledIn' = scheduledIn
    BY <2>1
  <2>2. CASE \E delay \in Delays(s) :
               scheduledIn' = [scheduledIn EXCEPT ![s] =
                 @ \cup {[time |-> now + delay, packet |-> p, arrived |-> now]}]
    <3>1. PICK delay \in Delays(s) :
            scheduledIn' = [scheduledIn EXCEPT ![s] =
              @ \cup {[time |-> now + delay, packet |-> p, arrived |-> now]}]
      BY <2>2
    <3>2. [time |-> now + delay, packet |-> p, arrived |-> now].packet = p
      OBVIOUS
    <3> QED BY <3>1, <3>2
  <2> QED BY <2>1, <2>2 DEF PumpOne
<1>5. PlacedIn(t, scheduledOut[t], incoming[s], scheduledIn[s], polled[s], lost[t], sentCount[t])
  BY <1>2 DEF Placed
<1>6. /\ incoming'[s] = Tail(incoming[s]) /\ incoming'[t] = incoming[t]
      /\ scheduledIn'[t] = scheduledIn[t]
  BY <1>1, <1>2, <1>4 DEF TypeOK
<1>7. InFlight(s)' = InFlight(s)
  BY <1>3, <1>6 DEF InFlight, Waiting, Wire, Arrived
<1>8. /\ InFlight(t)' = Flight(scheduledOut'[t], incoming'[s], scheduledIn'[s])
      /\ InFlight(t) = Flight(scheduledOut[t], incoming[s], scheduledIn[s])
  BY <1>2 DEF InFlight, Flight, Waiting, Wire, Arrived
<1>9. CASE MayDrop(s) /\ scheduledIn' = scheduledIn
  <2>1. /\ Flight(scheduledOut[t], Tail(incoming[s]), scheduledIn[s]) = InFlight(t) \ {p}
        /\ p \in InFlight(t)
    <3>1. PICK x : x.packet = p
      <4>1. [packet |-> p].packet = p
        OBVIOUS
      <4> QED BY <4>1
    <3> HIDE DEF t
    <3>2. /\ Flight(scheduledOut[t], Tail(incoming[s]), scheduledIn[s] \cup {x})
               = Flight(scheduledOut[t], incoming[s], scheduledIn[s])
          /\ Flight(scheduledOut[t], Tail(incoming[s]), scheduledIn[s])
               = Flight(scheduledOut[t], incoming[s], scheduledIn[s]) \ {p}
          /\ p \in Flight(scheduledOut[t], incoming[s], scheduledIn[s])
      BY <1>1, <1>5, <3>1, PumpedFlight
    <3> QED BY <1>8, <3>2
  <2> HIDE DEF p
  <2>2. InFlight(t)' = InFlight(t) \ {p}
    BY <1>3, <1>6, <1>8, <1>9, <2>1
  <2>3. AllInFlight' = AllInFlight \ {p} /\ p \in AllInFlight /\ p.from = t
    BY <1>2, <1>7, <2>1, <2>2, FlightLeft
  <2>4. Quality[p.from].lossy
    BY <1>2, <1>9, <2>3 DEF Quality, MayDrop
  <2> QED BY <1>3, <2>3, <2>4, LoseRefines
<1>10. ASSUME NEW x, x.packet = p, scheduledIn' = [scheduledIn EXCEPT ![s] = @ \cup {x}]
       PROVE  AllInFlight' = AllInFlight
  <2>1. Flight(scheduledOut[t], Tail(incoming[s]), scheduledIn[s] \cup {x}) = InFlight(t)
    BY <1>1, <1>5, <1>8, <1>10, PumpedFlight
  <2>2. scheduledIn'[s] = scheduledIn[s] \cup {x}
    BY <1>10 DEF TypeOK
  <2>3. InFlight(t)' = InFlight(t)
    BY <1>3, <1>6, <1>8, <2>1, <2>2
  <2>4. \A r \in Side : r = s \/ r = t
    BY DEF Side, Peer
  <2>5. \A r \in Side : InFlight(r)' = InFlight(r)
    BY <1>7, <2>3, <2>4
  <2> QED BY <2>5 DEF AllInFlight
<1> HIDE DEF t, p
<1> QED BY <1>3, <1>4, <1>9, <1>10

LEMMA ScheduleRefines ==
  ASSUME TypeOK, NEW s \in Side, Schedule(s)
  PROVE  Datagrams!Next
<1> DEFINE p == NewPacket(s)
<1>1. /\ UNCHANGED <<now, settings, scheduledIn, incoming, polled>>
      /\ sentCount' = [sentCount EXCEPT ![s] = @ + 1]
  BY DEF Schedule
<1>2. UNCHANGED <<now, Quality, Received>>
  BY <1>1, SameQuality, SameReceived
<1>3. CASE MayDrop(s) /\ UNCHANGED scheduledOut
  <2>1. AllInFlight' = AllInFlight
    BY <1>1, <1>3 DEF AllInFlight, InFlight, Waiting, Wire, Arrived
  <2>2. Quality[s].lossy
    BY <1>3 DEF Quality, MayDrop
  <2> QED BY <1>1, <1>2, <2>1, <2>2, SendRefines
<1>4. ASSUME NEW delay \in Delays(s),
             scheduledOut' = [scheduledOut EXCEPT ![s] =
               @ \cup {[time |-> now + delay, packet |-> p]}]
      PROVE  Datagrams!Next
  <2> DEFINE x == [time |-> now + delay, packet |-> p]
  <2>1. Peer(s) \in Side /\ Peer(s) # s
    BY PeerType
  <2>2. /\ scheduledOut'[s] = scheduledOut[s] \cup {x}
        /\ scheduledOut'[Peer(s)] = scheduledOut[Peer(s)] /\ x.packet = p
    BY <1>4, <2>1 DEF TypeOK
  <2> HIDE DEF x
  <2>3. Waiting(s)' = Waiting(s) \cup {p}
    BY <2>2 DEF Waiting, PacketsIn
  <2>4. InFlight(s)' = InFlight(s) \cup {p}
    BY <1>1, <2>3 DEF InFlight, Wire, Arrived
  <2>5. InFlight(Peer(s))' = InFlight(Peer(s))
    BY <1>1, <2>2 DEF InFlight, Waiting, Wire, Arrived
  <2>6. Side = {s, Peer(s)}
    BY DEF Side, Peer
  <2>7. AllInFlight' = InFlight(s)' \cup InFlight(Peer(s))'
    <3>1. AllInFlight' = UNION {InFlight(t)' : t \in {s, Peer(s)}}
      BY <2>6 DEF AllInFlight
    <3> QED BY <3>1
  <2>8. AllInFlight' = AllInFlight \cup {p}
    BY <2>4, <2>5, <2>7, BothFlights
  <2> QED BY <1>1, <1>2, <2>8, SendRefines
<1> QED BY <1>3, <1>4 DEF Schedule

LEMMA DeliverStepRefines ==
  ASSUME IInv, Latency, \A t \in Side : Placed(t), NEW s \in Side, Deliver(s)
  PROVE  Datagrams!Next \/ UNCHANGED <<now, Quality, sentCount, AllInFlight, Received>>
<1> DEFINE t == Peer(s)
<1>1. UNCHANGED <<now, Quality, sentCount, scheduledOut, incoming>>
  BY SameQuality DEF Deliver
<1>2. t \in Side /\ t # s /\ Peer(t) = s
  BY PeerType
<1>3. TypeOK /\ now \in Nat
  BY DEF IInv, TypeOK
<1>4. CASE UNCHANGED <<scheduledIn, polled>>
  BY <1>1, <1>4, SameReceived DEF AllInFlight, InFlight, Waiting, Wire, Arrived
<1>5. ASSUME NEW e \in scheduledIn[s], e.time <= now,
             scheduledIn' = [scheduledIn EXCEPT ![s] = @ \ {e}],
             polled' = [polled EXCEPT ![s] = Append(@, e)]
      PROVE  Datagrams!Next
  <2> DEFINE p == e.packet
  <2>1. PlacedIn(t, scheduledOut[t], incoming[s], scheduledIn[s], polled[s], lost[t], sentCount[t])
    BY <1>2 DEF Placed
  <2>2. scheduledIn'[s] = scheduledIn[s] \ {e} /\ scheduledIn'[t] = scheduledIn[t]
    BY <1>2, <1>3, <1>5 DEF TypeOK
  <2>3. /\ InFlight(t)' = Flight(scheduledOut'[t], incoming'[s], scheduledIn'[s])
        /\ InFlight(t) = Flight(scheduledOut[t], incoming[s], scheduledIn[s])
    BY <1>2 DEF InFlight, Flight, Waiting, Wire, Arrived
  <2>4. /\ Flight(scheduledOut[t], incoming[s], scheduledIn[s] \ {e})
             = Flight(scheduledOut[t], incoming[s], scheduledIn[s]) \ {p}
        /\ p \in Flight(scheduledOut[t], incoming[s], scheduledIn[s])
    <3> HIDE DEF t
    <3> QED BY <2>1, DeliveredFlight
  <2>5. InFlight(t)' = InFlight(t) \ {p} /\ p \in InFlight(t)
    BY <1>1, <2>2, <2>3, <2>4
  <2>6. InFlight(s)' = InFlight(s)
    BY <1>1, <2>2 DEF InFlight, Waiting, Wire, Arrived
  <2> HIDE DEF p
  <2>7. AllInFlight' = AllInFlight \ {p} /\ p \in AllInFlight /\ p.from = t
    BY <1>2, <2>5, <2>6, FlightLeft
  <2>8. e \in InEntry /\ polled \in [Side -> Seq(InEntry)] /\ polled[s] \in Seq(InEntry)
    BY <1>3 DEF TypeOK
  <2>9. Received' = [Received EXCEPT ![s] = Append(@, p)]
    <3>1. PacketsOf(Append(polled[s], e)) = Append(PacketsOf(polled[s]), p)
      BY <2>8, PacketsOfAppend DEF p
    <3>2. Received = [r \in Side |-> PacketsOf(polled[r])]
      BY DEF Received, PacketsOf
    <3>3. Received' = [r \in Side |-> PacketsOf(polled'[r])]
      BY DEF Received, PacketsOf
    <3>4. polled'[s] = Append(polled[s], e) /\ \A r \in Side : r # s => polled'[r] = polled[r]
      BY <1>5, <2>8
    <3> QED BY <3>1, <3>2, <3>3, <3>4
  <2>10. now >= p.at + Quality[t].minLatency
    <3>1. Quality[t].minLatency = MinDelay(t) + MinDelay(s)
      BY <1>2 DEF Quality
    <3>2. p.at + MinDelay(t) <= e.arrived
      BY <1>2 DEF Latency, p
    <3>3. e.arrived + MinDelay(s) <= e.time
      BY DEF IInv, InTimes
    <3>4. MinDelay(t) \in Nat /\ MinDelay(s) \in Nat
      BY <1>2, <1>3, DelayBounds
    <3>5. p.at \in Nat /\ e.arrived \in Nat /\ e.time \in Nat
      BY <2>8 DEF InEntry, Packet, p
    <3> QED BY <1>3, <1>5, <3>1, <3>2, <3>3, <3>4, <3>5
  <2> HIDE DEF t
  <2>11. Received' = [Received EXCEPT ![Peer(p.from)] = Append(@, p)]
    BY <1>2, <2>7, <2>9
  <2> QED BY <1>1, <1>2, <2>7, <2>10, <2>11, DeliverRefines
<1> QED BY <1>1, <1>4, <1>5 DEF Deliver, Fronts

LEMMA InitRefines == Init => Datagrams!Init
<1> SUFFICES ASSUME Init PROVE Datagrams!Init
  OBVIOUS
<1>1. TypeOK
  BY InitIInv DEF IInv
<1>2. Quality \in [Side -> [minLatency : Nat, lossy : BOOLEAN]]
  <2>1. ASSUME NEW s \in Side PROVE MinDelay(s) + MinDelay(Peer(s)) \in Nat
    <3>1. Peer(s) \in Side
      BY PeerType
    <3>2. MinDelay(s) \in Nat /\ MinDelay(Peer(s)) \in Nat
      BY <1>1, <3>1, DelayBounds
    <3> QED BY <3>2
  <2> QED BY <2>1, ProxyAssumption DEF Quality, ProxyAssumption
<1>3. AllInFlight = {}
  <2>1. Elements(<< >>) = {} /\ PacketsIn({}) = {}
    BY DEF Elements, PacketsIn
  <2>2. ASSUME NEW s \in Side PROVE InFlight(s) = {}
    <3>1. scheduledOut[s] = {} /\ scheduledIn[Peer(s)] = {} /\ incoming[Peer(s)] = << >>
      BY PeerType DEF Init, Empty
    <3> QED BY <2>1, <3>1 DEF InFlight, Waiting, Wire, Arrived
  <2> QED BY <2>2 DEF AllInFlight
<1>4. Received = Empty
  <2>1. ASSUME NEW s \in Side
        PROVE  [i \in DOMAIN polled[s] |-> polled[s][i].packet] = << >>
    BY DEF Init, Empty
  <2> QED BY <2>1 DEF Received, Empty
<1>5. now = 0 /\ sentCount = [s \in Side |-> 0]
  BY DEF Init
<1> QED BY <1>2, <1>3, <1>4, <1>5, SameEnds DEF Datagrams!Init, Quality, AllInFlight, Received

LEMMA NextRefines ==
  ASSUME LinkInv, [Next]_vars
  PROVE  Datagrams!Next \/ UNCHANGED <<now, Quality, sentCount, AllInFlight, Received>>
<1>1. IInv /\ TypeOK /\ Latency /\ \A t \in Side : Placed(t)
  BY DEF LinkInv, IInv
<1>2. ASSUME UNCHANGED <<settings, scheduledOut, scheduledIn, incoming, sentCount, polled>>
      PROVE  UNCHANGED <<Quality, sentCount, AllInFlight, Received>>
  BY <1>2, SameQuality, SameReceived DEF AllInFlight, InFlight, Waiting, Wire, Arrived
<1>3. CASE Tick
  BY <1>2, <1>3, TickRefines DEF Tick
<1>4. CASE UNCHANGED vars
  BY <1>2, <1>4 DEF vars
<1>5. ASSUME NEW s \in Side, CallSend(s) \/ CallPoll(s) \/ FlushDone(s) \/ PumpDone(s)
      PROVE  UNCHANGED <<now, Quality, sentCount, AllInFlight, Received>>
  BY <1>2, <1>5 DEF CallSend, CallPoll, Enter, FlushDone, PumpDone
<1>6. ASSUME NEW s \in Side, Schedule(s) PROVE Datagrams!Next
  BY <1>1, <1>6, ScheduleRefines
<1>7. ASSUME NEW s \in Side, FlushOne(s) \/ PumpOne(s) \/ Deliver(s)
      PROVE  Datagrams!Next \/ UNCHANGED <<now, Quality, sentCount, AllInFlight, Received>>
  BY <1>1, <1>7, FlushOneRefines, PumpOneRefines, DeliverStepRefines
<1> QED BY <1>3, <1>4, <1>5, <1>6, <1>7 DEF Next, Work

\* Two proxied endpoints are a datagram link for all settings, any number of
\* packets and any advance of the clock: no packet is invented, altered or
\* delivered twice by PollPacket, none before the least delays of both proxies,
\* and none is lost where the settings and the wrapped endpoints lose none.
THEOREM ImplementsDatagramLink == Spec => DatagramSpec
<1>1. LinkInv /\ [Next]_vars => [Datagrams!Next]_(Datagrams!linkVars)
  BY NextRefines, DatagramVars
  DEF Datagrams!linkVars, Quality, AllInFlight, Received
<1> QED BY <1>1, InitRefines, LinkInvariance, PTL DEF Spec, DatagramSpec, Datagrams!Spec
=============================================================================
