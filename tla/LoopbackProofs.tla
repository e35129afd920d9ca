--------------------------- MODULE LoopbackProofs ---------------------------
(***************************************************************************)
(* Proofs about LoopbackTransport, for any set of threads on either side   *)
(* and any number of packets: its mutual exclusion, that concurrent calls  *)
(* lose nothing, and that it implements FifoLink.                          *)
(***************************************************************************)
EXTENDS LoopbackTransport, SequenceTheorems, TLAPS

\* A thread between the construction of its packet and the push holds one.
HoldsPacket ==
  \A t \in Thread : pc[t] \in {"send", "push"} => packetForPeer[t] \in Packet

\* The inductive invariant of the locking protocol.
IInv == TypeOK /\ HoldsPacket /\ LockInv

-----------------------------------------------------------------------------
(* Sides.                                                                  *)

LEMMA PeerType ==
  ASSUME NEW s \in Side
  PROVE  Peer(s) \in Side /\ Peer(s) # s /\ Peer(Peer(s)) = s
BY DEF Peer, Side

LEMMA PushesToPeer ==
  ASSUME NEW s \in Side
  PROVE  /\ PeerIncomingQueueToWrite(s) \in Side
         /\ PeerIncomingQueueToWrite(s) = Peer(s)
         /\ IncomingQueueToRead(s) \in Side
         /\ IncomingQueueToRead(s) = s
BY PeerType DEF PeerIncomingQueueToWrite, IncomingQueueToRead

-----------------------------------------------------------------------------
(* The inductive invariant.                                                *)

LEMMA InitIInv == Init => IInv
<1> SUFFICES ASSUME Init PROVE IInv
  OBVIOUS
<1> USE LoopbackAssumption DEF LoopbackAssumption
<1>1. TypeOK
  BY DEF Init, TypeOK, Empty
<1>2. HoldsPacket /\ LockInv
  BY DEF Init, HoldsPacket, LockInv
<1> QED
  BY <1>1, <1>2 DEF IInv

LEMMA BuildIInv ==
  ASSUME IInv, NEW t \in Thread, BuildPacket(t)
  PROVE  IInv'
<1> USE LoopbackAssumption DEF LoopbackAssumption
<1> DEFINE p == [id |-> nextId, sourceAddress |-> LocalAddress[SideOf[t]]]
<1>1. p \in Packet
  <2>1. nextId \in 1..MaxPackets
    BY DEF IInv, TypeOK, BuildPacket
  <2>2. SideOf[t] \in Side /\ LocalAddress[SideOf[t]] \in Address
    BY DEF LoopbackAssumption
  <2> QED
    BY <2>1, <2>2 DEF Packet
<1>2. TypeOK'
  BY <1>1 DEF IInv, TypeOK, BuildPacket
<1>3. HoldsPacket'
  BY <1>1 DEF IInv, TypeOK, BuildPacket, HoldsPacket
<1>4. LockInv'
  BY DEF IInv, TypeOK, BuildPacket, LockInv, QueueOf
<1> QED
  BY <1>2, <1>3, <1>4 DEF IInv

LEMMA LockIInv ==
  ASSUME IInv, NEW t \in Thread, LockToPush(t) \/ LockToPop(t)
  PROVE  IInv'
<1> USE LoopbackAssumption DEF LoopbackAssumption
<1>1. PICK from \in {"idle", "send"}, to \in {"push", "pop"}, queue \in Side :
        /\ Lock(t, from, to, queue)
        /\ from = "idle" <=> to = "pop"
        /\ queue = IF to = "push" THEN PeerIncomingQueueToWrite(SideOf[t])
                                  ELSE IncomingQueueToRead(SideOf[t])
  BY PushesToPeer DEF LockToPush, LockToPop
<1>2. TypeOK'
  BY <1>1 DEF IInv, TypeOK, Lock
<1>3. HoldsPacket'
  BY <1>1 DEF IInv, TypeOK, Lock, HoldsPacket
<1>4. LockInv'
  BY <1>1 DEF IInv, TypeOK, Lock, LockInv, QueueOf
<1> QED
  BY <1>2, <1>3, <1>4 DEF IInv

\* What a thread does to a deque inside its critical section disturbs no other.
LEMMA PushIInv ==
  ASSUME IInv, NEW t \in Thread, PushBack(t)
  PROVE  IInv'
<1> USE LoopbackAssumption DEF LoopbackAssumption
<1>1. /\ SideOf[t] \in Side
      /\ PeerIncomingQueueToWrite(SideOf[t]) \in Side
      /\ packetForPeer[t] \in Packet
  BY PushesToPeer DEF IInv, PushBack, HoldsPacket
<1>2. TypeOK'
  BY <1>1 DEF IInv, TypeOK, PushBack, Unlock
<1>3. HoldsPacket'
  BY DEF IInv, TypeOK, PushBack, Unlock, HoldsPacket
<1>4. LockInv'
  BY DEF IInv, TypeOK, PushBack, Unlock, LockInv
<1> QED
  BY <1>2, <1>3, <1>4 DEF IInv

LEMMA PopIInv ==
  ASSUME IInv, NEW t \in Thread, PopFront(t)
  PROVE  IInv'
<1> USE LoopbackAssumption DEF LoopbackAssumption
<1>1. /\ SideOf[t] \in Side
      /\ IncomingQueueToRead(SideOf[t]) \in Side
      /\ view[t] \in Seq(Packet)
  BY PushesToPeer DEF IInv, TypeOK
<1>2. TypeOK'
  <2>1. CASE view[t] = << >>
    BY <2>1 DEF IInv, TypeOK, PopFront, Unlock
  <2>2. CASE view[t] # << >>
    <3>1. Head(view[t]) \in Packet /\ Tail(view[t]) \in Seq(Packet)
      BY <1>1, <2>2
    <3>2. incoming' \in [Side -> Seq(Packet)]
      BY <1>1, <2>2, <3>1 DEF IInv, TypeOK, PopFront
    <3>3. Append(polled[SideOf[t]], Head(view[t])) \in Seq(Packet)
      BY <1>1, <3>1 DEF IInv, TypeOK
    <3>4. polled' \in [Side -> Seq(Packet)]
      BY <1>1, <2>2, <3>3 DEF IInv, TypeOK, PopFront
    <3> QED
      BY <3>2, <3>4 DEF IInv, TypeOK, PopFront, Unlock
  <2> QED
    BY <2>1, <2>2
<1>3. HoldsPacket'
  BY DEF IInv, TypeOK, PopFront, Unlock, HoldsPacket
<1>4. LockInv'
  BY DEF IInv, TypeOK, PopFront, Unlock, LockInv
<1> QED
  BY <1>2, <1>3, <1>4 DEF IInv

LEMMA StutterIInv == IInv /\ UNCHANGED vars => IInv'
BY DEF IInv, TypeOK, HoldsPacket, LockInv, QueueOf, vars

LEMMA NextIInv == IInv /\ [Next]_vars => IInv'
BY BuildIInv, LockIInv, PushIInv, PopIInv, StutterIInv DEF Next, Step

LEMMA Invariance == Spec => []IInv
BY InitIInv, NextIInv, PTL DEF Spec

\* Every variable keeps its type: the deques hold whole packets of the senders.
THEOREM TypeCorrect == Spec => []TypeOK
<1>1. IInv => TypeOK
  BY DEF IInv
<1> QED
  BY <1>1, Invariance, PTL

\* Mutual exclusion of SendPacket and PollPacket on the shared buffer, and that
\* no thread ever writes back a deque another thread has changed since.
THEOREM MutualExclusion == Spec => []LockInv
<1>1. IInv => LockInv
  BY DEF IInv
<1> QED
  BY <1>1, Invariance, PTL

-----------------------------------------------------------------------------
(* No packet is lost, repeated, reordered or misdirected.                  *)

LEMMA ConcatAppend ==
  ASSUME NEW S, NEW u \in Seq(S), NEW v \in Seq(S), NEW e \in S
  PROVE  u \o Append(v, e) = Append(u \o v, e)
<1>1. Append(v, e) = v \o <<e>> /\ Append(u \o v, e) = (u \o v) \o <<e>>
  BY AppendIsConcat, ConcatProperties
<1>2. u \o (v \o <<e>>) = (u \o v) \o <<e>>
  BY ConcatAssociative
<1> QED
  BY <1>1, <1>2

LEMMA ConcatHeadTail ==
  ASSUME NEW S, NEW u \in Seq(S), NEW v \in Seq(S), v # << >>
  PROVE  Append(u, Head(v)) \o Tail(v) = u \o v
<1>1. Head(v) \in S /\ Tail(v) \in Seq(S) /\ v = <<Head(v)>> \o Tail(v)
  BY HeadTailProperties, ConcatProperties
<1>2. Append(u, Head(v)) = u \o <<Head(v)>>
  BY <1>1, AppendIsConcat
<1>3. u \o (<<Head(v)>> \o Tail(v)) = (u \o <<Head(v)>>) \o Tail(v)
  BY <1>1, ConcatAssociative
<1> QED
  BY <1>1, <1>2, <1>3

LEMMA PushKeepsPackets ==
  ASSUME IInv, NothingLost, NEW t \in Thread, PushBack(t)
  PROVE  NothingLost'
<1> USE LoopbackAssumption DEF LoopbackAssumption
<1> DEFINE s == SideOf[t]
           p == packetForPeer[t]
<1>1. s \in Side /\ Peer(s) \in Side /\ Peer(s) # s /\ Peer(Peer(s)) = s
  BY PeerType
<1>2. view[t] = incoming[Peer(s)] /\ p \in Packet
  BY DEF IInv, LockInv, QueueOf, PushBack, HoldsPacket, PeerIncomingQueueToWrite
<1>3. /\ incoming' = [incoming EXCEPT ![Peer(s)] = Append(incoming[Peer(s)], p)]
      /\ accepted' = [accepted EXCEPT ![s] = Append(accepted[s], p)]
      /\ polled' = polled
  BY <1>2 DEF PushBack, PeerIncomingQueueToWrite
<1>4. accepted[s] = polled[Peer(s)] \o incoming[Peer(s)]
  BY <1>1 DEF NothingLost
<1>5. Append(accepted[s], p) = polled[Peer(s)] \o Append(incoming[Peer(s)], p)
  <2>1. polled[Peer(s)] \in Seq(Packet) /\ incoming[Peer(s)] \in Seq(Packet)
    BY <1>1 DEF IInv, TypeOK
  <2>2. polled[Peer(s)] \o Append(incoming[Peer(s)], p)
          = Append(polled[Peer(s)] \o incoming[Peer(s)], p)
    <3>1. ASSUME NEW u \in Seq(Packet), NEW v \in Seq(Packet), NEW e \in Packet
          PROVE  u \o Append(v, e) = Append(u \o v, e)
      BY ConcatAppend
    <3> QED
      BY <1>2, <2>1, <3>1
  <2> QED
    BY <1>4, <2>2
<1>6. SUFFICES ASSUME NEW r \in Side
               PROVE  accepted'[Peer(r)] = polled'[r] \o incoming'[r]
  BY DEF NothingLost
<1>7. CASE r = Peer(s)
  BY <1>1, <1>3, <1>5, <1>7 DEF IInv, TypeOK
<1>8. CASE r = s
  BY <1>1, <1>3, <1>8 DEF IInv, TypeOK, NothingLost
<1> QED
  BY <1>1, <1>7, <1>8 DEF Side

LEMMA PopKeepsPackets ==
  ASSUME IInv, NothingLost, NEW t \in Thread, PopFront(t)
  PROVE  NothingLost'
<1> USE LoopbackAssumption DEF LoopbackAssumption
<1> DEFINE s == SideOf[t]
<1>1. s \in Side /\ IncomingQueueToRead(s) = s
  BY PushesToPeer
<1>2. view[t] = incoming[s] /\ accepted' = accepted
  BY <1>1 DEF IInv, LockInv, QueueOf, PopFront
<1>3. CASE view[t] = << >>
  BY <1>2, <1>3 DEF PopFront, NothingLost
<1>4. CASE view[t] # << >>
  <2>1. /\ polled' = [polled EXCEPT ![s] = Append(polled[s], Head(incoming[s]))]
        /\ incoming' = [incoming EXCEPT ![s] = Tail(incoming[s])]
    BY <1>1, <1>2, <1>4 DEF PopFront
  <2>2. Append(polled[s], Head(incoming[s])) \o Tail(incoming[s])
          = polled[s] \o incoming[s]
    <3>1. polled[s] \in Seq(Packet) /\ incoming[s] \in Seq(Packet)
      BY <1>1 DEF IInv, TypeOK
    <3>2. incoming[s] # << >>
      BY <1>2, <1>4
    <3>3. ASSUME NEW u \in Seq(Packet), NEW v \in Seq(Packet), v # << >>
          PROVE  Append(u, Head(v)) \o Tail(v) = u \o v
      BY <3>3, ConcatHeadTail
    <3> HIDE DEF s
    <3> QED
      BY <3>1, <3>2, <3>3
  <2>3. SUFFICES ASSUME NEW r \in Side
                 PROVE  accepted'[Peer(r)] = polled'[r] \o incoming'[r]
    BY DEF NothingLost
  <2>4. accepted[Peer(r)] = polled[r] \o incoming[r]
    BY DEF NothingLost
  <2>5. polled'[r] \o incoming'[r] = polled[r] \o incoming[r]
    <3>1. CASE r = s
      BY <1>1, <2>1, <2>2, <3>1 DEF IInv, TypeOK
    <3>2. CASE r # s
      BY <1>1, <2>1, <3>2 DEF IInv, TypeOK
    <3> QED
      BY <3>1, <3>2
  <2> QED
    BY <1>2, <2>4, <2>5
<1> QED
  BY <1>3, <1>4

\* However the calls of any number of threads interleave, each side polls a
\* prefix of what its peer pushed, and the rest still waits.
THEOREM NoPacketLost == Spec => []NothingLost
<1>1. Init => NothingLost
  <2> SUFFICES ASSUME Init, NEW s \in Side
               PROVE  accepted[Peer(s)] = polled[s] \o incoming[s]
    BY DEF NothingLost
  <2> QED
    BY PeerType DEF Init, Empty
<1>2. IInv /\ NothingLost /\ [Next]_vars => NothingLost'
  <2> SUFFICES ASSUME IInv, NothingLost, [Next]_vars
               PROVE  NothingLost'
    OBVIOUS
  <2>1. CASE \E t \in Thread : PushBack(t) \/ PopFront(t)
    BY <2>1, PushKeepsPackets, PopKeepsPackets
  <2>2. CASE UNCHANGED <<incoming, accepted, polled>>
    BY <2>2 DEF NothingLost
  <2> QED
    BY <2>1, <2>2
    DEF Next, Step, BuildPacket, LockToPush, LockToPop, Lock, vars
<1> QED
  BY <1>1, <1>2, Invariance, PTL DEF Spec

-----------------------------------------------------------------------------
(* Replies go back to the endpoint that sent.                              *)

\* What a side has built or pushed carries the side's own address.
Signed ==
  /\ \A t \in Thread : pc[t] \in {"send", "push"} =>
       packetForPeer[t].sourceAddress = LocalAddress[SideOf[t]]
  /\ \A s \in Side : \A i \in DOMAIN accepted[s] :
       accepted[s][i].sourceAddress = LocalAddress[s]

LEMMA ConcatPrefix ==
  ASSUME NEW S, NEW q \in Seq(S), NEW r \in Seq(S), NEW i \in DOMAIN q
  PROVE  i \in DOMAIN (q \o r) /\ (q \o r)[i] = q[i]
<1>1. DOMAIN q = 1..Len(q) /\ Len(q) \in Nat /\ Len(r) \in Nat
  OBVIOUS
<1>2. q \o r \in Seq(S) /\ Len(q \o r) = Len(q) + Len(r)
  OBVIOUS
<1>3. DOMAIN (q \o r) = 1..(Len(q) + Len(r))
  BY <1>2
<1>4. (q \o r)[i] = q[i]
  BY <1>1
<1> QED BY <1>1, <1>3, <1>4

LEMMA PushSigned ==
  ASSUME IInv, Signed, NEW t \in Thread, PushBack(t)
  PROVE  Signed'
<1> DEFINE s == SideOf[t]
<1>1. /\ s \in Side
      /\ pc' = [pc EXCEPT ![t] = "idle"]
      /\ packetForPeer' = [packetForPeer EXCEPT ![t] = NoPacket]
      /\ accepted' = [accepted EXCEPT ![s] = Append(@, packetForPeer[t])]
      /\ packetForPeer[t].sourceAddress = LocalAddress[s]
      /\ packetForPeer[t] \in Packet
  BY LoopbackAssumption
  DEF LoopbackAssumption, PushBack, Unlock, Signed, IInv, HoldsPacket
<1>2. /\ pc \in [Thread -> {"idle", "send", "push", "pop"}]
      /\ packetForPeer \in [Thread -> Packet \cup {NoPacket}]
      /\ accepted \in [Side -> Seq(Packet)]
  BY DEF IInv, TypeOK
<1> HIDE DEF s
<1>3. \A r \in Thread : pc'[r] \in {"send", "push"} =>
        pc[r] = pc'[r] /\ packetForPeer'[r] = packetForPeer[r]
  BY <1>1, <1>2
<1>4. ASSUME NEW r \in Side, NEW i \in DOMAIN accepted'[r]
      PROVE  accepted'[r][i].sourceAddress = LocalAddress[r]
  <2>1. CASE r # s
    BY <1>1, <1>2, <2>1 DEF Signed
  <2>2. CASE r = s
    <3>1. accepted[s] \in Seq(Packet) /\ accepted'[s] = Append(accepted[s], packetForPeer[t])
      BY <1>1, <1>2
    <3>2. \/ i \in DOMAIN accepted[s] /\ accepted'[s][i] = accepted[s][i]
          \/ accepted'[s][i] = packetForPeer[t]
      BY <1>1, <2>2, <3>1
    <3> QED BY <1>1, <2>2, <3>2 DEF Signed
  <2> QED BY <2>1, <2>2
<1> QED BY <1>3, <1>4 DEF Signed

LEMMA NextSigned == IInv /\ Signed /\ [Next]_vars => Signed'
<1> SUFFICES ASSUME IInv, Signed, [Next]_vars PROVE Signed'
  OBVIOUS
<1>1. ASSUME NEW t \in Thread, BuildPacket(t) PROVE Signed'
  BY <1>1 DEF BuildPacket, Signed, IInv, TypeOK
<1>2. ASSUME NEW t \in Thread, LockToPush(t) PROVE Signed'
  BY <1>2 DEF LockToPush, Lock, Signed, IInv, TypeOK
<1>3. ASSUME NEW t \in Thread, LockToPop(t) PROVE Signed'
  BY <1>3 DEF LockToPop, Lock, Signed, IInv, TypeOK
<1>4. ASSUME NEW t \in Thread, PushBack(t) PROVE Signed'
  BY <1>4, PushSigned
<1>5. ASSUME NEW t \in Thread, PopFront(t) PROVE Signed'
  BY <1>5 DEF PopFront, Unlock, Signed, IInv, TypeOK
<1>6. CASE UNCHANGED vars
  BY <1>6 DEF vars, Signed
<1> QED BY <1>1, <1>2, <1>3, <1>4, <1>5, <1>6 DEF Next, Step

\* A polled packet names the other endpoint's local address as its source, for
\* any threads that send and poll at once.
THEOREM RepliesReachSender == Spec => []SourceIsPeer
<1>1. Init => Signed
  <2> SUFFICES ASSUME Init PROVE Signed
    OBVIOUS
  <2>1. \A s \in Side : accepted[s] = << >>
    BY DEF Init, Empty
  <2>2. DOMAIN << >> = {}
    OBVIOUS
  <2> QED BY <2>1, <2>2 DEF Init, Signed
<1>2. IInv /\ Signed /\ NothingLost => SourceIsPeer
  <2> SUFFICES ASSUME IInv, Signed, NothingLost, NEW s \in Side, NEW i \in DOMAIN polled[s]
               PROVE  polled[s][i].sourceAddress = LocalAddress[Peer(s)]
    BY DEF SourceIsPeer
  <2>1. polled[s] \in Seq(Packet) /\ incoming[s] \in Seq(Packet) /\ Peer(s) \in Side
    BY PeerType DEF IInv, TypeOK
  <2>2. /\ i \in DOMAIN (polled[s] \o incoming[s])
        /\ (polled[s] \o incoming[s])[i] = polled[s][i]
    BY <2>1, ConcatPrefix
  <2>3. accepted[Peer(s)] = polled[s] \o incoming[s]
    BY DEF NothingLost
  <2>4. i \in DOMAIN accepted[Peer(s)] /\ accepted[Peer(s)][i] = polled[s][i]
    BY <2>2, <2>3
  <2>5. accepted[Peer(s)][i].sourceAddress = LocalAddress[Peer(s)]
    BY <2>1, <2>4, Zenon DEF Signed
  <2> QED BY <2>4, <2>5
<1> QED
  BY <1>1, <1>2, NextSigned, Invariance, NoPacketLost, PTL DEF Spec

-----------------------------------------------------------------------------
(* Refinement of FifoLink.                                                 *)

LEMMA SameSides ==
  /\ Link!Side = Side
  /\ Link!Empty = Empty
  /\ \A s \in Side : Link!Peer(s) = Peer(s)
BY DEF Link!Side, Side, Link!Empty, Empty, Link!Peer, Peer

\* A push is the Send of FifoLink: the deque is the one read under the lock.
LEMMA PushRefines ==
  ASSUME IInv, NEW t \in Thread, PushBack(t)
  PROVE  Link!Next
<1> USE LoopbackAssumption DEF LoopbackAssumption
<1>1. SideOf[t] \in Side
  OBVIOUS
<1>2. /\ view[t] = incoming[Peer(SideOf[t])]
      /\ packetForPeer[t] \in Packet
  BY DEF IInv, LockInv, QueueOf, PushBack, HoldsPacket, PeerIncomingQueueToWrite
<1>3. Link!Send(SideOf[t], packetForPeer[t])
  BY <1>2, SameSides DEF Link!Send, PushBack, PeerIncomingQueueToWrite
<1> QED
  BY <1>1, <1>2, <1>3, SameSides DEF Link!Next

\* A pop is the Poll of FifoLink, or finds the deque empty and changes nothing.
LEMMA PopRefines ==
  ASSUME IInv, NEW t \in Thread, PopFront(t)
  PROVE  Link!Next \/ UNCHANGED Link!linkVars
<1> USE LoopbackAssumption DEF LoopbackAssumption
<1>1. SideOf[t] \in Side
  OBVIOUS
<1>2. view[t] = incoming[SideOf[t]]
  BY DEF IInv, LockInv, QueueOf, PopFront, IncomingQueueToRead
<1>3. CASE view[t] = << >>
  BY <1>3 DEF PopFront, Link!linkVars
<1>4. CASE view[t] # << >>
  <2>1. Link!Poll(SideOf[t])
    BY <1>2, <1>4 DEF PopFront, Link!Poll, IncomingQueueToRead
  <2> QED
    BY <1>1, <2>1, SameSides DEF Link!Next
<1> QED
  BY <1>3, <1>4

\* The mutex makes a pair of endpoints indistinguishable from two atomic queues.
THEOREM ImplementsFifoLink == Spec => LinkSpec
<1>1. Init => Link!Init
  BY SameSides DEF Init, Link!Init
<1>2. IInv /\ [Next]_vars => [Link!Next]_(Link!linkVars)
  <2> SUFFICES ASSUME IInv, [Next]_vars
               PROVE  Link!Next \/ UNCHANGED Link!linkVars
    OBVIOUS
  <2>1. CASE \E t \in Thread : PushBack(t) \/ PopFront(t)
    BY <2>1, PushRefines, PopRefines
  <2>2. CASE UNCHANGED <<incoming, polled>>
    BY <2>2 DEF Link!linkVars
  <2> QED
    BY <2>1, <2>2
    DEF Next, Step, BuildPacket, LockToPush, LockToPop, Lock, vars
<1> QED
  BY <1>1, <1>2, Invariance, PTL DEF Spec, LinkSpec, Link!Spec
=============================================================================
