------------------------- MODULE LoopbackTransport -------------------------
(***************************************************************************)
(* LoopbackTransportEndpoint: two in-process endpoints that share one      *)
(* buffer of two deques behind a mutex.  Any number of threads may call    *)
(* SendPacket and PollPacket on either endpoint.                           *)
(*                                                                         *)
(* A call is split where another thread can run: SendPacket builds its     *)
(* packet before it takes the lock, and the deque is read and written back *)
(* in separate steps inside the lock, so that a critical section another   *)
(* thread could enter would lose or repeat packets.                        *)
(***************************************************************************)
EXTENDS Endpoints, Naturals

CONSTANTS
  Thread,              \* the threads that call the endpoints
  NoThread,            \* the owner of a free mutex
  SideOf,              \* the endpoint each thread calls
  Address,             \* socket addresses a caller can name
  LocalAddress,        \* LocalAddress[s]: mLocalAddress of the endpoint s
  MaxPackets           \* bound: packets built in one behaviour

ASSUME LoopbackAssumption ==
  /\ NoThread \notin Thread
  /\ SideOf \in [Thread -> Side]
  /\ LocalAddress \in [Side -> Address]
  /\ MaxPackets \in Nat

VARIABLES
  mutex,               \* the thread that holds mSharedBuffer->m
  incoming,            \* the two deques of the shared buffer
  pc,                  \* where each thread is
  packetForPeer,       \* the packet a sender has built
  view,                \* the deque as a thread read it inside the lock
  nextId,              \* number of the next packet (names its payload)
  accepted,            \* history: accepted[s], packets of side s pushed, in order
  polled               \* history: polled[s], packets polled by side s, in order

vars == <<mutex, incoming, pc, packetForPeer, view, nextId, accepted, polled>>

Packet == [id : 1..MaxPackets, sourceAddress : Address]

NoPacket == [id |-> 0]

-----------------------------------------------------------------------------
(* CreateConnectedEndpoints: both endpoints get the same, empty, buffer.   *)

Init ==
  /\ mutex = NoThread
  /\ incoming = Empty
  /\ pc = [t \in Thread |-> "idle"]
  /\ packetForPeer = [t \in Thread |-> NoPacket]
  /\ view = [t \in Thread |-> << >>]
  /\ nextId = 1
  /\ accepted = Empty
  /\ polled = Empty

-----------------------------------------------------------------------------
(* SendPacket.  The destination the caller names is not used: the packet   *)
(* goes to the peer.                                                       *)

\* Mutant of BuildPacket: the packet keeps the address it was constructed with.
BuildPacketNoSource(t) ==
  /\ pc[t] = "idle"
  /\ nextId <= MaxPackets
  /\ packetForPeer' =
       [packetForPeer EXCEPT ![t] = [id |-> nextId, sourceAddress |-> ""]]
  /\ nextId' = nextId + 1
  /\ pc' = [pc EXCEPT ![t] = "send"]
  /\ UNCHANGED <<mutex, incoming, view, accepted, polled>>

BuildPacket(t) ==
  /\ pc[t] = "idle"
  /\ nextId <= MaxPackets
  /\ packetForPeer' =
       [packetForPeer EXCEPT ![t] =
          [id |-> nextId, sourceAddress |-> LocalAddress[SideOf[t]]]]
  /\ nextId' = nextId + 1
  /\ pc' = [pc EXCEPT ![t] = "send"]
  /\ UNCHANGED <<mutex, incoming, view, accepted, polled>>

\* Mutant of Lock: the deque is accessed without waiting for the mutex.
LockNoWait(t, from, to, queue) ==
  /\ pc[t] = from
  /\ mutex' = t
  /\ view' = [view EXCEPT ![t] = incoming[queue]]
  /\ pc' = [pc EXCEPT ![t] = to]
  /\ UNCHANGED <<incoming, packetForPeer, nextId, accepted, polled>>

\* The scoped_lock of either method, and the first access to the deque.
Lock(t, from, to, queue) ==
  /\ pc[t] = from
  /\ mutex = NoThread
  /\ mutex' = t
  /\ view' = [view EXCEPT ![t] = incoming[queue]]
  /\ pc' = [pc EXCEPT ![t] = to]
  /\ UNCHANGED <<incoming, packetForPeer, nextId, accepted, polled>>

\* The end of the scope of the scoped_lock: the call returns.
Unlock(t) ==
  /\ mutex' = NoThread
  /\ pc' = [pc EXCEPT ![t] = "idle"]

LockToPush(t) ==
  Lock(t, "send", "push", PeerIncomingQueueToWrite(SideOf[t]))

\* Mutant of PushBack: the packet is put at the front.
PushFront(t) ==
  LET s == SideOf[t] IN
  /\ pc[t] = "push"
  /\ incoming' = [incoming EXCEPT ![PeerIncomingQueueToWrite(s)] =
                    <<packetForPeer[t]>> \o view[t]]
  /\ accepted' = [accepted EXCEPT ![s] = Append(@, packetForPeer[t])]
  /\ packetForPeer' = [packetForPeer EXCEPT ![t] = NoPacket]
  /\ view' = [view EXCEPT ![t] = << >>]
  /\ Unlock(t)
  /\ UNCHANGED <<nextId, polled>>

PushBack(t) ==
  LET s == SideOf[t] IN
  /\ pc[t] = "push"
  /\ incoming' = [incoming EXCEPT ![PeerIncomingQueueToWrite(s)] =
                    Append(view[t], packetForPeer[t])]
  /\ accepted' = [accepted EXCEPT ![s] = Append(@, packetForPeer[t])]
  /\ packetForPeer' = [packetForPeer EXCEPT ![t] = NoPacket]
  /\ view' = [view EXCEPT ![t] = << >>]
  /\ Unlock(t)
  /\ UNCHANGED <<nextId, polled>>

-----------------------------------------------------------------------------
(* PollPacket: pops one packet, or returns false when there is none.       *)

LockToPop(t) ==
  Lock(t, "idle", "pop", IncomingQueueToRead(SideOf[t]))

\* Mutant of PopFront: one packet too few counts as none.
PopFrontNotLast(t) ==
  LET s == SideOf[t] IN
  /\ pc[t] = "pop"
  /\ IF Len(view[t]) <= 1
       THEN UNCHANGED <<incoming, polled>>
       ELSE /\ polled' = [polled EXCEPT ![s] = Append(@, Head(view[t]))]
            /\ incoming' = [incoming EXCEPT ![IncomingQueueToRead(s)] = Tail(view[t])]
  /\ view' = [view EXCEPT ![t] = << >>]
  /\ Unlock(t)
  /\ UNCHANGED <<packetForPeer, nextId, accepted>>

PopFront(t) ==
  LET s == SideOf[t] IN
  /\ pc[t] = "pop"
  /\ IF view[t] = << >>
       THEN UNCHANGED <<incoming, polled>>
       ELSE /\ polled' = [polled EXCEPT ![s] = Append(@, Head(view[t]))]
            /\ incoming' = [incoming EXCEPT ![IncomingQueueToRead(s)] = Tail(view[t])]
  /\ view' = [view EXCEPT ![t] = << >>]
  /\ Unlock(t)
  /\ UNCHANGED <<packetForPeer, nextId, accepted>>

-----------------------------------------------------------------------------
Step(t) ==
  \/ BuildPacket(t)
  \/ LockToPush(t)
  \/ PushBack(t)
  \/ LockToPop(t)
  \/ PopFront(t)

Next == \E t \in Thread : Step(t)

Spec == Init /\ [][Next]_vars

\* A thread inside the lock is scheduled until it leaves.  Nothing is assumed
\* of a thread that waits for the mutex: std::mutex promises it no turn.
Fairness == \A t \in Thread : WF_vars(PushBack(t) \/ PopFront(t))

FairSpec == Spec /\ Fairness

-----------------------------------------------------------------------------
(* Properties.                                                             *)

TypeOK ==
  /\ mutex \in Thread \cup {NoThread}
  /\ incoming \in [Side -> Seq(Packet)]
  /\ pc \in [Thread -> {"idle", "send", "push", "pop"}]
  /\ packetForPeer \in [Thread -> Packet \cup {NoPacket}]
  /\ view \in [Thread -> Seq(Packet)]
  /\ nextId \in 1..(MaxPackets + 1)
  /\ accepted \in [Side -> Seq(Packet)]
  /\ polled \in [Side -> Seq(Packet)]

\* The deque a thread works on inside the lock.
QueueOf(t) ==
  IF pc[t] = "push" THEN PeerIncomingQueueToWrite(SideOf[t])
                    ELSE IncomingQueueToRead(SideOf[t])

\* The scoped_lock of SendPacket and PollPacket keeps a thread alone in its
\* critical section, so the deque is still what the thread read on entry when
\* it writes the deque back: no push and no pop of another thread is undone.
LockInv ==
  \A t \in Thread :
    /\ (mutex = t) <=> (pc[t] \in {"push", "pop"})
    /\ mutex = t => view[t] = incoming[QueueOf(t)]

\* What a side has polled, followed by what waits for it, is what its peer's
\* SendPacket calls pushed, in the order of the pushes: no packet is lost,
\* repeated, reordered or handed to the wrong side by concurrent calls.
NothingLost ==
  \A s \in Side : accepted[Peer(s)] = polled[s] \o incoming[s]

\* A polled packet names the local address of the other endpoint as its
\* source, so a reply to sourceAddress is meant for the endpoint that sent it.
SourceIsPeer ==
  \A s \in Side : \A i \in DOMAIN polled[s] :
    polled[s][i].sourceAddress = LocalAddress[Peer(s)]

\* The two endpoints behave as a pair of atomic queues: every critical section
\* is one Send or one Poll of FifoLink, or changes nothing.
Link == INSTANCE FifoLink
LinkSpec == Link!Spec

\* An endpoint that goes on being polled hands over every packet pushed to it,
\* whatever the scheduling of the threads that wait for the mutex.
PollingDrains ==
  \A s \in Side : \A n \in 1..MaxPackets :
    LET Has(queue) == \E i \in DOMAIN queue : queue[i].id = n IN
    ([]<><<\E t \in Thread : SideOf[t] = s /\ LockToPop(t)>>_vars)
      => (Has(accepted[Peer(s)]) ~> Has(polled[s]))
=============================================================================
