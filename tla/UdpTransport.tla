---------------------------- MODULE UdpTransport ----------------------------
(***************************************************************************)
(* UDPTransportEndpoint over UDPSocket: Create with its failures, sending, *)
(* polling and destruction, one thread per endpoint (mReceivedBuffer has   *)
(* no lock).  The kernel and the network are external: datagrams may be    *)
(* lost, duplicated and reordered, calls may fail, and other programs may  *)
(* send what an endpoint never would.                                      *)
(*                                                                         *)
(* The bytes of a payload are all the number of its datagram, so that a    *)
(* byte tells where it comes from.                                         *)
(***************************************************************************)
EXTENDS Integers, Sequences, FiniteSets

CONSTANTS
  Endpoints,           \* endpoint objects
  Addresses,           \* local addresses
  AddressesFor,        \* AddressesFor[e]: those its owner gives to Create
  Foreign,             \* address of another program
  PacketSizes,         \* values given as maximumPacketSize
  Lengths,             \* lengths of the payloads given to SendPacket
  ForeignLengths,      \* lengths of what other programs send
  MaxDatagrams,        \* bound: datagrams sent
  MaxFaults            \* bound: failed calls and duplicated datagrams

Nobody == "nobody"

ASSUME UdpAssumption ==
  /\ Foreign \notin Addresses
  /\ Nobody \notin Endpoints
  /\ AddressesFor \in [Endpoints -> SUBSET Addresses]
  /\ PacketSizes \subseteq Int
  /\ Lengths \subseteq Nat
  /\ ForeignLengths \subseteq Nat
  /\ MaxDatagrams \in Nat
  /\ MaxFaults \in Nat

VARIABLES
  windows,             \* whether the build is for Windows
  phase,               \* how far Create has come
  mAddress,            \* the address given to Create
  blocking,            \* whether the socket's calls block
  mReceivedBuffer,     \* what it holds; its length is the maximum packet size
  bytesReceived,       \* the result of ReceiveFrom, in PollPacket
  pc,                  \* "received" between ReceiveFrom and the end of PollPacket
  boundTo,             \* kernel: the endpoint whose socket has an address
  queue,               \* kernel: datagrams waiting at a socket
  reset,               \* kernel: whether a "connection reset" waits there
  network,             \* datagrams on their way
  source,              \* sourceAddress of the running PollPacket
  sent,                \* history: datagrams handed to the kernel
  polled,              \* history: packets PollPacket has returned
  faults               \* counts the bounded faults

local == <<mReceivedBuffer, bytesReceived, pc, source>>
kernel == <<boundTo, queue, reset, network, sent>>
vars == <<windows, phase, mAddress, blocking, local, kernel, polled, faults>>

Fault == faults < MaxFaults /\ faults' = faults + 1

Init ==
  /\ windows \in BOOLEAN
  /\ phase = [e \in Endpoints |-> "none"]
  /\ mAddress \in [Endpoints -> {Foreign}]
  /\ blocking = [e \in Endpoints |-> TRUE]
  /\ mReceivedBuffer = [e \in Endpoints |-> << >>]
  /\ bytesReceived = [e \in Endpoints |-> 0]
  /\ pc = [e \in Endpoints |-> "idle"]
  /\ source = [e \in Endpoints |-> Foreign]
  /\ boundTo = [a \in Addresses |-> Nobody]
  /\ queue = [e \in Endpoints |-> << >>]
  /\ reset = [e \in Endpoints |-> FALSE]
  /\ network = {}
  /\ sent = {}
  /\ polled = [e \in Endpoints |-> {}]
  /\ faults = 0

-----------------------------------------------------------------------------
(* Create: the socket, its address, its mode, then the endpoint.  Whenever *)
(* a call fails the socket is destroyed and Create returns null.           *)

\* ~UDPSocket: the kernel forgets the socket and what waited there.
Close(e) ==
  /\ phase' = [phase EXCEPT ![e] = "none"]
  /\ mAddress' = [mAddress EXCEPT ![e] = Foreign]
  /\ blocking' = [blocking EXCEPT ![e] = TRUE]
  /\ boundTo' = [a \in Addresses |-> IF boundTo[a] = e THEN Nobody ELSE boundTo[a]]
  /\ queue' = [queue EXCEPT ![e] = << >>]
  /\ reset' = [reset EXCEPT ![e] = FALSE]
  /\ mReceivedBuffer' = [mReceivedBuffer EXCEPT ![e] = << >>]
  /\ bytesReceived' = [bytesReceived EXCEPT ![e] = 0]
  /\ source' = [source EXCEPT ![e] = Foreign]
  /\ UNCHANGED <<windows, pc, network, sent, polled>>

Create(e, address) ==
  /\ phase[e] = "none"
  /\ phase' = [phase EXCEPT ![e] = "socket"]
  /\ mAddress' = [mAddress EXCEPT ![e] = address]
  /\ UNCHANGED <<windows, blocking, local, kernel, polled, faults>>

Bind(e) ==
  /\ phase[e] = "socket"
  /\ boundTo[mAddress[e]] = Nobody
  /\ phase' = [phase EXCEPT ![e] = "bound"]
  /\ boundTo' = [boundTo EXCEPT ![mAddress[e]] = e]
  /\ UNCHANGED <<windows, mAddress, blocking, local, queue, reset, network, sent,
                 polled, faults>>

BindFails(e) ==
  /\ phase[e] = "socket"
  /\ Close(e)
  /\ \/ boundTo[mAddress[e]] # Nobody /\ UNCHANGED faults
     \/ Fault

\* Mutant of SetNonBlockingFails: the socket stays open.
SetNonBlockingFailsLeaks(e) ==
  /\ phase[e] = "bound"
  /\ Fault
  /\ phase' = [phase EXCEPT ![e] = "none"]
  /\ UNCHANGED <<windows, mAddress, blocking, local, kernel, polled>>

SetNonBlockingFails(e) == phase[e] = "bound" /\ Fault /\ Close(e)

SetNonBlocking(e) ==
  /\ phase[e] = "bound"
  /\ phase' = [phase EXCEPT ![e] = "nonblocking"]
  /\ blocking' = [blocking EXCEPT ![e] = FALSE]
  /\ UNCHANGED <<windows, mAddress, local, kernel, polled, faults>>

\* The constructor.  A maximum size that is not positive was refused at the
\* beginning of Create.
Construct(e, maximumPacketSize) ==
  /\ phase[e] = "nonblocking"
  /\ maximumPacketSize > 0
  /\ phase' = [phase EXCEPT ![e] = "open"]
  /\ mReceivedBuffer' = [mReceivedBuffer EXCEPT ![e] = [i \in 1..maximumPacketSize |-> 0]]
  /\ UNCHANGED <<windows, mAddress, blocking, bytesReceived, pc, source, kernel,
                 polled, faults>>

Destroy(e) == phase[e] = "open" /\ pc[e] = "idle" /\ Close(e) /\ UNCHANGED faults

-----------------------------------------------------------------------------
(* Sending.                                                                *)

\* sendto, which sends all or fails; a failure changes nothing here.
SendTo(from, to, length) ==
  LET id == Cardinality(sent) + 1
      datagram == [from |-> from, to |-> to, payload |-> [i \in 1..length |-> id],
                   id |-> id] IN
  /\ id <= MaxDatagrams
  /\ sent' = sent \cup {datagram}
  /\ network' = network \cup {datagram}
  /\ UNCHANGED <<windows, phase, mAddress, blocking, local, boundTo, queue, reset,
                 polled, faults>>

\* Mutant of SendPacket: an empty payload is sent.
SendPacketEmpty(e, dest, length) ==
  /\ phase[e] = "open"
  /\ pc[e] = "idle"
  /\ SendTo(mAddress[e], dest, length)

SendPacket(e, dest, length) ==
  /\ phase[e] = "open"
  /\ pc[e] = "idle"
  /\ length > 0
  /\ SendTo(mAddress[e], dest, length)

\* Another program sends.
ForeignSend(dest, length) == SendTo(Foreign, dest, length)

-----------------------------------------------------------------------------
(* The network and the kernel.                                             *)

Lose(d) ==
  /\ network' = network \ {d}
  /\ UNCHANGED <<windows, phase, mAddress, blocking, local, boundTo, queue, reset,
                 sent, polled, faults>>

Arrive(d) ==
  LET e == boundTo[d.to] IN
  /\ e # Nobody
  /\ queue' = [queue EXCEPT ![e] = Append(@, d)]
  /\ \/ network' = network \ {d} /\ UNCHANGED faults
     \/ network' = network /\ Fault
  /\ UNCHANGED <<windows, phase, mAddress, blocking, local, boundTo, reset, sent, polled>>

\* Nobody has the address: on Windows the sender's socket is told.
Bounce(d) ==
  /\ boundTo[d.to] = Nobody
  /\ network' = network \ {d}
  /\ reset' = [e \in Endpoints |->
       reset[e] \/ (windows /\ d.from \in Addresses /\ boundTo[d.from] = e)]
  /\ UNCHANGED <<windows, phase, mAddress, blocking, local, boundTo, queue, sent,
                 polled, faults>>

-----------------------------------------------------------------------------
(* Polling: ReceiveFrom, then what PollPacket makes of its result.         *)

Received(e, bytes) ==
  /\ pc[e] = "idle"
  /\ phase[e] = "open"
  /\ pc' = [pc EXCEPT ![e] = "received"]
  /\ bytesReceived' = [bytesReceived EXCEPT ![e] = bytes]
  /\ UNCHANGED <<windows, phase, mAddress, blocking, boundTo, network, sent, polled>>

TakeReset(e) ==
  /\ reset[e]
  /\ Received(e, -1)
  /\ reset' = [reset EXCEPT ![e] = FALSE]
  /\ UNCHANGED <<mReceivedBuffer, source, queue, faults>>

FitsBuffer(e, length) ==
  IF length < Len(mReceivedBuffer[e]) THEN length ELSE Len(mReceivedBuffer[e])

\* Mutant of TakeDatagram: recvfrom may write a byte more than the buffer holds.
TakeDatagramPastEnd(e) ==
  LET d == Head(queue[e]) IN
  /\ queue[e] # << >>
  /\ queue' = [queue EXCEPT ![e] = Tail(@)]
  /\ source' = [source EXCEPT ![e] = d.from]
  /\ mReceivedBuffer' = [mReceivedBuffer EXCEPT ![e] =
       d.payload \o SubSeq(@, Len(d.payload) + 1, Len(@))]
  /\ Received(e, Len(d.payload))
  /\ UNCHANGED <<reset, faults>>

\* Mutant of TakeDatagram: the datagram is left in the queue when it is cut.
TakeDatagramPeeks(e) ==
  LET d == Head(queue[e])
      n == FitsBuffer(e, Len(d.payload)) IN
  /\ queue[e] # << >>
  /\ queue' = IF Len(d.payload) > n THEN queue ELSE [queue EXCEPT ![e] = Tail(@)]
  /\ source' = [source EXCEPT ![e] = d.from]
  /\ mReceivedBuffer' = [mReceivedBuffer EXCEPT ![e] =
       SubSeq(d.payload, 1, n) \o SubSeq(@, n + 1, Len(@))]
  /\ Received(e, IF windows /\ Len(d.payload) > n THEN -1 ELSE n)
  /\ UNCHANGED <<reset, faults>>

\* A datagram longer than the buffer is cut; Windows reports it as an error.
\* It may be taken before a reset that waits.
TakeDatagram(e) ==
  LET d == Head(queue[e])
      n == FitsBuffer(e, Len(d.payload)) IN
  /\ queue[e] # << >>
  /\ queue' = [queue EXCEPT ![e] = Tail(@)]
  /\ source' = [source EXCEPT ![e] = d.from]
  /\ mReceivedBuffer' = [mReceivedBuffer EXCEPT ![e] =
       SubSeq(d.payload, 1, n) \o SubSeq(@, n + 1, Len(@))]
  /\ Received(e, IF windows /\ Len(d.payload) > n THEN -1 ELSE n)
  /\ UNCHANGED <<reset, faults>>

\* Only Windows' would-block error is turned into zero.
WouldBlock(e) ==
  /\ ~reset[e]
  /\ queue[e] = << >>
  /\ ~blocking[e]
  /\ Received(e, IF windows THEN 0 ELSE -1)
  /\ UNCHANGED <<mReceivedBuffer, source, queue, reset, faults>>

ReceiveFails(e) ==
  /\ Received(e, -1)
  /\ Fault
  /\ UNCHANGED <<mReceivedBuffer, source, queue, reset>>

ReceiveFrom(e) == TakeReset(e) \/ TakeDatagram(e) \/ WouldBlock(e) \/ ReceiveFails(e)

\* Mutant of PollPacket: the payload has the size of the buffer.
PollPacketWholeBuffer(e) ==
  /\ pc[e] = "received"
  /\ pc' = [pc EXCEPT ![e] = "idle"]
  /\ polled' = IF bytesReceived[e] <= 0 THEN polled
               ELSE [polled EXCEPT ![e] = @ \cup
                 {[source |-> source[e], at |-> mAddress[e],
                   payload |-> mReceivedBuffer[e]]}]
  /\ bytesReceived' = [bytesReceived EXCEPT ![e] = 0]
  /\ source' = [source EXCEPT ![e] = Foreign]
  /\ UNCHANGED <<windows, phase, mAddress, blocking, mReceivedBuffer, kernel, faults>>

PollPacket(e) ==
  /\ pc[e] = "received"
  /\ pc' = [pc EXCEPT ![e] = "idle"]
  /\ polled' = IF bytesReceived[e] <= 0 THEN polled
               ELSE [polled EXCEPT ![e] = @ \cup
                 {[source |-> source[e], at |-> mAddress[e],
                   payload |-> SubSeq(mReceivedBuffer[e], 1, bytesReceived[e])]}]
  /\ bytesReceived' = [bytesReceived EXCEPT ![e] = 0]
  /\ source' = [source EXCEPT ![e] = Foreign]
  /\ UNCHANGED <<windows, phase, mAddress, blocking, mReceivedBuffer, kernel, faults>>

-----------------------------------------------------------------------------
Creating(e) ==
  \/ \E address \in AddressesFor[e] : Create(e, address)
  \/ Bind(e) \/ BindFails(e)
  \/ SetNonBlocking(e) \/ SetNonBlockingFails(e)
  \/ \E size \in PacketSizes : Construct(e, size)

Kernel == \E d \in network : Lose(d) \/ Arrive(d) \/ Bounce(d)

Sending ==
  \E dest \in Addresses :
    \/ \E length \in ForeignLengths : ForeignSend(dest, length)
    \/ \E length \in Lengths, e \in Endpoints : SendPacket(e, dest, length)

Next ==
  \/ \E e \in Endpoints : Creating(e) \/ Destroy(e) \/ ReceiveFrom(e) \/ PollPacket(e)
  \/ Sending
  \/ Kernel

Spec == Init /\ [][Next]_vars

\* The owner of an endpoint goes on polling it while it exists.
FairSpec ==
  Spec /\ \A e \in Endpoints : WF_vars(ReceiveFrom(e)) /\ WF_vars(PollPacket(e))
-----------------------------------------------------------------------------
(* Properties.                                                             *)

Address == Addresses \cup {Foreign}

Datagram ==
  [from : Address, to : Addresses, id : 1..MaxDatagrams,
   payload : Seq(1..MaxDatagrams)]

Packet == [source : Address, at : Address, payload : Seq(0..MaxDatagrams)]

TypeOK ==
  /\ windows \in BOOLEAN
  /\ phase \in [Endpoints -> {"none", "socket", "bound", "nonblocking", "open"}]
  /\ mAddress \in [Endpoints -> Address]
  /\ blocking \in [Endpoints -> BOOLEAN]
  /\ mReceivedBuffer \in [Endpoints -> Seq(0..MaxDatagrams)]
  /\ bytesReceived \in [Endpoints -> Int]
  /\ \A e \in Endpoints :
       /\ IF phase[e] = "open" THEN Len(mReceivedBuffer[e]) \in PacketSizes \ {0}
                              ELSE mReceivedBuffer[e] = << >>
       /\ bytesReceived[e] \in -1..Len(mReceivedBuffer[e])
  /\ queue \in [Endpoints -> Seq(Datagram)]
  /\ polled \in [Endpoints -> SUBSET Packet]
  /\ pc \in [Endpoints -> {"idle", "received"}]
  /\ boundTo \in [Addresses -> Endpoints \cup {Nobody}]
  /\ reset \in [Endpoints -> BOOLEAN]
  /\ network \subseteq sent
  /\ sent \subseteq Datagram
  /\ source \in [Endpoints -> Address]
  /\ faults \in 0..MaxFaults

\* Create takes an address for as long as its endpoint lives and no longer: in
\* whichever of its calls it fails, whoever else wants the address meanwhile,
\* nothing stays bound for an endpoint that was not made, and an endpoint that
\* was made has the address it says and a socket that does not block.
AddressesOwned ==
  /\ \A a \in Addresses, e \in Endpoints :
       boundTo[a] = e <=> phase[e] \in {"bound", "nonblocking", "open"} /\ mAddress[e] = a
  /\ \A e \in Endpoints : phase[e] = "open" => ~blocking[e]

IsPrefixOf(s, t) == Len(s) <= Len(t) /\ s = SubSeq(t, 1, Len(s))

\* What PollPacket returns was sent to the address it was polled at from the
\* address it names: no byte of an earlier datagram is left in it, whatever was
\* received before and whoever had the address.  It may be cut at the maximum
\* packet size, except on Windows.
PolledWasSent ==
  \A e \in Endpoints : \A packet \in polled[e] :
    /\ packet.payload # << >>
    /\ \E d \in sent :
         /\ d.from = packet.source
         /\ d.to = packet.at
         /\ IsPrefixOf(packet.payload, d.payload)
         /\ windows => packet.payload = d.payload

ReturnsFrom(e) == pc[e] = "idle" /\ pc'[e] = "received"

NothingWaits(e) == queue[e] = << >> /\ ~reset[e]

\* The caller of PollPacket drains an endpoint until it returns false, as the
\* simulation proxy does.  Packets stay behind only where the kernel reported an
\* error, or where another program sent an empty datagram: endpoints never stop
\* each other so.
FalseHidesNothing ==
  [][\A e \in Endpoints :
       ReturnsFrom(e) /\ bytesReceived'[e] <= 0 =>
         \/ NothingWaits(e)
         \/ bytesReceived'[e] < 0 /\ (windows \/ faults' > faults)
         \/ Head(queue[e]).from = Foreign]_vars

\* "0 indicates no data (would-block), negative indicates error."
ZeroMeansNoData ==
  [][\A e \in Endpoints :
       ReturnsFrom(e) /\ faults' = faults /\ NothingWaits(e) => bytesReceived'[e] = 0]_vars

\* An endpoint that goes on being polled is drained, whatever errors, resets,
\* empty and oversized datagrams come between.
PollingDrains ==
  \A e \in Endpoints : phase[e] = "open" /\ queue[e] # << >> ~> queue[e] = << >>
=============================================================================
