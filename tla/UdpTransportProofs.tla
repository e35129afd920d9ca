------------------------- MODULE UdpTransportProofs -------------------------
(***************************************************************************)
(* Proofs about UDP endpoints, for any endpoints, addresses and sizes,     *)
(* whatever the network loses, repeats or reorders.                        *)
(***************************************************************************)
EXTENDS UdpTransport, FiniteSetTheorems, SequenceTheorems, TLAPS

\* How far Create has come when the socket has an address.
HasAddress == {"bound", "nonblocking", "open"}

Made ==
  \A e \in Endpoints :
    /\ phase[e] # "none" => mAddress[e] \in Addresses
    /\ phase[e] \in {"nonblocking", "open"} => ~blocking[e]
    /\ pc[e] = "received" => phase[e] = "open"

Owned ==
  \A a \in Addresses, e \in Endpoints :
    boundTo[a] = e <=> phase[e] \in HasAddress /\ mAddress[e] = a

\* What waits at a socket was sent to its address.
QueueSent ==
  \A e \in Endpoints :
    /\ phase[e] \notin HasAddress => queue[e] = << >>
    /\ \A i \in 1..Len(queue[e]) : queue[e][i] \in sent /\ queue[e][i].to = mAddress[e]

\* Between ReceiveFrom and the end of PollPacket the first bytes of the buffer are
\* those of the datagram received.
HoldsSent ==
  \A e \in Endpoints : bytesReceived[e] > 0 =>
    \E d \in sent :
      /\ d.from = source[e] /\ d.to = mAddress[e]
      /\ bytesReceived[e] <= Len(d.payload)
      /\ SubSeq(mReceivedBuffer[e], 1, bytesReceived[e]) = SubSeq(d.payload, 1, bytesReceived[e])
      /\ windows => bytesReceived[e] = Len(d.payload)

IInv ==
  /\ TypeOK /\ IsFiniteSet(sent)
  /\ Made /\ Owned
  /\ QueueSent /\ HoldsSent /\ PolledWasSent

-----------------------------------------------------------------------------
(* Sequences of bytes.                                                     *)

\* Copying the first n bytes of p over those of b.
LEMMA Overwritten ==
  ASSUME NEW S, NEW p \in Seq(S), NEW b \in Seq(S), NEW n \in Nat, n <= Len(p), n <= Len(b)
  PROVE  LET r == SubSeq(p, 1, n) \o SubSeq(b, n + 1, Len(b)) IN
         r \in Seq(S) /\ Len(r) = Len(b) /\ SubSeq(r, 1, n) = SubSeq(p, 1, n)
<1> DEFINE u == SubSeq(p, 1, n)
           v == SubSeq(b, n + 1, Len(b))
           r == u \o v
<1>1. Len(p) \in Nat /\ Len(b) \in Nat
  BY LenProperties
<1>2. u \in Seq(S) /\ Len(u) = n
  <2>1. \A i \in 1..n : p[i] \in S
    BY <1>1, ElementOfSeq
  <2> QED BY <2>1, SubSeqProperties
<1>3. v \in Seq(S) /\ Len(v) = Len(b) - n
  <2>1. \A i \in n + 1..Len(b) : b[i] \in S
    BY <1>1, ElementOfSeq
  <2>2. n + 1 \in Int /\ Len(b) \in Int
    BY <1>1
  <2>3. v \in Seq(S) /\ Len(v) = IF n + 1 <= Len(b) THEN Len(b) - (n + 1) + 1 ELSE 0
    BY <2>1, <2>2, SubSeqProperties
  <2> QED BY <1>1, <2>3
<1> HIDE DEF u, v
<1>4. r \in Seq(S) /\ Len(r) = Len(b)
  <2>1. r \in Seq(S) /\ Len(r) = Len(u) + Len(v)
    BY <1>2, <1>3, ConcatProperties
  <2> QED BY <1>1, <1>2, <1>3, <2>1
<1>5. SubSeq(r, 1, n) = u
  <2>1. CASE n = 0
    <3>1. SubSeq(r, 1, n) = << >>
      BY <2>1, SubSeqEmpty
    <3>2. u = << >>
      BY <1>2, <2>1, EmptySeq
    <3> QED BY <3>1, <3>2
  <2>2. CASE n # 0
    <3>1. SubSeq(u \o v, 1, n) = SubSeq(u, 1, n)
      <4>1. 1 \in 1..Len(u) /\ n \in 1..Len(u)
        BY <1>2, <2>2
      <4> QED BY <1>2, <1>3, <4>1, SubSeqOfConcat1
    <3>2. SubSeq(u, 1, n) = u
      BY <1>2, SubSeqFull
    <3> QED BY <3>1, <3>2
  <2> QED BY <2>1, <2>2
<1> QED BY <1>4, <1>5 DEF u, v

\* The constant sequences of bytes.
LEMMA Repeated ==
  ASSUME NEW n \in Nat, NEW S, NEW x \in S
  PROVE  [i \in 1..n |-> x] \in Seq(S) /\ Len([i \in 1..n |-> x]) = n
OBVIOUS

-----------------------------------------------------------------------------
(* Types.                                                                  *)

LEMMA FaultType ==
  ASSUME TypeOK, Fault
  PROVE  faults' \in 0..MaxFaults
BY UdpAssumption DEF TypeOK, Fault

LEMMA CloseType ==
  ASSUME TypeOK, NEW e \in Endpoints, Close(e), faults' \in 0..MaxFaults
  PROVE  TypeOK'
<1>1. << >> \in Seq(Datagram) /\ << >> \in Seq(0..MaxDatagrams) /\ Len(<< >>) = 0
  BY EmptySeq
<1>2. /\ phase' \in [Endpoints -> {"none", "socket", "bound", "nonblocking", "open"}]
      /\ mAddress' \in [Endpoints -> Address]
      /\ blocking' \in [Endpoints -> BOOLEAN]
      /\ reset' \in [Endpoints -> BOOLEAN]
      /\ source' \in [Endpoints -> Address]
      /\ boundTo' \in [Addresses -> Endpoints \cup {Nobody}]
  BY DEF Close, TypeOK, Address
<1>3. /\ mReceivedBuffer' \in [Endpoints -> Seq(0..MaxDatagrams)]
      /\ queue' \in [Endpoints -> Seq(Datagram)]
      /\ bytesReceived' \in [Endpoints -> Int]
  BY <1>1 DEF Close, TypeOK
<1>4. ASSUME NEW f \in Endpoints
      PROVE  /\ IF phase'[f] = "open" THEN Len(mReceivedBuffer'[f]) \in PacketSizes \ {0}
                                      ELSE mReceivedBuffer'[f] = << >>
             /\ bytesReceived'[f] \in -1..Len(mReceivedBuffer'[f])
  <2>1. CASE f = e
    BY <1>1, <2>1 DEF Close, TypeOK
  <2>2. CASE f # e
    BY <2>2 DEF Close, TypeOK
  <2> QED BY <2>1, <2>2
<1> QED BY <1>2, <1>3, <1>4 DEF Close, TypeOK

LEMMA CreatingType ==
  ASSUME TypeOK, Made, NEW e \in Endpoints, Creating(e)
  PROVE  TypeOK'
<1>1. ASSUME NEW address \in AddressesFor[e], Create(e, address)
      PROVE  TypeOK'
  <2>1. address \in Address
    BY UdpAssumption DEF Address
  <2>2. /\ phase' \in [Endpoints -> {"none", "socket", "bound", "nonblocking", "open"}]
        /\ mAddress' \in [Endpoints -> Address]
        /\ \A f \in Endpoints : phase'[f] = "open" <=> phase[f] = "open"
    BY <1>1, <2>1 DEF Create, TypeOK
  <2> QED BY <1>1, <2>2 DEF Create, local, kernel, TypeOK
<1>2. CASE Bind(e)
  <2>1. mAddress[e] \in Addresses
    BY <1>2 DEF Bind, Made
  <2>2. /\ phase' \in [Endpoints -> {"none", "socket", "bound", "nonblocking", "open"}]
        /\ boundTo' \in [Addresses -> Endpoints \cup {Nobody}]
        /\ \A f \in Endpoints : phase'[f] = "open" <=> phase[f] = "open"
    BY <1>2, <2>1 DEF Bind, TypeOK
  <2> QED BY <1>2, <2>2 DEF Bind, local, TypeOK
<1>3. CASE BindFails(e) \/ SetNonBlockingFails(e)
  <2>1. faults' \in 0..MaxFaults
    BY <1>3, FaultType DEF BindFails, SetNonBlockingFails, TypeOK
  <2> QED BY <1>3, <2>1, CloseType DEF BindFails, SetNonBlockingFails
<1>4. CASE SetNonBlocking(e)
  <2>1. /\ phase' \in [Endpoints -> {"none", "socket", "bound", "nonblocking", "open"}]
        /\ blocking' \in [Endpoints -> BOOLEAN]
        /\ \A f \in Endpoints : phase'[f] = "open" <=> phase[f] = "open"
    BY <1>4 DEF SetNonBlocking, TypeOK
  <2> QED BY <1>4, <2>1 DEF SetNonBlocking, local, kernel, TypeOK
<1>5. ASSUME NEW size \in PacketSizes, Construct(e, size)
      PROVE  TypeOK'
  <2>1. size \in Nat /\ size # 0 /\ 0 \in 0..MaxDatagrams
    BY <1>5, UdpAssumption DEF Construct
  <2> DEFINE zeros == [i \in 1..size |-> 0]
  <2>2. zeros \in Seq(0..MaxDatagrams) /\ Len(zeros) = size
    BY <2>1, Repeated
  <2>3. /\ phase' = [phase EXCEPT ![e] = "open"]
        /\ mReceivedBuffer' = [mReceivedBuffer EXCEPT ![e] = zeros]
    BY <1>5 DEF Construct
  <2> HIDE DEF zeros
  <2>4. /\ phase' \in [Endpoints -> {"none", "socket", "bound", "nonblocking", "open"}]
        /\ mReceivedBuffer' \in [Endpoints -> Seq(0..MaxDatagrams)]
    BY <2>2, <2>3 DEF TypeOK
  <2>5. ASSUME NEW f \in Endpoints
        PROVE  /\ IF phase'[f] = "open" THEN Len(mReceivedBuffer'[f]) \in PacketSizes \ {0}
                                        ELSE mReceivedBuffer'[f] = << >>
               /\ bytesReceived[f] \in -1..Len(mReceivedBuffer'[f])
    <3>1. CASE f = e
      <4>1. mReceivedBuffer[e] = << >> /\ bytesReceived[e] \in -1..0
        BY <1>5, EmptySeq DEF Construct, TypeOK
      <4> QED BY <2>1, <2>2, <2>3, <3>1, <4>1 DEF TypeOK
    <3>2. CASE f # e
      BY <2>3, <3>2 DEF TypeOK
    <3> QED BY <3>1, <3>2
  <2> QED BY <1>5, <2>4, <2>5 DEF Construct, kernel, TypeOK
<1> QED BY <1>1, <1>2, <1>3, <1>4, <1>5 DEF Creating

LEMMA SendToType ==
  ASSUME TypeOK, IsFiniteSet(sent), NEW from \in Address, NEW to \in Addresses, NEW length \in Nat,
         SendTo(from, to, length)
  PROVE  TypeOK' /\ IsFiniteSet(sent')
<1> DEFINE id == Cardinality(sent) + 1
           d == [from |-> from, to |-> to, payload |-> [i \in 1..length |-> id], id |-> id]
<1>1. id \in 1..MaxDatagrams
  <2>1. Cardinality(sent) \in Nat
    BY FS_CardinalityType
  <2> QED BY <2>1, UdpAssumption DEF SendTo
<1>2. [i \in 1..length |-> id] \in Seq(1..MaxDatagrams)
  BY <1>1, Repeated
<1>3. d \in Datagram
  BY <1>1, <1>2 DEF Datagram
<1>4. sent' = sent \cup {d} /\ network' = network \cup {d}
  BY DEF SendTo
<1> HIDE DEF d
<1>5. sent' \subseteq Datagram /\ network' \subseteq sent'
  BY <1>3, <1>4 DEF TypeOK
<1>6. IsFiniteSet(sent')
  BY <1>4, FS_AddElement
<1> QED BY <1>5, <1>6 DEF SendTo, local, TypeOK

LEMMA KernelType ==
  ASSUME TypeOK, NEW d \in network, Lose(d) \/ Arrive(d) \/ Bounce(d)
  PROVE  TypeOK'
<1>1. CASE Lose(d)
  BY <1>1 DEF Lose, local, TypeOK
<1>2. CASE Arrive(d)
  <2> DEFINE e == boundTo[d.to]
  <2>1. d \in Datagram /\ d.to \in Addresses
    BY DEF TypeOK, Datagram
  <2>2. e \in Endpoints
    BY <1>2, <2>1 DEF Arrive, TypeOK
  <2>3. Append(queue[e], d) \in Seq(Datagram)
    BY <2>1, <2>2, AppendProperties DEF TypeOK
  <2>4. queue' = [queue EXCEPT ![e] = Append(queue[e], d)]
    BY <1>2 DEF Arrive
  <2> HIDE DEF e
  <2>5. queue' \in [Endpoints -> Seq(Datagram)]
    BY <2>3, <2>4 DEF TypeOK
  <2>6. faults' \in 0..MaxFaults /\ network' \subseteq sent
    BY <1>2, FaultType DEF Arrive, TypeOK
  <2> QED BY <1>2, <2>5, <2>6 DEF Arrive, local, TypeOK
<1>3. CASE Bounce(d)
  <2>1. reset' \in [Endpoints -> BOOLEAN]
    <3>1. \A f \in Endpoints :
            (reset[f] \/ (windows /\ d.from \in Addresses /\ boundTo[d.from] = f)) \in BOOLEAN
      OBVIOUS
    <3> QED BY <1>3, <3>1 DEF Bounce
  <2> QED BY <1>3, <2>1 DEF Bounce, local, TypeOK
<1> QED BY <1>1, <1>2, <1>3

\* What ReceiveFrom leaves of the buffer and the queue, and what it may report.
LEMMA ReceivedType ==
  ASSUME TypeOK, NEW e \in Endpoints, NEW bytes \in Int, Received(e, bytes),
         mReceivedBuffer' \in [Endpoints -> Seq(0..MaxDatagrams)],
         \A f \in Endpoints : Len(mReceivedBuffer'[f]) = Len(mReceivedBuffer[f]),
         queue' \in [Endpoints -> Seq(Datagram)],
         source' \in [Endpoints -> Address],
         reset' \in [Endpoints -> BOOLEAN],
         faults' \in 0..MaxFaults,
         bytes \in -1..Len(mReceivedBuffer[e])
  PROVE  TypeOK'
<1>1. bytesReceived' \in [Endpoints -> Int] /\ pc' \in [Endpoints -> {"idle", "received"}]
  BY DEF Received, TypeOK
<1>2. ASSUME NEW f \in Endpoints
      PROVE  /\ IF phase'[f] = "open" THEN Len(mReceivedBuffer'[f]) \in PacketSizes \ {0}
                                      ELSE mReceivedBuffer'[f] = << >>
             /\ bytesReceived'[f] \in -1..Len(mReceivedBuffer'[f])
  <2>1. bytesReceived'[f] \in -1..Len(mReceivedBuffer'[f])
    BY DEF Received, TypeOK
  <2>2. CASE phase[f] = "open"
    BY <2>1, <2>2 DEF Received, TypeOK
  <2>3. CASE phase[f] # "open"
    <3>1. Len(mReceivedBuffer'[f]) = 0
      BY <2>3, EmptySeq DEF TypeOK
    <3>2. mReceivedBuffer'[f] = << >>
      BY <3>1, EmptySeq
    <3> QED BY <2>1, <2>3, <3>2 DEF Received
  <2> QED BY <2>2, <2>3
<1> QED BY <1>1, <1>2 DEF Received, TypeOK

\* What TakeDatagram does to the buffer.
LEMMA TakeWrites ==
  ASSUME TypeOK, NEW e \in Endpoints, TakeDatagram(e)
  PROVE  LET d == Head(queue[e])
             n == FitsBuffer(e, Len(d.payload))
             b == mReceivedBuffer[e]
             r == SubSeq(d.payload, 1, n) \o SubSeq(b, n + 1, Len(b)) IN
         /\ d \in Datagram /\ d.payload \in Seq(0..MaxDatagrams)
         /\ n \in Nat /\ n <= Len(d.payload) /\ n <= Len(b)
         /\ mReceivedBuffer' = [mReceivedBuffer EXCEPT ![e] = r]
         /\ r \in Seq(0..MaxDatagrams) /\ Len(r) = Len(b)
         /\ SubSeq(r, 1, n) = SubSeq(d.payload, 1, n)
<1> DEFINE d == Head(queue[e])
           n == FitsBuffer(e, Len(d.payload))
           b == mReceivedBuffer[e]
           r == SubSeq(d.payload, 1, n) \o SubSeq(b, n + 1, Len(b))
<1>1. d \in Datagram
  BY HeadTailProperties DEF TakeDatagram, TypeOK
<1>2. d.payload \in Seq(0..MaxDatagrams)
  <2>1. d.payload \in Seq(1..MaxDatagrams)
    BY <1>1 DEF Datagram
  <2>2. 1..MaxDatagrams \subseteq 0..MaxDatagrams
    BY UdpAssumption
  <2> QED BY <2>1, <2>2, SeqMonotonic
<1>3. b \in Seq(0..MaxDatagrams)
  BY DEF TypeOK
<1>4. n \in Nat /\ n <= Len(d.payload) /\ n <= Len(b)
  BY <1>2, <1>3, LenProperties DEF FitsBuffer
<1>5. mReceivedBuffer' = [mReceivedBuffer EXCEPT ![e] = r]
  BY DEF TakeDatagram
<1>6. r \in Seq(0..MaxDatagrams) /\ Len(r) = Len(b) /\ SubSeq(r, 1, n) = SubSeq(d.payload, 1, n)
  <2> DEFINE p == d.payload
  <2>1. p \in Seq(0..MaxDatagrams) /\ n <= Len(p)
    BY <1>2, <1>4
  <2> HIDE DEF p, n, b
  <2>2. LET q == SubSeq(p, 1, n) \o SubSeq(b, n + 1, Len(b)) IN
        q \in Seq(0..MaxDatagrams) /\ Len(q) = Len(b) /\ SubSeq(q, 1, n) = SubSeq(p, 1, n)
    BY <1>3, <1>4, <2>1, Overwritten
  <2> QED BY <2>2 DEF p
<1> QED BY <1>1, <1>2, <1>4, <1>5, <1>6

LEMMA ReceiveFromType ==
  ASSUME TypeOK, NEW e \in Endpoints, ReceiveFrom(e)
  PROVE  TypeOK'
<1>1. Len(mReceivedBuffer[e]) \in Nat
  BY LenProperties DEF TypeOK
<1>3. CASE TakeReset(e) \/ WouldBlock(e) \/ ReceiveFails(e)
  <2>1. PICK bytes \in {-1, 0} : Received(e, bytes)
    BY <1>3 DEF TakeReset, WouldBlock, ReceiveFails
  <2>2. bytes \in Int /\ bytes \in -1..Len(mReceivedBuffer[e])
    BY <1>1
  <2>3. UNCHANGED <<mReceivedBuffer, queue, source>>
    BY <1>3 DEF TakeReset, WouldBlock, ReceiveFails
  <2>4. /\ mReceivedBuffer' \in [Endpoints -> Seq(0..MaxDatagrams)]
        /\ \A f \in Endpoints : Len(mReceivedBuffer'[f]) = Len(mReceivedBuffer[f])
        /\ queue' \in [Endpoints -> Seq(Datagram)]
        /\ source' \in [Endpoints -> Address]
    BY <2>3 DEF TypeOK
  <2>5. reset' \in [Endpoints -> BOOLEAN]
    BY <1>3 DEF TakeReset, WouldBlock, ReceiveFails, TypeOK
  <2>6. faults' \in 0..MaxFaults
    BY <1>3, FaultType DEF TakeReset, WouldBlock, ReceiveFails, TypeOK
  <2> QED BY <2>1, <2>2, <2>4, <2>5, <2>6, ReceivedType
<1>4. CASE TakeDatagram(e)
  <2> DEFINE d == Head(queue[e])
             n == FitsBuffer(e, Len(d.payload))
             b == mReceivedBuffer[e]
             r == SubSeq(d.payload, 1, n) \o SubSeq(b, n + 1, Len(b))
             bytes == IF windows /\ Len(d.payload) > n THEN -1 ELSE n
  <2>1. /\ d \in Datagram /\ n \in Nat /\ n <= Len(b)
        /\ mReceivedBuffer' = [mReceivedBuffer EXCEPT ![e] = r]
        /\ r \in Seq(0..MaxDatagrams) /\ Len(r) = Len(b)
    BY <1>4, TakeWrites
  <2>2. Tail(queue[e]) \in Seq(Datagram)
    BY <1>4, HeadTailProperties DEF TakeDatagram, TypeOK
  <2>3. queue' \in [Endpoints -> Seq(Datagram)]
    BY <1>4, <2>2 DEF TakeDatagram, TypeOK
  <2>4. source' \in [Endpoints -> Address]
    <3>1. d.from \in Address
      BY <2>1 DEF Datagram
    <3> QED BY <1>4, <3>1 DEF TakeDatagram, TypeOK
  <2>5. Received(e, bytes)
    BY <1>4 DEF TakeDatagram
  <2>6. reset' = reset /\ faults' = faults
    BY <1>4 DEF TakeDatagram
  <2> HIDE DEF d, n, r
  <2>7. bytes \in Int /\ bytes \in -1..Len(mReceivedBuffer[e])
    BY <1>1, <2>1
  <2>8. /\ mReceivedBuffer' \in [Endpoints -> Seq(0..MaxDatagrams)]
        /\ \A f \in Endpoints : Len(mReceivedBuffer'[f]) = Len(mReceivedBuffer[f])
    BY <2>1 DEF TypeOK
  <2>9. reset' \in [Endpoints -> BOOLEAN] /\ faults' \in 0..MaxFaults
    BY <2>6 DEF TypeOK
  <2> HIDE DEF bytes
  <2> QED BY <2>3, <2>4, <2>5, <2>7, <2>8, <2>9, ReceivedType
<1> QED BY <1>3, <1>4 DEF ReceiveFrom

LEMMA PollPacketType ==
  ASSUME TypeOK, NEW e \in Endpoints, PollPacket(e)
  PROVE  TypeOK'
<1> DEFINE payload == SubSeq(mReceivedBuffer[e], 1, bytesReceived[e])
           packet == [source |-> source[e], at |-> mAddress[e], payload |-> payload]
<1>1. payload \in Seq(0..MaxDatagrams)
  <2>1. \A i \in 1..bytesReceived[e] : mReceivedBuffer[e][i] \in 0..MaxDatagrams
    <3>1. mReceivedBuffer[e] \in Seq(0..MaxDatagrams) /\ Len(mReceivedBuffer[e]) \in Nat
      BY LenProperties DEF TypeOK
    <3>2. \A i \in 1..bytesReceived[e] : i \in 1..Len(mReceivedBuffer[e])
      BY <3>1 DEF TypeOK
    <3> QED BY <3>1, <3>2, ElementOfSeq
  <2>2. bytesReceived[e] \in Int
    BY DEF TypeOK
  <2> QED BY <2>1, <2>2, SubSeqProperties
<1>2. packet \in Packet
  BY <1>1 DEF Packet, TypeOK
<1>3. polled' = polled \/ polled' = [polled EXCEPT ![e] = polled[e] \cup {packet}]
  BY DEF PollPacket
<1> HIDE DEF packet
<1>4. polled' \in [Endpoints -> SUBSET Packet]
  <2>1. polled \in [Endpoints -> SUBSET Packet]
    BY DEF TypeOK
  <2>2. polled[e] \cup {packet} \in SUBSET Packet
    BY <1>2, <2>1
  <2> QED BY <1>3, <2>1, <2>2
<1>5. /\ pc' \in [Endpoints -> {"idle", "received"}]
      /\ bytesReceived' \in [Endpoints -> Int]
      /\ source' \in [Endpoints -> Address]
  BY DEF PollPacket, TypeOK, Address
<1>6. \A f \in Endpoints : bytesReceived'[f] \in -1..Len(mReceivedBuffer[f])
  <2>1. \A f \in Endpoints : Len(mReceivedBuffer[f]) \in Nat
    BY LenProperties DEF TypeOK
  <2> QED BY <2>1 DEF PollPacket, TypeOK
<1> QED BY <1>4, <1>5, <1>6 DEF PollPacket, kernel, TypeOK

LEMMA NextType ==
  ASSUME TypeOK, IsFiniteSet(sent), Made, [Next]_vars
  PROVE  TypeOK' /\ IsFiniteSet(sent')
<1>1. ASSUME NEW e \in Endpoints, Creating(e)
      PROVE  TypeOK' /\ sent' = sent
  <2>1. sent' = sent
    BY <1>1 DEF Creating, Create, Bind, BindFails, SetNonBlocking, SetNonBlockingFails, Construct,
                Close, kernel
  <2> QED BY <1>1, <2>1, CreatingType
<1>2. ASSUME NEW e \in Endpoints, Destroy(e)
      PROVE  TypeOK' /\ sent' = sent
  <2>1. Close(e) /\ faults' \in 0..MaxFaults /\ sent' = sent
    BY <1>2 DEF Destroy, Close, TypeOK
  <2> QED BY <2>1, CloseType
<1>3. ASSUME NEW e \in Endpoints, ReceiveFrom(e)
      PROVE  TypeOK' /\ sent' = sent
  <2>1. sent' = sent
    BY <1>3 DEF ReceiveFrom, TakeReset, TakeDatagram, WouldBlock, ReceiveFails, Received
  <2> QED BY <1>3, <2>1, ReceiveFromType
<1>4. ASSUME NEW e \in Endpoints, PollPacket(e)
      PROVE  TypeOK' /\ sent' = sent
  <2>1. sent' = sent
    BY <1>4 DEF PollPacket, kernel
  <2> QED BY <1>4, <2>1, PollPacketType
<1>5. CASE Sending
  <2>1. PICK dest \in Addresses :
          \/ \E length \in ForeignLengths : ForeignSend(dest, length)
          \/ \E length \in Lengths, e \in Endpoints : SendPacket(e, dest, length)
    BY <1>5 DEF Sending
  <2>2. ASSUME NEW length \in ForeignLengths, ForeignSend(dest, length)
        PROVE  TypeOK' /\ IsFiniteSet(sent')
    <3>1. length \in Nat /\ Foreign \in Address
      BY UdpAssumption DEF Address
    <3>2. SendTo(Foreign, dest, length)
      BY <2>2 DEF ForeignSend
    <3> QED BY <3>1, <3>2, SendToType
  <2>3. ASSUME NEW length \in Lengths, NEW e \in Endpoints, SendPacket(e, dest, length)
        PROVE  TypeOK' /\ IsFiniteSet(sent')
    <3>1. length \in Nat /\ mAddress[e] \in Address
      BY UdpAssumption DEF TypeOK
    <3>2. SendTo(mAddress[e], dest, length)
      BY <2>3 DEF SendPacket
    <3> QED BY <3>1, <3>2, SendToType
  <2> QED BY <2>1, <2>2, <2>3
<1>6. ASSUME NEW d \in network, Lose(d) \/ Arrive(d) \/ Bounce(d)
      PROVE  TypeOK' /\ sent' = sent
  <2>1. sent' = sent
    BY <1>6 DEF Lose, Arrive, Bounce
  <2> QED BY <1>6, <2>1, KernelType
<1>7. CASE UNCHANGED vars
  BY <1>7 DEF vars, local, kernel, TypeOK
<1> QED BY <1>1, <1>2, <1>3, <1>4, <1>5, <1>6, <1>7 DEF Next, Kernel

-----------------------------------------------------------------------------
(* Who has which address.                                                  *)

LEMMA MadeStep ==
  ASSUME TypeOK, Made, [Next]_vars
  PROVE  Made'
<1>1. ASSUME NEW e \in Endpoints, Close(e), pc[e] # "received"
      PROVE  Made'
  BY <1>1 DEF Close, Made, TypeOK
<1>2. ASSUME NEW e \in Endpoints, Creating(e)
      PROVE  Made'
  <2>1. ASSUME NEW address \in AddressesFor[e], Create(e, address)
        PROVE  Made'
    <3>1. address \in Addresses
      BY UdpAssumption
    <3> QED BY <2>1, <3>1 DEF Create, local, kernel, Made, TypeOK
  <2>2. CASE Bind(e)
    BY <2>2 DEF Bind, local, Made, TypeOK
  <2>3. CASE BindFails(e) \/ SetNonBlockingFails(e)
    BY <1>1, <2>3 DEF BindFails, SetNonBlockingFails, Made
  <2>4. CASE SetNonBlocking(e)
    BY <2>4 DEF SetNonBlocking, local, kernel, Made, TypeOK
  <2>5. ASSUME NEW size \in PacketSizes, Construct(e, size)
        PROVE  Made'
    BY <2>5 DEF Construct, kernel, Made, TypeOK
  <2> QED BY <1>2, <2>1, <2>2, <2>3, <2>4, <2>5 DEF Creating
<1>3. ASSUME NEW e \in Endpoints, Destroy(e)
      PROVE  Made'
  BY <1>1, <1>3 DEF Destroy
<1>4. ASSUME NEW e \in Endpoints, ReceiveFrom(e) \/ PollPacket(e)
      PROVE  Made'
  <2>1. UNCHANGED <<phase, mAddress, blocking>>
    BY <1>4 DEF ReceiveFrom, TakeReset, TakeDatagram, WouldBlock, ReceiveFails, Received, PollPacket
  <2>2. \A f \in Endpoints : pc'[f] = "received" => pc[f] = "received" \/ phase[f] = "open"
    BY <1>4 DEF ReceiveFrom, TakeReset, TakeDatagram, WouldBlock, ReceiveFails, Received, PollPacket,
                TypeOK
  <2> QED BY <2>1, <2>2 DEF Made
<1>5. CASE Sending \/ Kernel \/ UNCHANGED vars
  <2>1. UNCHANGED <<phase, mAddress, blocking, pc>>
    BY <1>5 DEF Sending, ForeignSend, SendPacket, SendTo, Kernel, Lose, Arrive, Bounce, vars, local
  <2> QED BY <2>1 DEF Made
<1> QED BY <1>2, <1>3, <1>4, <1>5 DEF Next

LEMMA OwnedStep ==
  ASSUME TypeOK, Made, Owned, [Next]_vars
  PROVE  Owned'
<1>1. ASSUME NEW e \in Endpoints, Close(e)
      PROVE  Owned'
  <2>1. ASSUME NEW a \in Addresses, NEW f \in Endpoints
        PROVE  boundTo'[a] = f <=> phase'[f] \in HasAddress /\ mAddress'[f] = a
    <3>1. CASE f = e
      BY <1>1, <3>1, UdpAssumption DEF Close, TypeOK, HasAddress
    <3>2. CASE f # e
      BY <1>1, <3>2, UdpAssumption DEF Close, TypeOK, Owned
    <3> QED BY <3>1, <3>2
  <2> QED BY <2>1 DEF Owned
<1>2. ASSUME NEW e \in Endpoints, Creating(e)
      PROVE  Owned'
  <2>1. ASSUME NEW address \in AddressesFor[e], Create(e, address)
        PROVE  Owned'
    BY <2>1 DEF Create, kernel, TypeOK, Owned, HasAddress
  <2>2. CASE Bind(e)
    <3>1. /\ boundTo[mAddress[e]] = Nobody /\ phase[e] = "socket"
          /\ boundTo' = [boundTo EXCEPT ![mAddress[e]] = e]
          /\ phase' = [phase EXCEPT ![e] = "bound"]
          /\ mAddress' = mAddress /\ mAddress[e] \in Addresses
      BY <2>2 DEF Bind, Made
    <3>2. ASSUME NEW a \in Addresses, NEW f \in Endpoints
          PROVE  boundTo'[a] = f <=> phase'[f] \in HasAddress /\ mAddress'[f] = a
      <4>1. CASE a = mAddress[e] /\ f = e
        BY <3>1, <4>1 DEF TypeOK, HasAddress
      <4>2. CASE a = mAddress[e] /\ f # e
        <5>1. boundTo'[a] = e /\ boundTo[a] # f
          BY <3>1, <4>2, UdpAssumption DEF TypeOK
        <5>2. phase'[f] = phase[f] /\ mAddress'[f] = mAddress[f]
          BY <3>1, <4>2 DEF TypeOK
        <5> QED BY <4>2, <5>1, <5>2 DEF Owned
      <4>3. CASE a # mAddress[e] /\ f = e
        <5>1. boundTo'[a] = boundTo[a] /\ mAddress'[f] # a
          BY <3>1, <4>3 DEF TypeOK
        <5>2. boundTo[a] # e
          BY <3>1 DEF Owned, HasAddress
        <5> QED BY <4>3, <5>1, <5>2
      <4>4. CASE a # mAddress[e] /\ f # e
        <5>1. boundTo'[a] = boundTo[a] /\ phase'[f] = phase[f] /\ mAddress'[f] = mAddress[f]
          BY <3>1, <4>4 DEF TypeOK
        <5> QED BY <5>1 DEF Owned
      <4> QED BY <4>1, <4>2, <4>3, <4>4
    <3> QED BY <3>2 DEF Owned
  <2>3. CASE BindFails(e) \/ SetNonBlockingFails(e)
    BY <1>1, <2>3 DEF BindFails, SetNonBlockingFails
  <2>4. CASE SetNonBlocking(e)
    BY <2>4 DEF SetNonBlocking, kernel, TypeOK, Owned, HasAddress
  <2>5. ASSUME NEW size \in PacketSizes, Construct(e, size)
        PROVE  Owned'
    BY <2>5 DEF Construct, kernel, TypeOK, Owned, HasAddress
  <2> QED BY <1>2, <2>1, <2>2, <2>3, <2>4, <2>5 DEF Creating
<1>3. ASSUME NEW e \in Endpoints, Destroy(e)
      PROVE  Owned'
  BY <1>1, <1>3 DEF Destroy
<1>4. CASE (\E e \in Endpoints : ReceiveFrom(e) \/ PollPacket(e)) \/ Sending \/ Kernel
           \/ UNCHANGED vars
  <2>1. UNCHANGED <<phase, mAddress, boundTo>>
    BY <1>4 DEF ReceiveFrom, TakeReset, TakeDatagram, WouldBlock, ReceiveFails, Received, PollPacket,
                Sending, ForeignSend, SendPacket, SendTo, Kernel, Lose, Arrive, Bounce, vars, kernel
  <2> QED BY <2>1 DEF Owned
<1> QED BY <1>2, <1>3, <1>4 DEF Next

-----------------------------------------------------------------------------
(* Where the bytes come from.                                              *)

LEMMA QueueSentStep ==
  ASSUME TypeOK, Made, Owned, QueueSent, [Next]_vars
  PROVE  QueueSent'
<1>1. ASSUME NEW e \in Endpoints, Close(e)
      PROVE  QueueSent'
  <2>1. ASSUME NEW f \in Endpoints
        PROVE  /\ phase'[f] \notin HasAddress => queue'[f] = << >>
               /\ \A i \in 1..Len(queue'[f]) : queue'[f][i] \in sent' /\ queue'[f][i].to = mAddress'[f]
    <3>1. CASE f = e
      BY <1>1, <3>1, EmptySeq DEF Close, TypeOK
    <3>2. CASE f # e
      BY <1>1, <3>2 DEF Close, TypeOK, QueueSent
    <3> QED BY <3>1, <3>2
  <2> QED BY <2>1 DEF QueueSent
<1>2. ASSUME NEW e \in Endpoints, Creating(e)
      PROVE  QueueSent'
  <2>1. ASSUME NEW address \in AddressesFor[e], Create(e, address)
        PROVE  QueueSent'
    <3>1. /\ phase[e] = "none" /\ phase' = [phase EXCEPT ![e] = "socket"]
          /\ mAddress' = [mAddress EXCEPT ![e] = address]
          /\ queue' = queue /\ sent' = sent
      BY <2>1 DEF Create, kernel
    <3>2. ASSUME NEW f \in Endpoints
          PROVE  /\ phase'[f] \notin HasAddress => queue'[f] = << >>
                 /\ \A i \in 1..Len(queue'[f]) : queue'[f][i] \in sent' /\ queue'[f][i].to = mAddress'[f]
      <4>1. CASE f = e
        <5>1. queue[e] = << >>
          BY <3>1 DEF QueueSent, HasAddress
        <5> QED BY <3>1, <4>1, <5>1, EmptySeq
      <4>2. CASE f # e
        <5>1. phase'[f] = phase[f] /\ mAddress'[f] = mAddress[f]
          BY <3>1, <4>2 DEF TypeOK
        <5> QED BY <3>1, <5>1 DEF QueueSent
      <4> QED BY <4>1, <4>2
    <3> QED BY <3>2 DEF QueueSent
  <2>2. CASE Bind(e) \/ SetNonBlocking(e) \/ \E size \in PacketSizes : Construct(e, size)
    <3>1. /\ UNCHANGED <<mAddress, queue, sent>>
          /\ \A f \in Endpoints : phase[f] \in HasAddress => phase'[f] \in HasAddress
      BY <2>2 DEF Bind, SetNonBlocking, Construct, kernel, TypeOK, HasAddress
    <3> QED BY <3>1 DEF QueueSent
  <2>3. CASE BindFails(e) \/ SetNonBlockingFails(e)
    BY <1>1, <2>3 DEF BindFails, SetNonBlockingFails
  <2> QED BY <1>2, <2>1, <2>2, <2>3 DEF Creating
<1>3. ASSUME NEW e \in Endpoints, Destroy(e)
      PROVE  QueueSent'
  BY <1>1, <1>3 DEF Destroy
<1>4. ASSUME NEW e \in Endpoints, TakeDatagram(e)
      PROVE  QueueSent'
  <2>1. /\ UNCHANGED <<phase, mAddress, sent>> /\ queue[e] # << >>
        /\ queue' = [queue EXCEPT ![e] = Tail(queue[e])]
    BY <1>4 DEF TakeDatagram, Received
  <2>2. ASSUME NEW f \in Endpoints
        PROVE  /\ phase'[f] \notin HasAddress => queue'[f] = << >>
               /\ \A i \in 1..Len(queue'[f]) : queue'[f][i] \in sent' /\ queue'[f][i].to = mAddress'[f]
    <3>1. CASE f = e
      <4>1. queue[e] \in Seq(Datagram)
        BY DEF TypeOK
      <4>2. /\ Len(queue[e]) \in Nat /\ Len(Tail(queue[e])) = Len(queue[e]) - 1
            /\ \A i \in 1..Len(Tail(queue[e])) : Tail(queue[e])[i] = queue[e][i + 1]
        BY <2>1, <4>1, HeadTailProperties, LenProperties
      <4>3. queue'[e] = Tail(queue[e])
        BY <2>1 DEF TypeOK
      <4>4. \A i \in 1..Len(Tail(queue[e])) : i + 1 \in 1..Len(queue[e])
        BY <4>2
      <4>5. phase[e] \in HasAddress
        BY <2>1 DEF QueueSent
      <4> QED BY <2>1, <3>1, <4>2, <4>3, <4>4, <4>5 DEF QueueSent
    <3>2. CASE f # e
      BY <2>1, <3>2 DEF TypeOK, QueueSent
    <3> QED BY <3>1, <3>2
  <2> QED BY <2>2 DEF QueueSent
<1>5. ASSUME NEW d \in network, Arrive(d)
      PROVE  QueueSent'
  <2> DEFINE e == boundTo[d.to]
  <2>1. d \in Datagram /\ d.to \in Addresses /\ d \in sent
    BY DEF TypeOK, Datagram
  <2>2. e \in Endpoints
    BY <1>5, <2>1 DEF Arrive, TypeOK
  <2>3. phase[e] \in HasAddress /\ mAddress[e] = d.to
    BY <2>1, <2>2 DEF Owned
  <2>4. UNCHANGED <<phase, mAddress, sent>> /\ queue' = [queue EXCEPT ![e] = Append(queue[e], d)]
    BY <1>5 DEF Arrive
  <2> HIDE DEF e
  <2>5. ASSUME NEW f \in Endpoints
        PROVE  /\ phase'[f] \notin HasAddress => queue'[f] = << >>
               /\ \A i \in 1..Len(queue'[f]) : queue'[f][i] \in sent' /\ queue'[f][i].to = mAddress'[f]
    <3>1. CASE f = e
      <4>1. queue[e] \in Seq(Datagram)
        BY <2>2 DEF TypeOK
      <4>2. /\ Len(queue[e]) \in Nat /\ Len(Append(queue[e], d)) = Len(queue[e]) + 1
            /\ \A i \in 1..Len(queue[e]) : Append(queue[e], d)[i] = queue[e][i]
            /\ Append(queue[e], d)[Len(queue[e]) + 1] = d
        BY <2>1, <4>1, AppendProperties, LenProperties
      <4>3. queue'[e] = Append(queue[e], d)
        BY <2>2, <2>4 DEF TypeOK
      <4>4. ASSUME NEW i \in 1..Len(queue'[e])
            PROVE  queue'[e][i] \in sent /\ queue'[e][i].to = mAddress[e]
        <5>1. CASE i = Len(queue[e]) + 1
          BY <2>1, <2>3, <4>2, <4>3, <5>1
        <5>2. CASE i # Len(queue[e]) + 1
          <6>1. i \in 1..Len(queue[e])
            BY <4>2, <4>3, <5>2
          <6> QED BY <2>2, <4>2, <4>3, <6>1 DEF QueueSent
        <5> QED BY <5>1, <5>2
      <4> QED BY <2>3, <2>4, <3>1, <4>4
    <3>2. CASE f # e
      BY <2>4, <3>2 DEF TypeOK, QueueSent
    <3> QED BY <3>1, <3>2
  <2> QED BY <2>5 DEF QueueSent
<1>6. CASE \/ \E e \in Endpoints : TakeReset(e) \/ WouldBlock(e) \/ ReceiveFails(e) \/ PollPacket(e)
           \/ Sending
           \/ \E d \in network : Lose(d) \/ Bounce(d)
           \/ UNCHANGED vars
  <2>1. UNCHANGED <<phase, mAddress, queue>> /\ sent \subseteq sent'
    BY <1>6 DEF TakeReset, WouldBlock, ReceiveFails, Received, PollPacket, Sending, ForeignSend,
                SendPacket, SendTo, Lose, Bounce, vars, kernel
  <2> QED BY <2>1 DEF QueueSent
<1> QED BY <1>2, <1>3, <1>4, <1>5, <1>6 DEF Next, ReceiveFrom, Kernel

LEMMA HoldsSentStep ==
  ASSUME TypeOK, TypeOK', QueueSent, HoldsSent, [Next]_vars
  PROVE  HoldsSent'
\* Whoever received nothing since has nothing to account for, and what is unchanged
\* still holds what it held.
<1>1. ASSUME sent \subseteq sent', windows' = windows,
             \A f \in Endpoints :
               \/ bytesReceived'[f] <= 0
               \/ /\ bytesReceived'[f] = bytesReceived[f] /\ source'[f] = source[f]
                  /\ mAddress'[f] = mAddress[f] /\ mReceivedBuffer'[f] = mReceivedBuffer[f]
      PROVE  HoldsSent'
  <2>1. ASSUME NEW f \in Endpoints, bytesReceived'[f] > 0
        PROVE  \E d \in sent' :
                 /\ d.from = source'[f] /\ d.to = mAddress'[f]
                 /\ bytesReceived'[f] <= Len(d.payload)
                 /\ SubSeq(mReceivedBuffer'[f], 1, bytesReceived'[f])
                      = SubSeq(d.payload, 1, bytesReceived'[f])
                 /\ windows' => bytesReceived'[f] = Len(d.payload)
    <3>1. ~(bytesReceived'[f] <= 0)
      <4>1. bytesReceived'[f] \in Int
        BY DEF TypeOK
      <4> QED BY <2>1, <4>1
    <3>2. CASE /\ bytesReceived'[f] = bytesReceived[f] /\ source'[f] = source[f]
               /\ mAddress'[f] = mAddress[f] /\ mReceivedBuffer'[f] = mReceivedBuffer[f]
      <4>1. PICK d \in sent :
              /\ d.from = source[f] /\ d.to = mAddress[f]
              /\ bytesReceived[f] <= Len(d.payload)
              /\ SubSeq(mReceivedBuffer[f], 1, bytesReceived[f])
                   = SubSeq(d.payload, 1, bytesReceived[f])
              /\ windows => bytesReceived[f] = Len(d.payload)
        BY <2>1, <3>2 DEF HoldsSent
      <4> QED BY <1>1, <3>2, <4>1
    <3> QED BY <1>1, <3>1, <3>2
  <2> QED BY <2>1 DEF HoldsSent
<1>2. ASSUME NEW e \in Endpoints, Close(e)
      PROVE  HoldsSent'
  <2>1. sent' = sent /\ windows' = windows
    BY <1>2 DEF Close
  <2>2. ASSUME NEW f \in Endpoints
        PROVE  \/ bytesReceived'[f] <= 0
               \/ /\ bytesReceived'[f] = bytesReceived[f] /\ source'[f] = source[f]
                  /\ mAddress'[f] = mAddress[f] /\ mReceivedBuffer'[f] = mReceivedBuffer[f]
    <3>1. CASE f = e
      BY <1>2, <3>1 DEF Close, TypeOK
    <3>2. CASE f # e
      BY <1>2, <3>2 DEF Close, TypeOK
    <3> QED BY <3>1, <3>2
  <2> QED BY <1>1, <2>1, <2>2
<1>3. ASSUME NEW e \in Endpoints,
             (\E address \in AddressesFor[e] : Create(e, address))
               \/ (\E size \in PacketSizes : Construct(e, size))
      PROVE  HoldsSent'
  <2>1. /\ UNCHANGED <<sent, windows, bytesReceived, source>>
        /\ phase[e] # "open"
        /\ \A f \in Endpoints : f # e =>
             mAddress'[f] = mAddress[f] /\ mReceivedBuffer'[f] = mReceivedBuffer[f]
    BY <1>3 DEF Create, Construct, local, kernel, TypeOK
  <2>2. bytesReceived[e] <= 0
    BY <2>1, EmptySeq DEF TypeOK
  <2> QED BY <1>1, <2>1, <2>2
<1>4. ASSUME NEW e \in Endpoints, Creating(e)
      PROVE  HoldsSent'
  <2>1. CASE BindFails(e) \/ SetNonBlockingFails(e)
    BY <1>2, <2>1 DEF BindFails, SetNonBlockingFails
  <2>2. CASE Bind(e) \/ SetNonBlocking(e)
    <3>1. UNCHANGED <<sent, windows, bytesReceived, source, mAddress, mReceivedBuffer>>
      BY <2>2 DEF Bind, SetNonBlocking, local, kernel
    <3> QED BY <1>1, <3>1
  <2> QED BY <1>3, <1>4, <2>1, <2>2 DEF Creating
<1>5. ASSUME NEW e \in Endpoints, Destroy(e)
      PROVE  HoldsSent'
  BY <1>2, <1>5 DEF Destroy
<1>6. ASSUME NEW e \in Endpoints, TakeReset(e) \/ WouldBlock(e) \/ ReceiveFails(e) \/ PollPacket(e)
      PROVE  HoldsSent'
  <2>1. UNCHANGED <<sent, windows, mAddress, mReceivedBuffer>>
    BY <1>6 DEF TakeReset, WouldBlock, ReceiveFails, Received, PollPacket, kernel
  <2>2. bytesReceived'[e] <= 0
    BY <1>6 DEF TakeReset, WouldBlock, ReceiveFails, Received, PollPacket, TypeOK
  <2>3. \A f \in Endpoints : f # e =>
          bytesReceived'[f] = bytesReceived[f] /\ source'[f] = source[f]
    <3>1. bytesReceived \in [Endpoints -> Int] /\ DOMAIN source = Endpoints
      BY DEF TypeOK
    <3>2. CASE PollPacket(e)
      BY <3>1, <3>2 DEF PollPacket
    <3>3. CASE TakeReset(e) \/ WouldBlock(e) \/ ReceiveFails(e)
      BY <3>1, <3>3 DEF TakeReset, WouldBlock, ReceiveFails, Received
    <3> QED BY <1>6, <3>2, <3>3
  <2> QED BY <1>1, <2>1, <2>2, <2>3
<1>7. ASSUME NEW e \in Endpoints, TakeDatagram(e)
      PROVE  HoldsSent'
  <2> DEFINE d == Head(queue[e])
             n == FitsBuffer(e, Len(d.payload))
             b == mReceivedBuffer[e]
             r == SubSeq(d.payload, 1, n) \o SubSeq(b, n + 1, Len(b))
             bytes == IF windows /\ Len(d.payload) > n THEN -1 ELSE n
  <2>1. /\ n \in Nat /\ n <= Len(d.payload)
        /\ mReceivedBuffer' = [mReceivedBuffer EXCEPT ![e] = r]
        /\ SubSeq(r, 1, n) = SubSeq(d.payload, 1, n)
        /\ d.payload \in Seq(0..MaxDatagrams)
    BY <1>7, TakeWrites
  <2>2. d \in sent /\ d.to = mAddress[e]
    <3>1. queue[e] \in Seq(Datagram) /\ queue[e] # << >>
      BY <1>7 DEF TakeDatagram, TypeOK
    <3>2. 1 \in 1..Len(queue[e]) /\ d = queue[e][1]
      BY <3>1, EmptySeq, LenProperties, HeadTailProperties
    <3> QED BY <3>2 DEF QueueSent
  <2>3. /\ UNCHANGED <<windows, mAddress, sent>>
        /\ source' = [source EXCEPT ![e] = d.from]
        /\ bytesReceived' = [bytesReceived EXCEPT ![e] = bytes]
    BY <1>7 DEF TakeDatagram, Received
  <2> HIDE DEF d, n, r
  <2>4. Len(d.payload) \in Nat
    BY <2>1, LenProperties
  <2>5. ASSUME NEW f \in Endpoints, bytesReceived'[f] > 0
        PROVE  \E g \in sent' :
                 /\ g.from = source'[f] /\ g.to = mAddress'[f]
                 /\ bytesReceived'[f] <= Len(g.payload)
                 /\ SubSeq(mReceivedBuffer'[f], 1, bytesReceived'[f])
                      = SubSeq(g.payload, 1, bytesReceived'[f])
                 /\ windows' => bytesReceived'[f] = Len(g.payload)
    <3>1. CASE f = e
      <4>1. bytesReceived'[e] = n /\ (windows => n = Len(d.payload))
        BY <2>1, <2>3, <2>4, <2>5, <3>1 DEF TypeOK
      <4>2. mReceivedBuffer'[e] = r /\ source'[e] = d.from
        BY <2>1, <2>3 DEF TypeOK
      <4> QED BY <2>1, <2>2, <2>3, <3>1, <4>1, <4>2
    <3>2. CASE f # e
      <4>1. /\ bytesReceived'[f] = bytesReceived[f] /\ source'[f] = source[f]
            /\ mReceivedBuffer'[f] = mReceivedBuffer[f]
        BY <2>1, <2>3, <3>2 DEF TypeOK
      <4> QED BY <2>3, <2>5, <4>1 DEF HoldsSent
    <3> QED BY <3>1, <3>2
  <2> QED BY <2>5 DEF HoldsSent
<1>8. CASE Sending \/ Kernel \/ UNCHANGED vars
  <2>1. UNCHANGED <<windows, mAddress, mReceivedBuffer, bytesReceived, source>> /\ sent \subseteq sent'
    BY <1>8 DEF Sending, ForeignSend, SendPacket, SendTo, Kernel, Lose, Arrive, Bounce, vars, local,
                kernel
  <2> QED BY <1>1, <2>1
<1> QED BY <1>4, <1>5, <1>6, <1>7, <1>8 DEF Next, ReceiveFrom

LEMMA PolledStep ==
  ASSUME TypeOK, HoldsSent, PolledWasSent, [Next]_vars
  PROVE  PolledWasSent'
<1> DEFINE Sent(packet, d) ==
      /\ d.from = packet.source
      /\ d.to = packet.at
      /\ IsPrefixOf(packet.payload, d.payload)
      /\ windows => packet.payload = d.payload
<1>1. ASSUME NEW e \in Endpoints, PollPacket(e), bytesReceived[e] > 0
      PROVE  LET payload == SubSeq(mReceivedBuffer[e], 1, bytesReceived[e]) IN
             /\ payload # << >>
             /\ \E d \in sent :
                  Sent([source |-> source[e], at |-> mAddress[e], payload |-> payload], d)
  <2> DEFINE n == bytesReceived[e]
             b == mReceivedBuffer[e]
             payload == SubSeq(b, 1, n)
  <2>1. PICK d \in sent :
          /\ d.from = source[e] /\ d.to = mAddress[e]
          /\ n <= Len(d.payload)
          /\ payload = SubSeq(d.payload, 1, n)
          /\ windows => n = Len(d.payload)
    BY <1>1 DEF HoldsSent
  <2>2. b \in Seq(0..MaxDatagrams) /\ d.payload \in Seq(1..MaxDatagrams)
    BY DEF TypeOK, Datagram
  <2>3. Len(b) \in Nat /\ Len(d.payload) \in Nat
    BY <2>2, LenProperties
  <2>4. n \in 1..Len(b)
    BY <1>1, <2>3 DEF TypeOK
  <2> HIDE DEF n, b
  <2>5. Len(payload) = n
    <3>1. \A i \in 1..n : b[i] \in 0..MaxDatagrams
      <4>1. \A i \in 1..n : i \in 1..Len(b)
        BY <2>3, <2>4
      <4> QED BY <2>2, <4>1, ElementOfSeq
    <3>2. n \in Int /\ 1 \in Int /\ 1 <= n /\ n - 1 + 1 = n
      BY <2>3, <2>4
    <3> QED BY <3>1, <3>2, SubSeqProperties
  <2>6. payload # << >>
    BY <2>3, <2>4, <2>5, EmptySeq
  <2> HIDE DEF payload
  <2>7. IsPrefixOf(payload, d.payload)
    BY <2>1, <2>5 DEF IsPrefixOf
  <2>8. windows => payload = d.payload
    <3>1. SubSeq(d.payload, 1, Len(d.payload)) = d.payload
      BY <2>2, SubSeqFull
    <3> QED BY <2>1, <3>1
  <2>9. /\ payload # << >>
        /\ Sent([source |-> source[e], at |-> mAddress[e], payload |-> payload], d)
    BY <2>1, <2>6, <2>7, <2>8
  <2> QED BY <2>9 DEF payload, n, b
<1>2. ASSUME NEW e \in Endpoints, PollPacket(e)
      PROVE  PolledWasSent'
  <2> DEFINE new == [source |-> source[e], at |-> mAddress[e],
                     payload |-> SubSeq(mReceivedBuffer[e], 1, bytesReceived[e])]
  <2>1. sent' = sent /\ windows' = windows
    BY <1>2 DEF PollPacket, kernel
  <2>2. CASE bytesReceived[e] <= 0
    BY <1>2, <2>1, <2>2 DEF PollPacket, PolledWasSent
  <2>3. CASE bytesReceived[e] > 0
    <3>1. polled' = [polled EXCEPT ![e] = polled[e] \cup {new}]
      <4>1. ~(bytesReceived[e] <= 0)
        BY <2>3 DEF TypeOK
      <4> QED BY <1>2, <4>1 DEF PollPacket
    <3>2. new.payload # << >> /\ \E d \in sent : Sent(new, d)
      BY <1>1, <1>2, <2>3
    <3> HIDE DEF new
    <3>3. ASSUME NEW f \in Endpoints, NEW packet \in polled'[f]
          PROVE  packet.payload # << >> /\ \E d \in sent : Sent(packet, d)
      <4>1. packet \in polled[f] \/ packet = new
        BY <3>1 DEF TypeOK
      <4>2. CASE packet \in polled[f]
        BY <4>2 DEF PolledWasSent
      <4> QED BY <3>2, <4>1, <4>2
    <3> QED BY <2>1, <3>3 DEF PolledWasSent
  <2>4. bytesReceived[e] \in Int
    BY DEF TypeOK
  <2> QED BY <2>2, <2>3, <2>4
<1>3. CASE \/ \E e \in Endpoints : Creating(e) \/ Destroy(e) \/ ReceiveFrom(e)
           \/ Sending \/ Kernel \/ UNCHANGED vars
  <2>1. UNCHANGED <<windows, polled>> /\ sent \subseteq sent'
    <3>1. CASE \E e \in Endpoints : Creating(e) \/ Destroy(e)
      BY <3>1 DEF Creating, Create, Bind, BindFails, SetNonBlocking, SetNonBlockingFails, Construct,
                  Destroy, Close, kernel
    <3>2. CASE \E e \in Endpoints : ReceiveFrom(e)
      BY <3>2 DEF ReceiveFrom, TakeReset, TakeDatagram, WouldBlock, ReceiveFails, Received
    <3>3. CASE Sending \/ Kernel \/ UNCHANGED vars
      BY <3>3 DEF Sending, ForeignSend, SendPacket, SendTo, Kernel, Lose, Arrive, Bounce, vars, kernel
    <3> QED BY <1>3, <3>1, <3>2, <3>3
  <2>2. ASSUME NEW f \in Endpoints, NEW packet \in polled[f]
        PROVE  packet.payload # << >> /\ \E d \in sent' : Sent(packet, d)
    BY <2>1 DEF PolledWasSent
  <2> QED BY <2>1, <2>2 DEF PolledWasSent
<1> QED BY <1>2, <1>3 DEF Next

-----------------------------------------------------------------------------
(* The invariant.                                                          *)

LEMMA InitHolds ==
  ASSUME Init
  PROVE  IInv
<1>1. << >> \in Seq(Datagram) /\ << >> \in Seq(0..MaxDatagrams) /\ Len(<< >>) = 0
  BY EmptySeq
<1>2. TypeOK
  BY <1>1, UdpAssumption DEF Init, TypeOK, Address
<1>3. IsFiniteSet(sent)
  BY FS_EmptySet DEF Init
<1>4. Made /\ Owned
  BY UdpAssumption DEF Init, Made, Owned, HasAddress
<1>5. QueueSent /\ HoldsSent /\ PolledWasSent
  BY <1>1 DEF Init, QueueSent, HoldsSent, PolledWasSent
<1> QED BY <1>2, <1>3, <1>4, <1>5 DEF IInv

LEMMA InvariantHolds == Spec => []IInv
<1>1. IInv /\ [Next]_vars => IInv'
  BY NextType, MadeStep, OwnedStep, QueueSentStep, HoldsSentStep, PolledStep DEF IInv
<1> QED BY InitHolds, <1>1, PTL DEF Spec

\* Every variable keeps its type.
THEOREM TypeCorrect == Spec => []TypeOK
<1>1. IInv => TypeOK
  BY DEF IInv
<1> QED BY InvariantHolds, <1>1, PTL

\* An address is bound exactly while an endpoint that wants it is being made or
\* lives: in whichever call Create fails, ~UDPSocket gives the address back
\* (UDPTransportEndpoint::Create, UDPSocket::Bind).
THEOREM AddressesCorrect == Spec => []AddressesOwned
<1>1. IInv => AddressesOwned
  BY DEF IInv, Made, Owned, AddressesOwned, HasAddress
<1> QED BY InvariantHolds, <1>1, PTL

\* PollPacket returns only what was sent to its address from the address it names,
\* though the receive buffer still holds bytes of earlier datagrams and the kernel
\* may lose, repeat, reorder and cut datagrams.
THEOREM PolledCorrect == Spec => []PolledWasSent
<1>1. IInv => PolledWasSent
  BY DEF IInv
<1> QED BY InvariantHolds, <1>1, PTL

-----------------------------------------------------------------------------
(* What a poll that returns no packet says.                                *)

\* Only another program sends an empty datagram.
EmptyIsForeign == \A d \in sent : Len(d.payload) = 0 => d.from = Foreign

\* Only Windows reports that a datagram found no socket.
ResetOnWindows == \A e \in Endpoints : reset[e] => windows

LEMMA NewIsEmptyOnlyIfForeign ==
  ASSUME TypeOK, EmptyIsForeign, NEW from, NEW to, NEW length \in Nat, SendTo(from, to, length),
         length = 0 => from = Foreign
  PROVE  EmptyIsForeign'
<1> DEFINE id == Cardinality(sent) + 1
           payload == [i \in 1..length |-> id]
           d == [from |-> from, to |-> to, payload |-> payload, id |-> id]
<1>1. sent' = sent \cup {d}
  BY DEF SendTo
<1>2. Len(payload) = length
  <2> HIDE DEF id
  <2>1. payload \in [1..length -> {id}]
    OBVIOUS
  <2> QED BY <2>1
<1>3. d.payload = payload /\ d.from = from
  OBVIOUS
<1> HIDE DEF d, payload, id
<1> QED BY <1>1, <1>2, <1>3 DEF EmptyIsForeign

LEMMA EmptyIsForeignStep ==
  ASSUME TypeOK, EmptyIsForeign, [Next]_vars
  PROVE  EmptyIsForeign'
<1>1. CASE Sending
  <2>1. PICK dest \in Addresses :
          \/ \E length \in ForeignLengths : ForeignSend(dest, length)
          \/ \E length \in Lengths, e \in Endpoints : SendPacket(e, dest, length)
    BY <1>1 DEF Sending
  <2>2. ASSUME NEW length \in ForeignLengths, ForeignSend(dest, length)
        PROVE  EmptyIsForeign'
    <3>1. length \in Nat /\ SendTo(Foreign, dest, length)
      BY <2>2, UdpAssumption DEF ForeignSend
    <3> QED BY <3>1, NewIsEmptyOnlyIfForeign
  <2>3. ASSUME NEW length \in Lengths, NEW e \in Endpoints, SendPacket(e, dest, length)
        PROVE  EmptyIsForeign'
    <3>1. length \in Nat /\ length > 0 /\ SendTo(mAddress[e], dest, length)
      BY <2>3, UdpAssumption DEF SendPacket
    <3> QED BY <3>1, NewIsEmptyOnlyIfForeign
  <2> QED BY <2>1, <2>2, <2>3
<1>2. CASE sent' = sent
  BY <1>2 DEF EmptyIsForeign
<1>3. ASSUME NEW e \in Endpoints, Creating(e) \/ Destroy(e) \/ ReceiveFrom(e) \/ PollPacket(e)
      PROVE  sent' = sent
  BY <1>3 DEF Creating, Create, Bind, BindFails, SetNonBlocking, SetNonBlockingFails, Construct,
              Destroy, Close, ReceiveFrom, TakeReset, TakeDatagram, WouldBlock, ReceiveFails,
              Received, PollPacket, kernel
<1>4. Kernel \/ UNCHANGED vars => sent' = sent
  BY DEF Kernel, Lose, Arrive, Bounce, vars, kernel
<1> QED BY <1>1, <1>2, <1>3, <1>4 DEF Next

LEMMA ResetOnWindowsStep ==
  ASSUME TypeOK, ResetOnWindows, [Next]_vars
  PROVE  ResetOnWindows'
<1>1. ASSUME NEW e \in Endpoints, Creating(e) \/ Destroy(e) \/ PollPacket(e)
      PROVE  ResetOnWindows'
  BY <1>1 DEF Creating, Create, Bind, BindFails, SetNonBlocking, SetNonBlockingFails, Construct,
              Destroy, Close, PollPacket, local, kernel, TypeOK, ResetOnWindows
<1>2. ASSUME NEW e \in Endpoints, ReceiveFrom(e)
      PROVE  ResetOnWindows'
  BY <1>2 DEF ReceiveFrom, TakeReset, TakeDatagram, WouldBlock, ReceiveFails, Received, TypeOK,
              ResetOnWindows
<1>3. CASE Sending
  BY <1>3 DEF Sending, ForeignSend, SendPacket, SendTo, ResetOnWindows
<1>4. ASSUME NEW d \in network, Lose(d) \/ Arrive(d) \/ Bounce(d)
      PROVE  ResetOnWindows'
  <2>1. CASE Lose(d) \/ Arrive(d)
    BY <2>1 DEF Lose, Arrive, ResetOnWindows
  <2>2. CASE Bounce(d)
    <3>1. windows' = windows /\ \A e \in Endpoints :
            reset'[e] = (reset[e] \/ (windows /\ d.from \in Addresses /\ boundTo[d.from] = e))
      BY <2>2, Zenon DEF Bounce
    <3> QED BY <3>1, Zenon DEF ResetOnWindows
  <2> QED BY <1>4, <2>1, <2>2
<1>5. CASE UNCHANGED vars
  BY <1>5 DEF vars, local, kernel, ResetOnWindows
<1> QED BY <1>1, <1>2, <1>3, <1>4, <1>5 DEF Next, Kernel

\* A call of ReceiveFrom that finds nothing to report has found nothing there, or
\* the kernel reported an error, or it took a datagram no endpoint would send.
LEMMA FalseHidesNothingStep ==
  ASSUME IInv, EmptyIsForeign, ResetOnWindows, [Next]_vars, NEW e \in Endpoints,
         ReturnsFrom(e), bytesReceived'[e] <= 0
  PROVE  \/ NothingWaits(e)
         \/ bytesReceived'[e] < 0 /\ (windows \/ faults' > faults)
         \/ Head(queue[e]).from = Foreign
<1> USE DEF IInv
<1>1. ReceiveFrom(e)
  <2>1. ASSUME NEW f \in Endpoints, Creating(f) \/ Destroy(f) \/ PollPacket(f)
        PROVE  FALSE
    BY <2>1 DEF Creating, Create, Bind, BindFails, SetNonBlocking, SetNonBlockingFails, Construct,
                Destroy, Close, PollPacket, local, kernel, TypeOK, ReturnsFrom
  <2>2. ASSUME NEW f \in Endpoints, ReceiveFrom(f), f # e
        PROVE  FALSE
    BY <2>2 DEF ReceiveFrom, TakeReset, TakeDatagram, WouldBlock, ReceiveFails, Received, TypeOK,
                ReturnsFrom
  <2>3. ~(Sending \/ Kernel \/ UNCHANGED vars)
    BY DEF Sending, ForeignSend, SendPacket, SendTo, Kernel, Lose, Arrive, Bounce, vars, local,
           ReturnsFrom
  <2> QED BY <2>1, <2>2, <2>3 DEF Next
<1>2. CASE TakeReset(e)
  BY <1>2 DEF TakeReset, Received, TypeOK, ResetOnWindows
<1>3. CASE TakeDatagram(e)
  <2> DEFINE d == Head(queue[e])
             n == FitsBuffer(e, Len(d.payload))
  <2>1. queue[e] # << >> /\ queue[e] \in Seq(Datagram) /\ phase[e] = "open"
    BY <1>3 DEF TakeDatagram, Received, TypeOK
  <2>2. d = queue[e][1] /\ 1 \in 1..Len(queue[e]) /\ d \in Datagram
    BY <2>1
  <2>3. d \in sent
    BY <2>2 DEF QueueSent
  <2>4. Len(d.payload) \in Nat
    BY <2>2 DEF Datagram
  <2>5. Len(mReceivedBuffer[e]) \in Nat /\ Len(mReceivedBuffer[e]) > 0
    <3>1. Len(mReceivedBuffer[e]) \in PacketSizes \ {0} /\ mReceivedBuffer[e] \in Seq(0..MaxDatagrams)
      BY <2>1 DEF TypeOK
    <3> QED BY <3>1
  <2>6. bytesReceived'[e] = IF windows /\ Len(d.payload) > n THEN -1 ELSE n
    BY <1>3 DEF TakeDatagram, Received, TypeOK
  <2>7. CASE windows /\ Len(d.payload) > n
    BY <2>6, <2>7
  <2>8. CASE ~(windows /\ Len(d.payload) > n)
    <3>1. n <= 0
      BY <2>6, <2>8
    <3>2. Len(d.payload) = 0
      BY <2>4, <2>5, <3>1 DEF FitsBuffer
    <3> QED BY <2>3, <3>2 DEF EmptyIsForeign
  <2> QED BY <2>7, <2>8
<1>4. CASE WouldBlock(e)
  BY <1>4 DEF WouldBlock, NothingWaits
<1>5. CASE ReceiveFails(e)
  BY <1>5, UdpAssumption DEF ReceiveFails, Received, Fault, TypeOK
<1> QED BY <1>1, <1>2, <1>3, <1>4, <1>5 DEF ReceiveFrom

\* Whoever polls an endpoint until it returns false leaves a packet behind only
\* where the kernel reported an error or another program sent an empty datagram
\* (UDPTransportEndpoint::PollPacket, UDPSocket::ReceiveFrom).
THEOREM FalseHonest == Spec => FalseHidesNothing
<1> DEFINE Honest ==
      \A e \in Endpoints :
        ReturnsFrom(e) /\ bytesReceived'[e] <= 0 =>
          \/ NothingWaits(e)
          \/ bytesReceived'[e] < 0 /\ (windows \/ faults' > faults)
          \/ Head(queue[e]).from = Foreign
<1>1. Init => EmptyIsForeign /\ ResetOnWindows
  BY DEF Init, EmptyIsForeign, ResetOnWindows
<1>2. IInv /\ EmptyIsForeign /\ ResetOnWindows /\ [Next]_vars =>
        EmptyIsForeign' /\ ResetOnWindows' /\ Honest
  BY EmptyIsForeignStep, ResetOnWindowsStep, FalseHidesNothingStep DEF IInv
<1> HIDE DEF Honest
<1>3. Spec => [][Honest]_vars
  BY InvariantHolds, <1>1, <1>2, PTL DEF Spec
<1> QED BY <1>3 DEF Honest, FalseHidesNothing
=============================================================================
