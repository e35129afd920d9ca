# A formal model of GameNetworkSystem

TLA+ modules that model the parts of this repository that have behaviour of their
own, TLC configurations that check them on small instances, and proofs, checked by
TLAPS, that hold for every value of the constants. The code is the reference: each
definition is translated from the source lines that `PROJECT.json` names under `map`.

Run a check with `tlc -config MCLoopback.cfg MCLoopback` and a proof with
`tlapm LoopbackProofs.tla`.

## 1. The system

GameNetworkSystem is a library for networked games and a few applications on top.
Much of it is still declarations or empty files. What does something is this.

| Component | Source | State | Operations |
|---|---|---|---|
| Loopback transport | `network/transport/endpoint/loopback_transport_endpoint.cpp` | two deques of packets behind one mutex, shared by the two endpoints | `CreateConnectedEndpoints`, `SendPacket`, `PollPacket` |
| Simulation proxy | `network_transport_simulation_proxy.cpp`, `.h` | settings, a random generator, two deques of scheduled packets | constructor, `SendPacket`, `PollPacket` and their helpers |
| UDP endpoint and socket | `udp_transport_endpoint.cpp`, `socket/udp_socket.cpp`, `socket_util.cpp` | a non-blocking socket, its address, a receive buffer | `Create`, `SendPacket`, `PollPacket`, destruction |
| Circular buffer | `core/container/circular_buffer.cpp` | a table of blocks, a head, a tail, sizes and capacities | `Write`, `Read`, `Peek`, growing, shrinking, construction, copy, move, destruction |
| Bit streams | `core/memory-stream/memory_bit_stream.cpp` | a buffer, a bit head, a bit capacity | `WriteBits`, `ReadBits`, reallocation, constructors |
| Acknowledgement ranges | `network/packet/reliability/ack_range.cpp` | a start and a count | `MaybePushBack`, `WriteBitStream`, `ReadBitStream` |
| Timers | `core/timer/timer.h` | previous reading, accumulator | `FrameClock::Tick`, `FixedStepper::AddTime`, `Step`, `Alpha` |
| Game session | `apps/common/src/session/play_session.cpp` | a clock, a stepper, a client, perhaps a server | `Frame` |
| Replication | `network/replication/linking_context.h`, `replication_command.h` | two maps and a counter of a linking context; action and dirty bits of a command | `GetNetworkId`, `AddGameObject`, `RemoveGameObject`; `HandleCreateAckd`, `AddDirtyState`, `SetDestroy`, `ClearDirtyState` |
| Applications | `apps/*/src` | window and session | start, run, shut down |
| Delivery notification, TCP socket, socket addresses, logger | several | little or none | declarations and thin wrappers |
| Drivers, packet readers and writers, replication manager, runtime, server manager | empty files | | |

**How they interact.** A session calls its client, which polls a transport endpoint in
every frame (`play_session.cpp:26`). All endpoints have one interface
(`network_endpoint_interface.h`): `SendPacket` takes a destination, `PollPacket` gives
back at most one packet and says whether it did; callers drain an endpoint by polling
until it says false. The simulation proxy wraps any endpoint and is one. A loopback
endpoint shares a buffer with its peer and may be called from several threads; the
others have no lock. Acknowledgement ranges go into packets through bit streams. A
linking context gives objects their network identifiers; each identifier has a command
that says what its peer must still be told, and the transmission of what was written is
reported delivered or lost later.

**What is hard.** Threads interleave around the mutex of the loopback endpoint. The
proxy takes packets off one deque and puts them into another, reads the clock anew in
each helper, sorts by times the jitter has mixed up, and runs only when it is called:
nothing pushes out a packet but a later call. UDP construction can fail at each of
three calls while another program takes the address; the network loses, repeats and
reorders. Circular buffer, bit streams and ranges are sequential, and hard at their
boundaries: blocks crossed, tables grown and shrunk, bytes straddled, counters and
sequence numbers at their ends. Circular buffers own their tables, and copies, moves and
growth pass them on. The reports on transmissions reach a replication command in any
order, after the object they are about is gone or its identifier reused. The session has to keep up with the clock while its
steps take time.

**What makes each correct.**

- Loopback: every packet pushed is polled once, in order, by the peer; no thread sees
  the deques in between; endpoints that are polled are drained.
- Proxy: no packet is invented, repeated, forgotten or lost without cause; none is
  early; delay and reordering stay within what the settings allow; what was accepted
  comes to an end.
- UDP: an address is taken exactly as long as its endpoint lives; what is polled was
  sent; `false` means there is nothing more.
- Circular buffer: what is read is what was written, oldest first; sizes and
  capacities are right; the table is neither too small nor too large; calls return.
  Of several buffers: each table has one owner, and is freed once.
- Bit streams and ranges: what was written is read back, and a packet that is too
  short spoils nothing.
- Replication: the two maps are inverse to each other, and no removed object is found; a peer is told of an object's
  creation before its updates, and of its destruction, whatever is lost.
- Session: no game time is lost but what a clamped frame drops, server and client simulate the same steps, a frame
  takes boundedly many.

## 2. The modules

| Module | Models | Proofs | Checked by |
|---|---|---|---|
| `Endpoints` | the two sides and the deques that connect them | | |
| `FifoLink` | abstract: a pair of atomic queues | | |
| `LoopbackTransport` | the loopback endpoints, thread by thread | `LoopbackProofs` | `MCLoopback` |
| `DatagramLink` | abstract: an unreliable link with a least latency | | |
| `SimulationProxy` | two proxied endpoints over the queues of `FifoLink` | `SimulationProxyProofs` | `MCProxy` |
| `UdpTransport` | UDP endpoints, their sockets, the kernel and the network | `UdpTransportProofs` | `MCUdp` |
| `CircularBuffer` | the circular buffer, one iteration of its loops at a time | `CircularBufferProofs` | `MCCircularBuffer` |
| `BufferObjects` | the life of several circular buffers and their tables | `BufferObjectsProofs` | `MCBufferObjects` |
| `BitStreams` | the bit streams as operators on records | `AckRangesProofs` | `MCAckRanges` |
| `AckRanges` | ranges, written to and read from packets | `AckRangesProofs` | `MCAckRanges` |
| `Replication` | the linking context and the commands of its identifiers | `ReplicationProofs` | `MCReplication` |
| `GameSession` | a frame over the clock and the stepper | `GameSessionProofs` | `MCGameSession` |

`SimulationProxy` composes with `LoopbackTransport`: it uses the pair of queues that
`LoopbackTransport` is proved to implement in place of the wrapped endpoint, so the two
together are a proxied loopback connection. `AckRanges` extends `BitStreams`.

A definition whose comment begins with "Mutant of" is no part of the model. It stands
beside the definition it changes, as a mistake in the code would change it, and shows
that the property listed with it in `PROJECT.json` notices.

### LoopbackTransport

`mutex` is `mSharedBuffer->m`, `incoming` the two deques. `SendPacket` is `BuildPacket`
(before the lock), `LockToPush` and `PushBack`; `PollPacket` is `LockToPop` and
`PopFront`. Entering the lock records the deque as the thread reads it (`view`) and
leaving it writes the deque back: without the mutex two threads would undo each other's
work, and `LockNoWait`, which drops it, does violate `LockInv`, `NothingLost` and `LinkSpec`.
The code ignores the destination it is given, and so does the model.
`CreateConnectedEndpoints` always makes the buffer, so the test for a null one is never
true and is left out.

### SimulationProxy

Each side has one thread that is outside, flushing, scheduling, pumping or delivering
(`pc`). `Clamp` is the constructor. `Enter` reads the clock for the flush (`cutoff`);
`FlushOne` and `FlushDone` are its loop; `Schedule` the rest of `SendPacket`; `PumpOne`,
`PumpDone` and `Deliver` the rest of `PollPacket`. The clock (`Tick`) may run on between
any two steps. The deques are sets whose front is any entry of the least time: they are
sorted before the front is read, by `std::sort`, which is not stable. A random draw is any
value it could be; probabilities are kept only as possible, impossible or certain. The
first distribution of the constructor is built from the jitter before it is clamped,
which has no defined outcome for a negative jitter but is replaced at once and never
used, and so is left out. The test for a null endpoint changes nothing and is left out.
The deques have no lock, so each proxy has one thread.

### UdpTransport

`phase` says how far `Create` has come: a socket, bound, non-blocking, an endpoint. Each
call may fail, and `Close` then destroys the socket. `ReceiveFrom` and what `PollPacket`
makes of its result are two steps. External, from the way the code uses them: the kernel
(`boundTo`, `queue`, `reset`) and the network (`Lose`, `Arrive`, `Bounce`; a datagram may
arrive twice). `windows` is chosen once: Windows reports an oversized datagram and a
refused one as errors where POSIX cuts the first and says nothing of the second, and only
there the code turns "would block" into zero. `mReceivedBuffer` keeps its bytes
from one packet to the next, each byte being the number of its datagram, so that a byte
that is left over shows. The receive buffer has no lock: one thread per endpoint.

### CircularBuffer

`hd`, `tl`, `tableCapacity`, `table` and the sizes are the fields of the class, `newTable`,
`newHd`, `tmpTl` and `copied` the locals of its methods. Each iteration of a copy loop is
a step. `Write` and `Read` advance the pointer by all that was copied so far, `Peek`
copies every chunk from the tail, and `IncreaseTable` advances the new head in the old
capacity: all three are modelled as they are. A copy past the end of a block has no
defined outcome; its bytes past the end are modelled as going nowhere. The comparison of
`usage_rate` with a quarter, which doubles represent exactly enough, is one of integers. A
`Write` that is refused, a `Read` of more than is stored and calls of size zero change
nothing and are left out, as stutters.

`intact` is the ghost of the defects: it becomes false when a loop takes a second chunk,
when the copy of a move straddles a block, and when a full table is moved. A
`Write` that grows the table always does one of these, because a request that did not fit
crosses the end of a block afterwards. So between calls an intact buffer has a single block:
the data properties say how far the buffer can be relied on, and that is within one block.

### BufferObjects

`CircularBuffer` follows the bytes through one buffer; `BufferObjects` follows the tables through
several. `live` are the objects that are constructed, `buffer` their fields, `heap` the tables
that are allocated with the number and the length of their blocks. `Construct`, `Destroy`,
`CopyConstruct`, `CopyAssign`, `MoveConstruct` and `MoveAssign` are the members of that kind, `Copy` and
`Released` the private `Copy` and `CleanupTable`. `Write` and `Read` are kept with
their loops (`BeginWrite`, `IncreaseTable`, `EndWrite`; `BeginRead`, `ReadChunk`, `DecreaseTable`,
`EndRead`), since the loops replace the table, and `Peek` because it may leave a block. Of the bytes
only the number is kept, and where in its block the oldest is (`tail`).

`undefined` becomes true in a step that frees, reads or writes what it must not, and ends the
behaviour. Where it depends on which bytes are stored whether a step does (a loop over blocks
that are shorter than the object thinks), `Outcomes` allows both. The copy constructor
reads `_tableCapacity` and `_table` before anything set them: it finds any number and a
null or a wild pointer. A wild pointer that happens to be a table of another object is left out. So are assigning a
buffer to itself, blocks of no bytes, and calls that are refused and change nothing.

Four things in the code go wrong, and the model goes wrong with them:

- `IncreaseTable` and `DecreaseTable` bound each piece they copy by the block it comes from
  (`circular_buffer.cpp:255-259`, `296-300`). When the oldest byte is inside a block and the bytes
  go on in the next (`Straddles`), the second piece runs past the end of the new block.
  With blocks of two bytes, writing 3 and 1, reading 1 and writing 1 and 1 is enough.
- `Peek` copies each piece from the place of the first (`:162`), so a second one may run past the
  end of that block.
- The copy constructor runs `Copy` on what its memory held (`buffer_copy` shows it).
- Copy assignment keeps a table of as many blocks, also when they are too short (`:213`).

The first two need an oldest byte inside a block, which takes a `Read` that is not of whole blocks.
`suspect` is the ghost of all four: it is true once such a `Read` was made, a copy constructor found other than
zeros, or a copy assignment kept a table whose blocks are shorter than those of its source.
`CarefulCallsDefined` says that there are no others. Only the third contradicts something the
repository says, so only it has a run that expects a violation.

### BitStreams and AckRanges

`WriteByte`/`WriteBits` and `ReadByte`/`ReadBits` are the overloads of the code for at most
a byte and for more. The constructor from a vector takes its capacity from the
vector it has just moved from, so the stream it makes reads zeros only
(`InputFromVector`); the one from a capacity takes the size of its buffer from a member not
yet set, so any length is possible (`InputFromCapacity`). `ReadBitStream` reads the count
with the bits of `mCount`, where `WriteBitStream` writes those of an `int`, and takes it
as it was written, one less than it was. What can be relied on is `ShortRangesReadBack`: the ranges
whose start and flag the stream holds (`Held`), up to the first that has a count, and of that
one the start. A stream built from a vector holds nothing, so of it this says nothing; nor does it say
what count a longer range gets. These are defects of the code, which the model has as well; no run expects a
violation because no line of the code or its documents says otherwise. `GetCount`, which cuts the count to eight bits, is called by nothing.

### Replication

`objectOf`, `idOf` and `nextId` are the members of `LinkingContext`, `command` the
`ReplicationCommand` of each identifier (`NoCommand` where there is none); a mask of dirty bits is a
set. `Incremented` wraps as the `uint32_t` of the code does. `RemoveGameObject` looks the object up
with `operator[]`, which yields zero for an object it does not have, and then erases what
goes by zero. `ClearDirtyState` turns a destroy into an update, as the code does.

The replication manager is an empty file and the transmission data only declared, so the
owner of both classes is external, after what the declarations and `HandleCreateAckd` ask for:
`Write` clears what it wrote, `Delivered` and `Lost` report on a transmission at any later
time, and what was lost is pending again while its object exists. Beyond that the owner links
and removes objects in any order, also senseless ones (`Link`, `Unregister`). Three ghosts say what may then be
wrong with an identifier, and nothing else may:

- `outdated`: its object was then given another identifier. The object is still found by it, also
  once it was removed (`Link(o, 0)`, `Link(o, 1)`, `Unregister(o)`).
- `contested`: the last call about it gave it to one object, or erased it for one, while another went by it. The
  other one is not found. Removing an unknown object does this to whoever goes by zero.
- `reused`: it was given to an object while something was pending or under way for another one, so that reports and
  commands of the two mix.

`LinksAgree` leaves out `outdated` identifiers in the one direction and `contested` ones in the other,
`ObjectLife` the `reused` ones alone: identifiers that collide or come again while nothing is
pending do no harm to the order of what a peer is told. The default constructor of a command and `RA_RPC` are used
by nothing and left out.

### GameSession

`BeginFrame` is `Tick` and `AddTime`, then `Step`, `ServerTick` and `PredictTick` are the loop,
and `Render` its end. The clock runs on while a step is simulated (`Elapse`). Time is
counted in ticks and the rounding of doubles is left out. The client and server objects are
declared nowhere in the repository, so only the order of their calls is kept. A step of
length zero, for which the loop would not end, is excluded by `SessionAssumption`. `dropped` adds up
the clock time that frames longer than `maxDelta` do not account for, so that `TimeAccounted` can compare
with the clock itself.

## 3. What the runs check

A passing run finds no error. A run that expects a violation shows a disagreement between
the code and something the repository says of it; `PROJECT.json` quotes both under
`findings`.

| Run | Properties | What it shows |
|---|---|---|
| `loopback` | `LockInv`, `NothingLost`, `SourceIsPeer`, `LinkSpec`, `PollingDrains` | three threads: exclusion, exactly-once delivery in order, refinement of `FifoLink`, draining |
| `proxy` | `ExactlyOnePlace`, `BoundedReordering`, `NothingDueIsHeld`, `DueInTime`, `DatagramSpec` | every pair of four settings: nothing forgotten or repeated, bounded delay and reordering, refinement of `DatagramLink` |
| `proxy_live` | `EventuallySettled` | both sides send and poll, the endpoint may refuse: every accepted packet is delivered or dropped |
| `udp` | `AddressesOwned`, `PolledWasSent`, `FalseHidesNothing`, `PollingDrains` | two endpoints, two addresses, another program, both platforms |
| `buffer` | `Accounting`, `TableNotSparse`, `StoredWhileIntact`, `OldestReturnedWhileIntact`, `CallsReturn` | growth, shrinking and crossing of blocks: accounting always right, data right while intact, every call returns |
| `acks` | `RangeIsAcked`, `StreamHoldsWritten`, `ShortRangesReadBack`, `ReadsEndWithPacket` | every pair of ranges through whole and cut packets: the output holds what was written; what the input holds of it is read back up to the first range with a count; no read leaves the packet |
| `session` | `TimeAccounted`, `StepsBounded` | frames whose steps take any time: game time against the clock, and a bound on the steps of a frame |
| `buffer_objects` | `TablesOwnedOnce`, `CarefulCallsDefined`, `WritesReturn` | two buffers made, copied, moved, assigned, resized and destroyed in any order: no table leaks or is freed twice while behaviour is defined; all calls are defined as long as none is of the three kinds `suspect` names; a `Write` returns unless the buffer was moved from |
| `replication` | `LinksAgree`, `ObjectLife` | two objects, identifiers that run over, transmissions reported on in any order: what the two maps say of each other after any calls, and that creates, updates and destroys come in order |
| `buffer_copy` | `CopiesAreDefined` (violated) | a copy constructor frees or keeps whatever table pointer its memory held |
| `buffer_fifo` | `ReadReturnsWritten` (violated) | a table that grows when full has its oldest bytes overwritten |
| `udp_zero` | `ZeroMeansNoData` (violated) | only Windows turns "would block" into zero |

Every passing run but `proxy_live` also checks its module's `TypeOK`.

### Bounds

- *loopback*: two threads on the client and one on the server, `MaxPackets` = 5. Two threads
  on one deque are enough for any pair of operations to interleave; with five packets both
  queues can hold several, so that front, middle and back differ.
- *proxy*: all sixteen pairs of four settings (latency below the jitter, so that delays are cut at
  zero; no jitter; jitter over a positive delay; values that need clamping), two packets in one direction,
  the clock free up to `MaxIdleTime` and beyond it only while a packet has still to become
  due. Two packets are enough to be reordered or confused; the directions do not
  influence each other except through `pc`, and `proxy_live` sends in both.
- *udp*: `MaxDatagrams` = 2, so that a second can meet what the first left behind;
  `MaxFaults` = 1 failed call or repeated datagram; one endpoint wants one address, the
  other either; the one buffer size, two, is shorter than what the other program sends;
  payloads of zero bytes are among those sent.
- *buffer*: blocks of three bytes, calls of one, two and four; `MaxTableCapacity` = 2
  lets the table grow and shrink, `ByteValues` = 3 tells the bytes of one block apart.
  `buffer_fifo` takes more blocks and values to show the loss plainly.
- *buffer_objects*: two objects and three tables, since growing allocates the new table before
  it frees the old; blocks of one and two bytes, so that a copy may meet shorter ones; amounts of one,
  two and three, of which some are whole blocks and some not, and `MaxTableCapacity` = 4, so that a `Write` may have to double more than once
  and a `Read` to halve. `buffer_copy` needs less.
- *replication*: two objects and two numbers (`IdCount` = 2), so that the counter wraps, meets zero
  and meets identifiers in use; one bit of state, since the bits do not influence each other; two
  transmissions, which is enough for reports out of order. Objects and
  transmissions are symmetric, and nothing in the properties tells them apart.
- *acks*: bytes of two bits, sequence numbers of three, ints of five (`ByteBits`,
  `SequenceBits`, `IntBits` are eight, sixteen and thirty-two in the code). As there, a
  number takes more than one byte and an int more than a number; with one flag bit per range,
  the second range begins inside a byte. All starts and counts are tried, with an
  output capacity that has to grow. Here the widths do not divide each other as they do
  in the code, which is the harder case.
- *session*: `MaxTime` = 20 ticks in advances of up to `MaxElapsed` = 8, more than
  `maxDelta`, so that frames are clamped and take none, one or several steps.

### Fairness

Liveness is checked under what the callers and the scheduler do:

- *loopback*: a thread inside the lock leaves it (`PushBack`, `PopFront`). Nothing is assumed
  of a thread that waits for the mutex, since `std::mutex` promises no turn; `PollingDrains`
  speaks of endpoints whose polls do go on getting the lock.
- *proxy*: a call that began goes on (`Work`), time passes (`Tick`), and each side polls again
  and again (`CallPoll`), as `Frame` does. Nothing is assumed of sending.
- *buffer*, *buffer_objects*: a call's loops go on (`Work`).
- *udp*: the owner of an endpoint goes on polling it while it exists. The network owes
  nothing.

## 4. What is proved

Proofs hold for all values of the constants that satisfy the assumption named in the module
(`LoopbackAssumption`, `ProxyAssumption`, `UdpAssumption`, `BufferAssumption`, `ObjectsAssumption`,
`ReplicationAssumption`, `SessionAssumption`, `ByteAssumption` with `AckAssumption`), which say only what kind of
thing each constant is, that the values that stand for nothing are none, that blocks have bytes and bytes
have bits, that an `int` is wider than a sequence number, and for the session that a step takes time.

**LoopbackProofs.** `TypeCorrect`, `MutualExclusion`, `NoPacketLost`, `RepliesReachSender`,
`ImplementsFifoLink`, for any set of threads. The invariant `IInv` adds to `TypeOK` and `LockInv` that a thread
about to push has a packet. `LockInv` is inductive because it says of the owner of the mutex
what it has read: its `view` is still the deque. From there a push is an append to the
deque and a pop takes its head, which keeps `accepted = polled \o incoming` and maps each
step to a `Send`, a `Poll` or a stutter of `FifoLink`. `RepliesReachSender` follows from
`NothingLost` and `Signed`: what a side has built or pushed carries its own address.

**SimulationProxyProofs.** `TypeCorrect`, `NothingHeld`, `Punctual`, `OvertakingBounded`,
`ExactlyOnce`, `ImplementsDatagramLink`, for all settings, however many packets and whatever the clock does. `BoundedReordering` is not
inductive: it compares the times at which packets were sent, of which the sort knows nothing.
The invariant `Overtaking` puts the scheduled time between them: a packet that left was at the
front, so all that stayed is scheduled no earlier (`q.at + MinDelay <= q.time <= e.time`), and what is scheduled
later is scheduled no earlier than now plus the least delay (`Past` says that what left was sent by now). With
`OutTimes`, the upper end of the same interval, the bound follows. `NothingHeld` needs that a deque that
is not empty has a front, the lemma `FrontExists`, which rests on there being a least element in any
set of natural numbers (`LeastElement`): the loop looks at the front alone, and this is why
that is enough.

For `ExactlyOnce` and `ImplementsDatagramLink` the packets a side has sent are followed by their numbers: `Split` says that `1..sentCount` falls into the
numbers of five disjoint places, and `Single` that no deque holds a number twice. A move takes one number from one
place to the next, which `FlushedPlaced`, `SentPlaced`, `PumpedPlaced` and `DeliveredPlaced` show of one
direction, as sets and sequences without any state; that the other direction is not touched needs that what is
under way in a direction was sent from its end. Each step is then one of `DatagramLink` or a stutter: a packet that leaves its
last deque is no longer anywhere in flight because it was in one place only. That none is delivered
early is `Latency`: what is on the wire took the least delay of its sender, and what waits to be delivered
had taken it when it arrived. The link is lossy only where a step that drops is possible.

**CircularBufferProofs.** `TypeCorrect`, `AccountingCorrect`, `NeverSparse`, `ContentsKept`,
`OldestReturned`, for every block
size, table size and sequence of calls, the ones that go wrong included. The pointers stay
in the table because every advance wraps. What needs an invariant is shrinking: the new
head is advanced in the old capacity and might leave the new table. `MoveInv` says that
head and copied bytes agree (`copied = kBlockSize * newHd.n + newHd.m`, for which
`AdvanceLinear` shows that nothing wraps below the capacity) and that less than a
quarter is stored, so it does not. `SparseInv` says why the table ends a
call at least a quarter full: a `Write` doubles it only for a request that did not fit.
The data rests on `DataInv`. `HeldInv` says, in the middle of a `Write` or `Read` too, that the
bytes lie in the first block from the tail on and around its end (`Wrap`), with the head where they
end. `GrownInv` is why nothing need be known of bytes that were moved: a `Write` that has
made the table grow stands where it must take a second chunk, so it does not end intact. `OutInv`
says what `Read` and `Peek` have handed out, and that a second chunk of `Peek` starts only past the
end of the tail's block.

**UdpTransportProofs.** `TypeCorrect`, `AddressesCorrect`, `PolledCorrect`, `FalseHonest`, for any endpoints and
addresses, whatever the network loses, repeats and reorders. `AddressesOwned` needs `Made`: an
endpoint that has a socket has the address it was given, so that `Bind` takes the right one
and `Close` gives it back. `PolledWasSent` is the end of a chain: what is on the network was sent;
what waits at a socket was sent to its address (`QueueSent`, which rests on `Owned`, as the kernel
delivers to whoever has the address, and on `Close` forgetting the queue, as the next owner must not get it);
and between `ReceiveFrom` and the end of `PollPacket` the first bytes of the buffer are those of one such
datagram, whatever stood there before (`HoldsSent`, by the lemma `Overwritten`). `FalseHonest` is a
property of steps and takes one case for each thing `ReceiveFrom` may find. Two facts about
states carry it: of what was sent only another program's datagrams are empty (`EmptyIsForeign`,
as `SendPacket` refuses to send nothing), and a refusal waits at a socket only on Windows
(`ResetOnWindows`).

**BufferObjectsProofs.** `TypeCorrect`, `OwnedOnce`, `DefinedCalls`, for any objects, tables and
block sizes. That sizes stay numbers needs `ReadStored`: a `Read` has what it still has to copy. That each table
has one owner is inductive together with the object
of a call being live: every step hands over, replaces or frees the tables of at most two objects
and leaves all others (`OneChanges`). `FitIn` states of one buffer that its table
fits its fields; it takes the heap as a parameter, so that the same lemmas serve before and after a step.
`DefinedCalls` also needs `WholeReads`, in every state that is not suspect (`Aligned`): the oldest byte of each
object is at the start of a block, so that no copy straddles and no `Peek` overruns, and what a `Read` has
copied so far is a number of blocks, so that going on by it leaves the tail where it is in its block.

**ReplicationProofs.** `TypeCorrect`, `MapsAgree`, `LifeInOrder`, for any objects, any width of
identifiers and any number of transmissions in flight. The two directions of `LinksAgree` are inductive
together (`AddKeepsAgreement`, `RemoveKeepsAgreement`). `ObjectLife` is not: that a
pending destroy never turns into an update that can be sent rests on three facts about
identifiers that were not reused. Once a destroy is pending or out, the object is not linked, so nothing
makes the command dirty (`Quiet`); the update that `ClearDirtyState` leaves behind a destroy that was
written has nothing to write (`Stranded`); and only the delivery of a destroy ends a
command (`DoomedHaveCommand`), so its loss finds one to make pending again.

**GameSessionProofs.** `TypeCorrect`, `NoTimeLost`, `FramesEnd`, for every
length of step and frame and both kinds of session. `Accounted` counts the step being
simulated; `Budget` says that what a frame has simulated and still holds is
less than a clamped frame and a step, because every frame begins with less than a step left
over.

**AckRangesProofs.** `TypeCorrect`, `RangesAreAcked`, `WritesAreHeld`, `RangesReadBack`,
`ReadsStayInPacket`, for bytes, sequence numbers and ints of any width, so for those of the code
and not only for the small ones that TLC enumerates. Three things had to be built first.

- *Loops.* The loops over bytes and bits (`WriteBits`, `ReadBits`, `FromBits`, `Flatten`) and `Pow2` are recursive
  functions, which the provers know only as a choice of some function that satisfies an equation. `LoopExists`
  shows that there is one for any finite number of rounds, and each loop's lemma follows from its equation.
- *Induction.* The library's induction takes an operator as a parameter. Here it is a fact about sets:
  `LeastElement`, that a set of numbers has a least one, comes from the well-foundedness of
  finite sets under inclusion, and `InductUpto` says that a set which contains zero and with
  each number the next, up to a bound, contains all up to it. Each induction names the set of the rounds after
  which its claim holds.
- *Bits.* `ToBits` and `FromBits` are inverse below `Pow2` of the width, and what `FromBits` makes of fewer
  bits is below `Pow2` of theirs, from division with remainder (`DivUnique`, `DivMod`) alone.

`StreamHoldsWritten` compares the stream with all bits at once; `Holds` says the same of each place of each byte.
`WriteByteHolds` is the heart: a write of at most a byte puts its bits into the byte of the head and, if they do not fit,
the next, and leaves the others; `RoomHolds` says that a reallocated buffer is as good as the old. `WriteBitsHolds` is
the loop over it. On the other side `ReadBitsFacts` says of any read what it makes of what is left:
bits that are there, zeros for bytes that do not fit. `ReadBitStreamReads` does so for a range at any place of
a stream and `ReadBitStreamGives` for one whose start and flag stand there (`Stands`).

`ShortRangesReadBack` and `ReadsEndWithPacket` speak of ranges already read, so the invariant `Inv` says what the
reader's position means: the head is where the bits asked for end, or at the capacity
(`HeadIsRequested`); the input holds the first bytes of the output (`PartIsWritten`); nothing was read
before there was an input (`NothingRead`); and while all ranges so far were short and held, reader and writer agree where the
next begins (`InStep`), which is what fails after the first range with a count.

**Model-checked only.** All liveness (`PollingDrains` twice, `EventuallySettled`, `CallsReturn`,
`WritesReturn`): fairness and ENABLED are out of the prover's reach. Every other property of a
passing run is stated by a theorem. The runs that expect a violation show one behaviour each, and
have nothing to prove.

## 5. What is not modelled, and why

- Starting and shutting down the applications: an order of GLFW calls around a session that cannot
  be built yet; planned if a run is left for it.
- Delivery notification: only declarations and two inline functions. Drivers, packet readers and writers,
  replication manager, runtime and server manager: empty files.
- TCP socket, socket addresses, logger: wrappers and formatting without state. That the socket's last
  error is read after the logger has run is listed as a hazard; what the logger's output calls do to it
  is the platform's business.
- Races on what has no lock (the proxy's deques, the UDP receive buffer): undefined, so
  the models call these from one thread. Both are listed as hazards.
- A peer that sends faster than `PollPacket` of the proxy drains the wrapped endpoint keeps its loop
  running; the model sends finitely many packets.
- `tickId` of `Frame`, which nothing advances, and the missing return of `Frame`: code that is not
  finished.
- Choosing overloads by template, and the conversions of `float` and `double` in the bit streams.

## 6. Plan

Done, in this order: the loopback transport, its abstraction and proofs; the proxy over it, with
its abstraction; the circular buffer and its proofs; UDP; bit streams and ranges; the session
and its proofs; the proofs about the proxy; circular buffers as objects and replication, each with its
proofs; the proofs about UDP; the proxies as a datagram link; the data of the circular buffer; what a UDP
poll that returns false says; the bit streams and ranges for every width.

Left, of the model: the start and shutdown of the applications, once a session can be built and
`OnInit` is more than a stub, and the replication manager once it exists.

Left, of the proofs: nothing that a run checks and the prover can reach.
