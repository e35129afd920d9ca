----------------------------- MODULE AckRanges ------------------------------
(***************************************************************************)
(* AckRange: a run of acknowledged sequence numbers, and its way through a *)
(* packet.  One side extends ranges and writes them to a bit stream; the   *)
(* bytes arrive whole or cut short; the other side reads ranges from them. *)
(***************************************************************************)
EXTENDS BitStreams

CONSTANTS
  SequenceBits,        \* bits of PacketSequenceNumber and of mCount: sixteen
  IntBits,             \* bits of int: thirty-two
  BitCapacity,         \* capacity an output stream is made with
  MaxRanges            \* bound: ranges in a packet

ASSUME AckAssumption ==
  /\ SequenceBits \in Nat \ {0}
  /\ IntBits \in Nat /\ IntBits > SequenceBits
  /\ BitCapacity \in Nat
  /\ MaxRanges \in Nat

VARIABLES
  range,               \* the range that is being extended
  out,                 \* the stream the ranges are written to
  in,                  \* the stream they are read from
  receiving,           \* whether `in` has been made
  acked,               \* history: the numbers `range` was made with
  written,             \* history: ranges written
  requested,           \* history: bits asked of `in`
  ranges               \* history: ranges read

vars == <<range, out, in, receiving, acked, written, requested, ranges>>

\* Powers of two, as a recursive function so that proofs know them.
Pow2[n \in Nat] == IF n = 0 THEN 1 ELSE 2 * Pow2[n - 1]

MaxNumber == Pow2[SequenceBits] - 1
SequenceNumber == 0..MaxNumber

ToBits(value, width) == [i \in 1..width |-> (value \div Pow2[i - 1]) % 2]

FromBits(bits) ==
  LET sum[i \in 0..Len(bits)] ==
        IF i = 0 THEN 0 ELSE sum[i - 1] + bits[i] * Pow2[i - 1] IN
  sum[Len(bits)]

DefaultRange == [mStart |-> 0, mCount |-> 0]
NoInput == InputFromVector(<< >>)

Init ==
  /\ range = DefaultRange
  /\ out = NewOutput(BitCapacity)
  /\ in = NoInput
  /\ receiving = FALSE
  /\ acked = {}
  /\ written = << >>
  /\ requested = 0
  /\ ranges = << >>

-----------------------------------------------------------------------------
(* Extending a range.                                                      *)

NewRange(startNumber) ==
  /\ ~receiving
  /\ range' = [mStart |-> startNumber, mCount |-> 1]
  /\ acked' = {startNumber}
  /\ UNCHANGED <<out, in, receiving, written, requested, ranges>>

\* Mutant of MayPushBack: the count may run over.
MayPushBackOverflows(n) == n = range.mStart + range.mCount

\* The sum is an int: it does not wrap where sequence numbers do.
MayPushBack(n) == range.mCount < MaxNumber /\ n = range.mStart + range.mCount

MaybePushBack(n) ==
  /\ ~receiving
  /\ MayPushBack(n)
  /\ range' = [range EXCEPT !.mCount = (@ + 1) % Pow2[SequenceBits]]
  /\ acked' = acked \cup {n}
  /\ UNCHANGED <<out, in, receiving, written, requested, ranges>>

-----------------------------------------------------------------------------
(* Writing a range.                                                        *)

\* mCount - 1 is an int and is written with all its bits.
Encoded(r) ==
  ToBits(r.mStart, SequenceBits)
    \o (IF r.mCount > 1 THEN <<1>> \o ToBits(r.mCount - 1, IntBits) ELSE <<0>>)

WriteBitStream(stream, r) ==
  LET start == WriteBits(stream, ToBits(r.mStart, SequenceBits)) IN
  IF r.mCount > 1
    THEN WriteBits(WriteByte(start, <<1>>), ToBits(r.mCount - 1, IntBits))
    ELSE WriteByte(start, <<0>>)

\* A range is written once, and the next begins as the default constructor
\* makes it.
WriteRange ==
  /\ ~receiving
  /\ Len(written) < MaxRanges
  /\ out' = WriteBitStream(out, range)
  /\ written' = Append(written, range)
  /\ range' = DefaultRange
  /\ acked' = {}
  /\ UNCHANGED <<in, receiving, requested, ranges>>

-----------------------------------------------------------------------------
(* The bytes arrive, possibly cut short, and are read.                     *)

GetByteLength == BytesFor(out.head)

Receive(length) ==
  LET bytes == SubSeq(out.buffer, 1, length) IN
  /\ ~receiving
  /\ range = DefaultRange
  /\ receiving' = TRUE
  /\ \/ in' = InputFromVector(bytes)
     \/ \E allocated \in {0, length} : in' = InputFromCapacity(bytes, allocated)
  /\ UNCHANGED <<range, out, acked, written, requested, ranges>>

\* Mutant of ReadBitStream: the count is read when there is none.
ReadBitStreamAlways(stream, beyond) ==
  LET start == ReadBits(stream, SequenceBits, beyond)
      hasCount == ReadByte(start.stream, 1, beyond)
      count == ReadBits(hasCount.stream, SequenceBits, beyond) IN
  [range |-> [mStart |-> FromBits(start.bits), mCount |-> FromBits(count.bits)],
   stream |-> count.stream, asked |-> 2 * SequenceBits + 1]

\* Mutant of ReadBitStream: the count is read as the int that was written.
ReadBitStreamWide(stream, beyond) ==
  LET start == ReadBits(stream, SequenceBits, beyond)
      hasCount == ReadByte(start.stream, 1, beyond)
      count == ReadBits(hasCount.stream, IntBits, beyond) IN
  IF hasCount.bits = <<1>>
    THEN [range |-> [mStart |-> FromBits(start.bits), mCount |-> FromBits(count.bits)],
          stream |-> count.stream, asked |-> SequenceBits + IntBits + 1]
    ELSE [range |-> [mStart |-> FromBits(start.bits), mCount |-> 1],
          stream |-> hasCount.stream, asked |-> SequenceBits + 1]

\* The count is read with the bits of mCount, and taken as it was written.
ReadBitStream(stream, beyond) ==
  LET start == ReadBits(stream, SequenceBits, beyond)
      hasCount == ReadByte(start.stream, 1, beyond)
      count == ReadBits(hasCount.stream, SequenceBits, beyond) IN
  IF hasCount.bits = <<1>>
    THEN [range |-> [mStart |-> FromBits(start.bits), mCount |-> FromBits(count.bits)],
          stream |-> count.stream, asked |-> 2 * SequenceBits + 1]
    ELSE [range |-> [mStart |-> FromBits(start.bits), mCount |-> 1],
          stream |-> hasCount.stream, asked |-> SequenceBits + 1]

ReadRange ==
  /\ receiving
  /\ Len(ranges) <= MaxRanges
  /\ \E beyond \in Bit :
       LET result == ReadBitStream(in, beyond) IN
       /\ in' = result.stream
       /\ ranges' = Append(ranges, result.range)
       /\ requested' = requested + result.asked
  /\ UNCHANGED <<range, out, receiving, acked, written>>

\* Both sides turn to the next packet.
NextPacket ==
  /\ receiving
  /\ out' = NewOutput(BitCapacity)
  /\ in' = NoInput
  /\ receiving' = FALSE
  /\ written' = << >>
  /\ requested' = 0
  /\ ranges' = << >>
  /\ UNCHANGED <<range, acked>>

-----------------------------------------------------------------------------
Next ==
  \/ \E n \in SequenceNumber : NewRange(n) \/ MaybePushBack(n)
  \/ WriteRange
  \/ \E length \in 0..GetByteLength : Receive(length)
  \/ ReadRange
  \/ NextPacket

Spec == Init /\ [][Next]_vars

-----------------------------------------------------------------------------
(* Properties.                                                             *)

AckRange == [mStart : SequenceNumber, mCount : SequenceNumber]

TypeOK ==
  /\ range \in AckRange
  /\ out \in Stream
  /\ in \in Stream
  /\ receiving \in BOOLEAN
  /\ acked \subseteq SequenceNumber
  /\ written \in Seq(AckRange)
  /\ requested \in Nat
  /\ ranges \in Seq(AckRange)

\* A range stands for the numbers it was made with and extended by, and for no
\* other: its count never runs over, and it never reaches past the greatest
\* sequence number into those that come after the wrap.
RangeIsAcked ==
  /\ acked = range.mStart..(range.mStart + range.mCount - 1)
  /\ acked \subseteq SequenceNumber

Flatten(rs) ==
  LET f[i \in 0..Len(rs)] == IF i = 0 THEN << >> ELSE f[i - 1] \o Encoded(rs[i]) IN
  f[Len(rs)]

\* However many bits each write has, wherever in a byte it begins and however
\* often the buffer was reallocated, the stream holds the bits written, in
\* order, and the bits after them in its last byte are zero.
StreamHoldsWritten ==
  LET bits == Flatten(written) IN
  /\ out.head = Len(bits)
  /\ out.head <= out.capacity
  /\ Len(out.buffer) = BytesFor(out.capacity)
  /\ \A place \in 0..(ByteBits * Len(out.buffer) - 1) :
       BitAt(out, place, 0) = IF place < out.head THEN bits[place + 1] ELSE 0

IsShort(r) == r.mCount <= 1

\* How many bits a stream has both room and bytes for: none if it was made from a
\* vector, and if it was made with a capacity what its buffer happened to get.
Held(stream) == Least(stream.capacity, ByteBits * Len(stream.buffer))

\* Of a packet of any length, whole or cut, the ranges are read back from what the
\* stream holds up to the first that has a count, and of that one the start: as
\* long as all before it are of one number, start and flag of a range that is held
\* are found where they were written.  Of a stream made from a vector this says
\* nothing, since nothing is held; nor does it say what count a longer range gets,
\* or what the ranges after it are, about whose place the two sides disagree.
ShortRangesReadBack ==
  \A i \in 1..Least(Len(ranges), Len(written)) :
    (\A k \in 1..(i - 1) : IsShort(written[k])) /\ i * (SequenceBits + 1) <= Held(in) =>
      /\ ranges[i].mStart = written[i].mStart
      /\ IsShort(written[i]) => ranges[i].mCount = 1

Left == Greatest(0, in.capacity - requested)

\* A packet that ends too early never makes a read leave it, and nothing is made
\* up of what came before: the head stays within the capacity, and a range whose
\* start does not fit into what is left has only those bytes of it that do, the
\* rest being zero, and no count.  Every range after that is number zero alone.
ReadsEndWithPacket ==
  /\ [](in.head <= in.capacity)
  /\ [][Len(ranges') > Len(ranges) /\ Left < SequenceBits =>
          LET r == ranges'[Len(ranges')] IN
          /\ r.mStart < Pow2[ByteBits * (Left \div ByteBits)]
          /\ r.mCount = 1]_vars
=============================================================================
