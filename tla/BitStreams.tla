----------------------------- MODULE BitStreams -----------------------------
(***************************************************************************)
(* OutputMemoryBitStream and InputMemoryBitStream as operators on records: *)
(* a stream has a bit head, a capacity in bits and a buffer of bytes, each *)
(* a function from the places of its bits, least significant first.  The   *)
(* 32 bits of head and capacity are taken to suffice.                      *)
(***************************************************************************)
EXTENDS Integers, Sequences

CONSTANT ByteBits      \* bits in a byte: eight

ASSUME ByteAssumption == ByteBits \in Nat \ {0}

Bit == {0, 1}
Byte == [0..(ByteBits - 1) -> Bit]
Stream == [head : Nat, capacity : Nat, buffer : Seq(Byte)]

Least(a, b) == IF a < b THEN a ELSE b
Greatest(a, b) == IF a > b THEN a ELSE b

\* (bits + 7) >> 3
BytesFor(bits) == (bits + ByteBits - 1) \div ByteBits

Zeros(bytes) == [i \in 1..bytes |-> [j \in 0..(ByteBits - 1) |-> 0]]

NewOutput(bitCapacity) ==
  [head |-> 0, capacity |-> bitCapacity, buffer |-> Zeros(BytesFor(bitCapacity))]

\* ReallocBuffer.
Realloc(stream, newBitCapacity) ==
  [stream EXCEPT
     !.capacity = newBitCapacity,
     !.buffer = @ \o Zeros(BytesFor(newBitCapacity) - Len(@))]

Room(stream, bitCount) ==
  LET nextBitHead == stream.head + bitCount IN
  IF nextBitHead > stream.capacity
    THEN Realloc(stream, Greatest(2 * stream.capacity, nextBitHead))
    ELSE stream

\* The bits of a byte from `place` on replaced by those given.
Overwrite(byte, place, bits) ==
  [j \in 0..(ByteBits - 1) |->
     IF j \in place..(place + Len(bits) - 1) THEN bits[j - place + 1] ELSE byte[j]]

\* Mutant of WriteByte: what does not fit into the current byte is dropped.
WriteByteDrops(stream, bits) ==
  LET roomy == Room(stream, Len(bits))
      o == stream.head \div ByteBits + 1
      place == stream.head % ByteBits
      this == Least(Len(bits), ByteBits - place) IN
  [roomy EXCEPT !.head = @ + Len(bits),
                !.buffer[o] = Overwrite(@, place, SubSeq(bits, 1, this))]

\* WriteBits of a byte: its first bits go into the current byte, what remains
\* to the beginning of the next.
WriteByte(stream, bits) ==
  LET roomy == Room(stream, Len(bits))
      o == stream.head \div ByteBits + 1
      place == stream.head % ByteBits
      this == Least(Len(bits), ByteBits - place)
      first == [roomy EXCEPT !.head = @ + Len(bits),
                  !.buffer[o] = Overwrite(@, place, SubSeq(bits, 1, this))] IN
  IF this = Len(bits)
    THEN first
    ELSE [first EXCEPT
            !.buffer[o + 1] = Overwrite(@, 0, SubSeq(bits, this + 1, Len(bits)))]

\* The bits of the i-th byte of a value.
Slice(bits, i) == SubSeq(bits, ByteBits * (i - 1) + 1, Least(ByteBits * i, Len(bits)))

\* WriteBits of any number of bits: whole bytes, then what is left.
WriteBits(stream, bits) ==
  LET after[i \in 0..BytesFor(Len(bits))] ==
        IF i = 0 THEN stream ELSE WriteByte(after[i - 1], Slice(bits, i)) IN
  after[BytesFor(Len(bits))]

-----------------------------------------------------------------------------
(* A read gives the stream after it and the bits read.                     *)

\* The constructor from a vector: mBuffer, declared first, is initialized
\* first, so the vector has been moved from when its size is taken.
InputFromVector(bytes) == [head |-> 0, capacity |-> 0, buffer |-> bytes]

\* The constructor from a capacity: the buffer is allocated by the capacity
\* before that is initialized, so it may have any length.  The caller copies
\* what arrived into it.
InputFromCapacity(bytes, allocated) ==
  [head |-> 0, capacity |-> ByteBits * Len(bytes),
   buffer |-> SubSeq(bytes, 1, Least(allocated, Len(bytes)))]

\* The bit at a place counted from the beginning; past the end of the buffer it
\* is whatever is there.
BitAt(stream, place, beyond) ==
  LET o == place \div ByteBits + 1 IN
  IF o <= Len(stream.buffer) THEN stream.buffer[o][place % ByteBits] ELSE beyond

\* Mutant of ReadByte: a read past the end does not move the head.
ReadByteNoClamp(stream, bitCount, beyond) ==
  IF stream.head + bitCount > stream.capacity
    THEN [stream |-> stream, bits |-> [i \in 1..bitCount |-> 0]]
    ELSE [stream |-> [stream EXCEPT !.head = @ + bitCount],
          bits |-> [i \in 1..bitCount |-> BitAt(stream, stream.head + i - 1, beyond)]]

\* ReadBits of a byte.
ReadByte(stream, bitCount, beyond) ==
  IF stream.head + bitCount > stream.capacity
    THEN [stream |-> [stream EXCEPT !.head = stream.capacity],
          bits |-> [i \in 1..bitCount |-> 0]]
    ELSE [stream |-> [stream EXCEPT !.head = @ + bitCount],
          bits |-> [i \in 1..bitCount |-> BitAt(stream, stream.head + i - 1, beyond)]]

\* ReadBits of any number of bits.
ReadBits(stream, bitCount, beyond) ==
  LET after[i \in 0..BytesFor(bitCount)] ==
        IF i = 0 THEN [stream |-> stream, bits |-> << >>]
        ELSE LET before == after[i - 1]
                 byte == ReadByte(before.stream,
                           Least(ByteBits, bitCount - ByteBits * (i - 1)), beyond) IN
             [stream |-> byte.stream, bits |-> before.bits \o byte.bits] IN
  after[BytesFor(bitCount)]
=============================================================================
