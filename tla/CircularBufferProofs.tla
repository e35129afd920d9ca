------------------------ MODULE CircularBufferProofs ------------------------
(***************************************************************************)
(* Proofs about CircularBuffer for any block size, any sizes of calls and  *)
(* any table: the pointers never leave the table, the accounting of sizes  *)
(* and capacities is right, between calls the table is not sparse, and as  *)
(* long as the buffer is intact its data is right.                         *)
(***************************************************************************)
EXTENDS CircularBuffer, SequenceTheorems, TLAPS

Cell == Byte \cup {Junk}

\* The number of blocks of the table a move makes.
NewCapacity == IF pc = "increase" THEN 2 * tableCapacity ELSE tableCapacity \div 2

NotSparse(size) == tableCapacity = 1 \/ 4 * size >= totalCapacity

\* What a running call relies on.
CallInv ==
  /\ pc = "idle" => copied = 0
  /\ pc # "peek" => tmpTl = Origin
  /\ pc = "write" => Fits(request) \/ kGrowable
  /\ pc = "increase" => kGrowable /\ ~Fits(request)

\* What a move relies on: a table that shrinks has room for what it gets.
MoveInv ==
  /\ pc \in {"increase", "decrease"} => newTable \in Table(NewCapacity)
  /\ pc = "decrease" =>
       /\ tableCapacity > 1
       /\ 4 * totalSize < totalCapacity
       /\ copied = kBlockSize * newHd.n + newHd.m

\* Why the table is not sparse at the end of a call.
SparseInv ==
  /\ pc \in {"idle", "read", "peek"} => NotSparse(totalSize)
  /\ pc = "write" => NotSparse(totalSize + request)

IInv == TypeOK /\ Accounting /\ CallInv /\ MoveInv /\ SparseInv

-----------------------------------------------------------------------------
(* Arithmetic.                                                             *)

\* Names for the two operations, which the provers then reason about only
\* through the facts below.
Quotient(a, b) == a \div b
Remainder(a, b) == a % b

LEMMA DivMod ==
  ASSUME NEW a \in Nat, NEW b \in Nat \ {0}
  PROVE  /\ Quotient(a, b) \in Nat
         /\ Remainder(a, b) \in 0..(b - 1)
         /\ a = b * Quotient(a, b) + Remainder(a, b)
<1>1. a \div b \in Nat
  OBVIOUS
<1>2. a % b \in 0..(b - 1)
  OBVIOUS
<1>3. a % b = a - b * (a \div b)
  OBVIOUS
<1>4. /\ Quotient(a, b) \in Nat
      /\ Remainder(a, b) \in 0..(b - 1)
      /\ Remainder(a, b) = a - b * Quotient(a, b)
  BY <1>1, <1>2, <1>3 DEF Quotient, Remainder
<1> QED
  BY <1>4

LEMMA ModSmall ==
  ASSUME NEW a \in Nat, NEW b \in Nat \ {0}, a < b
  PROVE  Remainder(a, b) = a
BY DEF Remainder

LEMMA Monotone ==
  ASSUME NEW a \in Nat, NEW b \in Nat, NEW c \in Nat, a <= b
  PROVE  c * a <= c * b
OBVIOUS

LEMMA Cancel ==
  ASSUME NEW a \in Nat, NEW b \in Nat, NEW c \in Nat \ {0}, NEW r \in Nat,
         c * a + r < c * b
  PROVE  a < b
<1>1. SUFFICES ASSUME b <= a PROVE FALSE
  OBVIOUS
<1>2. c * b <= c * a
  BY <1>1, Monotone
<1> QED
  BY <1>2

LEMMA Half ==
  ASSUME NEW t \in Nat, t > 1
  PROVE  /\ t \div 2 \in Nat \ {0}
         /\ t <= 3 * (t \div 2)
OBVIOUS

-----------------------------------------------------------------------------
(* The helpers: pointers stay in the table, copies have whole cells.       *)

LEMMA AdvanceParts ==
  ASSUME NEW p, NEW size
  PROVE  AdvanceBufferPointer(p, size) =
           [n |-> Remainder(p.n + Quotient(p.m + size, kBlockSize), tableCapacity),
            m |-> Remainder(p.m + size, kBlockSize)]
BY DEF AdvanceBufferPointer, Quotient, Remainder

LEMMA AdvanceType ==
  ASSUME NEW p \in Pointer(tableCapacity), NEW size \in Nat,
         tableCapacity \in Nat \ {0}
  PROVE  AdvanceBufferPointer(p, size) \in Pointer(tableCapacity)
<1> USE BufferAssumption DEF BufferAssumption
<1>1. p.n \in Nat /\ p.m + size \in Nat
  BY DEF Pointer
<1>2. /\ Quotient(p.m + size, kBlockSize) \in Nat
      /\ Remainder(p.m + size, kBlockSize) \in 0..(kBlockSize - 1)
  BY <1>1, DivMod
<1>3. p.n + Quotient(p.m + size, kBlockSize) \in Nat
  BY <1>1, <1>2
<1>4. Remainder(p.n + Quotient(p.m + size, kBlockSize), tableCapacity)
        \in 0..(tableCapacity - 1)
  BY <1>3, DivMod
<1> QED
  BY <1>2, <1>4, AdvanceParts DEF Pointer

LEMMA OriginType ==
  ASSUME NEW capacity \in Nat \ {0}
  PROVE  Origin \in Pointer(capacity)
BY BufferAssumption DEF BufferAssumption, Origin, Pointer

LEMMA PointerWithin ==
  ASSUME NEW capacity \in Nat, NEW other \in Nat, NEW p \in Pointer(capacity), p.n < other
  PROVE  p \in Pointer(other)
<1>1. p.n \in 0..(other - 1)
  BY DEF Pointer
<1> QED BY <1>1 DEF Pointer

LEMMA BlocksType ==
  ASSUME NEW capacity \in Nat \ {0}
  PROVE  Blocks(capacity) \in Table(capacity)
BY DEF Blocks, Table

LEMMA ChunkType ==
  ASSUME NEW p \in Pointer(tableCapacity), NEW total \in Nat, copied \in Nat,
         copied <= total
  PROVE  /\ Chunk(p, total) \in Nat
         /\ Chunk(p, total) <= kBlockSize - p.m
         /\ copied + Chunk(p, total) <= total
BY BufferAssumption DEF BufferAssumption, Chunk, Least, Pointer

LEMMA BytesAtType ==
  ASSUME NEW p \in Pointer(tableCapacity), NEW count \in Nat,
         table \in Table(tableCapacity), count <= kBlockSize - p.m
  PROVE  BytesAt(p, count) \in Seq(Cell) /\ Len(BytesAt(p, count)) = count
<1> USE BufferAssumption DEF BufferAssumption
<1>1. ASSUME NEW i \in 1..count
      PROVE  table[p.n][p.m + i - 1] \in Cell
  BY <1>1 DEF Pointer, Table, Cell
<1> QED
  BY <1>1 DEF BytesAt

LEMMA CopyIntoType ==
  ASSUME NEW block \in [0..(kBlockSize - 1) -> Cell], NEW m \in Nat,
         NEW bytes \in Seq(Cell)
  PROVE  CopyInto(block, m, bytes) \in [0..(kBlockSize - 1) -> Cell]
<1> USE BufferAssumption DEF BufferAssumption
<1>1. ASSUME NEW i \in 0..(kBlockSize - 1)
      PROVE  (IF i \in m..(m + Len(bytes) - 1) THEN bytes[i - m + 1] ELSE block[i]) \in Cell
  <2>1. CASE i \in m..(m + Len(bytes) - 1)
    <3>1. i - m + 1 \in 1..Len(bytes)
      BY <2>1
    <3> QED
      BY <2>1, <3>1
  <2>2. CASE i \notin m..(m + Len(bytes) - 1)
    BY <2>2
  <2> QED
    BY <2>1, <2>2
<1> QED
  BY <1>1 DEF CopyInto

\* A copy into one block of a table leaves a table, whatever the block number.
LEMMA StoreType ==
  ASSUME NEW capacity \in Nat, NEW t \in Table(capacity), NEW n, NEW m \in Nat,
         NEW bytes \in Seq(Cell)
  PROVE  [t EXCEPT ![n] = CopyInto(@, m, bytes)] \in Table(capacity)
<1>1. CASE n \in 0..(capacity - 1)
  <2>1. t[n] \in [0..(kBlockSize - 1) -> Cell]
    BY <1>1 DEF Table, Cell
  <2>2. CopyInto(t[n], m, bytes) \in [0..(kBlockSize - 1) -> Cell]
    BY <2>1, CopyIntoType
  <2> QED
    BY <1>1, <2>2 DEF Table, Cell
<1>2. CASE n \notin 0..(capacity - 1)
  BY <1>2 DEF Table
<1> QED
  BY <1>1, <1>2

\* Within the capacity of the table a pointer that stands at a byte, counted from
\* the first block, stands `size` bytes further on after it is advanced.
LEMMA AdvanceLinear ==
  ASSUME NEW p \in Pointer(tableCapacity), NEW size \in Nat,
         tableCapacity \in Nat \ {0},
         kBlockSize * p.n + (p.m + size) < kBlockSize * tableCapacity
  PROVE  LET q == AdvanceBufferPointer(p, size) IN
         kBlockSize * q.n + q.m = kBlockSize * p.n + (p.m + size)
<1> USE BufferAssumption DEF BufferAssumption
<1> DEFINE d == Quotient(p.m + size, kBlockSize)
           r == Remainder(p.m + size, kBlockSize)
<1>1. p.n \in Nat /\ p.m \in Nat /\ p.m + size \in Nat
  BY DEF Pointer
<1>2. d \in Nat /\ r \in 0..(kBlockSize - 1) /\ p.m + size = kBlockSize * d + r
  BY <1>1, DivMod
<1>3. AdvanceBufferPointer(p, size) = [n |-> Remainder(p.n + d, tableCapacity), m |-> r]
  BY AdvanceParts
<1> HIDE DEF d, r
<1>4. kBlockSize * (p.n + d) = kBlockSize * p.n + kBlockSize * d
  BY <1>1, <1>2
<1>5. kBlockSize * (p.n + d) + r < kBlockSize * tableCapacity
  BY <1>1, <1>2, <1>4
<1>6. p.n + d < tableCapacity
  BY <1>1, <1>2, <1>5, Cancel
<1>7. AdvanceBufferPointer(p, size) = [n |-> p.n + d, m |-> r]
  BY <1>1, <1>2, <1>3, <1>6, ModSmall
<1> QED
  BY <1>1, <1>2, <1>4, <1>7

\* Half the table holds what a table less than a quarter full holds.
LEMMA HalfHolds ==
  ASSUME tableCapacity \in Nat, tableCapacity > 1, totalSize \in Nat,
         4 * totalSize < kBlockSize * tableCapacity
  PROVE  totalSize <= kBlockSize * (tableCapacity \div 2)
<1> USE BufferAssumption DEF BufferAssumption
<1> DEFINE h == tableCapacity \div 2
<1>1. h \in Nat \ {0} /\ tableCapacity <= 3 * h
  BY Half
<1> HIDE DEF h
<1>2. kBlockSize * tableCapacity <= kBlockSize * (3 * h)
  BY <1>1, Monotone
<1>3. kBlockSize * (3 * h) = 3 * (kBlockSize * h) /\ kBlockSize * h \in Nat
  BY <1>1
<1>4. totalSize <= kBlockSize * h
  BY <1>2, <1>3
<1> QED
  BY <1>4 DEF h

-----------------------------------------------------------------------------
(* Every step keeps the inductive invariant.                               *)

LEMMA InitIInv == Init => IInv
<1> USE BufferAssumption DEF BufferAssumption
<1> SUFFICES ASSUME Init PROVE IInv
  OBVIOUS
<1>1. table \in Table(1) /\ Origin \in Pointer(1)
  BY BlocksType, OriginType DEF Init
<1>2. TypeOK
  BY <1>1 DEF Init, TypeOK, Byte
<1>3. Accounting /\ CallInv /\ MoveInv /\ SparseInv
  BY DEF Init, Accounting, CallInv, MoveInv, SparseInv, NotSparse
<1> QED
  BY <1>2, <1>3 DEF IInv

\* The first step of a call sets pc and request.
LEMMA CallIInv ==
  ASSUME IInv, NEW size \in Sizes, Write(size) \/ Read(size) \/ Peek(size)
  PROVE  IInv'
<1> USE BufferAssumption DEF BufferAssumption, IInv
<1>1. size \in Nat /\ size > 0 /\ pc = "idle"
  BY DEF Write, Read, Peek
<1>2. TypeOK'
  BY <1>1 DEF TypeOK, Write, Read, Peek, pointers, history
<1>3. Accounting'
  BY <1>1 DEF TypeOK, Accounting, CallInv, Write, Read, Peek, pointers
<1>4. CallInv' /\ MoveInv'
  BY <1>1 DEF CallInv, MoveInv, Fits, Write, Read, Peek, pointers
<1>5. SparseInv'
  BY <1>1 DEF TypeOK, SparseInv, NotSparse, Write, Read, Peek, pointers
<1> QED
  BY <1>2, <1>3, <1>4, <1>5

LEMMA WriteChunkIInv ==
  ASSUME IInv, WriteChunk
  PROVE  IInv'
<1> USE BufferAssumption DEF BufferAssumption, IInv
<1> DEFINE size == Chunk(hd, request)
           bytes == [i \in 1..size |-> (nextByte + copied + i - 1) % ByteValues]
<1>1. size \in Nat /\ copied + size <= request
  BY ChunkType DEF TypeOK, Accounting, WriteChunk
<1>2. bytes \in Seq(Cell)
  <2>1. ASSUME NEW i \in 1..size
        PROVE  (nextByte + copied + i - 1) % ByteValues \in Cell
    <3>1. nextByte + copied + i - 1 \in Nat
      BY <1>1 DEF TypeOK, Byte
    <3>2. Remainder(nextByte + copied + i - 1, ByteValues) \in Byte
      BY <3>1, DivMod DEF Byte
    <3> QED
      BY <3>2 DEF Remainder, Cell
  <2> HIDE DEF size
  <2> QED
    BY <1>1, <2>1
<1> HIDE DEF size
<1>3. table' = [table EXCEPT ![hd.n] = CopyInto(@, hd.m, bytes)]
  BY DEF WriteChunk, size
<1> HIDE DEF bytes
<1>4. table' \in Table(tableCapacity)
  <2>1. hd.m \in Nat
    BY DEF TypeOK, Pointer
  <2> QED
    BY <1>2, <1>3, <2>1, StoreType DEF TypeOK
<1>5. copied' = copied + size /\ hd' = AdvanceBufferPointer(hd, copied')
  BY DEF WriteChunk, size
<1>6. hd' \in Pointer(tableCapacity)
  BY <1>1, <1>5, AdvanceType DEF TypeOK
<1>7. TypeOK'
  BY <1>1, <1>4, <1>5, <1>6 DEF TypeOK, WriteChunk, history
<1>8. Accounting' /\ CallInv' /\ MoveInv' /\ SparseInv'
  BY <1>1, <1>5
  DEF Accounting, CallInv, MoveInv, SparseInv, NotSparse, Fits, WriteChunk, history
<1> QED
  BY <1>7, <1>8

LEMMA WriteDoneIInv ==
  ASSUME IInv, WriteDone
  PROVE  IInv'
<1> USE BufferAssumption DEF BufferAssumption, IInv
<1>1. ASSUME NEW i \in Nat
      PROVE  (nextByte + i) % ByteValues \in Byte
  <2>1. nextByte + i \in Nat
    BY <1>1 DEF TypeOK, Byte
  <2>2. Remainder(nextByte + i, ByteValues) \in Byte
    BY <2>1, DivMod DEF Byte
  <2> QED
    BY <2>2 DEF Remainder
<1>2. nextByte' \in Byte
  BY <1>1 DEF TypeOK, WriteDone
<1>3. contents' \in Seq(Byte)
  <2> DEFINE bytes == [i \in 1..request |-> (nextByte + i - 1) % ByteValues]
  <2>1. ASSUME NEW i \in 1..request
        PROVE  (nextByte + i - 1) % ByteValues \in Byte
    <3>1. i - 1 \in Nat /\ nextByte + (i - 1) = nextByte + i - 1
      BY DEF TypeOK, Byte
    <3>2. (nextByte + (i - 1)) % ByteValues \in Byte
      BY <1>1, <3>1
    <3> QED
      BY <3>1, <3>2
  <2>2. bytes \in Seq(Byte)
    BY <2>1 DEF TypeOK
  <2>3. contents' = contents \o bytes
    BY DEF WriteDone
  <2> HIDE DEF bytes
  <2> QED
    BY <2>2, <2>3, ConcatProperties DEF TypeOK
<1>4. totalSize' \in Nat /\ totalSize' = totalSize + request
  BY DEF TypeOK, WriteDone
<1>5. Origin \in Pointer(tableCapacity)
  BY OriginType DEF TypeOK
<1>6. TypeOK'
  BY <1>2, <1>3, <1>4, <1>5 DEF TypeOK, WriteDone, Return
<1>7. Accounting'
  BY <1>4 DEF TypeOK, Accounting, Fits, WriteDone, Return
<1>8. CallInv' /\ MoveInv' /\ SparseInv'
  BY <1>4 DEF CallInv, MoveInv, SparseInv, NotSparse, WriteDone, Return
<1> QED
  BY <1>6, <1>7, <1>8

LEMMA StartMoveIInv ==
  ASSUME IInv, StartIncrease \/ StartDecrease
  PROVE  IInv'
<1> USE BufferAssumption DEF BufferAssumption, IInv
<1>1. Origin \in Pointer(tableCapacity)
  BY OriginType DEF TypeOK
<1>2. TypeOK'
  BY <1>1 DEF TypeOK, StartIncrease, StartDecrease, Move, pointers, history
<1>3. Accounting'
  BY DEF TypeOK, Accounting, StartIncrease, StartDecrease, Move, pointers
<1>4. CallInv' /\ SparseInv'
  BY DEF CallInv, SparseInv, Fits, StartIncrease, StartDecrease, Move, pointers
<1>5. MoveInv'
  <2>1. CASE StartIncrease
    <3>1. newTable' \in Table(2 * tableCapacity)
      BY <2>1, BlocksType DEF TypeOK, StartIncrease, Move
    <3> QED
      BY <2>1, <3>1 DEF MoveInv, NewCapacity, Table, StartIncrease, Move, pointers
  <2>2. CASE StartDecrease
    <3>1. tableCapacity \div 2 \in Nat \ {0}
      BY <2>2, Half DEF TypeOK, StartDecrease
    <3>2. newTable' \in Table(tableCapacity \div 2)
      BY <2>2, <3>1, BlocksType DEF StartDecrease, Move
    <3> QED
      BY <2>2, <3>2
      DEF TypeOK, MoveInv, NewCapacity, Table, Origin, StartDecrease, Move, pointers
  <2> QED
    BY <2>1, <2>2
<1> QED
  BY <1>2, <1>3, <1>4, <1>5

LEMMA MoveChunkIInv ==
  ASSUME IInv, MoveChunk
  PROVE  IInv'
<1> USE BufferAssumption DEF BufferAssumption, IInv
<1> DEFINE size == Chunk(tl, totalSize)
<1>1. /\ size \in Nat
      /\ size <= kBlockSize - tl.m
      /\ copied + size <= totalSize
  BY ChunkType DEF TypeOK, Accounting, MoveChunk
<1>2. BytesAt(tl, size) \in Seq(Cell)
  BY <1>1, BytesAtType DEF TypeOK
<1> HIDE DEF size
<1>3. /\ newTable' = [newTable EXCEPT ![newHd.n] = CopyInto(@, newHd.m, BytesAt(tl, size))]
      /\ copied' = copied + size
      /\ tl' = AdvanceBufferPointer(tl, size)
      /\ newHd' = AdvanceBufferPointer(newHd, size)
  BY DEF MoveChunk, size
<1>4. NewCapacity \in Nat /\ newTable \in Table(NewCapacity)
  BY Half DEF TypeOK, NewCapacity, MoveInv, MoveChunk
<1>5. newTable' \in Table(NewCapacity)
  <2>1. newHd.m \in Nat
    BY DEF TypeOK, Pointer
  <2> QED
    BY <1>2, <1>3, <1>4, <2>1, StoreType
<1>6. tl' \in Pointer(tableCapacity) /\ newHd' \in Pointer(tableCapacity)
  BY <1>1, <1>3, AdvanceType DEF TypeOK
<1>7. TypeOK'
  BY <1>1, <1>3, <1>6 DEF TypeOK, MoveChunk, history
<1>8. Accounting' /\ CallInv' /\ SparseInv'
  BY <1>1, <1>3
  DEF TypeOK, Accounting, CallInv, SparseInv, Fits, MoveChunk, history
<1>9. MoveInv'
  <2>1. NewCapacity' = NewCapacity /\ pc' = pc
    BY DEF NewCapacity, MoveChunk
  <2>2. newTable' \in Table(NewCapacity')
    BY <1>5, <2>1
  <2>3. Table(NewCapacity)' = Table(NewCapacity')
    BY DEF Table, Byte
  <2>4. CASE pc = "decrease"
    <3>1. newHd.n \in Nat /\ newHd.m \in Nat
      BY DEF TypeOK, Pointer
    <3>2. kBlockSize * newHd.n + (newHd.m + size) = copied + size
      <4>1. copied = kBlockSize * newHd.n + newHd.m /\ size \in Nat
        BY <1>1, <2>4 DEF MoveInv
      <4>2. kBlockSize * newHd.n \in Nat
        BY <3>1
      <4> QED BY <3>1, <4>1, <4>2
    <3>3. kBlockSize * newHd.n + (newHd.m + size) < kBlockSize * tableCapacity
      BY <1>1, <2>4, <3>2 DEF TypeOK, MoveInv, Accounting
    <3>4. kBlockSize * newHd'.n + newHd'.m = copied'
      BY <1>1, <1>3, <3>2, <3>3, AdvanceLinear DEF TypeOK
    <3> QED
      BY <2>1, <2>2, <2>3, <2>4, <3>4 DEF MoveInv, MoveChunk
  <2>5. CASE pc = "increase"
    BY <2>1, <2>2, <2>3, <2>5 DEF MoveInv
  <2> QED
    BY <2>4, <2>5 DEF MoveChunk
<1> QED
  BY <1>7, <1>8, <1>9

LEMMA MoveDoneIInv ==
  ASSUME IInv, MoveDone
  PROVE  IInv'
<1> USE BufferAssumption DEF BufferAssumption, IInv
<1>1. /\ tableCapacity' = NewCapacity
      /\ totalCapacity' = kBlockSize * NewCapacity
      /\ pc' = IF pc = "increase" THEN "write" ELSE "shrink"
      /\ table' = newTable
      /\ hd' = newHd /\ tl' = Origin /\ newHd' = Origin
      /\ copied = totalSize /\ copied' = 0
      /\ pc \in {"increase", "decrease"}
      /\ UNCHANGED <<totalSize, request, tmpTl, out, nextByte, contents>>
  BY DEF MoveDone, NewCapacity, history
<1>2. newHd.n \in Nat /\ newHd.m \in 0..(kBlockSize - 1) /\ newHd.n < tableCapacity
  BY DEF TypeOK, Pointer
<1>3. CASE pc = "increase"
  <2>1. NewCapacity = 2 * tableCapacity /\ NewCapacity \in Nat \ {0}
    BY <1>3 DEF NewCapacity, TypeOK
  <2>2. kBlockSize * NewCapacity = 2 * totalCapacity /\ totalCapacity \in Nat
    BY <2>1 DEF TypeOK, Accounting
  <2>3. newHd \in Pointer(NewCapacity) /\ Origin \in Pointer(NewCapacity)
    <3>1. tableCapacity \in Nat /\ newHd \in Pointer(tableCapacity) /\ newHd.n < NewCapacity
      BY <1>2, <2>1 DEF TypeOK
    <3> QED BY <2>1, <3>1, PointerWithin, OriginType
  <2>4. tmpTl = Origin /\ kGrowable /\ totalSize + request > totalCapacity
    BY <1>3 DEF CallInv, Fits, TypeOK, Accounting
  <2>5. newTable \in Table(NewCapacity)
    BY <1>3 DEF MoveInv
  <2>6. TypeOK'
    <3>1. table' \in Table(tableCapacity')
      BY <1>1, <2>5
    <3>2. /\ hd' \in Pointer(tableCapacity') /\ tl' \in Pointer(tableCapacity')
          /\ newHd' \in Pointer(tableCapacity') /\ tmpTl' \in Pointer(tableCapacity')
      BY <1>1, <2>3, <2>4
    <3>3. /\ tableCapacity' \in Nat \ {0} /\ totalCapacity' \in Nat
          /\ pc' = "write" /\ copied' = 0
      BY <1>1, <1>3, <2>1, <2>2
    <3> QED
      BY <1>1, <3>1, <3>2, <3>3 DEF TypeOK, MoveDone, history
  <2>7. Accounting'
    BY <1>1, <1>3, <2>1, <2>2, <2>4 DEF TypeOK, Accounting
  <2>8. CallInv' /\ MoveInv' /\ SparseInv'
    BY <1>1, <1>3, <2>1, <2>2, <2>4
    DEF TypeOK, CallInv, MoveInv, SparseInv, NotSparse
  <2> QED
    BY <2>6, <2>7, <2>8
<1>4. CASE pc = "decrease"
  <2>1. /\ NewCapacity = tableCapacity \div 2
        /\ NewCapacity \in Nat \ {0}
        /\ tableCapacity <= 3 * NewCapacity
    BY <1>4, Half DEF NewCapacity, TypeOK, MoveInv
  <2>2. totalSize <= kBlockSize * NewCapacity /\ kBlockSize * NewCapacity \in Nat
    BY <1>4, <2>1, HalfHolds DEF TypeOK, Accounting, MoveInv
  <2>3. newHd.n < NewCapacity
    <3>1. 4 * (kBlockSize * newHd.n + newHd.m) < kBlockSize * tableCapacity
      BY <1>1, <1>4 DEF MoveInv, Accounting
    <3>2. kBlockSize * tableCapacity <= kBlockSize * (3 * NewCapacity)
      BY <2>1, Monotone DEF TypeOK
    <3>3. /\ kBlockSize * (3 * NewCapacity) = 3 * (kBlockSize * NewCapacity)
          /\ kBlockSize * tableCapacity \in Nat
          /\ kBlockSize * newHd.n \in Nat
      BY <1>2, <2>1 DEF TypeOK
    <3>4. kBlockSize * newHd.n + newHd.m < kBlockSize * NewCapacity
      BY <1>2, <2>2, <3>1, <3>2, <3>3
    <3> QED
      BY <1>2, <2>1, <3>4, Cancel
  <2>4. newHd \in Pointer(NewCapacity) /\ Origin \in Pointer(NewCapacity)
    <3>1. tableCapacity \in Nat /\ newHd \in Pointer(tableCapacity)
      BY DEF TypeOK
    <3> QED BY <2>1, <2>3, <3>1, PointerWithin, OriginType
  <2>5. newTable \in Table(NewCapacity) /\ tmpTl = Origin
    BY <1>4 DEF MoveInv, CallInv
  <2>6. kGrowable
    BY <1>4 DEF MoveInv, Accounting
  <2>7. TypeOK'
    <3>1. table' \in Table(tableCapacity')
      BY <1>1, <2>5
    <3>2. /\ hd' \in Pointer(tableCapacity') /\ tl' \in Pointer(tableCapacity')
          /\ newHd' \in Pointer(tableCapacity') /\ tmpTl' \in Pointer(tableCapacity')
      BY <1>1, <2>4, <2>5
    <3>3. /\ tableCapacity' \in Nat \ {0} /\ totalCapacity' \in Nat
          /\ pc' = "shrink" /\ copied' = 0
      BY <1>1, <1>4, <2>1, <2>2
    <3> QED
      BY <1>1, <3>1, <3>2, <3>3 DEF TypeOK, MoveDone, history
  <2>8. Accounting'
    BY <1>1, <1>4, <2>2, <2>6 DEF TypeOK, Accounting
  <2>9. CallInv' /\ MoveInv' /\ SparseInv'
    BY <1>1, <1>4, <2>5 DEF CallInv, MoveInv, SparseInv
  <2> QED
    BY <2>7, <2>8, <2>9
<1> QED
  BY <1>1, <1>3, <1>4

LEMMA ReadChunkIInv ==
  ASSUME IInv, ReadChunk
  PROVE  IInv'
<1> USE BufferAssumption DEF BufferAssumption, IInv
<1> DEFINE size == Chunk(tl, request)
<1>1. /\ size \in Nat
      /\ size <= kBlockSize - tl.m
      /\ copied + size <= request
  BY ChunkType DEF TypeOK, Accounting, ReadChunk
<1>2. BytesAt(tl, size) \in Seq(Cell)
  BY <1>1, BytesAtType DEF TypeOK
<1> HIDE DEF size
<1>3. /\ out' = out \o BytesAt(tl, size)
      /\ copied' = copied + size
      /\ tl' = AdvanceBufferPointer(tl, copied')
  BY DEF ReadChunk, size
<1>4. out' \in Seq(Cell)
  BY <1>2, <1>3, ConcatProperties DEF TypeOK, Cell
<1>5. tl' \in Pointer(tableCapacity)
  BY <1>1, <1>3, AdvanceType DEF TypeOK
<1>6. TypeOK'
  BY <1>1, <1>3, <1>4, <1>5 DEF TypeOK, Cell, ReadChunk, history
<1>7. Accounting' /\ CallInv' /\ MoveInv' /\ SparseInv'
  BY <1>1, <1>3
  DEF Accounting, CallInv, MoveInv, SparseInv, NotSparse, ReadChunk, history
<1> QED
  BY <1>6, <1>7

LEMMA ReadDoneIInv ==
  ASSUME IInv, ReadDone
  PROVE  IInv'
<1> USE BufferAssumption DEF BufferAssumption, IInv
<1>1. totalSize' = totalSize - request /\ totalSize' \in Nat /\ totalSize' <= totalSize
  BY DEF TypeOK, Accounting, ReadDone
<1>2. contents' \in Seq(Byte)
  BY SubSeqProperties DEF TypeOK, ReadDone
<1>3. TypeOK'
  BY <1>1, <1>2 DEF TypeOK, ReadDone
<1>4. Accounting'
  BY <1>1 DEF TypeOK, Accounting, ReadDone
<1>5. CallInv' /\ MoveInv' /\ SparseInv'
  BY DEF CallInv, MoveInv, SparseInv, ReadDone
<1> QED
  BY <1>3, <1>4, <1>5

LEMMA PeekChunkIInv ==
  ASSUME IInv, PeekChunk
  PROVE  IInv'
<1> USE BufferAssumption DEF BufferAssumption, IInv
<1> DEFINE size == Chunk(tmpTl, request)
           known == Least(size, kBlockSize - tl.m)
           rest == [i \in 1..(size - known) |-> Junk]
<1>1. size \in Nat /\ copied + size <= request
  BY ChunkType DEF TypeOK, Accounting, PeekChunk
<1> HIDE DEF size
<1>2. known \in Nat /\ known <= kBlockSize - tl.m /\ size - known \in Nat
  <2>1. kBlockSize - tl.m \in Nat
    BY DEF TypeOK, Pointer
  <2> QED
    BY <1>1, <2>1 DEF Least
<1> HIDE DEF known
<1>3. BytesAt(tl, known) \in Seq(Cell)
  BY <1>2, BytesAtType DEF TypeOK
<1>4. rest \in Seq(Cell)
  BY <1>2 DEF Cell
<1>5. /\ out' = (out \o BytesAt(tl, known)) \o rest
      /\ copied' = copied + size
      /\ tmpTl' = AdvanceBufferPointer(tmpTl, copied')
  BY DEF PeekChunk, size, known
<1> HIDE DEF rest
<1>6. out' \in Seq(Cell)
  <2>1. out \o BytesAt(tl, known) \in Seq(Cell)
    BY <1>3, ConcatProperties DEF TypeOK, Cell
  <2> QED
    BY <1>4, <1>5, <2>1, ConcatProperties
<1>7. tmpTl' \in Pointer(tableCapacity)
  BY <1>1, <1>5, AdvanceType DEF TypeOK
<1>8. TypeOK'
  BY <1>1, <1>5, <1>6, <1>7 DEF TypeOK, Cell, PeekChunk, pointers, history
<1>9. Accounting' /\ CallInv' /\ MoveInv' /\ SparseInv'
  BY <1>1, <1>5
  DEF Accounting, CallInv, MoveInv, SparseInv, NotSparse, PeekChunk, pointers, history
<1> QED
  BY <1>8, <1>9

LEMMA ReturnIInv ==
  ASSUME IInv, ReadReturns \/ PeekDone
  PROVE  IInv'
<1> USE BufferAssumption DEF BufferAssumption, IInv
<1>1. Origin \in Pointer(tableCapacity)
  BY OriginType DEF TypeOK
<1>2. TypeOK'
  <2>1. /\ UNCHANGED <<totalSize, totalCapacity, hd, tl, tableCapacity, table>>
        /\ UNCHANGED <<newTable, newHd, nextByte, contents, intact>>
        /\ Return
    BY DEF ReadReturns, PeekDone, pointers, history
  <2> QED
    BY <1>1, <2>1 DEF TypeOK, Return
<1>3. Accounting' /\ CallInv' /\ MoveInv'
  BY DEF TypeOK, Accounting, CallInv, MoveInv, ReadReturns, PeekDone, Return, pointers
<1>4. SparseInv'
  BY DEF TypeOK, SparseInv, NotSparse, ReadReturns, PeekDone, Return, pointers
<1> QED
  BY <1>2, <1>3, <1>4

LEMMA StutterIInv == IInv /\ UNCHANGED vars => IInv'
BY DEF IInv, TypeOK, Accounting, CallInv, MoveInv, SparseInv, NotSparse, Fits,
       NewCapacity, Pointer, Table, vars, pointers, history

LEMMA NextIInv == IInv /\ [Next]_vars => IInv'
BY CallIInv, WriteChunkIInv, WriteDoneIInv, StartMoveIInv, MoveChunkIInv,
   MoveDoneIInv, ReadChunkIInv, ReadDoneIInv, PeekChunkIInv, ReturnIInv, StutterIInv
DEF Next, Call, Work

LEMMA Invariance == Spec => []IInv
BY InitIInv, NextIInv, PTL DEF Spec

-----------------------------------------------------------------------------
\* Whatever the sizes of the calls, head and tail point into the table, also
\* when they are advanced by more than was copied: no index leaves the table.
THEOREM TypeCorrect == Spec => []TypeOK
<1>1. IInv => TypeOK
  BY DEF IInv
<1> QED
  BY <1>1, Invariance, PTL

\* The sizes and capacities the buffer reports are right for every sequence of
\* Write, Read and Peek, every block size and every number of blocks.
THEOREM AccountingCorrect == Spec => []Accounting
<1>1. IInv => Accounting
  BY DEF IInv
<1> QED
  BY <1>1, Invariance, PTL

\* No call leaves a table of several blocks less than a quarter full.
THEOREM NeverSparse == Spec => []TableNotSparse
<1>1. IInv => TableNotSparse
  BY DEF IInv, TypeOK, Accounting, SparseInv, NotSparse, TableNotSparse
<1> QED
  BY <1>1, Invariance, PTL

-----------------------------------------------------------------------------
(* The data, as long as the buffer is intact: it lies in the first block,  *)
(* around its end.  A table that grows belongs to a Write that will take a *)
(* second chunk, so nothing needs to be known of what was moved.           *)

\* Where a pointer into the first block stands when it has moved by k.
Wrap(m, k) == IF m + k < kBlockSize THEN m + k ELSE m + k - kBlockSize

CellAt(k) == table[0][Wrap(tl.m, k)]

\* What the running call has taken already, and what it has added.
Gone == IF pc = "read" THEN copied ELSE 0
Added == IF pc = "write" THEN copied ELSE 0

\* A Write that has made the table grow is bound to take a second chunk.
GrownInv ==
  /\ intact /\ (tableCapacity > 1 \/ pc = "increase") =>
       /\ pc \in {"write", "increase"}
       /\ totalSize + request > kBlockSize
  /\ intact /\ tableCapacity > 1 => totalSize < kBlockSize
  /\ intact /\ tableCapacity > 1 /\ pc = "write" =>
       \/ copied = 0 /\ hd.m = totalSize
       \/ copied > 0 /\ copied < request
  /\ intact /\ pc = "increase" => newHd.m = Wrap(0, copied)

InOneBlock == intact /\ tableCapacity = 1 /\ pc # "increase"

HeldInv ==
  InOneBlock =>
    /\ hd.m = Wrap(tl.m, totalSize - Gone + Added)
    /\ \A i \in (Gone + 1)..totalSize : CellAt(i - 1 - Gone) = contents[i]
    /\ pc = "write" /\ copied > 0 => Fits(request)
    /\ \A i \in 1..Added : CellAt(totalSize + i - 1) = (nextByte + i - 1) % ByteValues

\* What Read and Peek have handed out.
OutInv ==
  /\ pc \notin {"read", "peek"} => out = << >>
  /\ intact /\ pc = "read" => out = Oldest(copied)
  /\ intact /\ pc = "peek" =>
       /\ Len(out) = copied
       /\ \A i \in 1..Least(copied, kBlockSize - tl.m) : out[i] = contents[i]
       /\ IF copied = 0 THEN tmpTl = tl ELSE copied >= Least(request, kBlockSize - tl.m)

DataInv == Len(contents) = totalSize /\ GrownInv /\ HeldInv /\ OutInv

LEMMA WrapMod ==
  ASSUME NEW m \in 0..(kBlockSize - 1), NEW k \in 0..kBlockSize
  PROVE  Remainder(m + k, kBlockSize) = Wrap(m, k) /\ Wrap(m, k) \in 0..(kBlockSize - 1)
<1> USE BufferAssumption DEF BufferAssumption
<1> DEFINE q == Quotient(m + k, kBlockSize)
           r == Remainder(m + k, kBlockSize)
<1>1. q \in Nat /\ r \in 0..(kBlockSize - 1) /\ m + k = kBlockSize * q + r /\ m + k \in Nat
  BY DivMod
<1>2. CASE m + k < kBlockSize
  BY <1>1, <1>2, ModSmall DEF Wrap
<1>3. CASE m + k >= kBlockSize
  <2> HIDE DEF q, r
  <2>1. kBlockSize * q + r < kBlockSize * 2
    BY <1>1
  <2>2. q < 2
    BY <1>1, <2>1, Cancel
  <2>3. q = 0 \/ q = 1
    BY <1>1, <2>2
  <2>4. kBlockSize * 0 = 0 /\ kBlockSize * 1 = kBlockSize
    OBVIOUS
  <2>5. q = 1
    BY <1>1, <1>3, <2>3, <2>4
  <2>6. r = m + k - kBlockSize
    BY <1>1, <2>4, <2>5
  <2> QED BY <1>1, <1>3, <2>6 DEF Wrap, r
<1> QED BY <1>1, <1>2, <1>3

LEMMA WrapAdd ==
  ASSUME NEW m \in 0..(kBlockSize - 1), NEW a \in Nat, NEW b \in Nat, a + b <= kBlockSize
  PROVE  /\ Wrap(Wrap(m, a), b) = Wrap(m, a + b)
         /\ Wrap(m, a) \in 0..(kBlockSize - 1)
BY BufferAssumption DEF BufferAssumption, Wrap

\* In a table of one block a pointer moves around that block.
LEMMA AdvanceWraps ==
  ASSUME NEW p \in Pointer(tableCapacity), NEW k \in 0..kBlockSize,
         tableCapacity \in Nat \ {0}
  PROVE  /\ AdvanceBufferPointer(p, k).m = Wrap(p.m, k)
         /\ tableCapacity = 1 => AdvanceBufferPointer(p, k).n = 0 /\ p.n = 0
<1> USE BufferAssumption DEF BufferAssumption
<1>1. p.m \in 0..(kBlockSize - 1)
  BY DEF Pointer
<1>2. AdvanceBufferPointer(p, k).m = Wrap(p.m, k)
  BY <1>1, WrapMod, AdvanceParts
<1>3. AdvanceBufferPointer(p, k) \in Pointer(tableCapacity)
  BY AdvanceType
<1> QED BY <1>2, <1>3 DEF Pointer

LEMMA InitDataInv == Init => DataInv
<1> SUFFICES ASSUME Init PROVE DataInv
  OBVIOUS
<1> USE BufferAssumption DEF BufferAssumption
<1>1. GrownInv /\ OutInv /\ Len(contents) = totalSize
  BY DEF Init, GrownInv, OutInv
<1>2. HeldInv
  BY DEF Init, HeldInv, Gone, Added, Wrap, Origin
<1> QED BY <1>1, <1>2 DEF DataInv

\* An intact buffer whose call does not write has one block.
LEMMA OneBlock ==
  ASSUME IInv, DataInv, intact, pc \notin {"write", "increase"}
  PROVE  tableCapacity = 1
BY DEF IInv, TypeOK, DataInv, GrownInv

LEMMA CallDataInv ==
  ASSUME IInv, DataInv, NEW size \in Sizes, Write(size) \/ Read(size) \/ Peek(size)
  PROVE  DataInv'
<1>1. /\ pc = "idle" /\ copied = 0 /\ out = << >>
      /\ UNCHANGED <<pointers, table, copied, out, history, intact>>
      /\ pc' \in {"write", "read", "peek"}
      /\ pc' = "peek" => tmpTl' = tl
  BY DEF Write, Read, Peek, IInv, CallInv, DataInv, OutInv
<1>2. intact => tableCapacity = 1
  BY <1>1, OneBlock
<1>3. Len(contents)' = totalSize'
  BY <1>1 DEF DataInv, pointers, history
<1>4. GrownInv'
  BY <1>1, <1>2 DEF GrownInv, pointers
<1>5. HeldInv'
  <2>1. InOneBlock' => InOneBlock
    BY <1>1 DEF InOneBlock, pointers
  <2>2. Gone = 0 /\ Added = 0 /\ Gone' = 0 /\ Added' = 0
    BY <1>1 DEF Gone, Added
  <2> QED BY <1>1, <2>1, <2>2 DEF DataInv, HeldInv, CellAt, Wrap, pointers, history
<1>6. OutInv'
  <2>1. contents \in Seq(Byte)
    BY DEF IInv, TypeOK
  <2>2. Oldest(0) = << >>
    BY <2>1 DEF Oldest
  <2>3. Oldest(copied)' = << >>
    BY <1>1, <2>2 DEF Oldest, history
  <2>4. Len(out') = 0 /\ copied' = 0 /\ \A i \in 1..Least(0, kBlockSize - tl.m) : FALSE
    <3>1. tl.m \in 0..(kBlockSize - 1) /\ kBlockSize \in Nat
      BY BufferAssumption DEF BufferAssumption, IInv, TypeOK, Pointer
    <3> QED BY <1>1, <3>1 DEF Least
  <2> QED BY <1>1, <2>3, <2>4 DEF OutInv, pointers
<1> QED BY <1>3, <1>4, <1>5, <1>6 DEF DataInv

LEMMA WriteChunkDataInv ==
  ASSUME IInv, DataInv, WriteChunk
  PROVE  DataInv'
<1> USE BufferAssumption DEF BufferAssumption, IInv
<1> DEFINE size == Chunk(hd, request)
           bytes == [i \in 1..size |-> (nextByte + copied + i - 1) % ByteValues]
<1>1. /\ size \in Nat /\ size <= kBlockSize - hd.m /\ copied + size <= request
  BY ChunkType DEF TypeOK, Accounting, WriteChunk
<1>2. /\ pc = "write" /\ pc' = "write" /\ Fits(request) /\ copied < request
      /\ table' = [table EXCEPT ![hd.n] = CopyInto(@, hd.m, bytes)]
      /\ copied' = copied + size
      /\ hd' = AdvanceBufferPointer(hd, copied')
      /\ intact' = (intact /\ copied = 0)
      /\ UNCHANGED <<totalSize, totalCapacity, tl, tableCapacity, request, out, nextByte, contents>>
  BY DEF WriteChunk, history
<1>3. hd.m \in 0..(kBlockSize - 1) /\ tl.m \in 0..(kBlockSize - 1)
  BY DEF TypeOK, Pointer
<1>4. /\ totalSize \in Nat /\ request \in Nat /\ copied \in Nat /\ tableCapacity \in Nat \ {0}
      /\ totalCapacity = kBlockSize * tableCapacity
  BY DEF TypeOK, Accounting
<1>5. GrownInv'
  <2> SUFFICES ASSUME intact', tableCapacity > 1
               PROVE  /\ totalSize + request > kBlockSize
                      /\ totalSize < kBlockSize
                      /\ copied' > 0 /\ copied' < request
    BY <1>2, <1>4 DEF GrownInv
  <2> HIDE DEF bytes
  <2>1. /\ totalSize + request > kBlockSize /\ totalSize < kBlockSize
        /\ copied = 0 /\ hd.m = totalSize
    <3>1. intact /\ copied = 0 /\ pc = "write"
      BY <1>2
    <3>2. GrownInv
      BY DEF DataInv
    <3> QED BY <3>1, <3>2 DEF GrownInv
  <2>2. size = kBlockSize - totalSize
    BY <1>4, <2>1 DEF Chunk, Least
  <2> HIDE DEF size
  <2> QED BY <1>1, <1>2, <1>4, <2>1, <2>2
<1>6. HeldInv'
  <2> SUFFICES ASSUME InOneBlock'
               PROVE  /\ hd'.m = Wrap(tl.m, totalSize + copied')
                      /\ \A i \in 1..totalSize : table'[0][Wrap(tl.m, i - 1)] = contents[i]
                      /\ \A i \in 1..copied' :
                           table'[0][Wrap(tl.m, totalSize + i - 1)] = (nextByte + i - 1) % ByteValues
    <3>1. Gone' = 0 /\ Added' = copied'
      BY <1>2 DEF Gone, Added
    <3>2. Fits(request)'
      BY <1>2 DEF Fits
    <3>3. \A k : CellAt(k)' = table'[0][Wrap(tl.m, k)]
      BY <1>2 DEF CellAt, Wrap
    <3>4. totalSize - 0 + copied' = totalSize + copied' /\ \A i \in 1..totalSize : i - 1 - 0 = i - 1
      BY <1>1, <1>2, <1>4
    <3>5. Wrap(tl'.m, totalSize' - Gone' + Added') = Wrap(tl.m, totalSize + copied')
      BY <1>2, <3>1, <3>4 DEF Wrap
    <3> HIDE DEF size, bytes
    <3>6. Wrap(tl.m, totalSize - Gone + Added)' = Wrap(tl.m, totalSize + copied')
      BY <3>5 DEF Wrap
    <3> QED BY <1>2, <1>4, <3>1, <3>2, <3>3, <3>4, <3>6 DEF HeldInv
  <2>1. intact /\ copied = 0 /\ tableCapacity = 1 /\ InOneBlock
    BY <1>2 DEF InOneBlock
  <2>2. totalSize + request <= kBlockSize
    BY <1>2, <1>4, <2>1 DEF Fits
  <2>3. /\ hd.m = Wrap(tl.m, totalSize)
        /\ \A i \in 1..totalSize : table[0][Wrap(tl.m, i - 1)] = contents[i]
    BY <1>2, <1>4, <2>1 DEF DataInv, HeldInv, Gone, Added, CellAt
  <2>4. copied' = size /\ size <= request
    BY <1>1, <1>2, <1>4, <2>1
  <2> HIDE DEF size
  <2>5. hd'.m = Wrap(tl.m, totalSize + copied')
    <3>1. hd \in Pointer(tableCapacity) /\ size \in 0..kBlockSize
      BY <1>1, <1>3 DEF TypeOK
    <3>2. hd' = AdvanceBufferPointer(hd, size)
      BY <1>2, <2>4
    <3>3. hd'.m = Wrap(hd.m, size)
      BY <1>4, <3>1, <3>2, AdvanceWraps
    <3>4. totalSize + size <= kBlockSize
      BY <1>1, <1>4, <2>2, <2>4
    <3>5. Wrap(Wrap(tl.m, totalSize), size) = Wrap(tl.m, totalSize + size)
      BY <1>1, <1>3, <1>4, <3>4, WrapAdd
    <3> QED BY <2>3, <2>4, <3>3, <3>5
  <2>6. hd.n = 0
    BY <2>1 DEF TypeOK, Pointer
  <2>7. bytes \in Seq(Nat) /\ Len(bytes) = size
        /\ \A i \in 1..size : bytes[i] = (nextByte + i - 1) % ByteValues
    <3>1. \A i \in 1..size : nextByte + copied + i - 1 = nextByte + i - 1 /\ nextByte + i - 1 \in Nat
      BY <1>1, <2>1 DEF TypeOK, Byte
    <3>2. \A a \in Nat : a % ByteValues \in Nat
      OBVIOUS
    <3> QED BY <1>1, <3>1, <3>2
  <2> HIDE DEF bytes
  <2>8. table'[0] = CopyInto(table[0], hd.m, bytes) /\ DOMAIN table[0] = 0..(kBlockSize - 1)
    BY <1>2, <2>1, <2>6 DEF TypeOK, Table
  <2>9. \A j \in 0..(kBlockSize - 1) :
          table'[0][j] = IF j \in hd.m..(hd.m + size - 1) THEN bytes[j - hd.m + 1] ELSE table[0][j]
    BY <2>7, <2>8 DEF CopyInto
  <2>10. ASSUME NEW i \in 1..totalSize
         PROVE  table'[0][Wrap(tl.m, i - 1)] = contents[i]
    <3>1. /\ Wrap(tl.m, i - 1) \in 0..(kBlockSize - 1)
          /\ Wrap(tl.m, i - 1) \notin hd.m..(hd.m + size - 1)
      BY <1>1, <1>3, <1>4, <2>2, <2>3, <2>4 DEF Wrap
    <3> QED BY <2>3, <2>9, <3>1
  <2>11. ASSUME NEW i \in 1..size
         PROVE  table'[0][Wrap(tl.m, totalSize + i - 1)] = (nextByte + i - 1) % ByteValues
    <3>1. Wrap(tl.m, totalSize + i - 1) = hd.m + i - 1
      BY <1>1, <1>3, <1>4, <2>2, <2>3, <2>4 DEF Wrap
    <3>2. /\ hd.m + i - 1 \in hd.m..(hd.m + size - 1) /\ hd.m + i - 1 \in 0..(kBlockSize - 1)
          /\ (hd.m + i - 1) - hd.m + 1 = i
      BY <1>1, <1>3
    <3> QED BY <2>7, <2>9, <3>1, <3>2
  <2> QED BY <2>4, <2>5, <2>10, <2>11
<1>7. OutInv'
  BY <1>2 DEF DataInv, OutInv
<1> QED BY <1>2, <1>5, <1>6, <1>7 DEF DataInv

\* Between calls, and where a call has copied nothing, the block holds the contents.
LEMMA HeldSettled ==
  ASSUME totalSize' \in Nat, copied' = 0,
         InOneBlock' =>
           /\ hd'.m = Wrap(tl'.m, totalSize')
           /\ \A i \in 1..totalSize' : table'[0][Wrap(tl'.m, i - 1)] = contents'[i]
  PROVE  HeldInv'
<1> SUFFICES ASSUME InOneBlock'
             PROVE  /\ hd'.m = Wrap(tl.m, totalSize - Gone + Added)'
                    /\ \A i \in (Gone' + 1)..totalSize' : CellAt(i - 1 - Gone)' = contents'[i]
                    /\ \A i \in 1..Added' :
                         CellAt(totalSize + i - 1)' = (nextByte' + i - 1) % ByteValues
  BY DEF HeldInv
<1>1. Gone' = 0 /\ Added' = 0 /\ totalSize' - Gone' + Added' = totalSize'
  <2>1. Gone' = 0 /\ Added' = 0
    BY DEF Gone, Added
  <2>2. \A n \in Nat : n - 0 + 0 = n
    OBVIOUS
  <2> QED BY <2>1, <2>2
<1>2. Wrap(tl.m, totalSize - Gone + Added)' = Wrap(tl'.m, totalSize')
  BY <1>1 DEF Wrap
<1>3. ASSUME NEW i \in (Gone' + 1)..totalSize'
      PROVE  CellAt(i - 1 - Gone)' = contents'[i]
  <2>1. i \in 1..totalSize' /\ i - 1 - Gone' = i - 1
    BY <1>1
  <2>2. CellAt(i - 1 - Gone)' = table'[0][Wrap(tl'.m, i - 1)]
    BY <2>1 DEF CellAt, Wrap
  <2> QED BY <2>1, <2>2
<1> QED BY <1>1, <1>2, <1>3

\* A Write that ends has copied all in one chunk, or the buffer is not intact.
LEMMA WriteDoneDataInv ==
  ASSUME IInv, DataInv, WriteDone
  PROVE  DataInv'
<1> USE BufferAssumption DEF BufferAssumption, IInv
<1> DEFINE bytes == [i \in 1..request |-> (nextByte + i - 1) % ByteValues]
<1>1. /\ pc = "write" /\ pc' = "idle" /\ Fits(request) /\ copied = request
      /\ copied' = 0 /\ out' = << >>
      /\ totalSize' = totalSize + request
      /\ contents' = contents \o bytes
      /\ UNCHANGED <<totalCapacity, hd, tl, tableCapacity, table, intact>>
  BY DEF WriteDone, Return
<1>2. /\ totalSize \in Nat /\ request \in Nat /\ tableCapacity \in Nat \ {0}
      /\ contents \in Seq(Byte) /\ Len(contents) = totalSize
  BY DEF TypeOK, DataInv
<1>3. bytes \in Seq(Nat) /\ Len(bytes) = request /\ contents \in Seq(Nat)
      /\ \A i \in 1..request : bytes[i] = (nextByte + i - 1) % ByteValues
  <2>1. \A i \in 1..request : nextByte + i - 1 \in Nat
    BY <1>2 DEF TypeOK, Byte
  <2>2. \A a \in Nat : a % ByteValues \in Nat
    OBVIOUS
  <2> QED BY <1>2, <2>1, <2>2 DEF Byte
<1> HIDE DEF bytes
<1>4. /\ Len(contents') = totalSize'
      /\ \A i \in 1..totalSize : contents'[i] = contents[i]
      /\ \A i \in (totalSize + 1)..(totalSize + request) : contents'[i] = bytes[i - totalSize]
  <2> DEFINE c == contents \o bytes
  <2>1. /\ Len(c) = Len(contents) + Len(bytes)
        /\ \A i \in 1..(Len(contents) + Len(bytes)) :
             c[i] = IF i <= Len(contents) THEN contents[i] ELSE bytes[i - Len(contents)]
    BY <1>3, ConcatProperties
  <2>2. contents' = c
    BY <1>1
  <2> HIDE DEF c
  <2> QED BY <1>1, <1>2, <1>3, <2>1, <2>2
<1>5. intact => tableCapacity = 1
  BY <1>1, <1>2 DEF DataInv, GrownInv
<1>6. GrownInv'
  BY <1>1, <1>5 DEF GrownInv
<1>7. OutInv'
  BY <1>1 DEF OutInv
<1>8. HeldInv'
  <2> SUFFICES ASSUME InOneBlock'
               PROVE  /\ hd.m = Wrap(tl.m, totalSize + request)
                      /\ \A i \in 1..(totalSize + request) : CellAt(i - 1) = contents'[i]
    <3>1. totalSize' \in Nat /\ copied' = 0
      BY <1>1, <1>2
    <3>2. \A i : CellAt(i - 1) = table'[0][Wrap(tl'.m, i - 1)]
      BY <1>1 DEF CellAt
    <3>3. InOneBlock' =>
            /\ hd'.m = Wrap(tl'.m, totalSize')
            /\ \A i \in 1..totalSize' : table'[0][Wrap(tl'.m, i - 1)] = contents'[i]
      BY <1>1, <3>2
    <3> QED BY <3>1, <3>3, HeldSettled
  <2>1. InOneBlock /\ Gone = 0 /\ Added = request /\ HeldInv
    BY <1>1 DEF InOneBlock, Gone, Added, DataInv
  <2>2. /\ hd.m = Wrap(tl.m, totalSize - 0 + request)
        /\ \A i \in (0 + 1)..totalSize : CellAt(i - 1 - 0) = contents[i]
        /\ \A i \in 1..request : CellAt(totalSize + i - 1) = (nextByte + i - 1) % ByteValues
    BY <2>1 DEF HeldInv
  <2>3. /\ totalSize - 0 + request = totalSize + request
        /\ \A i \in 1..totalSize : i - 1 - 0 = i - 1
    BY <1>2
  <2>4. ASSUME NEW i \in 1..(totalSize + request)
        PROVE  CellAt(i - 1) = contents'[i]
    <3>1. CASE i \in 1..totalSize
      BY <1>4, <2>2, <2>3, <3>1
    <3>2. CASE i > totalSize
      <4>1. i - totalSize \in 1..request /\ totalSize + (i - totalSize) - 1 = i - 1
        BY <1>2, <3>2
      <4>2. CellAt(i - 1) = bytes[i - totalSize]
        BY <1>3, <2>2, <4>1
      <4> QED BY <1>2, <1>4, <3>2, <4>2
    <3> QED BY <1>2, <3>1, <3>2
  <2> QED BY <2>2, <2>3, <2>4
<1> QED BY <1>4, <1>6, <1>7, <1>8 DEF DataInv

\* A move begins: of an intact buffer, it grows.
LEMMA StartMoveDataInv ==
  ASSUME IInv, DataInv, StartIncrease \/ StartDecrease
  PROVE  DataInv'
<1> USE BufferAssumption DEF BufferAssumption, IInv
<1>1. /\ newHd' = Origin /\ copied' = 0
      /\ UNCHANGED <<totalSize, totalCapacity, hd, tl, tableCapacity, table, request, out,
                     contents, intact>>
      /\ pc' \notin {"read", "peek", "write"}
  BY DEF StartIncrease, StartDecrease, Move, pointers, history
<1>2. /\ totalSize \in Nat /\ request \in Nat /\ tableCapacity \in Nat \ {0}
      /\ totalCapacity = kBlockSize * tableCapacity
  BY DEF TypeOK, Accounting
<1>3. out = << >>
  BY DEF DataInv, OutInv, StartIncrease, StartDecrease
<1>4. OutInv' /\ Len(contents') = totalSize'
  BY <1>1, <1>3 DEF DataInv, OutInv
<1>5. CASE StartIncrease
  <2>1. pc = "write" /\ ~Fits(request) /\ pc' = "increase"
    BY <1>5 DEF StartIncrease, Move
  <2>2. intact => totalSize + request > kBlockSize
    <3>1. CASE tableCapacity = 1
      BY <1>2, <2>1, <3>1 DEF Fits
    <3>2. CASE tableCapacity > 1
      BY <3>2 DEF DataInv, GrownInv
    <3> QED BY <1>2, <3>1, <3>2
  <2>3. newHd'.m = Wrap(0, 0)
    BY <1>1 DEF Wrap, Origin
  <2>4. Wrap(0, copied)' = Wrap(0, 0)
    BY <1>1 DEF Wrap
  <2>5. GrownInv'
    <3>1. intact' => totalSize' + request' > kBlockSize
      BY <1>1, <2>2
    <3>2. intact' /\ tableCapacity' > 1 => totalSize' < kBlockSize
      BY <1>1 DEF DataInv, GrownInv
    <3> QED BY <2>1, <2>3, <2>4, <3>1, <3>2 DEF GrownInv
  <2>6. HeldInv'
    BY <2>1 DEF HeldInv, InOneBlock
  <2> QED BY <1>4, <2>5, <2>6 DEF DataInv
<1>6. CASE StartDecrease
  <2>1. ~intact
    BY <1>2, <1>6 DEF StartDecrease, DataInv, GrownInv
  <2>2. GrownInv' /\ HeldInv'
    BY <1>1, <2>1 DEF GrownInv, HeldInv, InOneBlock
  <2> QED BY <1>4, <2>2 DEF DataInv
<1> QED BY <1>5, <1>6

\* What is moved fits into the first block of the new table.
LEMMA MoveChunkDataInv ==
  ASSUME IInv, DataInv, MoveChunk
  PROVE  DataInv'
<1> USE BufferAssumption DEF BufferAssumption, IInv
<1> DEFINE size == Chunk(tl, totalSize)
<1>1. /\ size \in Nat /\ size <= kBlockSize - tl.m /\ copied + size <= totalSize
  BY ChunkType DEF TypeOK, Accounting, MoveChunk
<1>2. /\ pc \in {"increase", "decrease"} /\ copied < totalSize
      /\ copied' = copied + size
      /\ newHd' = AdvanceBufferPointer(newHd, size)
      /\ intact' = (intact /\ newHd.m + size <= kBlockSize)
      /\ UNCHANGED <<totalSize, totalCapacity, hd, tableCapacity, pc, request, out, contents>>
  BY DEF MoveChunk, history
<1> HIDE DEF size
<1>3. /\ totalSize \in Nat /\ copied \in Nat /\ tableCapacity \in Nat \ {0}
      /\ totalCapacity = kBlockSize * tableCapacity /\ totalSize <= totalCapacity
      /\ newHd \in Pointer(tableCapacity)
      /\ newHd.m \in 0..(kBlockSize - 1) /\ tl.m \in 0..(kBlockSize - 1)
  BY DEF TypeOK, Accounting, Pointer
<1>4. OutInv' /\ Len(contents') = totalSize'
  BY <1>2 DEF DataInv, OutInv
<1>5. HeldInv'
  <2>1. InOneBlock' => pc = "decrease" /\ tableCapacity = 1
    BY <1>2 DEF InOneBlock
  <2>2. pc = "decrease" => tableCapacity > 1
    BY DEF MoveInv
  <2> QED BY <1>3, <2>1, <2>2 DEF HeldInv
<1>6. GrownInv'
  <2> SUFFICES ASSUME intact' PROVE GrownInv'
    BY DEF GrownInv
  <2>1. intact /\ newHd.m + size <= kBlockSize
    BY <1>2
  <2>2. pc = "increase" /\ newHd.m = Wrap(0, copied) /\ totalSize + request > kBlockSize
    <3>1. pc = "decrease" => tableCapacity > 1
      BY DEF MoveInv
    <3>2. GrownInv
      BY DEF DataInv
    <3> QED BY <1>2, <2>1, <3>1, <3>2 DEF GrownInv
  <2>3. tableCapacity > 1 => totalSize < kBlockSize
    BY <2>1 DEF DataInv, GrownInv
  <2>4. totalSize <= kBlockSize
    BY <1>3, <2>3
  <2>5. copied + size <= kBlockSize /\ 0 \in 0..(kBlockSize - 1) /\ size \in 0..kBlockSize
    BY <1>1, <1>3, <2>4
  <2>6. newHd'.m = Wrap(Wrap(0, copied), size)
    BY <1>2, <1>3, <2>2, <2>5, AdvanceWraps
  <2>7. newHd'.m = Wrap(0, copied + size)
    BY <1>1, <1>3, <2>5, <2>6, WrapAdd
  <2>8. Wrap(0, copied)' = Wrap(0, copied + size)
    BY <1>2 DEF Wrap
  <2> QED BY <1>2, <2>2, <2>3, <2>7, <2>8 DEF GrownInv
<1> QED BY <1>4, <1>5, <1>6 DEF DataInv

\* The table has grown for a Write that does not fit into what is left of the block.
LEMMA MoveDoneDataInv ==
  ASSUME IInv, DataInv, MoveDone
  PROVE  DataInv'
<1> USE BufferAssumption DEF BufferAssumption, IInv
<1>1. /\ pc \in {"increase", "decrease"}
      /\ copied = totalSize /\ copied' = 0
      /\ hd' = newHd
      /\ pc' = IF pc = "increase" THEN "write" ELSE "shrink"
      /\ tableCapacity' = NewCapacity
      /\ intact' = (intact /\ totalSize < totalCapacity)
      /\ UNCHANGED <<totalSize, request, out, contents>>
  BY DEF MoveDone, NewCapacity, history
<1>2. /\ totalSize \in Nat /\ tableCapacity \in Nat \ {0}
      /\ totalCapacity = kBlockSize * tableCapacity
  BY DEF TypeOK, Accounting
<1>3. OutInv' /\ Len(contents') = totalSize'
  BY <1>1 DEF DataInv, OutInv
<1>4. CASE ~intact'
  BY <1>3, <1>4 DEF DataInv, GrownInv, HeldInv, InOneBlock
<1>5. CASE intact'
  <2>1. intact /\ totalSize < totalCapacity
    BY <1>1, <1>5
  <2>2. pc = "increase" /\ newHd.m = Wrap(0, totalSize) /\ totalSize + request > kBlockSize
    <3>1. pc = "decrease" => tableCapacity > 1
      BY DEF MoveInv
    <3>2. GrownInv
      BY DEF DataInv
    <3> QED BY <1>1, <2>1, <3>1, <3>2 DEF GrownInv
  <2>3. totalSize < kBlockSize
    BY <1>2, <2>1 DEF DataInv, GrownInv
  <2>4. hd'.m = totalSize
    BY <1>1, <1>2, <2>2, <2>3 DEF Wrap
  <2>5. tableCapacity' > 1 /\ pc' = "write"
    BY <1>1, <1>2, <2>2 DEF NewCapacity
  <2>6. GrownInv'
    BY <1>1, <2>2, <2>3, <2>4, <2>5 DEF GrownInv
  <2>7. HeldInv'
    BY <1>2, <2>5 DEF HeldInv, InOneBlock
  <2> QED BY <1>3, <2>6, <2>7 DEF DataInv
<1> QED BY <1>4, <1>5

LEMMA BytesHeld ==
  ASSUME NEW p \in Pointer(tableCapacity), NEW count \in Nat, count <= kBlockSize - p.m,
         table \in Table(tableCapacity)
  PROVE  /\ BytesAt(p, count) \in Seq(Cell) /\ Len(BytesAt(p, count)) = count
         /\ \A i \in 1..count : BytesAt(p, count)[i] = table[p.n][Wrap(p.m, i - 1)]
<1>1. BytesAt(p, count) \in Seq(Cell) /\ Len(BytesAt(p, count)) = count
  BY BytesAtType
<1>2. ASSUME NEW i \in 1..count
      PROVE  BytesAt(p, count)[i] = table[p.n][Wrap(p.m, i - 1)]
  <2>1. p.m \in Nat /\ kBlockSize \in Nat
    BY BufferAssumption DEF BufferAssumption, Pointer
  <2>2. Wrap(p.m, i - 1) = p.m + i - 1
    BY <2>1 DEF Wrap
  <2> QED BY <2>2 DEF BytesAt
<1> QED BY <1>1, <1>2

\* The first chunk of a Read is the oldest bytes; a second ends what is known.
LEMMA ReadChunkDataInv ==
  ASSUME IInv, DataInv, ReadChunk
  PROVE  DataInv'
<1> USE BufferAssumption DEF BufferAssumption, IInv
<1> DEFINE size == Chunk(tl, request)
<1>1. /\ size \in Nat /\ size <= kBlockSize - tl.m /\ copied + size <= request
  BY ChunkType DEF TypeOK, Accounting, ReadChunk
<1>2. /\ pc = "read" /\ pc' = "read" /\ copied < request
      /\ out' = out \o BytesAt(tl, size)
      /\ copied' = copied + size
      /\ tl' = AdvanceBufferPointer(tl, copied')
      /\ intact' = (intact /\ copied = 0)
      /\ UNCHANGED <<totalSize, totalCapacity, hd, tableCapacity, table, request, contents>>
  BY DEF ReadChunk, history
<1> HIDE DEF size
<1>3. Len(contents') = totalSize'
  BY <1>2 DEF DataInv
<1>4. CASE ~intact'
  <2>1. GrownInv' /\ HeldInv' /\ OutInv'
    BY <1>2, <1>4 DEF GrownInv, HeldInv, InOneBlock, OutInv
  <2> QED BY <1>3, <2>1 DEF DataInv
<1>5. CASE intact'
  <2>1. intact /\ copied = 0
    BY <1>2, <1>5
  <2>2. tableCapacity = 1 /\ InOneBlock /\ Gone = 0 /\ Added = 0
    BY <1>2, <2>1, OneBlock DEF InOneBlock, Gone, Added
  <2>3. /\ totalSize \in Nat /\ contents \in Seq(Byte) /\ Len(contents) = totalSize
        /\ request \in Nat /\ request <= totalSize /\ totalSize <= kBlockSize
        /\ tl \in Pointer(tableCapacity) /\ tl.m \in 0..(kBlockSize - 1) /\ tl.n = 0
        /\ table \in Table(tableCapacity) /\ tableCapacity \in Nat \ {0}
    BY <1>2, <2>2 DEF TypeOK, Accounting, Pointer, DataInv
  <2>4. /\ hd.m = Wrap(tl.m, totalSize)
        /\ \A i \in 1..totalSize : table[0][Wrap(tl.m, i - 1)] = contents[i]
    <3>1. /\ hd.m = Wrap(tl.m, totalSize - 0 + 0)
          /\ \A i \in (0 + 1)..totalSize : CellAt(i - 1 - 0) = contents[i]
      BY <2>2 DEF DataInv, HeldInv
    <3>2. totalSize - 0 + 0 = totalSize /\ \A i \in 1..totalSize : i - 1 - 0 = i - 1
      BY <2>3
    <3> QED BY <3>1, <3>2 DEF CellAt
  <2>5. copied' = size /\ size <= request
    BY <1>1, <1>2, <2>1
  <2>6. tl'.m = Wrap(tl.m, size)
    <3>1. size \in 0..kBlockSize
      BY <1>1, <2>3
    <3> QED BY <1>2, <2>3, <2>5, <3>1, AdvanceWraps
  <2>7. GrownInv'
    BY <1>2, <2>2 DEF GrownInv
  <2>8. HeldInv'
    <3>1. Gone' = size /\ Added' = 0
      BY <1>2, <2>5 DEF Gone, Added
    <3>2. hd'.m = Wrap(tl'.m, totalSize - size)
      <4>1. totalSize - size \in Nat /\ size + (totalSize - size) = totalSize
        BY <1>1, <2>3, <2>5
      <4>2. Wrap(Wrap(tl.m, size), totalSize - size) = Wrap(tl.m, totalSize)
        <5> DEFINE d == totalSize - size
        <5>1. d \in Nat /\ size + d = totalSize
          BY <4>1
        <5> HIDE DEF d
        <5>2. size \in Nat /\ size + d <= kBlockSize /\ tl.m \in 0..(kBlockSize - 1)
          BY <1>1, <2>3, <5>1
        <5>3. Wrap(Wrap(tl.m, size), d) = Wrap(tl.m, size + d)
          BY <5>1, <5>2, WrapAdd
        <5> QED BY <5>1, <5>3 DEF d
      <4> QED BY <1>2, <2>4, <2>6, <4>2
    <3>3. ASSUME NEW i \in (size + 1)..totalSize
          PROVE  table[0][Wrap(tl'.m, i - 1 - size)] = contents[i]
      <4>1. i - 1 - size \in Nat /\ size + (i - 1 - size) = i - 1 /\ i - 1 <= kBlockSize /\ i \in 1..totalSize
        BY <1>1, <2>3
      <4>2. Wrap(Wrap(tl.m, size), i - 1 - size) = Wrap(tl.m, i - 1)
        <5> DEFINE d == i - 1 - size
        <5>1. d \in Nat /\ size + d = i - 1
          BY <4>1
        <5> HIDE DEF d
        <5>2. size \in Nat /\ size + d <= kBlockSize /\ tl.m \in 0..(kBlockSize - 1)
          BY <1>1, <2>3, <4>1, <5>1
        <5>3. Wrap(Wrap(tl.m, size), d) = Wrap(tl.m, size + d)
          BY <5>1, <5>2, WrapAdd
        <5> QED BY <5>1, <5>3 DEF d
      <4> QED BY <2>4, <2>6, <4>1, <4>2
    <3>4. totalSize - size + 0 = totalSize - size
      BY <1>1, <2>3
    <3>5. Wrap(tl.m, totalSize - Gone + Added)' = Wrap(tl'.m, totalSize - size)
      BY <1>2, <3>1, <3>4 DEF Wrap
    <3>6. ASSUME NEW i \in (Gone' + 1)..totalSize'
          PROVE  CellAt(i - 1 - Gone)' = contents'[i]
      <4>1. i \in (size + 1)..totalSize
        BY <1>2, <3>1
      <4>2. CellAt(i - 1 - Gone)' = table[0][Wrap(tl'.m, i - 1 - size)]
        BY <1>2, <3>1 DEF CellAt, Wrap
      <4> QED BY <1>2, <3>3, <4>1, <4>2
    <3> QED BY <1>2, <3>1, <3>2, <3>5, <3>6 DEF HeldInv
  <2>9. OutInv'
    <3>1. out = << >>
      <4>1. out = Oldest(0)
        BY <1>2, <2>1 DEF DataInv, OutInv
      <4> QED BY <2>3, <4>1 DEF Oldest
    <3>2. /\ BytesAt(tl, size) \in Seq(Cell) /\ Len(BytesAt(tl, size)) = size
          /\ \A i \in 1..size : BytesAt(tl, size)[i] = table[0][Wrap(tl.m, i - 1)]
      BY <1>1, <2>3, BytesHeld
    <3>3. out' = BytesAt(tl, size)
      BY <1>2, <3>1, <3>2
    <3>4. \A i \in 1..size : BytesAt(tl, size)[i] = contents[i]
      <4>1. \A i \in 1..size : i \in 1..totalSize
        BY <1>1, <2>3, <2>5
      <4> QED BY <2>4, <3>2, <4>1
    <3>5. /\ SubSeq(contents, 1, size) \in Seq(Byte) /\ Len(SubSeq(contents, 1, size)) = size
          /\ \A i \in 1..size : SubSeq(contents, 1, size)[i] = contents[i]
      BY <1>1, <2>3, <2>5
    <3>6. BytesAt(tl, size) = SubSeq(contents, 1, size)
      <4> DEFINE b == BytesAt(tl, size)
                 c == SubSeq(contents, 1, size)
      <4>1. b \in Seq(Cell) /\ c \in Seq(Cell) /\ Len(b) = Len(c) /\ \A i \in 1..Len(b) : b[i] = c[i]
        BY <3>2, <3>4, <3>5 DEF Cell
      <4> HIDE DEF b, c
      <4>2. b = c
        BY <4>1, SeqEqual
      <4> QED BY <4>2 DEF b, c
    <3>7. Oldest(copied)' = SubSeq(contents, 1, size)
      BY <1>2, <2>5 DEF Oldest
    <3> QED BY <1>2, <3>3, <3>6, <3>7 DEF OutInv
  <2> QED BY <1>3, <2>7, <2>8, <2>9 DEF DataInv
<1> QED BY <1>4, <1>5

LEMMA ReadDoneDataInv ==
  ASSUME IInv, DataInv, ReadDone
  PROVE  DataInv'
<1> USE BufferAssumption DEF BufferAssumption, IInv
<1>1. /\ pc = "read" /\ pc' = "shrink" /\ copied = request /\ copied' = 0 /\ out' = << >>
      /\ totalSize' = totalSize - request
      /\ contents' = SubSeq(contents, request + 1, Len(contents))
      /\ UNCHANGED <<totalCapacity, hd, tl, tableCapacity, table, intact>>
  BY DEF ReadDone
<1>2. /\ totalSize \in Nat /\ request \in Nat /\ request <= totalSize
      /\ contents \in Seq(Byte) /\ Len(contents) = totalSize
  BY <1>1 DEF TypeOK, Accounting, DataInv
<1>3. /\ totalSize' \in Nat /\ Len(contents') = totalSize'
      /\ \A i \in 1..totalSize' : contents'[i] = contents[i + request]
  <2> DEFINE c == SubSeq(contents, request + 1, totalSize)
  <2>1. \A i \in (request + 1)..totalSize : contents[i] \in Byte
    BY <1>2
  <2>2. /\ Len(c) = IF request + 1 <= totalSize THEN totalSize - (request + 1) + 1 ELSE 0
        /\ \A i \in 1..(totalSize - (request + 1) + 1) : c[i] = contents[(request + 1) + i - 1]
    BY <1>2, <2>1, SubSeqProperties
  <2>3. contents' = c
    BY <1>1, <1>2
  <2> HIDE DEF c
  <2>4. /\ totalSize - (request + 1) + 1 = totalSize - request
        /\ \A i \in 1..(totalSize - request) : (request + 1) + i - 1 = i + request
    BY <1>2
  <2> QED BY <1>1, <1>2, <2>2, <2>3, <2>4
<1>4. intact => tableCapacity = 1
  BY <1>1, OneBlock
<1>5. GrownInv' /\ OutInv'
  BY <1>1, <1>4 DEF GrownInv, OutInv
<1>6. HeldInv'
  <2>1. ASSUME InOneBlock'
        PROVE  /\ hd'.m = Wrap(tl'.m, totalSize')
               /\ \A i \in 1..totalSize' : table'[0][Wrap(tl'.m, i - 1)] = contents'[i]
    <3>1. InOneBlock /\ Gone = request /\ Added = 0
      BY <1>1, <2>1 DEF InOneBlock, Gone, Added
    <3>2. /\ hd.m = Wrap(tl.m, totalSize - request + 0)
          /\ \A i \in (request + 1)..totalSize : CellAt(i - 1 - request) = contents[i]
      BY <3>1 DEF DataInv, HeldInv
    <3>3. totalSize - request + 0 = totalSize - request
      BY <1>2
    <3>4. ASSUME NEW i \in 1..totalSize'
          PROVE  table[0][Wrap(tl.m, i - 1)] = contents'[i]
      <4>1. i + request \in (request + 1)..totalSize /\ (i + request) - 1 - request = i - 1
        BY <1>1, <1>2
      <4> QED BY <1>3, <3>2, <4>1 DEF CellAt
    <3> QED BY <1>1, <3>2, <3>3, <3>4
  <2> QED BY <1>1, <1>3, <2>1, HeldSettled
<1> QED BY <1>3, <1>5, <1>6 DEF DataInv

\* The first chunk of a Peek is the oldest bytes; what follows it is not looked at.
LEMMA PeekChunkDataInv ==
  ASSUME IInv, DataInv, PeekChunk
  PROVE  DataInv'
<1> USE BufferAssumption DEF BufferAssumption, IInv
<1> DEFINE size == Chunk(tmpTl, request)
           known == Least(size, kBlockSize - tl.m)
           rest == [i \in 1..(size - known) |-> Junk]
<1>1. size \in Nat /\ size <= kBlockSize - tmpTl.m /\ copied + size <= request
  BY ChunkType DEF TypeOK, Accounting, PeekChunk
<1>2. /\ pc = "peek" /\ pc' = "peek" /\ copied < request
      /\ out' = (out \o BytesAt(tl, known)) \o rest
      /\ copied' = copied + size
      /\ UNCHANGED <<totalSize, totalCapacity, hd, tl, tableCapacity, table, request,
                     nextByte, contents, intact>>
  BY DEF PeekChunk, pointers, history
<1>3. tl \in Pointer(tableCapacity) /\ tl.m \in 0..(kBlockSize - 1) /\ table \in Table(tableCapacity)
      /\ tableCapacity \in Nat \ {0}
      /\ totalSize \in Nat /\ request \in Nat /\ copied \in Nat /\ request <= totalSize
  BY <1>2 DEF TypeOK, Accounting, Pointer
<1>4. copied = 0 /\ tmpTl = tl => size = Least(request, kBlockSize - tl.m)
  BY <1>3 DEF Chunk, Least
<1> HIDE DEF size
<1>5. known \in Nat /\ known <= kBlockSize - tl.m /\ known <= size
      /\ (size <= kBlockSize - tl.m => known = size)
  BY <1>1, <1>3 DEF Least
<1> HIDE DEF known
<1>6. rest \in Seq(Cell) /\ Len(rest) = size - known
  BY <1>1, <1>5 DEF Cell
<1> HIDE DEF rest
<1>7. GrownInv'
  BY <1>2, OneBlock DEF GrownInv
<1>8. HeldInv'
  <2>1. InOneBlock' => InOneBlock
    BY <1>2 DEF InOneBlock
  <2>2. Gone = 0 /\ Added = 0 /\ Gone' = 0 /\ Added' = 0
    BY <1>2 DEF Gone, Added
  <2> QED BY <1>2, <2>1, <2>2 DEF DataInv, HeldInv, CellAt, Wrap
<1>9. OutInv'
  <2> SUFFICES ASSUME intact
               PROVE  /\ Len(out') = copied'
                      /\ \A i \in 1..Least(copied', kBlockSize - tl.m) : out'[i] = contents[i]
                      /\ IF copied' = 0 THEN tmpTl' = tl
                                        ELSE copied' >= Least(request, kBlockSize - tl.m)
    BY <1>2 DEF OutInv
  <2>1. tableCapacity = 1 /\ InOneBlock /\ Gone = 0 /\ tl.n = 0
    BY <1>2, <1>3, OneBlock DEF InOneBlock, Gone, Pointer
  <2>2. \A i \in 1..totalSize : table[0][Wrap(tl.m, i - 1)] = contents[i]
    <3>1. \A i \in (0 + 1)..totalSize : CellAt(i - 1 - 0) = contents[i]
      BY <2>1 DEF DataInv, HeldInv
    <3>2. \A i \in 1..totalSize : i - 1 - 0 = i - 1
      BY <1>3
    <3> QED BY <3>1, <3>2 DEF CellAt
  <2>3. /\ Len(out) = copied /\ out \in Seq(Cell)
        /\ \A i \in 1..Least(copied, kBlockSize - tl.m) : out[i] = contents[i]
        /\ copied = 0 => tmpTl = tl
        /\ copied # 0 => copied >= Least(request, kBlockSize - tl.m)
    BY <1>2 DEF TypeOK, DataInv, OutInv, Cell
  <2>4. /\ BytesAt(tl, known) \in Seq(Cell) /\ Len(BytesAt(tl, known)) = known
        /\ \A i \in 1..known : BytesAt(tl, known)[i] = table[0][Wrap(tl.m, i - 1)]
    BY <1>3, <1>5, <2>1, BytesHeld
  <2> DEFINE b == BytesAt(tl, known)
             c == out \o b
  <2> HIDE DEF b
  <2>5. /\ c \in Seq(Cell) /\ Len(c) = copied + known
        /\ \A i \in 1..copied : c[i] = out[i]
        /\ copied = 0 => \A i \in 1..known : c[i] = b[i]
    <3>1. b \in Seq(Cell) /\ Len(b) = known
      BY <2>4 DEF b
    <3>2. /\ c \in Seq(Cell) /\ Len(c) = Len(out) + Len(b)
          /\ \A i \in 1..(Len(out) + Len(b)) : c[i] = IF i <= Len(out) THEN out[i] ELSE b[i - Len(out)]
      BY <2>3, <3>1, ConcatProperties
    <3> HIDE DEF c
    <3>3. Len(c) = copied + known
      BY <2>3, <3>1, <3>2
    <3>4. ASSUME NEW i \in 1..copied PROVE c[i] = out[i]
      <4>1. i \in 1..(Len(out) + Len(b)) /\ i <= Len(out)
        BY <1>3, <1>5, <2>3, <3>1
      <4> QED BY <3>2, <4>1
    <3>5. ASSUME copied = 0, NEW i \in 1..known PROVE c[i] = b[i]
      <4>1. i \in 1..(Len(out) + Len(b)) /\ ~(i <= Len(out)) /\ i - Len(out) = i
        BY <1>5, <2>3, <3>1, <3>5
      <4> QED BY <3>2, <4>1
    <3> QED BY <3>2, <3>3, <3>4, <3>5
  <2> HIDE DEF c
  <2>6. out' = c \o rest
    BY <1>2 DEF b, c
  <2>7. /\ Len(out') = copied'
        /\ \A i \in 1..(copied + known) : out'[i] = c[i]
    <3>1. /\ Len(c \o rest) = Len(c) + Len(rest)
          /\ \A i \in 1..(Len(c) + Len(rest)) :
               (c \o rest)[i] = IF i <= Len(c) THEN c[i] ELSE rest[i - Len(c)]
      BY <1>6, <2>5, ConcatProperties
    <3>2. Len(c) + Len(rest) = copied + size
      BY <1>1, <1>3, <1>5, <1>6, <2>5
    <3>3. \A i \in 1..(copied + known) : i \in 1..(copied + size) /\ i <= Len(c)
      BY <1>1, <1>3, <1>5, <2>5
    <3> QED BY <1>2, <2>6, <3>1, <3>2, <3>3
  <2>8. CASE copied = 0
    <3>1. size = Least(request, kBlockSize - tl.m) /\ known = size /\ copied' = size /\ size > 0
      <4>1. size = Least(request, kBlockSize - tl.m)
        BY <1>4, <2>3, <2>8
      <4> QED BY <1>2, <1>3, <1>5, <2>8, <4>1 DEF Least
    <3>2. ASSUME NEW i \in 1..Least(copied', kBlockSize - tl.m)
          PROVE  out'[i] = contents[i]
      <4>1. i \in 1..known /\ i \in 1..totalSize /\ i \in 1..(copied + known)
        BY <1>1, <1>3, <1>5, <2>8, <3>1 DEF Least
      <4> QED BY <2>2, <2>4, <2>5, <2>7, <2>8, <4>1 DEF b
    <3> QED BY <1>3, <2>7, <3>1, <3>2
  <2>9. CASE copied # 0
    <3>1. /\ copied >= kBlockSize - tl.m /\ copied' >= copied
          /\ Least(copied', kBlockSize - tl.m) = Least(copied, kBlockSize - tl.m)
      BY <1>1, <1>2, <1>3, <2>3, <2>9 DEF Least
    <3>2. ASSUME NEW i \in 1..Least(copied, kBlockSize - tl.m)
          PROVE  out'[i] = contents[i]
      <4>1. i \in 1..copied /\ i \in 1..(copied + known)
        BY <1>3, <1>5 DEF Least
      <4> QED BY <2>3, <2>5, <2>7, <4>1
    <3>3. copied' # 0 /\ copied' >= Least(request, kBlockSize - tl.m)
      BY <1>1, <1>2, <1>3, <2>3, <2>9, <3>1 DEF Least
    <3> QED BY <2>7, <3>1, <3>2, <3>3
  <2> QED BY <2>8, <2>9
<1> QED BY <1>2, <1>7, <1>8, <1>9 DEF DataInv

\* A call that returns leaves the buffer as it is.
LEMMA ReturnDataInv ==
  ASSUME IInv, DataInv, ReadReturns \/ PeekDone
  PROVE  DataInv'
<1>1. /\ pc \in {"shrink", "peek"} /\ pc' = "idle" /\ copied' = 0 /\ out' = << >>
      /\ UNCHANGED <<totalSize, hd, tl, tableCapacity, table, contents, intact>>
  BY DEF ReadReturns, PeekDone, Return, pointers, history
<1>2. totalSize \in Nat
  BY DEF IInv, TypeOK
<1>3. intact => tableCapacity = 1
  BY <1>1, OneBlock
<1>4. GrownInv' /\ OutInv' /\ Len(contents') = totalSize'
  BY <1>1, <1>3 DEF DataInv, GrownInv, OutInv
<1>5. HeldInv'
  <2>1. ASSUME InOneBlock'
        PROVE  /\ hd'.m = Wrap(tl'.m, totalSize')
               /\ \A i \in 1..totalSize' : table'[0][Wrap(tl'.m, i - 1)] = contents'[i]
    <3>1. InOneBlock /\ Gone = 0 /\ Added = 0
      BY <1>1, <2>1 DEF InOneBlock, Gone, Added
    <3>2. /\ hd.m = Wrap(tl.m, totalSize - 0 + 0)
          /\ \A i \in (0 + 1)..totalSize : CellAt(i - 1 - 0) = contents[i]
      BY <3>1 DEF DataInv, HeldInv
    <3>3. totalSize - 0 + 0 = totalSize /\ \A i \in 1..totalSize : i - 1 - 0 = i - 1
      BY <1>2
    <3> QED BY <1>1, <3>2, <3>3 DEF CellAt
  <2> QED BY <1>1, <1>2, <2>1, HeldSettled
<1> QED BY <1>4, <1>5 DEF DataInv

LEMMA StutterDataInv == DataInv /\ UNCHANGED vars => DataInv'
BY DEF DataInv, GrownInv, HeldInv, OutInv, InOneBlock, Gone, Added, CellAt, Wrap, Oldest,
       Fits, vars, pointers, history

LEMMA NextDataInv == IInv /\ DataInv /\ [Next]_vars => DataInv'
BY CallDataInv, WriteChunkDataInv, WriteDoneDataInv, StartMoveDataInv, MoveChunkDataInv,
   MoveDoneDataInv, ReadChunkDataInv, ReadDoneDataInv, PeekChunkDataInv, ReturnDataInv,
   StutterDataInv
DEF Next, Call, Work

LEMMA DataInvariance == Spec => [](IInv /\ DataInv)
<1>1. Init => IInv /\ DataInv
  BY InitIInv, InitDataInv
<1>2. IInv /\ DataInv /\ [Next]_vars => (IInv /\ DataInv)'
  BY NextIInv, NextDataInv
<1> QED BY <1>1, <1>2, PTL DEF Spec

\* As long as no Write or Read has taken more than one chunk and no table that
\* was full or whose copy straddled a block has been moved, an idle buffer
\* holds exactly the bytes written and not read, in order, for any block size.
THEOREM ContentsKept == Spec => []StoredWhileIntact
<1>1. ASSUME IInv, DataInv PROVE StoredWhileIntact
  <2> SUFFICES ASSUME intact, pc = "idle" PROVE Stored = contents
    BY DEF StoredWhileIntact
  <2> USE BufferAssumption DEF BufferAssumption
  <2>1. /\ totalSize \in Nat /\ contents \in Seq(Byte) /\ Len(contents) = totalSize
        /\ tl \in Pointer(tableCapacity) /\ tableCapacity \in Nat \ {0}
    BY <1>1 DEF IInv, TypeOK, DataInv
  <2>2. tableCapacity = 1 /\ InOneBlock /\ Gone = 0
    BY <1>1, OneBlock DEF InOneBlock, Gone
  <2>3. totalSize <= kBlockSize
    BY <1>1, <2>1, <2>2 DEF IInv, Accounting
  <2>4. ASSUME NEW i \in 1..totalSize
        PROVE  LET p == AdvanceBufferPointer(tl, i - 1) IN table[p.n][p.m] = contents[i]
    <3>1. i - 1 \in 0..kBlockSize /\ i - 1 - 0 = i - 1
      BY <2>1, <2>3
    <3>2. /\ AdvanceBufferPointer(tl, i - 1).n = 0
          /\ AdvanceBufferPointer(tl, i - 1).m = Wrap(tl.m, i - 1)
      BY <2>1, <2>2, <3>1, AdvanceWraps
    <3>3. CellAt(i - 1) = contents[i]
      <4>1. \A j \in (0 + 1)..totalSize : CellAt(j - 1 - 0) = contents[j]
        BY <1>1, <2>2 DEF DataInv, HeldInv
      <4> QED BY <3>1, <4>1
    <3> QED BY <3>2, <3>3 DEF CellAt
  <2>5. Stored = [i \in 1..totalSize |-> contents[i]]
    BY <2>4 DEF Stored
  <2> QED BY <2>1, <2>5
<1> QED BY <1>1, DataInvariance, PTL

\* Under the same condition, Read hands out the oldest bytes, and Peek the oldest
\* as far as the tail's block goes, for any block size and any sizes of calls.
THEOREM OldestReturned == Spec => []OldestReturnedWhileIntact
<1>1. ASSUME IInv, DataInv PROVE OldestReturnedWhileIntact
  <2> USE BufferAssumption DEF BufferAssumption
  <2>1. /\ totalSize \in Nat /\ contents \in Seq(Byte) /\ Len(contents) = totalSize
        /\ copied \in Nat /\ request \in Nat /\ out \in Seq(Cell)
        /\ kBlockSize - tl.m \in Nat
    BY <1>1 DEF IInv, TypeOK, DataInv, Cell, Pointer
  <2>2. pc \in {"read", "peek"} => copied <= request /\ request <= totalSize
    BY <1>1 DEF IInv, Accounting
  <2>3. ASSUME NEW n \in Nat, n <= totalSize
        PROVE  /\ Oldest(n) \in Seq(Byte) /\ Len(Oldest(n)) = n
               /\ \A i \in 1..n : Oldest(n)[i] = contents[i]
    BY <2>1, <2>3 DEF Oldest
  <2>4. ASSUME intact, pc = "read" PROVE out = Oldest(Len(out))
    <3>1. out = Oldest(copied)
      BY <1>1, <2>4 DEF DataInv, OutInv
    <3>2. copied <= totalSize
      BY <2>1, <2>2, <2>4
    <3> QED BY <2>1, <2>3, <3>1, <3>2
  <2>5. ASSUME intact, pc = "peek"
        PROVE  SubSeq(out, 1, Least(Len(out), kBlockSize - tl.m)) = Oldest(Least(Len(out), kBlockSize - tl.m))
    <3>1. /\ Len(out) = copied
          /\ \A i \in 1..Least(copied, kBlockSize - tl.m) : out[i] = contents[i]
      BY <1>1, <2>5 DEF DataInv, OutInv
    <3> DEFINE first == Least(Len(out), kBlockSize - tl.m)
    <3>2. first \in Nat /\ first <= Len(out) /\ first <= totalSize
          /\ \A i \in 1..first : out[i] = contents[i]
      BY <2>1, <2>2, <2>5, <3>1 DEF Least
    <3> HIDE DEF first
    <3> DEFINE a == SubSeq(out, 1, first)
               c == Oldest(first)
    <3>3. a \in Seq(Cell) /\ Len(a) = first /\ \A i \in 1..first : a[i] = out[i]
      BY <2>1, <3>2
    <3>4. c \in Seq(Cell) /\ Len(c) = first /\ \A i \in 1..first : c[i] = contents[i]
      BY <2>3, <3>2 DEF Cell
    <3> HIDE DEF a, c
    <3>5. a = c
      BY <3>2, <3>3, <3>4, SeqEqual
    <3> QED BY <3>5 DEF a, c, first
  <2> QED BY <2>4, <2>5 DEF OldestReturnedWhileIntact
<1> QED BY <1>1, DataInvariance, PTL
=============================================================================
