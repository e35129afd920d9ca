--------------------------- MODULE CircularBuffer ---------------------------
(***************************************************************************)
(* CircularBuffer: a queue of bytes in a table of blocks.  When growable,  *)
(* the table doubles when a Write does not fit and halves when a Read      *)
(* leaves it less than a quarter full.                                     *)
(*                                                                         *)
(* A call is one step per iteration of its copy loops.  A copy that runs   *)
(* over the end of its destination block is undefined: the bytes past the  *)
(* end are modelled as going nowhere.                                      *)
(***************************************************************************)
EXTENDS Integers, Sequences

CONSTANTS
  kBlockSize,          \* bytes in a block
  kGrowable,           \* whether the table may grow
  Sizes,               \* sizes a caller passes
  ByteValues,          \* bound: written bytes are numbered modulo this
  MaxTableCapacity     \* bound: blocks in the table

ASSUME BufferAssumption ==
  /\ kBlockSize \in Nat \ {0}
  /\ kGrowable \in BOOLEAN
  /\ Sizes \subseteq Nat \ {0}
  /\ ByteValues \in Nat \ {0}
  /\ MaxTableCapacity \in Nat \ {0}

VARIABLES
  totalSize,           \* _totalSize
  totalCapacity,       \* _totalCapacity
  hd, tl,              \* _hd and _tl, each a block number n and an offset m
  tableCapacity,       \* _tableCapacity
  table,               \* _table: table[n][m]
  pc,                  \* what the running call does
  request,             \* size of the running call
  copied,              \* bytes_copied of the loop that runs
  newTable, newHd,     \* new_table and new_hd of IncreaseTable, DecreaseTable
  tmpTl,               \* tmp_tl of Peek
  out,                 \* what Read or Peek has copied to its caller
  nextByte,            \* number of the next byte written
  contents,            \* history: bytes written and not read, oldest first
  intact               \* history: nothing has gone wrong with the pointers yet

pointers == <<totalSize, totalCapacity, hd, tl, tableCapacity>>
history == <<nextByte, contents>>
vars == <<pointers, table, pc, request, copied, newTable, newHd, tmpTl, out,
          history, intact>>

Byte == 0..(ByteValues - 1)
Junk == -1             \* what malloc leaves in a block

Least(a, b) == IF a < b THEN a ELSE b

Origin == [n |-> 0, m |-> 0]

Blocks(count) ==
  [n \in 0..(count - 1) |-> [m \in 0..(kBlockSize - 1) |-> Junk]]

\* InitTable.
Init ==
  /\ totalSize = 0
  /\ totalCapacity = kBlockSize
  /\ hd = Origin
  /\ tl = Origin
  /\ tableCapacity = 1
  /\ table = Blocks(1)
  /\ pc = "idle"
  /\ request = 0
  /\ copied = 0
  /\ newTable = << >>
  /\ newHd = Origin
  /\ tmpTl = Origin
  /\ out = << >>
  /\ nextByte = 0
  /\ contents = << >>
  /\ intact = TRUE

\* Mutant of AdvanceBufferPointer: the block number does not wrap.
AdvanceNoWrap(p, size) ==
  [n |-> p.n + (p.m + size) \div kBlockSize, m |-> (p.m + size) % kBlockSize]

AdvanceBufferPointer(p, size) ==
  [n |-> (p.n + (p.m + size) \div kBlockSize) % tableCapacity,
   m |-> (p.m + size) % kBlockSize]

\* memcpy of a sequence of bytes into a block from an offset on.
CopyInto(block, m, bytes) ==
  [i \in DOMAIN block |->
     IF i \in m..(m + Len(bytes) - 1) THEN bytes[i - m + 1] ELSE block[i]]

BytesAt(p, count) == [i \in 1..count |-> table[p.n][p.m + i - 1]]

\* bytes_to_copy of a loop that copies `total` bytes and stands at p.
Chunk(p, total) == Least(kBlockSize - p.m, total - copied)

\* The call returns; its locals are gone.
Return ==
  /\ pc' = "idle"
  /\ request' = 0
  /\ copied' = 0
  /\ out' = << >>
  /\ tmpTl' = Origin

-----------------------------------------------------------------------------
(* Write.  A size that does not fit is refused when the table may not grow. *)

\* Mutant of Fits: what is stored already is forgotten.
FitsEmpty(size) == size <= totalCapacity

Fits(size) == size <= totalCapacity - totalSize

Write(size) ==
  /\ pc = "idle"
  /\ Fits(size) \/ (kGrowable /\ totalSize + size <= kBlockSize * MaxTableCapacity)
  /\ pc' = "write"
  /\ request' = size
  /\ UNCHANGED <<pointers, table, copied, newTable, newHd, tmpTl, out, history, intact>>

\* The pointer moves by all that the call has copied so far.
WriteChunk ==
  LET size == Chunk(hd, request)
      bytes == [i \in 1..size |-> (nextByte + copied + i - 1) % ByteValues] IN
  /\ pc = "write"
  /\ Fits(request)
  /\ copied < request
  /\ table' = [table EXCEPT ![hd.n] = CopyInto(@, hd.m, bytes)]
  /\ copied' = copied + size
  /\ hd' = AdvanceBufferPointer(hd, copied')
  /\ intact' = (intact /\ copied = 0)
  /\ UNCHANGED <<totalSize, totalCapacity, tl, tableCapacity, pc, request,
                 newTable, newHd, tmpTl, out, history>>

WriteDone ==
  /\ pc = "write"
  /\ Fits(request)
  /\ copied = request
  /\ totalSize' = totalSize + request
  /\ contents' = contents \o
       [i \in 1..request |-> (nextByte + i - 1) % ByteValues]
  /\ nextByte' = (nextByte + request) % ByteValues
  /\ Return
  /\ UNCHANGED <<totalCapacity, hd, tl, tableCapacity, table, newTable, newHd, intact>>

-----------------------------------------------------------------------------
(* IncreaseTable and DecreaseTable: the contents move to a new table.      *)

Move(to, capacity) ==
  /\ newTable' = Blocks(capacity)
  /\ newHd' = Origin
  /\ copied' = 0
  /\ pc' = to
  /\ UNCHANGED <<pointers, table, request, tmpTl, out, history, intact>>

StartIncrease == pc = "write" /\ ~Fits(request) /\ Move("increase", 2 * tableCapacity)

StartDecrease ==
  /\ pc = "shrink"
  /\ tableCapacity > 1
  /\ 4 * totalSize < totalCapacity
  /\ Move("decrease", tableCapacity \div 2)

MoveChunk ==
  LET size == Chunk(tl, totalSize) IN
  /\ pc \in {"increase", "decrease"}
  /\ copied < totalSize
  /\ newTable' = [newTable EXCEPT ![newHd.n] = CopyInto(@, newHd.m, BytesAt(tl, size))]
  /\ copied' = copied + size
  /\ tl' = AdvanceBufferPointer(tl, size)
  /\ newHd' = AdvanceBufferPointer(newHd, size)
  /\ intact' = (intact /\ newHd.m + size <= kBlockSize)
  /\ UNCHANGED <<totalSize, totalCapacity, hd, tableCapacity, table, pc,
                 request, tmpTl, out, history>>

\* The new head was advanced in the old table's capacity: it comes back to the
\* first block when the table was full.
\* Mutant of MoveDone: _tableCapacity and _totalCapacity keep their values.
MoveDoneKeepsCapacity ==
  /\ pc \in {"increase", "decrease"}
  /\ copied = totalSize
  /\ newTable' = << >>
  /\ newHd' = Origin
  /\ copied' = 0
  /\ tl' = Origin
  /\ hd' = newHd
  /\ pc' = IF pc = "increase" THEN "write" ELSE "shrink"
  /\ UNCHANGED <<totalSize, totalCapacity, tableCapacity, table, request, tmpTl,
                 out, history, intact>>

MoveDone ==
  LET capacity == IF pc = "increase" THEN 2 * tableCapacity ELSE tableCapacity \div 2 IN
  /\ pc \in {"increase", "decrease"}
  /\ copied = totalSize
  /\ totalCapacity' = kBlockSize * capacity
  /\ hd' = newHd
  /\ tl' = Origin
  /\ tableCapacity' = capacity
  /\ table' = newTable
  /\ newTable' = << >>
  /\ newHd' = Origin
  /\ copied' = 0
  /\ pc' = IF pc = "increase" THEN "write" ELSE "shrink"
  /\ intact' = (intact /\ totalSize < totalCapacity)
  /\ UNCHANGED <<totalSize, request, tmpTl, out, history>>

-----------------------------------------------------------------------------
(* Read.                                                                   *)

Read(size) ==
  /\ pc = "idle"
  /\ size <= totalSize
  /\ pc' = "read"
  /\ request' = size
  /\ UNCHANGED <<pointers, table, copied, newTable, newHd, tmpTl, out, history, intact>>

\* Mutant of ReadChunk: the tail does not move.
ReadChunkBehind ==
  LET size == Chunk(tl, request) IN
  /\ pc = "read"
  /\ copied < request
  /\ out' = out \o BytesAt(tl, size)
  /\ copied' = copied + size
  /\ UNCHANGED <<pointers, table, pc, request, newTable, newHd, tmpTl, history, intact>>

ReadChunk ==
  LET size == Chunk(tl, request) IN
  /\ pc = "read"
  /\ copied < request
  /\ out' = out \o BytesAt(tl, size)
  /\ copied' = copied + size
  /\ tl' = AdvanceBufferPointer(tl, copied')
  /\ intact' = (intact /\ copied = 0)
  /\ UNCHANGED <<totalSize, totalCapacity, hd, tableCapacity, table, pc, request,
                 newTable, newHd, tmpTl, history>>

ReadDone ==
  /\ pc = "read"
  /\ copied = request
  /\ totalSize' = totalSize - request
  /\ contents' = SubSeq(contents, request + 1, Len(contents))
  /\ copied' = 0
  /\ out' = << >>
  /\ pc' = "shrink"
  /\ UNCHANGED <<totalCapacity, hd, tl, tableCapacity, table, request, newTable,
                 newHd, tmpTl, nextByte, intact>>

\* Mutant of ReadReturns: the loop is an if that may be skipped.
ReadReturnsSparse ==
  /\ pc = "shrink"
  /\ Return
  /\ UNCHANGED <<pointers, table, newTable, newHd, history, intact>>

\* The loop over DecreaseTable ends.
ReadReturns ==
  /\ pc = "shrink"
  /\ ~(tableCapacity > 1 /\ 4 * totalSize < totalCapacity)
  /\ Return
  /\ UNCHANGED <<pointers, table, newTable, newHd, history, intact>>

-----------------------------------------------------------------------------
(* Peek.  Every chunk is copied from the tail, not from the place reached. *)

Peek(size) ==
  /\ pc = "idle"
  /\ size <= totalSize
  /\ pc' = "peek"
  /\ request' = size
  /\ tmpTl' = tl
  /\ UNCHANGED <<pointers, table, copied, newTable, newHd, out, history, intact>>

\* What memcpy reads past the end of the tail's block is unknown.
PeekChunk ==
  LET size == Chunk(tmpTl, request)
      known == Least(size, kBlockSize - tl.m) IN
  /\ pc = "peek"
  /\ copied < request
  /\ out' = out \o BytesAt(tl, known) \o [i \in 1..(size - known) |-> Junk]
  /\ copied' = copied + size
  /\ tmpTl' = AdvanceBufferPointer(tmpTl, copied')
  /\ UNCHANGED <<pointers, table, pc, request, newTable, newHd, history, intact>>

PeekDone ==
  /\ pc = "peek"
  /\ copied = request
  /\ Return
  /\ UNCHANGED <<pointers, table, newTable, newHd, history, intact>>

-----------------------------------------------------------------------------
Call == \E size \in Sizes : Write(size) \/ Read(size) \/ Peek(size)

Work ==
  \/ WriteChunk \/ WriteDone
  \/ StartIncrease \/ StartDecrease \/ MoveChunk \/ MoveDone
  \/ ReadChunk \/ ReadDone \/ ReadReturns
  \/ PeekChunk \/ PeekDone

Next == Call \/ Work

Spec == Init /\ [][Next]_vars

\* A call runs to its end: its loops are sequential code.
FairSpec == Spec /\ WF_vars(Work)

-----------------------------------------------------------------------------
(* Properties.                                                             *)

Pointer(capacity) == [n : 0..(capacity - 1), m : 0..(kBlockSize - 1)]

Table(capacity) ==
  [0..(capacity - 1) -> [0..(kBlockSize - 1) -> Byte \cup {Junk}]]

TypeOK ==
  /\ totalSize \in Nat
  /\ tableCapacity \in Nat \ {0}
  /\ totalCapacity \in Nat
  /\ hd \in Pointer(tableCapacity)
  /\ tl \in Pointer(tableCapacity)
  /\ tmpTl \in Pointer(tableCapacity)
  /\ newHd \in Pointer(tableCapacity)
  /\ table \in Table(tableCapacity)
  /\ pc \in {"idle", "write", "increase", "read", "shrink", "decrease", "peek"}
  /\ request \in Nat
  /\ copied \in Nat
  /\ out \in Seq(Byte \cup {Junk})
  /\ nextByte \in Byte
  /\ contents \in Seq(Byte)
  /\ intact \in BOOLEAN

\* Whatever the sizes of the calls: the size never exceeds the capacity, the
\* capacity is that of the blocks in the table, a buffer that may not grow
\* keeps its one block, and a loop over the bytes never runs past its end.
Accounting ==
  /\ totalSize <= totalCapacity
  /\ totalCapacity = kBlockSize * tableCapacity
  /\ ~kGrowable => tableCapacity = 1
  /\ pc \in {"write", "read", "peek"} => copied <= request
  /\ pc \in {"increase", "decrease"} => copied <= totalSize
  /\ pc \in {"read", "peek"} => request <= totalSize

\* Between calls a table of several blocks is at least a quarter full: a Read
\* halves it as often as its comment says ("Decrease the table by 2 if usage
\* rate is under 1/4"), and a Write never doubles it once too often.
TableNotSparse ==
  pc = "idle" /\ tableCapacity > 1 => 4 * totalSize >= totalCapacity

Stored ==
  [i \in 1..totalSize |->
     LET p == AdvanceBufferPointer(tl, i - 1) IN table[p.n][p.m]]

\* As long as no Write or Read took more than one chunk and no table that was full
\* or whose copy straddled a block was moved, the table holds what was written and
\* not read, in order, through any number of calls.  A Write that grows the table
\* takes a second chunk, so this is a promise about buffers of one block.
StoredWhileIntact == intact /\ pc = "idle" => Stored = contents

Oldest(count) == SubSeq(contents, 1, count)

\* Under the same condition Read hands out the oldest bytes, and so does Peek as
\* far as its first chunk goes, without taking them from the buffer.
OldestReturnedWhileIntact ==
  /\ intact /\ pc = "read" => out = Oldest(Len(out))
  /\ intact /\ pc = "peek" =>
       LET first == Least(Len(out), kBlockSize - tl.m) IN
       SubSeq(out, 1, first) = Oldest(first)

\* "Copy the table data to the user dst.": Read hands out the oldest bytes
\* written, whatever the sizes of the calls.
ReadReturnsWritten == pc = "read" => out = Oldest(Len(out))

\* Every call returns: the growing loop of Write and the shrinking loop of Read
\* end, as do the copy loops, also after the pointers have gone wrong.
CallsReturn == pc # "idle" ~> pc = "idle"
=============================================================================
