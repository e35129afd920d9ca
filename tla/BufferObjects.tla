--------------------------- MODULE BufferObjects ----------------------------
(***************************************************************************)
(* The life of CircularBuffer objects: construction, copying, moving and   *)
(* destruction, with the growing and shrinking of their tables between.    *)
(* The question here is who owns which table, so a table is an allocation  *)
(* of some number of blocks of some length, and of the bytes in it only    *)
(* their number and where in a block they begin is kept; CircularBuffer    *)
(* models what happens to them.                                            *)
(*                                                                         *)
(* Undefined behaviour ends a behaviour of the model.  Where it depends on *)
(* the bytes whether a step has any, both outcomes are possible.           *)
(***************************************************************************)
EXTENDS Integers

CONSTANTS
  Object,              \* memory that can hold a CircularBuffer
  Table,               \* what malloc can return for a table
  Null, Wild,          \* null pointer, a pointer to no table
  BlockSizes,          \* block sizes the objects are constructed with
  Amounts,             \* sizes of Write, Read and Peek
  MaxTableCapacity     \* bound: blocks of a table

ASSUME ObjectsAssumption ==
  /\ BlockSizes \subseteq Nat \ {0}
  /\ Amounts \subseteq Nat \ {0}
  /\ MaxTableCapacity \in Nat
  /\ Null \notin Table /\ Wild \notin Table /\ Null # Wild

VARIABLES
  live,                \* the objects that are constructed
  buffer,              \* their fields
  heap,                \* the tables that are allocated
  call,                \* the Write or Read under way
  undefined,           \* whether behaviour is undefined
  suspect              \* history: a copy constructor found other than zeros in
                       \* its memory, a copy assignment kept blocks that are
                       \* too short, or a Read was not of whole blocks

vars == <<live, buffer, heap, call, undefined, suspect>>

\* tail is the place in its block of the oldest byte, _tl.m.
Buffer ==
  {b \in [blockSize : BlockSizes, growable : BOOLEAN, size : Nat, capacity : Nat,
          tail : Nat, tableCapacity : Nat, table : Table \cup {Null, Wild}] :
     b.tail < b.blockSize}

Blocks(count, length) == [blocks |-> count, blockSize |-> length]
Free == Blocks(0, 0)

Idle == [op |-> "none"]
Call == [op : {"write", "read"}, object : Object, amount : Nat, copied : Nat]

Init ==
  /\ live = {}
  /\ buffer \in [Object -> {[blockSize |-> s, growable |-> FALSE, size |-> 0, capacity |-> 0,
                             tail |-> 0, tableCapacity |-> 0, table |-> Null] : s \in BlockSizes}]
  /\ heap = [t \in Table |-> Free]
  /\ call = Idle
  /\ undefined = FALSE
  /\ suspect = FALSE

\* Between calls, in a program that has not gone wrong.
Ready == call = Idle /\ ~undefined

-----------------------------------------------------------------------------
(* Tables.                                                                 *)

\* The loop that frees the blocks of b, and then its table, is defined.
Cleanable(b) ==
  \/ b.table = Null /\ b.tableCapacity = 0
  \/ /\ b.table \in Table
     /\ heap[b.table] # Free
     /\ heap[b.table].blocks = b.tableCapacity

\* The heap without the table of b.
Released(b) == [t \in Table |-> IF t = b.table THEN Free ELSE heap[t]]

\* The blocks of b are as long as its pointers take them to be.
Roomy(b) == heap[b.table].blocks = b.tableCapacity /\ heap[b.table].blockSize >= b.blockSize

\* Whether going over the stored bytes of some buffers is undefined.
Outcomes(buffers) ==
  LET used == {b \in buffers : b.size > 0} IN
  IF \E b \in used : b.table \notin Table THEN {TRUE}
  ELSE IF \A b \in used : Roomy(b) THEN {FALSE}
  ELSE BOOLEAN

-----------------------------------------------------------------------------
(* Construction, copying, moving, destruction.                             *)

Construct(o, blockSize, growable) ==
  /\ Ready /\ o \notin live
  /\ live' = live \cup {o}
  /\ \E t \in Table :
       /\ heap[t] = Free
       /\ heap' = [heap EXCEPT ![t] = Blocks(1, blockSize)]
       /\ buffer' = [buffer EXCEPT ![o] =
            [blockSize |-> blockSize, growable |-> growable, size |-> 0,
             capacity |-> blockSize, tail |-> 0, tableCapacity |-> 1, table |-> t]]
  /\ UNCHANGED <<call, undefined, suspect>>

\* The fields CleanupTable and moving leave behind.
Emptied(b) ==
  [b EXCEPT !.size = 0, !.capacity = 0, !.tail = 0, !.tableCapacity = 0, !.table = Null]

Destroy(o) ==
  /\ Ready /\ o \in live
  /\ live' = live \ {o}
  /\ heap' = Released(buffer[o])
  /\ buffer' = [buffer EXCEPT ![o] = Emptied(@)]
  /\ undefined' = ~Cleanable(buffer[o])
  /\ UNCHANGED <<call, suspect>>

\* Copy keeps the table of an object that had as many blocks before.
Kept(old, other) == old.tableCapacity = other.tableCapacity

\* Mutant of Copy: the table capacity is read after it was overwritten.
CopyReadsLate(o, old, other) ==
  /\ buffer' = [buffer EXCEPT ![o] = [other EXCEPT !.table = old.table]]
  /\ undefined' \in Outcomes({[other EXCEPT !.table = old.table], other})
  /\ UNCHANGED heap

\* Copy of other into the object o, whose fields were those of old.
Copy(o, old, other) ==
  \/ LET copy == [other EXCEPT !.table = old.table] IN
     /\ Kept(old, other)
     /\ buffer' = [buffer EXCEPT ![o] = copy]
     /\ undefined' \in Outcomes({copy, other})
     /\ UNCHANGED heap
  \/ /\ ~Kept(old, other)
     /\ \E t \in Table :
          /\ Released(old)[t] = Free
          /\ heap' = [Released(old) EXCEPT ![t] = Blocks(other.tableCapacity, other.blockSize)]
          /\ buffer' = [buffer EXCEPT ![o] = [other EXCEPT !.table = t]]
     /\ undefined' \in IF Cleanable(old) THEN Outcomes({other}) ELSE {TRUE}

\* The copy constructor sets neither _tableCapacity nor _table before Copy reads
\* them: it finds what the memory held.
CopyConstruct(o, p) ==
  /\ Ready /\ o \notin live /\ p \in live
  /\ live' = live \cup {o}
  /\ \E blocks \in 0..MaxTableCapacity, pointer \in {Null, Wild} :
       /\ Copy(o, [buffer[p] EXCEPT !.tableCapacity = blocks, !.table = pointer], buffer[p])
       /\ suspect' = (suspect \/ blocks # 0 \/ pointer # Null)
  /\ UNCHANGED call

CopyAssign(o, p) ==
  /\ Ready /\ o \in live /\ p \in live /\ o # p
  /\ Copy(o, buffer[o], buffer[p])
  /\ suspect' = (suspect \/ /\ Kept(buffer[o], buffer[p])
                            /\ buffer[o].table \in Table
                            /\ heap[buffer[o].table].blockSize < buffer[p].blockSize)
  /\ UNCHANGED <<live, call>>

\* Mutant of Moved: the source keeps its table.
MovedShares(o, p) == [buffer EXCEPT ![o] = buffer[p]]

\* Both moves copy the fields of p and leave p without a table.
Moved(o, p) == [buffer EXCEPT ![o] = buffer[p], ![p] = Emptied(@)]

MoveConstruct(o, p) ==
  /\ Ready /\ o \notin live /\ p \in live
  /\ live' = live \cup {o}
  /\ buffer' = Moved(o, p)
  /\ UNCHANGED <<heap, call, undefined, suspect>>

MoveAssign(o, p) ==
  /\ Ready /\ o \in live /\ p \in live /\ o # p
  /\ heap' = Released(buffer[o])
  /\ buffer' = Moved(o, p)
  /\ undefined' = ~Cleanable(buffer[o])
  /\ UNCHANGED <<live, call, suspect>>

-----------------------------------------------------------------------------
(* Write, Read and Peek: one iteration of a loop is a step.                *)

Least(m, n) == IF m <= n THEN m ELSE n

\* Going over the bytes in the order they were stored goes on into a second
\* block from the middle of the first.
Straddles(b) == b.tail > 0 /\ b.size > b.blockSize

\* IncreaseTable and DecreaseTable: the new table is allocated first.  What is
\* copied is bounded by the block it comes from: the second piece runs past the
\* end of a new block when the first did not fill it.
Resize(o, blocks) ==
  LET b == buffer[o] IN
  /\ \E t \in Table :
       /\ heap[t] = Free
       /\ heap' = [Released(b) EXCEPT ![t] = Blocks(blocks, b.blockSize)]
       /\ buffer' = [buffer EXCEPT ![o] =
            [b EXCEPT !.capacity = b.blockSize * blocks, !.tail = 0,
                      !.tableCapacity = blocks, !.table = t]]
  /\ undefined' \in IF Cleanable(b) /\ ~Straddles(b) THEN Outcomes({b}) ELSE {TRUE}
  /\ UNCHANGED <<live, call, suspect>>

Fits(o, n) == n <= buffer[o].capacity - buffer[o].size

Begun(op, o, n) == [op |-> op, object |-> o, amount |-> n, copied |-> 0]

\* A Write that does not fit a table that may not grow is refused and left out.
\* MaxTableCapacity bounds what the others store.
BeginWrite(o, n) ==
  /\ Ready /\ o \in live
  /\ buffer[o].growable \/ Fits(o, n)
  /\ buffer[o].size + n <= buffer[o].blockSize * MaxTableCapacity
  /\ call' = Begun("write", o, n)
  /\ UNCHANGED <<live, buffer, heap, undefined, suspect>>

\* Mutant of IncreaseTable: the table is replaced by one of the same size.
IncreaseTableSame(o) ==
  /\ ~undefined /\ call.op = "write" /\ call.object = o
  /\ ~Fits(o, call.amount)
  /\ Resize(o, buffer[o].tableCapacity)

IncreaseTable(o) ==
  /\ ~undefined /\ call.op = "write" /\ call.object = o
  /\ ~Fits(o, call.amount)
  /\ Resize(o, 2 * buffer[o].tableCapacity)

EndWrite(o) ==
  /\ ~undefined /\ call.op = "write" /\ call.object = o
  /\ Fits(o, call.amount)
  /\ buffer' = [buffer EXCEPT ![o].size = @ + call.amount]
  /\ undefined' \in Outcomes({buffer'[o]})
  /\ call' = Idle
  /\ UNCHANGED <<live, heap, suspect>>

\* Mutant of BeginRead: more may be read than is stored.
BeginReadUnchecked(o, n) ==
  /\ Ready /\ o \in live
  /\ call' = Begun("read", o, n)
  /\ suspect' = (suspect \/ n % buffer[o].blockSize # 0)
  /\ UNCHANGED <<live, buffer, heap, undefined>>

\* A Read of more than is stored is refused and left out.
BeginRead(o, n) ==
  /\ Ready /\ o \in live
  /\ n <= buffer[o].size
  /\ call' = Begun("read", o, n)
  /\ suspect' = (suspect \/ n % buffer[o].blockSize # 0)
  /\ UNCHANGED <<live, buffer, heap, undefined>>

\* A piece is copied, and the tail goes on by all that was copied so far.  What is
\* stored counts as read after the last one.
ReadChunk(o) ==
  LET b == buffer[o]
      copied == call.copied + Least(b.blockSize - b.tail, call.amount - call.copied)
  IN
  /\ ~undefined /\ call.op = "read" /\ call.object = o
  /\ call.copied < call.amount
  /\ call' = [call EXCEPT !.copied = copied]
  /\ buffer' = [buffer EXCEPT ![o] =
       [b EXCEPT !.tail = (@ + copied) % b.blockSize,
                 !.size = IF copied = call.amount THEN @ - copied ELSE @]]
  /\ undefined' \in Outcomes({b})
  /\ UNCHANGED <<live, heap, suspect>>

\* Less than a quarter of more than one block is used.
Sparse(b) == b.tableCapacity > 1 /\ 4 * b.size < b.capacity

DecreaseTable(o) ==
  /\ ~undefined /\ call.op = "read" /\ call.object = o
  /\ call.copied = call.amount
  /\ Sparse(buffer[o])
  /\ Resize(o, buffer[o].tableCapacity \div 2)

EndRead(o) ==
  /\ ~undefined /\ call.op = "read" /\ call.object = o
  /\ call.copied = call.amount
  /\ ~Sparse(buffer[o])
  /\ call' = Idle
  /\ UNCHANGED <<live, buffer, heap, undefined, suspect>>

\* A Peek of more than is stored is refused and left out.  Every piece is copied
\* from the place of the first, and the second is as long as if it began a block.
Peek(o, n) ==
  LET b == buffer[o]
      second == Least(b.blockSize, n - (b.blockSize - b.tail))
  IN
  /\ Ready /\ o \in live
  /\ n <= b.size
  /\ undefined' \in IF b.table \in Table /\ b.tail + second > heap[b.table].blockSize
                    THEN {TRUE} ELSE Outcomes({b})
  /\ UNCHANGED <<live, buffer, heap, call, suspect>>

Work ==
  \E o \in Object :
    \/ IncreaseTable(o) \/ EndWrite(o)
    \/ ReadChunk(o) \/ DecreaseTable(o) \/ EndRead(o)

Next ==
  \/ Work
  \/ \E o \in Object :
       \/ \E s \in BlockSizes, g \in BOOLEAN : Construct(o, s, g)
       \/ Destroy(o)
       \/ \E n \in Amounts : BeginWrite(o, n) \/ BeginRead(o, n) \/ Peek(o, n)
       \/ \E p \in Object :
            CopyConstruct(o, p) \/ CopyAssign(o, p) \/ MoveConstruct(o, p) \/ MoveAssign(o, p)

Spec == Init /\ [][Next]_vars

\* A call goes on with its loop.
FairSpec == Spec /\ WF_vars(Work)

-----------------------------------------------------------------------------
(* Properties.                                                             *)

TypeOK ==
  /\ live \in SUBSET Object
  /\ buffer \in [Object -> Buffer]
  /\ heap \in [Table -> [blocks : Nat, blockSize : Nat]]
  /\ call \in {Idle} \cup Call
  /\ undefined \in BOOLEAN
  /\ suspect \in BOOLEAN

\* As long as behaviour is defined, every table that is allocated belongs to
\* exactly one object, and no object points to one that was freed: copying,
\* moving, assigning, growing and shrinking neither leak a table nor share one.
TablesOwnedOnce ==
  ~undefined =>
    /\ \A t \in Table : heap[t] # Free => \E o \in live : buffer[o].table = t
    /\ \A o, p \in live : buffer[o].table \in Table /\ buffer[o].table = buffer[p].table => o = p
    /\ \A o \in live : buffer[o].table \in Table => heap[buffer[o].table] # Free

\* Calls are defined, and leave each object a table of as many blocks as it
\* counts, long enough for it, or none, in any order and whatever is written and
\* peeked at, as long as every Read is of whole blocks, no copy constructor runs
\* on memory that is not zero, and no copy assignment keeps shorter blocks.  After
\* any of the three IncreaseTable, DecreaseTable, Peek, Copy and the destructor can
\* go wrong, and nothing is claimed.
CarefulCallsDefined ==
  ~suspect =>
    /\ ~undefined
    /\ \A o \in live :
         LET b == buffer[o] IN
         /\ Cleanable(b)
         /\ b.table \in Table => heap[b.table].blockSize >= b.blockSize
         /\ b.capacity = b.blockSize * b.tableCapacity
         /\ b.size <= b.capacity

\* The growing loop of Write ends on every object but one that has no blocks:
\* one that was moved from doubles a capacity of zero for ever.
WritesReturn ==
  \A o \in Object :
    (call.op = "write" /\ call.object = o /\ buffer[o].tableCapacity > 0)
      ~> (call = Idle \/ undefined)

\* Expected violation: "Clean up the previous table." (circular_buffer.cpp:214)
\* takes every object that is copied into to have a table or none.
CopiesAreDefined == ~undefined
=============================================================================
