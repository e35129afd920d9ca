------------------------- MODULE BufferObjectsProofs ------------------------
(***************************************************************************)
(* Proofs about the life of CircularBuffer objects, for any objects,       *)
(* tables and block sizes.                                                 *)
(***************************************************************************)
EXTENDS BufferObjects, TLAPS

\* The object of a call lives as long as the call.
CallLive == call # Idle => call.object \in live

\* A Read never copies more than it was asked for, and has that much to copy.
ReadStored ==
  call.op = "read" =>
    /\ call.copied <= call.amount
    /\ call.copied < call.amount => call.amount <= buffer[call.object].size

IInv == TypeOK /\ CallLive /\ ReadStored

-----------------------------------------------------------------------------
(* Types.                                                                  *)

LEMMA OutcomesBoolean ==
  ASSUME NEW buffers, NEW x \in Outcomes(buffers)
  PROVE  x \in BOOLEAN
BY DEF Outcomes

\* What a step may write to the fields of a buffer.
LEMMA BufferFields ==
  ASSUME NEW b \in Buffer, NEW size \in Nat, NEW capacity \in Nat, NEW blocks \in Nat,
         NEW table \in Table \cup {Null, Wild}
  PROVE  /\ Emptied(b) \in Buffer
         /\ [b EXCEPT !.size = size] \in Buffer
         /\ [b EXCEPT !.table = table] \in Buffer
         /\ [b EXCEPT !.tableCapacity = blocks, !.table = table] \in Buffer
         /\ [b EXCEPT !.capacity = capacity, !.tail = 0,
                      !.tableCapacity = blocks, !.table = table] \in Buffer
<1>1. b.blockSize \in Nat /\ 0 < b.blockSize
  <2>1. b.blockSize \in BlockSizes
    BY DEF Buffer
  <2>2. \A n \in Nat \ {0} : n \in Nat /\ 0 < n
    OBVIOUS
  <2>3. b.blockSize \in Nat \ {0}
    BY <2>1, ObjectsAssumption
  <2> QED BY <2>2, <2>3
<1>2. Emptied(b) \in Buffer
  <2>1. Emptied(b) \in [blockSize : BlockSizes, growable : BOOLEAN, size : Nat, capacity : Nat,
                        tail : Nat, tableCapacity : Nat, table : Table \cup {Null, Wild}]
    BY DEF Buffer, Emptied
  <2>2. Emptied(b).tail = 0 /\ Emptied(b).blockSize = b.blockSize
    BY DEF Buffer, Emptied
  <2> QED BY <1>1, <2>1, <2>2 DEF Buffer
<1>3. [b EXCEPT !.size = size] \in Buffer /\ [b EXCEPT !.table = table] \in Buffer
  BY DEF Buffer
<1>4. [b EXCEPT !.tableCapacity = blocks, !.table = table] \in Buffer
  BY DEF Buffer
<1>5. [b EXCEPT !.capacity = capacity, !.tail = 0,
                !.tableCapacity = blocks, !.table = table] \in Buffer
  BY <1>1 DEF Buffer
<1> QED BY <1>2, <1>3, <1>4, <1>5

LEMMA PieceFields ==
  ASSUME NEW b \in Buffer, NEW size \in Nat, NEW tail \in Nat, tail < b.blockSize
  PROVE  [b EXCEPT !.tail = tail, !.size = size] \in Buffer
BY DEF Buffer

LEMMA HeapTypes ==
  ASSUME TypeOK, NEW b \in Buffer, NEW t \in Table, NEW count \in Nat, NEW length \in BlockSizes
  PROVE  /\ Released(b) \in [Table -> [blocks : Nat, blockSize : Nat]]
         /\ [Released(b) EXCEPT ![t] = Blocks(count, length)]
              \in [Table -> [blocks : Nat, blockSize : Nat]]
         /\ [heap EXCEPT ![t] = Blocks(count, length)]
              \in [Table -> [blocks : Nat, blockSize : Nat]]
<1> USE ObjectsAssumption
<1>1. Free \in [blocks : Nat, blockSize : Nat] /\ Blocks(count, length) \in [blocks : Nat, blockSize : Nat]
  BY DEF Free, Blocks
<1>2. Released(b) \in [Table -> [blocks : Nat, blockSize : Nat]]
  BY <1>1 DEF Released, TypeOK
<1> QED BY <1>1, <1>2 DEF TypeOK

LEMMA MovedTypes ==
  ASSUME TypeOK, NEW o \in Object, NEW p \in Object
  PROVE  Moved(o, p) \in [Object -> Buffer]
<1>1. buffer[p] \in Buffer /\ Emptied(buffer[p]) \in Buffer /\ Emptied(buffer[o]) \in Buffer
  BY BufferFields DEF TypeOK
<1>2. [buffer EXCEPT ![o] = buffer[p]] \in [Object -> Buffer]
  BY <1>1 DEF TypeOK
<1>3. [buffer EXCEPT ![o] = buffer[p]][p] = buffer[p]
  BY DEF TypeOK
<1> QED BY <1>1, <1>2, <1>3 DEF Moved, TypeOK

LEMMA CopyTypes ==
  ASSUME TypeOK, NEW o \in Object, NEW old \in Buffer, NEW other \in Buffer, Copy(o, old, other)
  PROVE  /\ buffer' \in [Object -> Buffer]
         /\ heap' \in [Table -> [blocks : Nat, blockSize : Nat]]
         /\ undefined' \in BOOLEAN
<1>1. old.table \in Table \cup {Null, Wild} /\ other.tableCapacity \in Nat /\ other.blockSize \in BlockSizes
  BY DEF Buffer
<1>2. \A t \in Table \cup {Null, Wild} : [other EXCEPT !.table = t] \in Buffer
  BY BufferFields
<1>3. PICK t \in Table \cup {Null, Wild} : buffer' = [buffer EXCEPT ![o] = [other EXCEPT !.table = t]]
  BY <1>1 DEF Copy
<1>4. buffer' \in [Object -> Buffer]
  BY <1>2, <1>3 DEF TypeOK
<1>6. ASSUME NEW u \in Table,
             heap' = [Released(old) EXCEPT ![u] = Blocks(other.tableCapacity, other.blockSize)]
      PROVE  heap' \in [Table -> [blocks : Nat, blockSize : Nat]]
  BY <1>1, <1>6, HeapTypes
<1>7. undefined' \in BOOLEAN
  BY OutcomesBoolean DEF Copy
<1>8. heap' \in [Table -> [blocks : Nat, blockSize : Nat]]
  BY <1>6 DEF Copy, TypeOK
<1> QED BY <1>4, <1>7, <1>8

LEMMA ResizeTypes ==
  ASSUME TypeOK, NEW o \in Object, NEW blocks \in Nat, Resize(o, blocks)
  PROVE  TypeOK'
<1> USE ObjectsAssumption
<1> DEFINE b == buffer[o]
<1>1. b \in Buffer
  BY DEF TypeOK
<1>a. b.blockSize \in BlockSizes
  BY <1>1 DEF Buffer
<1>b. b.blockSize * blocks \in Nat
  <2>1. \A x, y \in Nat : x * y \in Nat
    OBVIOUS
  <2>2. b.blockSize \in Nat
    BY <1>a
  <2> HIDE DEF b
  <2> QED BY <2>1, <2>2
<1>2. PICK t \in Table :
        /\ heap' = [Released(b) EXCEPT ![t] = Blocks(blocks, b.blockSize)]
        /\ buffer' = [buffer EXCEPT ![o] =
             [b EXCEPT !.capacity = b.blockSize * blocks, !.tail = 0,
                       !.tableCapacity = blocks, !.table = t]]
  BY DEF Resize
<1>3. buffer' \in [Object -> Buffer]
  BY <1>1, <1>b, <1>2, BufferFields DEF TypeOK
<1>4. heap' \in [Table -> [blocks : Nat, blockSize : Nat]]
  BY <1>1, <1>a, <1>2, HeapTypes
<1>5. undefined' \in BOOLEAN
  BY OutcomesBoolean DEF Resize
<1> QED BY <1>3, <1>4, <1>5 DEF Resize, TypeOK

LEMMA InitType == Init => IInv
<1> SUFFICES ASSUME Init PROVE IInv
  OBVIOUS
<1>1. buffer \in [Object -> Buffer]
  <2>1. PICK f \in [Object -> {[blockSize |-> s, growable |-> FALSE, size |-> 0, capacity |-> 0,
                               tail |-> 0, tableCapacity |-> 0, table |-> Null] : s \in BlockSizes}] : buffer = f
    BY DEF Init
  <2>2. \A s \in BlockSizes : [blockSize |-> s, growable |-> FALSE, size |-> 0, capacity |-> 0,
                               tail |-> 0, tableCapacity |-> 0, table |-> Null] \in Buffer
    BY ObjectsAssumption DEF Buffer
  <2>3. \A o \in Object : f[o] \in Buffer
    BY <2>2
  <2> QED BY <2>1, <2>3
<1>2. heap \in [Table -> [blocks : Nat, blockSize : Nat]]
  BY DEF Init, Free, Blocks
<1> QED BY <1>1, <1>2 DEF Init, IInv, TypeOK, CallLive, ReadStored, Idle

\* What a Read has copied after its next piece.
Copied(o) ==
  call.copied + Least(buffer[o].blockSize - buffer[o].tail, call.amount - call.copied)

\* A remainder is less than what it is divided by.
LEMMA RemainderBelow ==
  ASSUME NEW a \in Nat, NEW b \in Nat \ {0}
  PROVE  a % b \in Nat /\ a % b < b
<1>1. a % b \in 0..(b - 1)
  OBVIOUS
<1>2. \A r \in 0..(b - 1) : r \in Nat /\ r < b
  OBVIOUS
<1> QED BY <1>1, <1>2

\* A piece of a Read ends where the Read does or before.
LEMMA PieceCopied ==
  ASSUME IInv, NEW o \in Object, ReadChunk(o)
  PROVE  /\ o \in live /\ call \in Call /\ call.object = o
         /\ call.amount \in Nat /\ call.copied \in Nat
         /\ Copied(o) \in Nat /\ Copied(o) <= call.amount /\ call.amount <= buffer[o].size
         /\ call' = [call EXCEPT !.copied = Copied(o)]
         /\ call'.copied = Copied(o) /\ call'.amount = call.amount /\ call'.object = o
         /\ call'.op = "read"
         /\ buffer' = [buffer EXCEPT ![o] = buffer'[o]]
         /\ buffer'[o] \in Buffer
         /\ buffer'[o].size = IF Copied(o) = call.amount THEN buffer[o].size - Copied(o)
                                                         ELSE buffer[o].size
         /\ buffer'[o].tail = (buffer[o].tail + Copied(o)) % buffer[o].blockSize
         /\ buffer'[o].table = buffer[o].table /\ buffer'[o].blockSize = buffer[o].blockSize
         /\ buffer'[o].capacity = buffer[o].capacity
         /\ buffer'[o].tableCapacity = buffer[o].tableCapacity
<1> DEFINE b == buffer[o]
           tail == (b.tail + Copied(o)) % b.blockSize
           size == IF Copied(o) = call.amount THEN b.size - Copied(o) ELSE b.size
<1>1. /\ call.op = "read" /\ call.object = o /\ call.copied < call.amount
      /\ call' = [call EXCEPT !.copied = Copied(o)]
      /\ buffer' = [buffer EXCEPT ![o] = [b EXCEPT !.tail = tail, !.size = size]]
  BY DEF ReadChunk, Copied
<1>2. call # Idle
  BY <1>1 DEF Idle
<1>3. call \in Call /\ o \in live
  BY <1>1, <1>2 DEF IInv, TypeOK, CallLive
<1>4. /\ b \in Buffer /\ b.blockSize \in Nat \ {0} /\ b.tail \in Nat /\ b.tail < b.blockSize
      /\ b.size \in Nat
  BY ObjectsAssumption DEF IInv, TypeOK, Buffer
<1>5. call.amount \in Nat /\ call.copied \in Nat
  BY <1>3, ObjectsAssumption DEF Call
<1>6. call.amount <= b.size
  BY <1>1 DEF IInv, ReadStored
<1>7. Copied(o) \in Nat /\ Copied(o) <= call.amount
  <2>1. \A x, y \in Nat : Least(x, y) \in Nat /\ Least(x, y) <= y
    BY DEF Least
  <2>2. b.blockSize - b.tail \in Nat /\ call.amount - call.copied \in Nat
    BY <1>1, <1>4, <1>5
  <2> DEFINE c == Least(b.blockSize - b.tail, call.amount - call.copied)
  <2>3. c \in Nat /\ c <= call.amount - call.copied
    BY <2>1, <2>2
  <2>4. Copied(o) = call.copied + c
    BY DEF Copied
  <2> HIDE DEF b, c
  <2> QED BY <1>5, <2>3, <2>4
<1>8. tail \in Nat /\ tail < b.blockSize
  BY <1>4, <1>7, RemainderBelow
<1>9. size \in Nat
  BY <1>4, <1>5, <1>6, <1>7
<1>10. /\ buffer'[o] = [b EXCEPT !.tail = tail, !.size = size]
       /\ buffer'[o].size = size /\ buffer'[o].tail = tail
       /\ buffer'[o].table = b.table /\ buffer'[o].blockSize = b.blockSize
       /\ buffer'[o].capacity = b.capacity /\ buffer'[o].tableCapacity = b.tableCapacity
  BY <1>1, <1>4 DEF IInv, TypeOK, Buffer
<1>11. [b EXCEPT !.tail = tail, !.size = size] \in Buffer
  <2> HIDE DEF b, tail, size
  <2> QED BY <1>4, <1>8, <1>9, PieceFields
<1>12. call'.copied = Copied(o) /\ call'.amount = call.amount /\ call'.object = o /\ call'.op = "read"
  BY <1>1, <1>3 DEF Call
<1> QED
  <2> HIDE DEF tail, size
  <2>1. buffer' = [buffer EXCEPT ![o] = buffer'[o]]
    BY <1>1, <1>10
  <2> QED BY <1>1, <1>3, <1>5, <1>6, <1>7, <1>10, <1>11, <1>12, <2>1 DEF tail, size

LEMMA NextCalls == IInv /\ [Next]_vars => TypeOK' /\ CallLive'
<1> SUFFICES ASSUME IInv, [Next]_vars PROVE TypeOK' /\ CallLive'
  OBVIOUS
<1> USE ObjectsAssumption
<1>a. \A o \in Object : buffer[o] \in Buffer /\ Emptied(buffer[o]) \in Buffer
  BY BufferFields DEF IInv, TypeOK
<1>b. call # Idle => call \in Call /\ call.object \in live
  BY DEF IInv, TypeOK, CallLive
<1>1. CASE UNCHANGED vars
  BY <1>1 DEF IInv, TypeOK, CallLive, vars
<1>2. ASSUME NEW o \in Object, NEW s \in BlockSizes, NEW g \in BOOLEAN, Construct(o, s, g)
      PROVE  TypeOK' /\ CallLive'
  <2>1. PICK t \in Table :
          /\ heap' = [heap EXCEPT ![t] = Blocks(1, s)]
          /\ buffer' = [buffer EXCEPT ![o] =
               [blockSize |-> s, growable |-> g, size |-> 0,
                capacity |-> s, tail |-> 0, tableCapacity |-> 1, table |-> t]]
    BY <1>2 DEF Construct
  <2>2. heap' \in [Table -> [blocks : Nat, blockSize : Nat]]
    BY <1>a, <2>1, HeapTypes DEF IInv
  <2>3. buffer' \in [Object -> Buffer]
    BY <2>1 DEF IInv, TypeOK, Buffer
  <2> QED BY <1>2, <2>2, <2>3 DEF IInv, TypeOK, CallLive, Construct, Ready
<1>3. ASSUME NEW o \in Object, Destroy(o)
      PROVE  TypeOK' /\ CallLive'
  <2>1. heap' \in [Table -> [blocks : Nat, blockSize : Nat]]
    <3>1. \A t \in Table : heap'[t] \in {Free, heap[t]}
      BY <1>3 DEF Destroy, Released
    <3>2. Free \in [blocks : Nat, blockSize : Nat]
      BY DEF Free, Blocks
    <3> QED BY <1>3, <3>2 DEF Destroy, Released, IInv, TypeOK
  <2>2. buffer' \in [Object -> Buffer]
    BY <1>a, <1>3 DEF IInv, TypeOK, Destroy
  <2>3. undefined' \in BOOLEAN
    BY <1>3 DEF Destroy
  <2> QED BY <1>3, <2>1, <2>2, <2>3 DEF IInv, TypeOK, CallLive, Destroy, Ready
<1>4. ASSUME NEW o \in Object, NEW p \in Object, CopyConstruct(o, p)
      PROVE  TypeOK' /\ CallLive'
  <2>1. PICK blocks \in 0..MaxTableCapacity, pointer \in {Null, Wild} :
          /\ Copy(o, [buffer[p] EXCEPT !.tableCapacity = blocks, !.table = pointer], buffer[p])
          /\ suspect' = (suspect \/ blocks # 0 \/ pointer # Null)
    BY <1>4 DEF CopyConstruct
  <2>2. [buffer[p] EXCEPT !.tableCapacity = blocks, !.table = pointer] \in Buffer
    <3>1. blocks \in Nat /\ pointer \in Table \cup {Null, Wild} /\ buffer[p] \in Buffer
      BY <1>a
    <3> QED BY <3>1, BufferFields
  <2>3. /\ buffer' \in [Object -> Buffer]
        /\ heap' \in [Table -> [blocks : Nat, blockSize : Nat]]
        /\ undefined' \in BOOLEAN
    BY <1>a, <2>1, <2>2, CopyTypes DEF IInv
  <2>4. suspect' \in BOOLEAN
    BY <2>1
  <2> QED BY <1>4, <2>3, <2>4 DEF IInv, TypeOK, CallLive, CopyConstruct, Ready
<1>5. ASSUME NEW o \in Object, NEW p \in Object, CopyAssign(o, p)
      PROVE  TypeOK' /\ CallLive'
  <2>1. /\ buffer' \in [Object -> Buffer]
        /\ heap' \in [Table -> [blocks : Nat, blockSize : Nat]]
        /\ undefined' \in BOOLEAN
    BY <1>a, <1>5, CopyTypes DEF IInv, CopyAssign
  <2>2. suspect' \in BOOLEAN
    BY <1>5 DEF CopyAssign
  <2> QED BY <1>5, <2>1, <2>2 DEF IInv, TypeOK, CallLive, CopyAssign, Ready
<1>6. ASSUME NEW o \in Object, NEW p \in Object, MoveConstruct(o, p)
      PROVE  TypeOK' /\ CallLive'
  <2>1. buffer' \in [Object -> Buffer]
    BY <1>6, MovedTypes DEF IInv, MoveConstruct
  <2> QED BY <1>6, <2>1 DEF IInv, TypeOK, CallLive, MoveConstruct, Ready
<1>7. ASSUME NEW o \in Object, NEW p \in Object, MoveAssign(o, p)
      PROVE  TypeOK' /\ CallLive'
  <2>1. buffer' \in [Object -> Buffer]
    BY <1>7, MovedTypes DEF IInv, MoveAssign
  <2>2. heap' \in [Table -> [blocks : Nat, blockSize : Nat]]
    <3>1. Free \in [blocks : Nat, blockSize : Nat]
      BY DEF Free, Blocks
    <3> QED BY <1>7, <3>1 DEF MoveAssign, Released, IInv, TypeOK
  <2>3. undefined' \in BOOLEAN
    BY <1>7 DEF MoveAssign
  <2> QED BY <1>7, <2>1, <2>2, <2>3 DEF IInv, TypeOK, CallLive, MoveAssign, Ready
<1>8. ASSUME NEW o \in Object, NEW n \in Amounts, BeginWrite(o, n)
      PROVE  TypeOK' /\ CallLive'
  <2>1. call' \in Call /\ call'.object = o
    BY <1>8 DEF BeginWrite, Begun, Call
  <2> QED BY <1>8, <2>1 DEF IInv, TypeOK, CallLive, BeginWrite
<1>9. ASSUME NEW o \in Object, NEW n \in Amounts, BeginRead(o, n)
      PROVE  TypeOK' /\ CallLive'
  <2>1. call' \in Call /\ call'.object = o
    BY <1>9 DEF BeginRead, Begun, Call
  <2>2. suspect' \in BOOLEAN
    BY <1>9 DEF BeginRead
  <2> QED BY <1>9, <2>1, <2>2 DEF IInv, TypeOK, CallLive, BeginRead
<1>10. ASSUME NEW o \in Object, IncreaseTable(o) \/ DecreaseTable(o)
       PROVE  TypeOK' /\ CallLive'
  <2>1. 2 * buffer[o].tableCapacity \in Nat /\ buffer[o].tableCapacity \div 2 \in Nat
    BY <1>a DEF Buffer
  <2>2. TypeOK'
    BY <1>10, <2>1, ResizeTypes DEF IInv, IncreaseTable, DecreaseTable
  <2> QED BY <1>10, <2>2 DEF IInv, CallLive, IncreaseTable, DecreaseTable, Resize
<1>11. ASSUME NEW o \in Object, EndWrite(o)
       PROVE  TypeOK' /\ CallLive'
  <2>1. call \in Call
    BY <1>11, <1>b DEF EndWrite, Idle
  <2>2. buffer[o].size + call.amount \in Nat
    BY <1>a, <2>1 DEF Call, Buffer
  <2>3. buffer' \in [Object -> Buffer]
    BY <1>11, <1>a, <2>2, BufferFields DEF EndWrite, IInv, TypeOK
  <2>4. undefined' \in BOOLEAN
    BY <1>11, OutcomesBoolean DEF EndWrite
  <2> QED BY <1>11, <2>3, <2>4 DEF IInv, TypeOK, CallLive, EndWrite
<1>12. ASSUME NEW o \in Object, EndRead(o)
       PROVE  TypeOK' /\ CallLive'
  BY <1>12 DEF IInv, TypeOK, CallLive, EndRead
<1>13. ASSUME NEW o \in Object, ReadChunk(o)
       PROVE  TypeOK' /\ CallLive'
  <2>1. buffer[o] \in Buffer /\ o \in live /\ Copied(o) \in Nat
    BY <1>13, PieceCopied DEF IInv, TypeOK
  <2>2. call' \in Call /\ call'.object = o
    BY <1>13, <2>1, PieceCopied DEF Call
  <2>3. buffer' \in [Object -> Buffer]
    <3>1. buffer' = [buffer EXCEPT ![o] = buffer'[o]] /\ buffer'[o] \in Buffer
      BY <1>13, PieceCopied
    <3> QED BY <3>1 DEF IInv, TypeOK
  <2>4. undefined' \in BOOLEAN
    BY <1>13, OutcomesBoolean DEF ReadChunk
  <2> QED BY <1>13, <2>1, <2>2, <2>3, <2>4 DEF IInv, TypeOK, CallLive, ReadChunk
<1>14. ASSUME NEW o \in Object, NEW n \in Amounts, Peek(o, n)
       PROVE  TypeOK' /\ CallLive'
  <2>1. undefined' \in BOOLEAN
    BY <1>14, OutcomesBoolean DEF Peek
  <2> QED BY <1>14, <2>1 DEF IInv, TypeOK, CallLive, Peek
<1> QED
  BY <1>1, <1>2, <1>3, <1>4, <1>5, <1>6, <1>7, <1>8, <1>9, <1>10, <1>11, <1>12, <1>13, <1>14
     DEF Next, Work

LEMMA NextReads == IInv /\ [Next]_vars => ReadStored'
<1> SUFFICES ASSUME IInv, [Next]_vars PROVE ReadStored'
  OBVIOUS
<1>1. CASE UNCHANGED <<buffer, call>>
  BY <1>1 DEF IInv, ReadStored
<1>2. CASE call' = Idle
  BY <1>2 DEF ReadStored, Idle
<1>3. CASE call'.op = "write"
  BY <1>3 DEF ReadStored
<1>4. ASSUME NEW o \in Object, NEW n \in Amounts, BeginRead(o, n)
      PROVE  ReadStored'
  <2>1. n \in Nat
    BY ObjectsAssumption
  <2> QED BY <1>4, <2>1 DEF ReadStored, BeginRead, Begun
<1>5. ASSUME NEW o \in Object, ReadChunk(o)
      PROVE  ReadStored'
  <2>1. /\ call'.copied = Copied(o) /\ call'.amount = call.amount /\ call'.object = o
        /\ Copied(o) <= call.amount /\ call.amount <= buffer[o].size
        /\ buffer'[o].size = IF Copied(o) = call.amount THEN buffer[o].size - Copied(o)
                                                        ELSE buffer[o].size
    BY <1>5, PieceCopied
  <2>2. call.amount \in Nat /\ Copied(o) \in Nat
    BY <1>5, PieceCopied
  <2> QED BY <2>1, <2>2 DEF ReadStored
<1>6. ASSUME NEW o \in Object, IncreaseTable(o) \/ DecreaseTable(o)
      PROVE  ReadStored'
  <2>1. call' = call /\ (call.op = "write" \/ call.copied = call.amount)
    BY <1>6 DEF IncreaseTable, DecreaseTable, Resize
  <2>2. CASE call.op = "write"
    BY <2>1, <2>2 DEF ReadStored
  <2>3. CASE call.op = "read" /\ call.copied = call.amount
    <3>1. call.amount \in Nat
      BY <2>3, ObjectsAssumption DEF IInv, TypeOK, Call, Idle
    <3> QED BY <2>1, <2>3, <3>1 DEF ReadStored
  <2>4. call.op = "write" \/ call.op = "read"
    BY <1>6 DEF IncreaseTable, DecreaseTable
  <2> QED BY <2>1, <2>2, <2>3, <2>4
<1>7. ASSUME NEW o \in Object, EndWrite(o) \/ EndRead(o)
      PROVE  ReadStored'
  BY <1>2, <1>7 DEF EndWrite, EndRead
<1>8. ASSUME NEW o \in Object, NEW n \in Amounts, BeginWrite(o, n)
      PROVE  ReadStored'
  BY <1>3, <1>8 DEF BeginWrite, Begun
<1>9. ASSUME NEW o \in Object, NEW n \in Amounts, Peek(o, n)
      PROVE  ReadStored'
  BY <1>1, <1>9 DEF Peek
<1>10. ASSUME NEW o \in Object, NEW s \in BlockSizes, NEW g \in BOOLEAN, Construct(o, s, g)
       PROVE  ReadStored'
  BY <1>2, <1>10 DEF Construct, Ready
<1>11. ASSUME NEW o \in Object, Destroy(o)
       PROVE  ReadStored'
  BY <1>2, <1>11 DEF Destroy, Ready
<1>12. ASSUME NEW o \in Object, NEW p \in Object,
              CopyConstruct(o, p) \/ CopyAssign(o, p) \/ MoveConstruct(o, p) \/ MoveAssign(o, p)
       PROVE  ReadStored'
  BY <1>2, <1>12 DEF CopyConstruct, CopyAssign, MoveConstruct, MoveAssign, Ready
<1> QED
  BY <1>1, <1>4, <1>5, <1>6, <1>7, <1>8, <1>9, <1>10, <1>11, <1>12 DEF Next, Work, vars

LEMMA NextType == IInv /\ [Next]_vars => IInv'
BY NextCalls, NextReads DEF IInv

\* CircularBuffer: sizes, capacities and tables keep their types in every order
\* of calls; in particular no size or capacity goes below zero.
THEOREM TypeCorrect == Spec => []TypeOK
<1>1. Init => IInv
  BY InitType
<1>2. IInv => TypeOK
  BY DEF IInv
<1> QED BY <1>1, <1>2, NextType, PTL DEF Spec

-----------------------------------------------------------------------------
(* Who owns which table.                                                   *)

LEMMA BlocksAreNotFree ==
  ASSUME NEW count \in Nat, NEW length \in BlockSizes
  PROVE  Blocks(count, length) # Free
BY ObjectsAssumption DEF Blocks, Free

\* A step that changes at most which table the object o has, and frees at most
\* the table it had.
LEMMA OneChanges ==
  ASSUME TypeOK, TypeOK', TablesOwnedOnce, ~undefined, NEW o \in Object,
         live' \ {o} = live \ {o},
         \A p \in Object \ {o} : buffer'[p].table = buffer[p].table,
         \A t \in Table : heap'[t] # Free =>
           \/ o \in live' /\ buffer'[o].table = t
           \/ heap[t] # Free /\ (o \in live => buffer[o].table # t),
         o \in live' /\ buffer'[o].table \in Table =>
           /\ heap'[buffer'[o].table] # Free
           /\ \A p \in live \ {o} : buffer[p].table # buffer'[o].table,
         \A p \in live \ {o} : buffer[p].table \in Table => heap'[buffer[p].table] # Free
  PROVE  TablesOwnedOnce'
<1>1. live \subseteq Object /\ live' \subseteq Object
  BY DEF TypeOK
<1>2. ASSUME NEW t \in Table, heap'[t] # Free
      PROVE  \E p \in live' : buffer'[p].table = t
  <2>1. CASE o \in live' /\ buffer'[o].table = t
    BY <2>1
  <2>2. CASE heap[t] # Free /\ (o \in live => buffer[o].table # t)
    <3>1. PICK p \in live : buffer[p].table = t
      BY <2>2 DEF TablesOwnedOnce
    <3>2. p # o /\ p \in live'
      BY <2>2, <3>1
    <3> QED BY <1>1, <3>1, <3>2
  <2> QED BY <1>2, <2>1, <2>2
<1>3. ASSUME NEW p \in live', NEW q \in live', buffer'[p].table \in Table,
             buffer'[p].table = buffer'[q].table
      PROVE  p = q
  <2>1. CASE p = o \/ q = o
    BY <1>1, <1>3, <2>1
  <2>2. CASE p # o /\ q # o
    <3>1. p \in live /\ q \in live
      BY <2>2
    <3> QED BY <1>1, <1>3, <2>2, <3>1 DEF TablesOwnedOnce
  <2> QED BY <2>1, <2>2
<1>4. ASSUME NEW p \in live', buffer'[p].table \in Table
      PROVE  heap'[buffer'[p].table] # Free
  BY <1>1, <1>4
<1> QED BY <1>2, <1>3, <1>4 DEF TablesOwnedOnce

LEMMA TablesKept ==
  ASSUME TypeOK, TablesOwnedOnce, ~undefined, live' = live, heap' = heap,
         \A p \in Object : buffer'[p].table = buffer[p].table
  PROVE  TablesOwnedOnce'
<1>1. live \subseteq Object
  BY DEF TypeOK
<1> QED BY <1>1 DEF TablesOwnedOnce

LEMMA ConstructOwns ==
  ASSUME IInv, TypeOK', TablesOwnedOnce, NEW o \in Object, NEW s \in BlockSizes, NEW g \in BOOLEAN,
         Construct(o, s, g)
  PROVE  TablesOwnedOnce'
<1>1. ~undefined /\ o \notin live /\ live' = live \cup {o}
  BY DEF Construct, Ready
<1>2. PICK t \in Table :
        /\ heap[t] = Free
        /\ heap' = [heap EXCEPT ![t] = Blocks(1, s)]
        /\ buffer' = [buffer EXCEPT ![o] =
             [blockSize |-> s, growable |-> g, size |-> 0,
              capacity |-> s, tail |-> 0, tableCapacity |-> 1, table |-> t]]
  BY DEF Construct
<1>3. buffer'[o].table = t /\ \A p \in Object \ {o} : buffer'[p].table = buffer[p].table
  BY <1>2 DEF IInv, TypeOK
<1>4. heap'[t] # Free /\ \A u \in Table \ {t} : heap'[u] = heap[u]
  BY <1>2, BlocksAreNotFree DEF IInv, TypeOK
<1>5. \A p \in live : buffer[p].table \in Table => heap[buffer[p].table] # Free
  BY <1>1 DEF TablesOwnedOnce
<1>6. \A p \in live : buffer[p].table # t
  BY <1>2, <1>5
<1> QED BY <1>1, <1>3, <1>4, <1>5, <1>6, OneChanges DEF IInv

LEMMA DestroyOwns ==
  ASSUME IInv, TypeOK', TablesOwnedOnce, NEW o \in Object, Destroy(o)
  PROVE  TablesOwnedOnce'
<1>1. ~undefined /\ o \in live /\ live' = live \ {o}
  BY DEF Destroy, Ready
<1>2. \A t \in Table : heap'[t] = IF t = buffer[o].table THEN Free ELSE heap[t]
  BY DEF Destroy, Released
<1>3. \A p \in Object \ {o} : buffer'[p].table = buffer[p].table
  BY DEF Destroy, IInv, TypeOK
<1>4. \A p \in live \ {o} : buffer[p].table \in Table =>
        heap[buffer[p].table] # Free /\ buffer[p].table # buffer[o].table
  BY <1>1 DEF TablesOwnedOnce
<1> QED BY <1>1, <1>2, <1>3, <1>4, OneChanges DEF IInv

\* A copy gives o the table it had or a new one.
LEMMA CopyOwns ==
  ASSUME IInv, TypeOK', TablesOwnedOnce, ~undefined, NEW o \in Object, NEW old \in Buffer,
         NEW other \in Buffer, Copy(o, old, other),
         live' = live \cup {o},
         o \in live => old.table = buffer[o].table,
         o \notin live => old.table \notin Table
  PROVE  TablesOwnedOnce'
<1>1. \A p \in live : buffer[p].table \in Table => heap[buffer[p].table] # Free
  BY DEF TablesOwnedOnce
<1>2. \A p \in live \ {o} : buffer[p].table \in Table => buffer[p].table # old.table
  BY DEF TablesOwnedOnce
<1>3. other.tableCapacity \in Nat /\ other.blockSize \in BlockSizes
  BY DEF Buffer
<1>4. CASE buffer' = [buffer EXCEPT ![o] = [other EXCEPT !.table = old.table]] /\ heap' = heap
  <2>1. [other EXCEPT !.table = old.table].table = old.table
    BY DEF Buffer
  <2>2. buffer'[o].table = old.table /\ \A p \in Object \ {o} : buffer'[p].table = buffer[p].table
    BY <1>4, <2>1 DEF IInv, TypeOK
  <2>3. old.table \in Table => o \in live /\ heap[old.table] # Free
    BY <1>1
  <2> QED BY <1>1, <1>2, <1>4, <2>2, <2>3, OneChanges DEF IInv
<1>5. ASSUME NEW t \in Table, Released(old)[t] = Free,
             heap' = [Released(old) EXCEPT ![t] = Blocks(other.tableCapacity, other.blockSize)],
             buffer' = [buffer EXCEPT ![o] = [other EXCEPT !.table = t]]
      PROVE  TablesOwnedOnce'
  <2>1. [other EXCEPT !.table = t].table = t
    BY DEF Buffer
  <2>2. buffer'[o].table = t /\ \A p \in Object \ {o} : buffer'[p].table = buffer[p].table
    BY <1>5, <2>1 DEF IInv, TypeOK
  <2>3. \A u \in Table : heap'[u] = IF u = t THEN Blocks(other.tableCapacity, other.blockSize)
                                   ELSE IF u = old.table THEN Free ELSE heap[u]
    BY <1>5 DEF Released
  <2>4. heap'[t] # Free
    BY <1>3, <2>3, BlocksAreNotFree
  <2>5. \A p \in live \ {o} : buffer[p].table # t
    BY <1>1, <1>2, <1>5 DEF Released
  <2> QED BY <1>1, <1>2, <2>2, <2>3, <2>4, <2>5, OneChanges DEF IInv
<1> QED BY <1>4, <1>5 DEF Copy

LEMMA ResizeOwns ==
  ASSUME IInv, TypeOK', TablesOwnedOnce, ~undefined, NEW o \in Object, o \in live, NEW blocks \in Nat,
         Resize(o, blocks)
  PROVE  TablesOwnedOnce'
<1> DEFINE b == buffer[o]
<1>1. PICK t \in Table :
        /\ heap[t] = Free
        /\ heap' = [Released(b) EXCEPT ![t] = Blocks(blocks, b.blockSize)]
        /\ buffer' = [buffer EXCEPT ![o] =
             [b EXCEPT !.capacity = b.blockSize * blocks, !.tail = 0,
                       !.tableCapacity = blocks, !.table = t]]
  BY DEF Resize
<1>2. b \in Buffer /\ b.blockSize \in BlockSizes
  BY DEF IInv, TypeOK, Buffer
<1>3. [b EXCEPT !.capacity = b.blockSize * blocks, !.tail = 0,
            !.tableCapacity = blocks, !.table = t].table = t
  BY <1>2 DEF Buffer
<1>4. buffer'[o].table = t /\ \A p \in Object \ {o} : buffer'[p].table = buffer[p].table
  BY <1>1, <1>3 DEF IInv, TypeOK
<1>5. \A u \in Table : heap'[u] = IF u = t THEN Blocks(blocks, b.blockSize)
                                 ELSE IF u = b.table THEN Free ELSE heap[u]
  BY <1>1 DEF Released
<1>6. heap'[t] # Free
  BY <1>2, <1>5, BlocksAreNotFree
<1>7. \A p \in live : buffer[p].table \in Table => heap[buffer[p].table] # Free
  BY DEF TablesOwnedOnce
<1>8. \A p \in live \ {o} : buffer[p].table # t /\ (buffer[p].table \in Table => buffer[p].table # b.table)
  BY <1>1, <1>7 DEF TablesOwnedOnce
<1>9. live' = live
  BY DEF Resize
<1> QED BY <1>4, <1>5, <1>6, <1>7, <1>8, <1>9, OneChanges DEF IInv

LEMMA MovedTables ==
  ASSUME TypeOK, NEW o \in Object, NEW p \in Object, o # p, buffer' = Moved(o, p)
  PROVE  /\ buffer'[o] = buffer[p] /\ buffer'[p] = Emptied(buffer[p])
         /\ buffer'[p].table = Null
         /\ \A q \in Object \ {o, p} : buffer'[q] = buffer[q]
<1>1. /\ buffer'[o] = buffer[p] /\ buffer'[p] = Emptied(buffer[p])
      /\ \A q \in Object \ {o, p} : buffer'[q] = buffer[q]
  BY DEF Moved, TypeOK
<1>2. Emptied(buffer[p]).table = Null
  BY DEF Emptied, TypeOK, Buffer
<1> QED BY <1>1, <1>2

LEMMA MoveOwns ==
  ASSUME IInv, TablesOwnedOnce, NEW o \in Object, NEW p \in Object,
         MoveConstruct(o, p) \/ MoveAssign(o, p)
  PROVE  TablesOwnedOnce'
<1> USE ObjectsAssumption
<1>1. o # p /\ p \in live /\ ~undefined /\ live' = live \cup {o} /\ live \subseteq Object
  BY DEF MoveConstruct, MoveAssign, Ready, IInv, TypeOK
<1>2. /\ buffer'[o] = buffer[p] /\ buffer'[p].table = Null
      /\ \A q \in Object \ {o, p} : buffer'[q] = buffer[q]
  BY <1>1, MovedTables DEF MoveConstruct, MoveAssign, IInv
<1>3. \A t \in Table : heap'[t] = IF o \in live /\ t = buffer[o].table THEN Free ELSE heap[t]
  BY <1>1 DEF MoveConstruct, MoveAssign, Released, IInv, TypeOK
<1>4. ASSUME NEW t \in Table, heap'[t] # Free
      PROVE  \E q \in live' : buffer'[q].table = t
  <2>1. heap[t] # Free /\ ~(o \in live /\ t = buffer[o].table)
    BY <1>3, <1>4
  <2>2. PICK q \in live : buffer[q].table = t
    BY <1>1, <2>1 DEF TablesOwnedOnce
  <2>3. q # o
    BY <2>1, <2>2
  <2>4. CASE q = p
    BY <1>1, <1>2, <2>2, <2>4
  <2>5. CASE q # p
    BY <1>1, <1>2, <2>2, <2>3, <2>5
  <2> QED BY <2>4, <2>5
<1>5. ASSUME NEW q \in live', buffer'[q].table \in Table
      PROVE  \/ q = o /\ buffer'[q].table = buffer[p].table
             \/ q \in live \ {o, p} /\ buffer'[q].table = buffer[q].table
  BY <1>1, <1>2, <1>5
<1>6. ASSUME NEW q \in live', NEW r \in live', buffer'[q].table \in Table,
             buffer'[q].table = buffer'[r].table
      PROVE  q = r
  BY <1>1, <1>5, <1>6 DEF TablesOwnedOnce
<1>7. ASSUME NEW q \in live', buffer'[q].table \in Table
      PROVE  heap'[buffer'[q].table] # Free
  <2>1. PICK r \in live \ {o} : buffer'[q].table = buffer[r].table
    BY <1>1, <1>5, <1>7
  <2>2. heap[buffer[r].table] # Free
    BY <1>1, <1>7, <2>1 DEF TablesOwnedOnce
  <2>3. ~(o \in live /\ buffer[r].table = buffer[o].table)
    BY <1>1, <1>7, <2>1 DEF TablesOwnedOnce
  <2> QED BY <1>3, <1>7, <2>1, <2>2, <2>3
<1> QED BY <1>4, <1>6, <1>7 DEF TablesOwnedOnce

LEMMA NextOwns == IInv /\ TablesOwnedOnce /\ [Next]_vars => TablesOwnedOnce'
<1> SUFFICES ASSUME IInv, TablesOwnedOnce, [Next]_vars PROVE TablesOwnedOnce'
  OBVIOUS
<1>1. TypeOK'
  BY NextType DEF IInv
<1>2. CASE UNCHANGED vars
  BY <1>2 DEF TablesOwnedOnce, vars
<1>3. ASSUME NEW o \in Object, NEW p \in Object, CopyConstruct(o, p)
      PROVE  TablesOwnedOnce'
  <2>1. PICK blocks \in 0..MaxTableCapacity, pointer \in {Null, Wild} :
          Copy(o, [buffer[p] EXCEPT !.tableCapacity = blocks, !.table = pointer], buffer[p])
    BY <1>3 DEF CopyConstruct
  <2> DEFINE old == [buffer[p] EXCEPT !.tableCapacity = blocks, !.table = pointer]
  <2>2. buffer[p] \in Buffer /\ blocks \in Nat /\ pointer \in Table \cup {Null, Wild}
    BY ObjectsAssumption DEF IInv, TypeOK
  <2>3. old \in Buffer
    BY <2>2, BufferFields
  <2>4. old.table \notin Table
    BY <2>2, ObjectsAssumption DEF Buffer
  <2>5. ~undefined /\ o \notin live /\ live' = live \cup {o}
    BY <1>3 DEF CopyConstruct, Ready
  <2> HIDE DEF old
  <2> QED BY <1>1, <2>1, <2>2, <2>3, <2>4, <2>5, CopyOwns DEF old
<1>4. ASSUME NEW o \in Object, NEW p \in Object, CopyAssign(o, p)
      PROVE  TablesOwnedOnce'
  <2>1. buffer[o] \in Buffer /\ buffer[p] \in Buffer
    BY DEF IInv, TypeOK
  <2>2. ~undefined /\ o \in live /\ live' = live \cup {o} /\ Copy(o, buffer[o], buffer[p])
    BY <1>4 DEF CopyAssign, Ready
  <2> QED BY <1>1, <2>1, <2>2, CopyOwns
<1>5. ASSUME NEW o \in Object, NEW n \in Amounts, BeginWrite(o, n) \/ BeginRead(o, n) \/ Peek(o, n)
      PROVE  TablesOwnedOnce'
  <2>1. ~undefined /\ live' = live /\ heap' = heap /\ buffer' = buffer
    BY <1>5 DEF BeginWrite, BeginRead, Peek, Ready
  <2> QED BY <2>1, TablesKept DEF IInv
<1>6. ASSUME NEW o \in Object, EndWrite(o) \/ EndRead(o)
      PROVE  TablesOwnedOnce'
  <2>1. ~undefined /\ live' = live /\ heap' = heap
    BY <1>6 DEF EndWrite, EndRead
  <2>2. [buffer[o] EXCEPT !.size = @ + call.amount].table = buffer[o].table
    BY DEF IInv, TypeOK, Buffer
  <2>3. \A p \in Object : buffer'[p].table = buffer[p].table
    BY <1>6, <2>2 DEF EndWrite, EndRead, IInv, TypeOK
  <2> QED BY <2>1, <2>3, TablesKept DEF IInv
<1>7. ASSUME NEW o \in Object, IncreaseTable(o) \/ DecreaseTable(o)
      PROVE  TablesOwnedOnce'
  <2>1. ~undefined /\ call.object = o /\ call # Idle
    BY <1>7 DEF IncreaseTable, DecreaseTable, Idle
  <2>2. o \in live
    BY <2>1 DEF IInv, CallLive
  <2>3. buffer[o].tableCapacity \in Nat
    BY DEF IInv, TypeOK, Buffer
  <2>4. PICK blocks \in Nat : Resize(o, blocks)
    BY <1>7, <2>3 DEF IncreaseTable, DecreaseTable
  <2> QED BY <1>1, <2>1, <2>2, <2>4, ResizeOwns
<1>8. ASSUME NEW o \in Object, ReadChunk(o)
      PROVE  TablesOwnedOnce'
  <2>1. ~undefined /\ live' = live /\ heap' = heap
    BY <1>8 DEF ReadChunk
  <2>2. \A p \in Object : buffer'[p].table = buffer[p].table
    BY <1>8, PieceCopied DEF IInv, TypeOK
  <2> QED BY <2>1, <2>2, TablesKept DEF IInv
<1> QED
  BY <1>1, <1>2, <1>3, <1>4, <1>5, <1>6, <1>7, <1>8, ConstructOwns, DestroyOwns, MoveOwns DEF Next, Work

\* CircularBuffer: copying, moving, assigning, growing and shrinking, in any
\* order, neither leak a table nor share one, as long as behaviour is defined.
THEOREM OwnedOnce == Spec => []TablesOwnedOnce
<1>1. Init => TablesOwnedOnce
  BY DEF Init, TablesOwnedOnce
<1> QED BY <1>1, InitType, NextType, NextOwns, PTL DEF Spec

-----------------------------------------------------------------------------
(* Which calls are defined.                                                *)

LEMMA NoBlocks ==
  ASSUME NEW b \in Buffer
  PROVE  b.blockSize \in Nat /\ b.blockSize * 0 = 0
<1>1. b.blockSize \in Nat
  BY ObjectsAssumption DEF Buffer
<1>2. \A n \in Nat : n * 0 = 0
  OBVIOUS
<1> QED BY <1>1, <1>2

\* A product does not shrink with a factor.
LEMMA ProductGrows ==
  ASSUME NEW a \in Nat, NEW m \in Nat, NEW n \in Nat, m <= n
  PROVE  a * m <= a * n
<1>1. PICK d \in Nat : n = m + d
  <2>1. n - m \in Nat /\ n = m + (n - m)
    OBVIOUS
  <2> QED BY <2>1
<1>2. a * (m + d) = a * m + a * d /\ a * d \in Nat
  OBVIOUS
<1> QED BY <1>1, <1>2

\* A name for the operation, which the provers then reason about only through
\* the facts below.
Remainder(a, b) == a % b

LEMMA Multiple ==
  ASSUME NEW a \in Nat, NEW b \in Nat \ {0}, Remainder(a, b) = 0
  PROVE  \E q \in Nat : a = b * q
<1>1. a % b = a - b * (a \div b) /\ a \div b \in Nat
  OBVIOUS
<1> DEFINE q == a \div b
<1>2. b * q \in Nat
  BY <1>1
<1>3. a - b * q = 0
  BY <1>1 DEF Remainder
<1> HIDE DEF q
<1>4. a = b * q
  BY <1>2, <1>3
<1> QED BY <1>1, <1>4 DEF q

LEMMA NoRemainder ==
  ASSUME NEW q \in Nat, NEW b \in Nat \ {0}
  PROVE  Remainder(b * q, b) = 0
<1> DEFINE a == b * q
           d == a \div b
           r == a % b
<1>1. a \in Nat
  OBVIOUS
<1>2. d \in Nat /\ r = a - b * d
  BY <1>1
<1>3. r \in Nat /\ r < b
  BY <1>1, RemainderBelow
<1>4. b * d \in Nat /\ a = b * d + r
  <2>1. b * d \in Nat
    BY <1>2
  <2> HIDE DEF a, d, r
  <2> QED BY <1>1, <1>2, <1>3, <2>1
<1>5. \A m, n \in Nat : m < n => b * m + b <= b * n
  <2> TAKE m, n \in Nat
  <2> HAVE m < n
  <2>1. m + 1 <= n /\ m + 1 \in Nat
    OBVIOUS
  <2>2. b * (m + 1) <= b * n
    BY <2>1, ProductGrows
  <2>3. b * (m + 1) = b * m + b
    OBVIOUS
  <2> QED BY <2>2, <2>3
<1>6. ~(d < q)
  <2> SUFFICES ASSUME d < q PROVE FALSE
    OBVIOUS
  <2>1. b * d + b <= a
    BY <1>2, <1>5
  <2> HIDE DEF a, d, r
  <2> QED BY <1>1, <1>3, <1>4, <2>1
<1>7. ~(q < d)
  <2> SUFFICES ASSUME q < d PROVE FALSE
    OBVIOUS
  <2>1. a + b <= b * d
    BY <1>2, <1>5
  <2> HIDE DEF a, d, r
  <2> QED BY <1>1, <1>3, <1>4, <2>1
<1>8. d = q
  <2> HIDE DEF d
  <2> QED BY <1>2, <1>6, <1>7
<1>9. r = 0
  <2>1. a = b * d
    BY <1>8
  <2> HIDE DEF a, d, r
  <2> QED BY <1>1, <1>3, <1>4, <2>1
<1> QED BY <1>9 DEF Remainder

\* Between two multiples of a length there is room for the length.
LEMMA WholeStep ==
  ASSUME NEW a \in Nat, NEW n \in Nat, NEW b \in Nat \ {0},
         Remainder(a, b) = 0, Remainder(n, b) = 0, a < n
  PROVE  b <= n - a /\ Remainder(a + b, b) = 0
<1>1. PICK p \in Nat : a = b * p
  BY Multiple
<1>2. PICK q \in Nat : n = b * q
  BY Multiple
<1>3. p < q
  <2> SUFFICES ASSUME q <= p PROVE FALSE
    OBVIOUS
  <2>1. b * q <= b * p
    BY ProductGrows
  <2> QED BY <1>1, <1>2, <2>1
<1>4. p + 1 \in Nat /\ p + 1 <= q /\ b * (p + 1) = a + b
  BY <1>1, <1>3
<1>5. b * (p + 1) <= b * q
  BY <1>4, ProductGrows
<1>6. Remainder(b * (p + 1), b) = 0
  BY <1>4, NoRemainder
<1>7. a + b <= n
  BY <1>2, <1>4, <1>5
<1> QED BY <1>4, <1>6, <1>7

\* Reads of whole blocks leave every tail at the beginning of a block.
WholeReads ==
  /\ \A o \in Object : buffer[o].tail = 0
  /\ call.op = "read" =>
       /\ Remainder(call.amount, buffer[call.object].blockSize) = 0
       /\ Remainder(call.copied, buffer[call.object].blockSize) = 0

Aligned == ~suspect => WholeReads

LEMMA SuspectStays ==
  ASSUME [Next]_vars, ~suspect'
  PROVE  ~suspect
<1>1. CASE Work
  BY <1>1 DEF Work, IncreaseTable, DecreaseTable, Resize, EndWrite, ReadChunk, EndRead
<1>2. CASE \E o \in Object : \E s \in BlockSizes, g \in BOOLEAN : Construct(o, s, g)
  BY <1>2 DEF Construct
<1>3. CASE \E o \in Object : Destroy(o) \/ \E n \in Amounts : BeginWrite(o, n) \/ BeginRead(o, n) \/ Peek(o, n)
  BY <1>3 DEF Destroy, BeginWrite, BeginRead, Peek
<1>4. CASE \E o \in Object, p \in Object :
             CopyConstruct(o, p) \/ CopyAssign(o, p) \/ MoveConstruct(o, p) \/ MoveAssign(o, p)
  BY <1>4 DEF CopyConstruct, CopyAssign, MoveConstruct, MoveAssign
<1>5. CASE UNCHANGED vars
  BY <1>5 DEF vars
<1> QED BY <1>1, <1>2, <1>3, <1>4, <1>5 DEF Next

LEMMA NextAligned == IInv /\ Aligned /\ [Next]_vars => Aligned'
<1> SUFFICES ASSUME IInv, Aligned, [Next]_vars, ~suspect' PROVE WholeReads'
  BY DEF Aligned
<1>0. /\ \A o \in Object : buffer[o].tail = 0 /\ buffer[o] \in Buffer
      /\ WholeReads /\ buffer \in [Object -> Buffer]
  BY SuspectStays DEF Aligned, WholeReads, IInv, TypeOK
<1>1. CASE UNCHANGED <<buffer, call>>
  BY <1>0, <1>1 DEF WholeReads
<1>2. ASSUME call'.op # "read", \A o \in Object : buffer'[o].tail = 0
      PROVE  WholeReads'
  BY <1>2 DEF WholeReads
<1>3. ASSUME call' = Idle PROVE call'.op # "read"
  BY <1>3 DEF Idle
<1>4. ASSUME NEW o \in Object, NEW p \in Object, NEW t,
             buffer' = [buffer EXCEPT ![o] = [buffer[p] EXCEPT !.table = t]]
      PROVE  \A q \in Object : buffer'[q].tail = 0
  <2>1. [buffer[p] EXCEPT !.table = t].tail = 0
    BY <1>0 DEF Buffer
  <2> QED BY <1>0, <1>4, <2>1
<1>5. ASSUME NEW o \in Object, NEW s \in BlockSizes, NEW g \in BOOLEAN, Construct(o, s, g)
      PROVE  WholeReads'
  <2>1. call' = Idle
    BY <1>5 DEF Construct, Ready
  <2>2. PICK t : buffer' = [buffer EXCEPT ![o] =
                   [blockSize |-> s, growable |-> g, size |-> 0,
                    capacity |-> s, tail |-> 0, tableCapacity |-> 1, table |-> t]]
    BY <1>5 DEF Construct
  <2> QED BY <1>0, <1>2, <1>3, <2>1, <2>2
<1>6. ASSUME NEW o \in Object, Destroy(o)
      PROVE  WholeReads'
  <2>1. call' = Idle
    BY <1>6 DEF Destroy, Ready
  <2>2. Emptied(buffer[o]).tail = 0
    BY <1>0 DEF Emptied, Buffer
  <2>3. buffer' = [buffer EXCEPT ![o] = Emptied(buffer[o])]
    BY <1>6, <1>0 DEF Destroy
  <2> QED BY <1>0, <1>2, <1>3, <2>1, <2>2, <2>3
<1>7. ASSUME NEW o \in Object, NEW p \in Object, CopyConstruct(o, p) \/ CopyAssign(o, p)
      PROVE  WholeReads'
  <2>1. call' = Idle
    BY <1>7 DEF CopyConstruct, CopyAssign, Ready
  <2>2. PICK t : buffer' = [buffer EXCEPT ![o] = [buffer[p] EXCEPT !.table = t]]
    BY <1>7 DEF CopyConstruct, CopyAssign, Copy
  <2> QED BY <1>2, <1>3, <1>4, <2>1, <2>2
<1>8. ASSUME NEW o \in Object, NEW p \in Object, MoveConstruct(o, p) \/ MoveAssign(o, p)
      PROVE  WholeReads'
  <2>1. call' = Idle /\ o # p
    BY <1>8 DEF MoveConstruct, MoveAssign, Ready
  <2>2. /\ buffer'[o] = buffer[p] /\ buffer'[p] = Emptied(buffer[p])
        /\ \A q \in Object \ {o, p} : buffer'[q] = buffer[q]
    BY <1>8, <2>1, MovedTables DEF MoveConstruct, MoveAssign, IInv
  <2>3. Emptied(buffer[p]).tail = 0
    BY <1>0 DEF Emptied, Buffer
  <2> QED BY <1>0, <1>2, <1>3, <2>1, <2>2, <2>3
<1>9. ASSUME NEW o \in Object, NEW n \in Amounts, BeginWrite(o, n)
      PROVE  WholeReads'
  BY <1>0, <1>2, <1>9 DEF BeginWrite, Begun
<1>10. ASSUME NEW o \in Object, NEW n \in Amounts, BeginRead(o, n)
       PROVE  WholeReads'
  <2>1. buffer[o].blockSize \in Nat \ {0}
    BY <1>0, ObjectsAssumption DEF Buffer
  <2>2. Remainder(0, buffer[o].blockSize) = 0
    <3>1. buffer[o].blockSize * 0 = 0
      BY <1>0, NoBlocks
    <3> QED BY <2>1, <3>1, NoRemainder
  <2>3. Remainder(n, buffer[o].blockSize) = 0
    BY <1>10 DEF BeginRead, Remainder
  <2>4. /\ buffer' = buffer /\ call'.amount = n /\ call'.copied = 0 /\ call'.object = o
    BY <1>10 DEF BeginRead, Begun
  <2> QED BY <1>0, <2>2, <2>3, <2>4 DEF WholeReads
<1>11. ASSUME NEW o \in Object, NEW n \in Amounts, Peek(o, n)
       PROVE  WholeReads'
  BY <1>1, <1>11 DEF Peek
<1>12. ASSUME NEW o \in Object, IncreaseTable(o) \/ DecreaseTable(o)
       PROVE  WholeReads'
  <2>1. call' = call /\ call.object = o
    BY <1>12 DEF IncreaseTable, DecreaseTable, Resize
  <2>2. PICK k : Resize(o, k)
    BY <1>12 DEF IncreaseTable, DecreaseTable
  <2> DEFINE c == buffer[o].blockSize * k
  <2>3. PICK t : buffer' = [buffer EXCEPT ![o] =
          [buffer[o] EXCEPT !.capacity = c, !.tail = 0, !.tableCapacity = k, !.table = t]]
    BY <2>2 DEF Resize
  <2> HIDE DEF c
  <2> DEFINE b == [buffer[o] EXCEPT !.capacity = c, !.tail = 0, !.tableCapacity = k, !.table = t]
  <2>4. b.tail = 0 /\ b.blockSize = buffer[o].blockSize
    BY <1>0 DEF Buffer
  <2> HIDE DEF b
  <2>5. buffer'[o] = b /\ \A p \in Object \ {o} : buffer'[p] = buffer[p]
    BY <1>0, <2>3 DEF b
  <2> QED BY <1>0, <2>1, <2>4, <2>5 DEF WholeReads
<1>13. ASSUME NEW o \in Object, EndWrite(o)
       PROVE  WholeReads'
  <2>1. call' = Idle /\ buffer' = [buffer EXCEPT ![o].size = @ + call.amount]
    BY <1>13 DEF EndWrite
  <2>2. \A p \in Object : buffer'[p].tail = buffer[p].tail
    BY <1>0, <2>1 DEF Buffer
  <2> QED BY <1>0, <1>2, <1>3, <2>1, <2>2
<1>14. ASSUME NEW o \in Object, EndRead(o)
       PROVE  WholeReads'
  BY <1>0, <1>2, <1>3, <1>14 DEF EndRead
<1>15. ASSUME NEW o \in Object, ReadChunk(o)
       PROVE  WholeReads'
  <2> DEFINE length == buffer[o].blockSize
  <2>1. /\ call.object = o /\ call.op = "read" /\ call.copied < call.amount
        /\ call.copied \in Nat /\ call.amount \in Nat /\ length \in Nat \ {0}
        /\ buffer[o].tail = 0
    BY <1>0, <1>15, PieceCopied, ObjectsAssumption DEF ReadChunk, Buffer
  <2>2. Remainder(call.amount, length) = 0 /\ Remainder(call.copied, length) = 0
    BY <1>0, <2>1 DEF WholeReads
  <2>3. length <= call.amount - call.copied /\ Remainder(call.copied + length, length) = 0
    <3> HIDE DEF length
    <3> QED BY <2>1, <2>2, WholeStep
  <2>4. Copied(o) = call.copied + length
    <3>1. \A m, n \in Int : m <= n => Least(m - 0, n) = m
      BY DEF Least
    <3>2. call.amount - call.copied \in Int /\ length \in Int
      BY <2>1
    <3>3. Least(length - 0, call.amount - call.copied) = length
      <4> HIDE DEF length
      <4> QED BY <2>3, <3>1, <3>2
    <3> QED BY <2>1, <3>3 DEF Copied
  <2>5. buffer'[o].tail = Remainder(buffer[o].tail + Copied(o), length)
    BY <1>15, PieceCopied DEF Remainder
  <2>6. buffer[o].tail + Copied(o) = call.copied + length
    <3> HIDE DEF length
    <3> QED BY <2>1, <2>4
  <2>7. buffer'[o].tail = 0
    BY <2>3, <2>5, <2>6
  <2>8. /\ call'.object = o /\ call'.amount = call.amount /\ call'.copied = call.copied + length
        /\ buffer'[o].blockSize = length
    BY <1>15, <2>4, PieceCopied
  <2>9. \A p \in Object \ {o} : buffer'[p] = buffer[p]
    BY <1>0, <1>15, PieceCopied
  <2> QED BY <1>0, <2>2, <2>3, <2>7, <2>8, <2>9 DEF WholeReads
<1> QED
  BY <1>1, <1>5, <1>6, <1>7, <1>8, <1>9, <1>10, <1>11, <1>12, <1>13, <1>14, <1>15
     DEF Next, Work, vars

\* b has as many blocks as it counts, long enough for it, or no table.
FitIn(h, b) ==
  /\ \/ b.table = Null /\ b.tableCapacity = 0
     \/ b.table \in Table /\ h[b.table] # Free /\ h[b.table].blocks = b.tableCapacity
  /\ b.table \in Table => h[b.table].blockSize >= b.blockSize
  /\ b.capacity = b.blockSize * b.tableCapacity
  /\ b.size <= b.capacity

AllFit == \A o \in live : FitIn(heap, buffer[o])

LEMMA DefinedIsFit ==
  CarefulCallsDefined <=> (~suspect => ~undefined /\ AllFit)
BY DEF CarefulCallsDefined, AllFit, FitIn, Cleanable

LEMMA FitKept ==
  ASSUME NEW h, NEW g, NEW b, FitIn(h, b), b.table \in Table => g[b.table] = h[b.table]
  PROVE  FitIn(g, b)
BY DEF FitIn

LEMMA EmptyFits ==
  ASSUME NEW h, NEW b \in Buffer, b.table = Null, b.tableCapacity = 0, b.capacity = 0, b.size = 0
  PROVE  FitIn(h, b)
<1>1. b.blockSize * 0 = 0
  BY NoBlocks
<1> QED BY <1>1, ObjectsAssumption DEF FitIn

\* Going over the bytes of buffers that fit is defined.
LEMMA FitIsDefined ==
  ASSUME NEW buffers, \A b \in buffers : b \in Buffer /\ FitIn(heap, b),
         NEW x \in Outcomes(buffers)
  PROVE  ~x
<1>1. ASSUME NEW b \in buffers, b.size > 0
      PROVE  b.table \in Table /\ Roomy(b)
  <2>1. b.tableCapacity # 0
    <3>1. b.blockSize * 0 = 0 /\ b.size \in Nat
      <4>1. b \in Buffer
        OBVIOUS
      <4> QED BY <4>1, NoBlocks DEF Buffer
    <3> QED BY <1>1, <3>1 DEF FitIn
  <2> QED BY <2>1 DEF FitIn, Roomy
<1> QED BY <1>1 DEF Outcomes

\* A step leaves every table alone but that of o, and those that were free.
LEMMA OthersFit ==
  ASSUME TypeOK, TablesOwnedOnce, ~undefined, AllFit, NEW o \in Object,
         \A t \in Table : heap'[t] = heap[t] \/ heap[t] = Free \/ (o \in live /\ buffer[o].table = t),
         NEW p \in live \ {o}, buffer'[p] = buffer[p]
  PROVE  FitIn(heap', buffer'[p])
<1>1. FitIn(heap, buffer[p])
  BY DEF AllFit
<1>2. buffer[p].table \in Table => heap'[buffer[p].table] = heap[buffer[p].table]
  BY DEF TablesOwnedOnce
<1> QED BY <1>1, <1>2, FitKept

\* So only o is left to look at.
LEMMA FitExcept ==
  ASSUME TypeOK, TablesOwnedOnce, ~undefined, AllFit, NEW o \in Object,
         \A t \in Table : heap'[t] = heap[t] \/ heap[t] = Free \/ (o \in live /\ buffer[o].table = t),
         live' \ {o} \subseteq live,
         \A p \in Object \ {o} : buffer'[p] = buffer[p],
         o \in live' => FitIn(heap', buffer'[o])
  PROVE  AllFit'
<1>1. ASSUME NEW p \in live', p # o
      PROVE  FitIn(heap', buffer'[p])
  <2>1. p \in live \ {o} /\ buffer'[p] = buffer[p]
    BY <1>1 DEF TypeOK
  <2> QED BY <2>1, OthersFit
<1> QED BY <1>1 DEF AllFit

Sound == ~undefined /\ AllFit

LEMMA ConstructFits ==
  ASSUME IInv, TablesOwnedOnce, Sound, NEW o \in Object, NEW s \in BlockSizes, NEW g \in BOOLEAN,
         Construct(o, s, g)
  PROVE  Sound'
<1>1. PICK t \in Table :
        /\ heap[t] = Free
        /\ heap' = [heap EXCEPT ![t] = Blocks(1, s)]
        /\ buffer' = [buffer EXCEPT ![o] =
             [blockSize |-> s, growable |-> g, size |-> 0,
              capacity |-> s, tail |-> 0, tableCapacity |-> 1, table |-> t]]
  BY DEF Construct
<1>2. buffer'[o] = [blockSize |-> s, growable |-> g, size |-> 0,
                    capacity |-> s, tail |-> 0, tableCapacity |-> 1, table |-> t]
  BY <1>1 DEF IInv, TypeOK
<1>3. heap'[t] = Blocks(1, s) /\ \A u \in Table \ {t} : heap'[u] = heap[u]
  BY <1>1 DEF IInv, TypeOK
<1>4. FitIn(heap', buffer'[o])
  BY <1>2, <1>3, BlocksAreNotFree, ObjectsAssumption DEF FitIn, Blocks
<1>5. /\ live' \ {o} \subseteq live /\ ~undefined'
      /\ \A p \in Object \ {o} : buffer'[p] = buffer[p]
  BY <1>1 DEF Construct, IInv, TypeOK, Sound
<1> QED BY <1>1, <1>3, <1>4, <1>5, FitExcept DEF Sound, IInv

LEMMA CleanableIfFit ==
  ASSUME NEW b, FitIn(heap, b)
  PROVE  Cleanable(b)
BY DEF FitIn, Cleanable

LEMMA DestroyFits ==
  ASSUME IInv, TablesOwnedOnce, Sound, NEW o \in Object, Destroy(o)
  PROVE  Sound'
<1>1. o \in live /\ live' = live \ {o}
  BY DEF Destroy
<1>2. ~undefined'
  BY <1>1, CleanableIfFit DEF Destroy, Sound, AllFit
<1>3. \A t \in Table : heap'[t] = heap[t] \/ buffer[o].table = t
  BY DEF Destroy, Released
<1>4. \A p \in Object \ {o} : buffer'[p] = buffer[p]
  BY DEF Destroy, IInv, TypeOK
<1> QED BY <1>1, <1>2, <1>3, <1>4, FitExcept DEF Sound, IInv

\* Copying into an object that has a table with blocks that are long enough, or
\* none, is defined and leaves it one.
LEMMA CopyFits ==
  ASSUME IInv, TablesOwnedOnce, Sound, NEW o \in Object, NEW old \in Buffer, NEW p \in live,
         Copy(o, old, buffer[p]), live' = live \cup {o},
         Cleanable(old), o # p,
         o \in live => old.table = buffer[o].table,
         o \notin live => old.table \notin Table,
         Kept(old, buffer[p]) /\ old.table \in Table => heap[old.table].blockSize >= buffer[p].blockSize
  PROVE  Sound'
<1> DEFINE other == buffer[p]
<1>1. other \in Buffer /\ FitIn(heap, other) /\ p \in Object
  BY DEF IInv, TypeOK, Sound, AllFit
<1>2. other.tableCapacity \in Nat /\ other.blockSize \in BlockSizes
  BY <1>1 DEF Buffer
<1>3. \A t : /\ [other EXCEPT !.table = t].table = t
             /\ [other EXCEPT !.table = t].tableCapacity = other.tableCapacity
             /\ [other EXCEPT !.table = t].blockSize = other.blockSize
             /\ [other EXCEPT !.table = t].capacity = other.capacity
             /\ [other EXCEPT !.table = t].size = other.size
  BY <1>1 DEF Buffer
<1>4. CASE /\ Kept(old, other) /\ heap' = heap
           /\ buffer' = [buffer EXCEPT ![o] = [other EXCEPT !.table = old.table]]
           /\ undefined' \in Outcomes({[other EXCEPT !.table = old.table], other})
  <2> DEFINE copy == [other EXCEPT !.table = old.table]
  <2>1. copy \in Buffer
    BY <1>1, BufferFields DEF Buffer
  <2>2. FitIn(heap, copy)
    BY <1>1, <1>3, <1>4 DEF FitIn, Cleanable, Kept
  <2>3. buffer'[o] = copy /\ \A q \in Object \ {o} : buffer'[q] = buffer[q]
    BY <1>4 DEF IInv, TypeOK
  <2>4. ~undefined'
    <3> HIDE DEF copy
    <3>1. undefined' \in Outcomes({copy, other})
      BY <1>4 DEF copy
    <3>2. \A b \in {copy, other} : b \in Buffer /\ FitIn(heap, b)
      BY <1>1, <2>1, <2>2
    <3> QED BY <3>1, <3>2, FitIsDefined
  <2> QED BY <1>4, <2>2, <2>3, <2>4, FitExcept DEF Sound, IInv
<1>5. ASSUME NEW t \in Table, Released(old)[t] = Free,
             heap' = [Released(old) EXCEPT ![t] = Blocks(other.tableCapacity, other.blockSize)],
             buffer' = [buffer EXCEPT ![o] = [other EXCEPT !.table = t]],
             undefined' \in IF Cleanable(old) THEN Outcomes({other}) ELSE {TRUE}
      PROVE  Sound'
  <2>1. buffer'[o] = [other EXCEPT !.table = t] /\ \A q \in Object \ {o} : buffer'[q] = buffer[q]
    BY <1>5 DEF IInv, TypeOK
  <2>2. \A u \in Table : heap'[u] = IF u = t THEN Blocks(other.tableCapacity, other.blockSize)
                                   ELSE IF u = old.table THEN Free ELSE heap[u]
    BY <1>5 DEF Released
  <2>3. heap'[t] # Free /\ heap'[t].blocks = other.tableCapacity /\ heap'[t].blockSize = other.blockSize
    BY <1>2, <2>2, BlocksAreNotFree DEF Blocks
  <2>4. FitIn(heap', buffer'[o])
    BY <1>1, <1>2, <1>3, <2>1, <2>3, ObjectsAssumption DEF FitIn
  <2>5. heap[t] = Free \/ t = old.table
    BY <1>5 DEF Released
  <2>6. \A u \in Table : heap'[u] = heap[u] \/ heap[u] = Free \/ (o \in live /\ buffer[o].table = u)
    BY <2>2, <2>5
  <2>7. undefined' \in Outcomes({other})
    BY <1>5
  <2>8. \A b \in {other} : b \in Buffer /\ FitIn(heap, b)
    BY <1>1
  <2>9. ~undefined'
    BY <2>7, <2>8, FitIsDefined
  <2> QED BY <2>1, <2>4, <2>6, <2>9, FitExcept DEF Sound, IInv
<1> QED BY <1>4, <1>5 DEF Copy

\* The new table is large enough for what is stored.
LEMMA ResizeFits ==
  ASSUME IInv, TablesOwnedOnce, Sound, NEW o \in Object, o \in live, NEW blocks \in Nat,
         Resize(o, blocks), buffer[o].size <= buffer[o].blockSize * blocks,
         ~Straddles(buffer[o])
  PROVE  Sound'
<1> DEFINE b == buffer[o]
           new(t) == [b EXCEPT !.capacity = b.blockSize * blocks, !.tail = 0,
                              !.tableCapacity = blocks, !.table = t]
<1>1. PICK t \in Table :
        /\ heap[t] = Free
        /\ heap' = [Released(b) EXCEPT ![t] = Blocks(blocks, b.blockSize)]
        /\ buffer' = [buffer EXCEPT ![o] = new(t)]
  BY DEF Resize
<1>2. b \in Buffer /\ b.blockSize \in BlockSizes /\ FitIn(heap, b)
  BY DEF IInv, TypeOK, Buffer, Sound, AllFit
<1>3. /\ new(t).table = t /\ new(t).tableCapacity = blocks /\ new(t).blockSize = b.blockSize
      /\ new(t).capacity = b.blockSize * blocks /\ new(t).size = b.size
  BY <1>2 DEF Buffer
<1>4. buffer'[o] = new(t) /\ \A p \in Object \ {o} : buffer'[p] = buffer[p]
  BY <1>1 DEF IInv, TypeOK
<1>5. \A u \in Table : heap'[u] = IF u = t THEN Blocks(blocks, b.blockSize)
                                 ELSE IF u = b.table THEN Free ELSE heap[u]
  BY <1>1 DEF Released
<1>6. heap'[t] # Free /\ heap'[t].blocks = blocks /\ heap'[t].blockSize = b.blockSize
  BY <1>2, <1>5, BlocksAreNotFree DEF Blocks
<1>7. FitIn(heap', buffer'[o])
  <2> HIDE DEF new
  <2>1. b.blockSize >= b.blockSize
    <3>1. b.blockSize \in Nat
      BY <1>2, NoBlocks
    <3> HIDE DEF b
    <3> QED BY <3>1
  <2> QED BY <1>3, <1>4, <1>6, <2>1 DEF FitIn
<1>8. \A u \in Table : heap'[u] = heap[u] \/ heap[u] = Free \/ (o \in live /\ buffer[o].table = u)
  BY <1>1, <1>5
<1>9. undefined' \in Outcomes({b})
  BY <1>2, CleanableIfFit DEF Resize
<1>10. ~undefined'
  BY <1>2, <1>9, FitIsDefined
<1>11. live' = live
  BY DEF Resize
<1> QED BY <1>4, <1>7, <1>8, <1>10, <1>11, FitExcept DEF Sound, IInv

LEMMA GrowFits ==
  ASSUME IInv, TablesOwnedOnce, Sound, WholeReads, NEW o \in Object, IncreaseTable(o) \/ DecreaseTable(o)
  PROVE  Sound'
<1> DEFINE b == buffer[o]
           n == b.tableCapacity
<1>1. call.object = o /\ call # Idle
  BY DEF IncreaseTable, DecreaseTable, Idle
<1>2. o \in live
  BY <1>1 DEF IInv, CallLive
<1>3. b \in Buffer /\ n \in Nat /\ b.size \in Nat /\ b.blockSize \in Nat
  BY ObjectsAssumption DEF IInv, TypeOK, Buffer
<1>4. b.capacity = b.blockSize * n /\ b.size <= b.capacity
  BY <1>2 DEF Sound, AllFit, FitIn
<1>5. ~Straddles(b)
  BY DEF WholeReads, Straddles
<1>6. CASE IncreaseTable(o)
  <2>1. b.blockSize * n <= b.blockSize * (2 * n) /\ 2 * n \in Nat
    BY <1>3, ProductGrows
  <2>2. b.size <= b.blockSize * (2 * n)
    <3>1. b.blockSize * n \in Nat /\ b.blockSize * (2 * n) \in Nat
      BY <1>3
    <3> QED BY <1>3, <1>4, <2>1, <3>1
  <2> QED BY <1>2, <1>6, <1>5, <2>1, <2>2, ResizeFits DEF IncreaseTable
<1>7. CASE DecreaseTable(o)
  <2>1. n > 1 /\ 4 * b.size < b.blockSize * n
    BY <1>4, <1>7 DEF DecreaseTable, Sparse
  <2>2. n <= 4 * (n \div 2) /\ n \div 2 \in Nat
    BY <1>3, <2>1
  <2>3. b.blockSize * n <= b.blockSize * (4 * (n \div 2))
    BY <1>3, <2>2, ProductGrows
  <2>4. b.size <= b.blockSize * (n \div 2)
    <3>1. \A a, m \in Nat : a * (4 * m) = 4 * (a * m) /\ a * m \in Nat
      OBVIOUS
    <3>2. b.blockSize * (4 * (n \div 2)) = 4 * (b.blockSize * (n \div 2))
          /\ b.blockSize * (n \div 2) \in Nat /\ b.blockSize * n \in Nat
      BY <1>3, <2>2, <3>1
    <3> HIDE DEF b, n
    <3> QED BY <1>3, <2>1, <2>3, <3>2
  <2> QED BY <1>2, <1>7, <1>5, <2>2, <2>4, ResizeFits DEF DecreaseTable
<1> QED BY <1>6, <1>7

LEMMA MoveFits ==
  ASSUME IInv, TablesOwnedOnce, Sound, NEW o \in Object, NEW p \in Object,
         MoveConstruct(o, p) \/ MoveAssign(o, p)
  PROVE  Sound'
<1>1. o # p /\ p \in live /\ live' = live \cup {o} /\ live \subseteq Object
  BY DEF MoveConstruct, MoveAssign, Ready, IInv, TypeOK
<1>2. /\ buffer'[o] = buffer[p] /\ buffer'[p] = Emptied(buffer[p])
      /\ \A q \in Object \ {o, p} : buffer'[q] = buffer[q]
  BY <1>1, MovedTables DEF MoveConstruct, MoveAssign, IInv
<1>3. \A t \in Table : heap'[t] = heap[t] \/ (o \in live /\ buffer[o].table = t)
  BY <1>1 DEF MoveConstruct, MoveAssign, Released
<1>4. ~undefined'
  BY <1>1, CleanableIfFit DEF MoveConstruct, MoveAssign, Sound, AllFit
<1>5. FitIn(heap', buffer'[p])
  <2>1. Emptied(buffer[p]) \in Buffer /\ buffer[p] \in Buffer
    BY BufferFields DEF IInv, TypeOK
  <2>2. /\ Emptied(buffer[p]).table = Null /\ Emptied(buffer[p]).tableCapacity = 0
        /\ Emptied(buffer[p]).capacity = 0 /\ Emptied(buffer[p]).size = 0
    BY <2>1 DEF Emptied, Buffer
  <2> QED BY <1>2, <2>1, <2>2, EmptyFits
<1>6. FitIn(heap', buffer'[o])
  <2>1. FitIn(heap, buffer[p])
    BY <1>1 DEF Sound, AllFit
  <2>2. buffer[p].table \in Table => heap'[buffer[p].table] = heap[buffer[p].table]
    BY <1>1, <1>3 DEF TablesOwnedOnce, Sound
  <2> QED BY <1>2, <2>1, <2>2, FitKept
<1>7. ASSUME NEW q \in live', q # o, q # p
      PROVE  FitIn(heap', buffer'[q])
  <2>1. q \in live \ {o} /\ buffer'[q] = buffer[q]
    BY <1>1, <1>2, <1>7
  <2> QED BY <1>3, <2>1, OthersFit DEF IInv, Sound
<1> QED BY <1>4, <1>5, <1>6, <1>7 DEF Sound, AllFit

\* A step that changes at most how much an object stores.
LEMMA SizeFits ==
  ASSUME IInv, Sound, live' = live, heap' = heap, NEW o \in live, NEW size \in Nat,
         buffer' = [buffer EXCEPT ![o].size = size], size <= buffer[o].capacity, ~undefined'
  PROVE  Sound'
<1>1. \A p \in live : p \in Object /\ buffer[p] \in Buffer /\ FitIn(heap, buffer[p])
  BY DEF IInv, TypeOK, Sound, AllFit
<1> DEFINE b == [buffer[o] EXCEPT !.size = size]
<1>2. /\ b.size = size /\ b.table = buffer[o].table /\ b.tableCapacity = buffer[o].tableCapacity
      /\ b.capacity = buffer[o].capacity /\ b.blockSize = buffer[o].blockSize
  BY <1>1 DEF Buffer
<1>3. FitIn(heap, b)
  <2> HIDE DEF b
  <2> QED BY <1>1, <1>2 DEF FitIn
<1>4. \A p \in live : buffer'[p] = IF p = o THEN b ELSE buffer[p]
  BY <1>1 DEF IInv, TypeOK
<1> HIDE DEF b
<1> QED BY <1>1, <1>3, <1>4 DEF Sound, AllFit

LEMMA EndWriteFits ==
  ASSUME IInv, Sound, NEW o \in Object, EndWrite(o)
  PROVE  Sound'
<1>1. call # Idle /\ call.object = o
  BY DEF EndWrite, Idle
<1>2. o \in live /\ call \in Call
  BY <1>1 DEF IInv, TypeOK, CallLive
<1>3. buffer[o] \in Buffer /\ FitIn(heap, buffer[o])
  BY <1>2 DEF IInv, TypeOK, Sound, AllFit
<1> DEFINE size == buffer[o].size + call.amount
<1>4. buffer[o].size \in Nat /\ buffer[o].capacity \in Nat /\ call.amount \in Nat
  BY <1>2, <1>3, ObjectsAssumption DEF Buffer, Call
<1>5. size \in Nat /\ size <= buffer[o].capacity
  BY <1>4 DEF EndWrite, Fits
<1>6. buffer' = [buffer EXCEPT ![o].size = size] /\ live' = live /\ heap' = heap
  BY DEF EndWrite
<1> DEFINE b == [buffer[o] EXCEPT !.size = size]
<1>7. b = buffer'[o]
  BY <1>6 DEF IInv, TypeOK
<1>8. b \in Buffer
  BY <1>3, <1>5, BufferFields
<1>9. FitIn(heap, b)
  <2>1. /\ b.size = size /\ b.table = buffer[o].table /\ b.tableCapacity = buffer[o].tableCapacity
        /\ b.capacity = buffer[o].capacity /\ b.blockSize = buffer[o].blockSize
    BY <1>3 DEF Buffer
  <2> HIDE DEF b
  <2> QED BY <1>3, <1>5, <2>1 DEF FitIn
<1>10. undefined' \in Outcomes({b})
  BY <1>7 DEF EndWrite
<1>11. ~undefined'
  <2> HIDE DEF b
  <2>1. \A c \in {b} : c \in Buffer /\ FitIn(heap, c)
    BY <1>8, <1>9
  <2> QED BY <1>10, <2>1, FitIsDefined
<1> HIDE DEF size
<1> QED BY <1>2, <1>5, <1>6, <1>11, SizeFits

LEMMA ReadChunkFits ==
  ASSUME IInv, TablesOwnedOnce, Sound, NEW o \in Object, ReadChunk(o)
  PROVE  Sound'
<1>1. o \in live /\ buffer[o] \in Buffer /\ FitIn(heap, buffer[o])
  BY PieceCopied DEF IInv, TypeOK, Sound, AllFit
<1>2. buffer[o].size \in Nat /\ buffer[o].capacity \in Nat /\ buffer[o].size <= buffer[o].capacity
  BY <1>1 DEF Buffer, FitIn
<1>3. buffer'[o].size <= buffer[o].capacity
  BY <1>2, PieceCopied
<1>4. FitIn(heap, buffer'[o])
  BY <1>1, <1>3, PieceCopied DEF FitIn
<1>5. live' = live /\ heap' = heap /\ \A p \in Object \ {o} : buffer'[p] = buffer[p]
  BY PieceCopied DEF ReadChunk, IInv, TypeOK
<1>6. undefined' \in Outcomes({buffer[o]})
  BY DEF ReadChunk
<1>7. ~undefined'
  BY <1>1, <1>6, FitIsDefined
<1> QED BY <1>4, <1>5, <1>7, FitExcept DEF Sound, IInv

\* From the beginning of a block, no piece of a Peek goes past its end.
LEMMA PeekFits ==
  ASSUME IInv, Sound, WholeReads, NEW o \in Object, NEW n \in Amounts, Peek(o, n)
  PROVE  Sound'
<1> DEFINE b == buffer[o]
           second == Least(b.blockSize, n - (b.blockSize - b.tail))
<1>1. o \in live /\ b \in Buffer /\ FitIn(heap, b)
  BY DEF Peek, IInv, TypeOK, Sound, AllFit
<1>2. b.tail = 0 /\ b.blockSize \in Nat /\ n \in Nat
  BY <1>1, ObjectsAssumption DEF WholeReads, Buffer
<1>3. second \in Int /\ second <= b.blockSize
  BY <1>2 DEF Least
<1>4. ASSUME b.table \in Table
      PROVE  ~(b.tail + second > heap[b.table].blockSize)
  <2>1. heap[b.table].blockSize \in Nat /\ heap[b.table].blockSize >= b.blockSize
    BY <1>1, <1>4 DEF FitIn, IInv, TypeOK
  <2> HIDE DEF b, second
  <2> QED BY <1>2, <1>3, <2>1
<1>5. undefined' \in Outcomes({b})
  BY <1>4 DEF Peek
<1>6. ~undefined'
  BY <1>1, <1>5, FitIsDefined
<1> QED BY <1>6 DEF Peek, Sound, AllFit, FitIn

LEMMA NextDefined ==
  IInv /\ TablesOwnedOnce /\ Aligned /\ CarefulCallsDefined /\ [Next]_vars => CarefulCallsDefined'
<1> SUFFICES ASSUME IInv, TablesOwnedOnce, Aligned, CarefulCallsDefined, [Next]_vars, ~suspect'
             PROVE  Sound'
  BY DefinedIsFit, PTL DEF Sound, CarefulCallsDefined, AllFit, FitIn, Cleanable
<1>1. Sound /\ WholeReads
  BY SuspectStays, DefinedIsFit DEF Sound, Aligned
<1>2. CASE UNCHANGED <<live, buffer, heap, undefined>>
  BY <1>1, <1>2 DEF Sound, AllFit, FitIn
<1>3. ASSUME NEW o \in Object, NEW p \in Object, CopyConstruct(o, p)
      PROVE  Sound'
  <2>1. PICK blocks \in 0..MaxTableCapacity, pointer \in {Null, Wild} :
          /\ Copy(o, [buffer[p] EXCEPT !.tableCapacity = blocks, !.table = pointer], buffer[p])
          /\ suspect' = (suspect \/ blocks # 0 \/ pointer # Null)
    BY <1>3 DEF CopyConstruct
  <2> DEFINE old == [buffer[p] EXCEPT !.tableCapacity = blocks, !.table = pointer]
  <2>2. blocks = 0 /\ pointer = Null
    BY <2>1
  <2>3. buffer[p] \in Buffer
    BY DEF IInv, TypeOK
  <2>4. old \in Buffer
    BY <2>2, <2>3, BufferFields
  <2>5. old.table = Null /\ old.tableCapacity = 0
    BY <2>2, <2>3 DEF Buffer
  <2>6. Cleanable(old) /\ old.table \notin Table
    BY <2>5, ObjectsAssumption DEF Cleanable
  <2>7. o \notin live /\ p \in live /\ o # p /\ live' = live \cup {o}
    BY <1>3 DEF CopyConstruct
  <2>8. Copy(o, old, buffer[p])
    BY <2>1
  <2> HIDE DEF old
  <2> QED BY <1>1, <2>4, <2>6, <2>7, <2>8, CopyFits
<1>4. ASSUME NEW o \in Object, NEW p \in Object, CopyAssign(o, p)
      PROVE  Sound'
  <2>1. o \in live /\ p \in live /\ o # p /\ live' = live \cup {o} /\ Copy(o, buffer[o], buffer[p])
    BY <1>4 DEF CopyAssign
  <2>2. buffer[o] \in Buffer /\ buffer[p] \in Buffer /\ FitIn(heap, buffer[o])
    BY <1>1, <2>1 DEF IInv, TypeOK, Sound, AllFit
  <2>3. Cleanable(buffer[o])
    BY <2>2, CleanableIfFit
  <2>4. Kept(buffer[o], buffer[p]) /\ buffer[o].table \in Table =>
          heap[buffer[o].table].blockSize >= buffer[p].blockSize
    <3>1. Kept(buffer[o], buffer[p]) /\ buffer[o].table \in Table =>
            ~(heap[buffer[o].table].blockSize < buffer[p].blockSize)
      BY <1>4 DEF CopyAssign
    <3>2. buffer[o].table \in Table => heap[buffer[o].table].blockSize \in Nat
      BY DEF IInv, TypeOK
    <3>3. buffer[p].blockSize \in Nat
      BY <2>2, ObjectsAssumption DEF Buffer
    <3> QED BY <3>1, <3>2, <3>3
  <2> QED BY <1>1, <2>1, <2>2, <2>3, <2>4, CopyFits
<1>5. ASSUME NEW o \in Object, NEW n \in Amounts, BeginWrite(o, n)
      PROVE  Sound'
  BY <1>2, <1>5 DEF BeginWrite
<1>6. ASSUME NEW o \in Object, EndRead(o)
      PROVE  Sound'
  BY <1>2, <1>6 DEF EndRead
<1>7. ASSUME NEW o \in Object, NEW n \in Amounts, BeginRead(o, n)
      PROVE  Sound'
  BY <1>2, <1>7 DEF BeginRead
<1> QED
  BY <1>1, <1>2, <1>3, <1>4, <1>5, <1>6, <1>7, ConstructFits, DestroyFits, MoveFits, ReadChunkFits,
     PeekFits, EndWriteFits, GrowFits
     DEF Next, Work, vars

\* CircularBuffer: whatever is written and peeked at and in whatever order objects
\* are built, copied, moved, assigned and destroyed, every call is defined and each
\* object has a table that fits it or none, as long as every Read is of whole blocks,
\* no copy constructor ran on memory that was not zero, and no copy assignment kept
\* shorter blocks.
THEOREM DefinedCalls == Spec => []CarefulCallsDefined
<1>1. Init => CarefulCallsDefined
  BY DEF Init, CarefulCallsDefined
<1>2. Init => TablesOwnedOnce
  BY DEF Init, TablesOwnedOnce
<1>3. Init => Aligned
  <2>1. \A c : c = Idle => c.op # "read"
    BY DEF Idle
  <2> QED BY <2>1 DEF Init, Aligned, WholeReads
<1> QED BY <1>1, <1>2, <1>3, InitType, NextType, NextOwns, NextAligned, NextDefined, PTL DEF Spec
=============================================================================
