------------------------- MODULE ReplicationProofs --------------------------
(***************************************************************************)
(* Proofs about Replication, for any objects, any width of identifiers and *)
(* any number of transmissions in flight.                                  *)
(***************************************************************************)
EXTENDS Replication, TLAPS

\* Nothing is half a command or half a transmission.
Whole ==
  /\ \A i \in Id : command[i].action = "none" => command[i] = NoCommand
  /\ \A s \in Slot : inFlight[s].action = "none" => inFlight[s] = NoTransmission

\* The destroy of an identifier is under way.
DestroyOut(i) == \E s \in Slot : inFlight[s].id = i /\ inFlight[s].action = "destroy"

\* A command is an update its peer cannot understand only after its destroy was
\* written, and then nothing is left to be written.
Stranded(i) == command[i].action = "update" /\ i \notin known

\* An object whose destroy is pending or was written is not linked any more.
Quiet ==
  \A i \in Id \ reused :
    /\ command[i].action = "destroy" \/ DestroyOut(i) \/ Stranded(i) => objectOf[i] = Nobody
    /\ Stranded(i) => command[i].dirty = {}

\* Identifiers whose destroy is to be delivered still have their command.
DoomedHaveCommand == \A i \in doomed \ reused : command[i] # NoCommand

IInv == TypeOK /\ Whole /\ Quiet /\ DoomedHaveCommand /\ ObjectLife

-----------------------------------------------------------------------------

LEMMA CommandTypes ==
  ASSUME NEW c \in Command, NEW bits \in SUBSET State
  PROVE  /\ NewCommand(bits) \in Command
         /\ HandleCreateAckd(c) \in Command
         /\ AddDirtyState(c, bits) \in Command
         /\ SetDestroy(c) \in Command
         /\ ClearDirtyState(c, bits) \in Command
         /\ NoCommand \in Command
BY DEF Command, NewCommand, HandleCreateAckd, AddDirtyState, SetDestroy, ClearDirtyState, NoCommand

\* What the methods of the command leave in its fields.
LEMMA CommandFields ==
  ASSUME NEW c \in Command, NEW bits \in SUBSET State
  PROVE  /\ NewCommand(bits).action = "create" /\ NewCommand(bits).dirty = bits
         /\ HandleCreateAckd(c).action = (IF c.action = "create" THEN "update" ELSE c.action)
         /\ HandleCreateAckd(c).dirty = c.dirty
         /\ AddDirtyState(c, bits).action = c.action
         /\ AddDirtyState(c, bits).dirty = c.dirty \cup bits
         /\ SetDestroy(c).action = "destroy"
         /\ SetDestroy(c).dirty = c.dirty
         /\ ClearDirtyState(c, bits).action = (IF c.action = "destroy" THEN "update" ELSE c.action)
         /\ ClearDirtyState(c, bits).dirty = c.dirty \ bits
         /\ NoCommand.action = "none"
BY DEF Command, NewCommand, HandleCreateAckd, AddDirtyState, SetDestroy, ClearDirtyState, NoCommand

\* What LinksAgree says of one identifier and one object.
FoundGoesByIt(i, o) == i \notin outdated => (objectOf[i] = o => idOf[o] = i)
WhoGoesIsFound(i, o) == i \notin contested => (idOf[o] = i => objectOf[i] = o)

\* The object takes the identifier in both maps; what it had before is outdated,
\* and who else has it makes it contested.
LEMMA AddKeepsAgreement ==
  ASSUME TypeOK, LinksAgree, NEW o \in Object, NEW i \in Id, AddGameObject(o, i)
  PROVE  LinksAgree'
<1> SUFFICES ASSUME NEW k \in Id, NEW p \in Object
             PROVE  FoundGoesByIt(k, p)' /\ WhoGoesIsFound(k, p)'
  BY DEF LinksAgree, FoundGoesByIt, WhoGoesIsFound
<1>1. FoundGoesByIt(k, p) /\ WhoGoesIsFound(k, p)
  BY DEF LinksAgree, FoundGoesByIt, WhoGoesIsFound
<1>2. objectOf'[i] = o /\ (k # i => objectOf'[k] = objectOf[k])
  BY DEF AddGameObject, TypeOK
<1>3. idOf'[o] = i /\ (p # o => idOf'[p] = idOf[p])
  BY DEF AddGameObject, TypeOK
<1>4. FoundGoesByIt(k, p)'
  <2>1. SUFFICES ASSUME k \notin outdated', objectOf'[k] = p PROVE idOf'[p] = k
    BY DEF FoundGoesByIt
  <2>2. CASE k = i
    BY <1>2, <1>3, <2>1, <2>2
  <2>3. CASE k # i
    <3>1. k \notin outdated /\ k # NoId
      BY <2>1, <2>3, ReplicationAssumption DEF AddGameObject, Id
    <3>2. idOf[p] = k
      BY <1>1, <1>2, <2>1, <2>3, <3>1 DEF FoundGoesByIt
    <3>3. p # o
      BY <2>1, <2>3, <3>1, <3>2 DEF AddGameObject
    <3> QED BY <1>3, <3>2, <3>3
  <2> QED BY <2>2, <2>3
<1>5. WhoGoesIsFound(k, p)'
  <2>1. SUFFICES ASSUME k \notin contested', idOf'[p] = k PROVE objectOf'[k] = p
    BY DEF WhoGoesIsFound
  <2>2. CASE k = i
    <3>1. p = o
      <4>1. SUFFICES ASSUME p # o PROVE FALSE
        OBVIOUS
      <4>2. GoesElsewhere(o, i)
        BY <1>3, <2>1, <2>2, <4>1 DEF GoesElsewhere
      <4> QED BY <2>1, <2>2, <4>2 DEF AddGameObject
    <3> QED BY <1>2, <2>2, <3>1
  <2>3. CASE k # i
    <3>1. k \notin contested /\ p # o
      BY <1>3, <2>1, <2>3 DEF AddGameObject
    <3> QED BY <1>1, <1>2, <1>3, <2>1, <2>3, <3>1 DEF WhoGoesIsFound
  <2> QED BY <2>2, <2>3
<1> QED BY <1>4, <1>5

LEMMA RemoveKeepsAgreement ==
  ASSUME TypeOK, LinksAgree, NEW o \in Object, RemoveGameObject(o)
  PROVE  LinksAgree'
<1> DEFINE i == IF idOf[o] = NoId THEN 0 ELSE idOf[o]
<1>1. i \in Id
  BY ReplicationAssumption DEF TypeOK, Id
<1>2. objectOf' = [objectOf EXCEPT ![i] = Nobody] /\ idOf' = [idOf EXCEPT ![o] = NoId]
  BY DEF RemoveGameObject
<1>3. outdated' = outdated /\ contested' = contested \cup {k \in {i} : GoesElsewhere(o, k)}
  BY DEF RemoveGameObject
<1>4. \A k \in Id : idOf[o] = k => i = k
  BY ReplicationAssumption DEF Id
<1> HIDE DEF i
<1> SUFFICES ASSUME NEW k \in Id, NEW p \in Object
             PROVE  FoundGoesByIt(k, p)' /\ WhoGoesIsFound(k, p)'
  BY DEF LinksAgree, FoundGoesByIt, WhoGoesIsFound
<1>5. FoundGoesByIt(k, p) /\ WhoGoesIsFound(k, p)
  BY DEF LinksAgree, FoundGoesByIt, WhoGoesIsFound
<1>6. k # NoId /\ p # Nobody
  BY ReplicationAssumption DEF Id
<1>7. objectOf'[i] = Nobody /\ (k # i => objectOf'[k] = objectOf[k])
  BY <1>1, <1>2 DEF TypeOK
<1>8. idOf'[o] = NoId /\ (p # o => idOf'[p] = idOf[p])
  BY <1>2 DEF TypeOK
<1>9. FoundGoesByIt(k, p)'
  <2>1. SUFFICES ASSUME k \notin outdated', objectOf'[k] = p PROVE idOf'[p] = k
    BY DEF FoundGoesByIt
  <2>2. k # i
    BY <1>6, <1>7, <2>1
  <2>3. idOf[p] = k
    BY <1>3, <1>5, <1>7, <2>1, <2>2 DEF FoundGoesByIt
  <2>4. p # o
    BY <1>4, <2>2, <2>3
  <2> QED BY <1>8, <2>3, <2>4
<1>10. WhoGoesIsFound(k, p)'
  <2>1. SUFFICES ASSUME k \notin contested', idOf'[p] = k PROVE objectOf'[k] = p
    BY DEF WhoGoesIsFound
  <2>2. p # o /\ idOf[p] = k
    BY <1>6, <1>8, <2>1
  <2>3. k # i
    <3>1. SUFFICES ASSUME k = i PROVE FALSE
      OBVIOUS
    <3>2. GoesElsewhere(o, k)
      BY <2>2 DEF GoesElsewhere
    <3> QED BY <1>3, <2>1, <3>1, <3>2
  <2>4. objectOf[k] = p
    BY <1>3, <1>5, <2>1, <2>2 DEF WhoGoesIsFound
  <2> QED BY <1>7, <2>3, <2>4
<1> QED BY <1>9, <1>10

-----------------------------------------------------------------------------
(* Types.                                                                  *)

LEMMA RemoveTypes ==
  ASSUME TypeOK, NEW o \in Object, RemoveGameObject(o)
  PROVE  /\ objectOf' \in [Id -> Object \cup {Nobody}]
         /\ idOf' \in [Object -> Id \cup {NoId}]
         /\ outdated' \in SUBSET Id /\ contested' \in SUBSET Id /\ reused' \in SUBSET Id
<1> DEFINE i == IF idOf[o] = NoId THEN 0 ELSE idOf[o]
<1>1. i \in Id
  BY ReplicationAssumption DEF TypeOK, Id
<1>2. objectOf' = [objectOf EXCEPT ![i] = Nobody] /\ idOf' = [idOf EXCEPT ![o] = NoId]
  BY DEF RemoveGameObject
<1>3. outdated' = outdated /\ contested' \subseteq contested \cup {i} /\ reused' = reused
  BY DEF RemoveGameObject
<1> HIDE DEF i
<1> QED BY <1>1, <1>2, <1>3 DEF TypeOK

LEMMA AddTypes ==
  ASSUME TypeOK, NEW o \in Object, NEW i \in Id, AddGameObject(o, i)
  PROVE  /\ objectOf' \in [Id -> Object \cup {Nobody}]
         /\ idOf' \in [Object -> Id \cup {NoId}]
         /\ outdated' \in SUBSET Id /\ contested' \in SUBSET Id /\ reused' \in SUBSET Id
BY DEF TypeOK, AddGameObject

LEMMA InitType == Init => TypeOK
<1>1. 0 \in Id /\ 1 \in Id
  BY ReplicationAssumption DEF Id
<1> QED BY <1>1 DEF Init, TypeOK, NoCommand, NoTransmission, Command, Transmission

LEMMA NextType == TypeOK /\ [Next]_vars => TypeOK'
<1> SUFFICES ASSUME TypeOK, [Next]_vars PROVE TypeOK'
  OBVIOUS
<1> USE DEF TypeOK
<1>1. ASSUME NEW o \in Object, NEW bits \in SUBSET State, Register(o, bits)
      PROVE  TypeOK'
  <2>1. nextId' \in Id
    BY <1>1, ReplicationAssumption DEF Register, Incremented, Id
  <2>2. NewCommand(bits) \in Command
    BY DEF NewCommand, Command
  <2> QED BY <1>1, <2>1, <2>2, AddTypes DEF Register
<1>2. ASSUME NEW o \in Object, NEW i \in Id, Link(o, i)
      PROVE  TypeOK'
  BY <1>2, AddTypes DEF Link
<1>3. ASSUME NEW o \in Object, Unregister(o)
      PROVE  TypeOK'
  <2>1. \A k \in Id : SetDestroy(command[k]) \in Command
    BY CommandTypes
  <2>2. command' \in [Id -> Command]
    BY <1>3, <2>1 DEF Unregister
  <2>3. doomed' \in SUBSET Id
    BY <1>3 DEF Unregister
  <2> QED BY <1>3, <2>2, <2>3, RemoveTypes DEF Unregister
<1>4. ASSUME NEW i \in Id, NEW bits \in SUBSET State, Change(i, bits)
      PROVE  TypeOK'
  BY <1>4, CommandTypes DEF Change, links
<1>5. ASSUME NEW i \in Id, NEW bits \in SUBSET State, NEW s \in Slot, Write(i, s, bits)
      PROVE  TypeOK'
  <2>1. [id |-> i, action |-> command[i].action, written |-> bits] \in Transmission
    BY DEF Transmission, Command
  <2>2. command' \in [Id -> Command]
    BY <1>5, CommandTypes DEF Write
  <2> QED BY <1>5, <2>1, <2>2 DEF Write, links
<1>6. ASSUME NEW s \in Slot, Delivered(s) \/ Lost(s)
      PROVE  TypeOK'
  <2>1. inFlight[s] \in Transmission /\ NoTransmission \in Transmission
    <3>1. 0 \in Id
      BY ReplicationAssumption DEF Id
    <3> QED BY <3>1 DEF Transmission, NoTransmission
  <2>2. inFlight[s].id \in Id /\ inFlight[s].written \in SUBSET State
    BY <2>1 DEF Transmission
  <2>3. inFlight' \in [Slot -> Transmission]
    BY <1>6, <2>1 DEF Delivered, Lost
  <2>4. command' \in [Id -> Command]
    BY <1>6, <2>2, CommandTypes DEF Delivered, Lost
  <2> QED BY <1>6, <2>2, <2>3, <2>4 DEF Delivered, Lost, links
<1>7. CASE UNCHANGED vars
  BY <1>7 DEF vars, links
<1> QED BY <1>1, <1>2, <1>3, <1>4, <1>5, <1>6, <1>7 DEF Next

\* Every variable keeps its type: the counter wraps like a uint32_t, and no call
\* puts anything but an object or nothing under an identifier.
THEOREM TypeCorrect == Spec => []TypeOK
BY InitType, NextType, PTL DEF Spec

\* LinkingContext, after any calls, sensible or not: an object that is found by an
\* identifier goes by it, unless it was given another one since, and an object that
\* goes by an identifier is found by it, unless that was last given to an object, or
\* erased for one, while another went by it.
THEOREM MapsAgree == Spec => []LinksAgree
<1>1. Init => LinksAgree
  <2> SUFFICES ASSUME Init, NEW i \in Id, NEW o \in Object
               PROVE  objectOf[i] # o /\ idOf[o] # i
    BY DEF LinksAgree
  <2>1. objectOf[i] = Nobody /\ idOf[o] = NoId
    BY DEF Init
  <2>2. i # NoId
    BY ReplicationAssumption DEF Id
  <2> QED BY <2>1, <2>2, ReplicationAssumption
<1>2. TypeOK /\ LinksAgree /\ [Next]_vars => LinksAgree'
  <2> SUFFICES ASSUME TypeOK, LinksAgree, [Next]_vars PROVE LinksAgree'
    OBVIOUS
  <2>1. ASSUME NEW o \in Object, NEW i \in Id, AddGameObject(o, i)
        PROVE  LinksAgree'
    BY <2>1, AddKeepsAgreement
  <2>2. ASSUME NEW o \in Object, RemoveGameObject(o)
        PROVE  LinksAgree'
    BY <2>2, RemoveKeepsAgreement
  <2>3. CASE UNCHANGED links
    BY <2>3 DEF links, LinksAgree
  <2> QED
    BY <2>1, <2>2, <2>3 DEF Next, vars, Register, Link, Unregister, Change, Write, Delivered, Lost, TypeOK
<1> QED BY <1>1, <1>2, TypeCorrect, PTL DEF Spec

-----------------------------------------------------------------------------
(* The life of an object.                                                  *)

\* What a step must leave true of one identifier that was not reused.
Sound(i) ==
  /\ command[i].action = "destroy" \/ DestroyOut(i) \/ Stranded(i) => objectOf[i] = Nobody
  /\ Stranded(i) => command[i].dirty = {}
  /\ i \in doomed => command[i] # NoCommand
  /\ i \in doomed => command[i].action = "destroy" \/ DestroyOut(i)

LEMMA SoundIsLife ==
  ASSUME TypeOK
  PROVE  (\A i \in Id \ reused : Sound(i)) <=> (Quiet /\ DoomedHaveCommand /\ ObjectLife)
<1>1. doomed \subseteq Id
  BY DEF TypeOK
<1>2. UpdatesKnown <=> \A i \in Id \ reused : Stranded(i) => command[i].dirty = {}
  BY DEF UpdatesKnown, HasDirtyState, Stranded
<1> QED
  BY <1>1, <1>2 DEF Sound, Quiet, DoomedHaveCommand, ObjectLife, DestroyAnnounced, DestroyOut

\* An identifier about which a step changes nothing stays sound.
LEMMA SoundKept ==
  ASSUME NEW i \in Id, Sound(i),
         objectOf'[i] \in {objectOf[i], Nobody},
         command'[i] = command[i],
         inFlight' = inFlight,
         (i \in known') <=> (i \in known),
         (i \in doomed') <=> (i \in doomed)
  PROVE  Sound(i)'
BY DEF Sound, Stranded, DestroyOut

LEMMA RegisterSound ==
  ASSUME IInv, NEW o \in Object, NEW bits \in SUBSET State, Register(o, bits),
         NEW i \in Id, i \notin reused', Sound(i)
  PROVE  Sound(i)'
<1>1. i \notin reused /\ nextId \in Id /\ nextId # NoId
  BY ReplicationAssumption DEF Register, AddGameObject, IInv, TypeOK, Id
<1>2. CASE i = nextId
  <2>1. ~DestroyOut(i)
    <3>1. CASE objectOf[i] = o
      BY <3>1, ReplicationAssumption DEF Sound
    <3>2. CASE objectOf[i] # o
      <4>1. ~InUse(i)
        BY <1>2, <3>2 DEF Register, AddGameObject
      <4> QED BY <4>1 DEF InUse, DestroyOut, NoTransmission
    <3> QED BY <3>1, <3>2
  <2>2. inFlight' = inFlight /\ i \notin doomed'
    BY <1>2 DEF Register
  <2>3. command'[i].action = "create"
    BY <1>2 DEF Register, NewCommand, IInv, TypeOK
  <2> QED BY <2>1, <2>2, <2>3 DEF Sound, Stranded, DestroyOut
<1>3. CASE i # nextId
  <2>1. objectOf'[i] = objectOf[i] /\ command'[i] = command[i]
    BY <1>1, <1>3 DEF Register, AddGameObject, IInv, TypeOK
  <2>2. /\ inFlight' = inFlight
        /\ (i \in known') <=> (i \in known)
        /\ (i \in doomed') <=> (i \in doomed)
    BY <1>3 DEF Register
  <2> QED BY <2>1, <2>2, SoundKept
<1> QED BY <1>2, <1>3

LEMMA LinkSound ==
  ASSUME IInv, NEW o \in Object, NEW k \in Id, Link(o, k),
         NEW i \in Id, i \notin reused', Sound(i)
  PROVE  Sound(i)'
<1>1. i \notin reused
  BY DEF Link, AddGameObject
<1>2. /\ command' = command /\ inFlight' = inFlight
      /\ known' = known /\ doomed' = doomed
  BY DEF Link
<1>3. CASE i = k /\ objectOf[i] # o
  <2>1. ~InUse(i)
    BY <1>3 DEF Link, AddGameObject
  <2>2. command[i] = NoCommand /\ ~DestroyOut(i)
    BY <2>1 DEF InUse, DestroyOut, NoTransmission
  <2>3. i \notin doomed
    BY <2>2 DEF Sound
  <2> QED BY <1>2, <2>2, <2>3 DEF Sound, Stranded, DestroyOut, NoCommand
<1>4. CASE ~(i = k /\ objectOf[i] # o)
  <2>1. objectOf'[i] = objectOf[i]
    BY <1>4 DEF Link, AddGameObject, IInv, TypeOK
  <2> QED BY <1>2, <2>1, SoundKept
<1> QED BY <1>3, <1>4

LEMMA UnregisterSound ==
  ASSUME IInv, NEW o \in Object, Unregister(o), NEW i \in Id, i \notin reused', Sound(i)
  PROVE  Sound(i)'
<1>1. inFlight' = inFlight /\ known' = known
  BY DEF Unregister
<1>2. 0 \in Id /\ i # NoId
  BY ReplicationAssumption DEF Id
<1>3. objectOf'[i] \in {objectOf[i], Nobody}
  BY <1>2 DEF Unregister, RemoveGameObject, IInv, TypeOK
<1>4. CASE i = idOf[o] /\ command[i] # NoCommand
  <2>1. command'[i] = SetDestroy(command[i])
    BY <1>2, <1>4 DEF Unregister, IInv, TypeOK
  <2>2. command'[i].action = "destroy" /\ command'[i] # NoCommand
    BY <2>1, CommandFields DEF IInv, TypeOK
  <2>3. objectOf'[i] = Nobody
    BY <1>2, <1>4 DEF Unregister, RemoveGameObject, IInv, TypeOK
  <2> QED BY <1>1, <2>2, <2>3 DEF Sound, Stranded, DestroyOut
<1>5. CASE ~(i = idOf[o] /\ command[i] # NoCommand)
  <2>1. command'[i] = command[i] /\ ((i \in doomed') <=> (i \in doomed))
    BY <1>5 DEF Unregister, IInv, TypeOK
  <2> QED BY <1>1, <1>3, <2>1, SoundKept
<1> QED BY <1>4, <1>5

LEMMA ChangeSound ==
  ASSUME IInv, NEW k \in Id, NEW bits \in SUBSET State, Change(k, bits),
         NEW i \in Id, i \notin reused', Sound(i)
  PROVE  Sound(i)'
<1>1. /\ objectOf' = objectOf /\ inFlight' = inFlight
      /\ known' = known /\ doomed' = doomed
  BY DEF Change, links
<1>2. CASE i = k
  <2>1. command'[i].action = command[i].action
    BY <1>2, CommandFields DEF Change, IInv, TypeOK
  <2>2. objectOf[i] # Nobody /\ command[i] # NoCommand
    BY <1>2 DEF Change
  <2>3. command'[i] # NoCommand
    BY <2>1, <2>2 DEF IInv, Whole, NoCommand
  <2> QED BY <1>1, <2>1, <2>2, <2>3 DEF Sound, Stranded, DestroyOut
<1>3. CASE i # k
  <2>1. command'[i] = command[i]
    BY <1>3 DEF Change, IInv, TypeOK
  <2> QED BY <1>1, <2>1, SoundKept
<1> QED BY <1>2, <1>3

LEMMA WriteSound ==
  ASSUME IInv, NEW k \in Id, NEW s \in Slot, NEW bits \in SUBSET State, Write(k, s, bits),
         NEW i \in Id, i \notin reused', Sound(i)
  PROVE  Sound(i)'
<1>1. /\ objectOf' = objectOf
      /\ known' = known /\ doomed' = doomed
  BY DEF Write, links
<1>2. inFlight[s].action = "none"
  BY DEF Write, NoTransmission
<1>3. inFlight'[s].id = k /\ inFlight'[s].action = command[k].action
  BY DEF Write, IInv, TypeOK
<1>4. \A t \in Slot : t # s => inFlight'[t] = inFlight[t]
  BY DEF Write, IInv, TypeOK
<1>5. CASE i # k
  <2>1. command'[i] = command[i]
    BY <1>5 DEF Write, IInv, TypeOK
  <2>2. DestroyOut(i)' <=> DestroyOut(i)
    BY <1>2, <1>3, <1>4, <1>5 DEF DestroyOut
  <2> QED BY <1>1, <2>1, <2>2 DEF Sound, Stranded
<1>6. CASE i = k
  <2>1. DestroyOut(i)' <=> DestroyOut(i) \/ command[i].action = "destroy"
    BY <1>2, <1>3, <1>4, <1>6 DEF DestroyOut
  <2>2. /\ command'[i].action = (IF command[i].action = "destroy" THEN "update" ELSE command[i].action)
        /\ command'[i].dirty = command[i].dirty \ bits
    BY <1>6, CommandFields DEF Write, IInv, TypeOK
  <2>3. command[i] # NoCommand /\ command[i].action # "none"
    BY <1>6 DEF Write, IInv, Whole
  <2>4. command'[i] # NoCommand
    BY <2>2, <2>3 DEF NoCommand
  <2>5. command[i].action = "destroy" => command'[i].dirty = {}
    BY <1>6, <2>2 DEF Write
  <2> QED BY <1>1, <2>1, <2>2, <2>4, <2>5 DEF Sound, Stranded
<1> QED BY <1>5, <1>6

\* A report on one transmission leaves the others in flight.
LEMMA Reported ==
  ASSUME IInv, NEW s \in Slot, inFlight' = [inFlight EXCEPT ![s] = NoTransmission], NEW i \in Id
  PROVE  /\ \A t \in Slot : inFlight'[t].action # "none" => t # s /\ inFlight'[t] = inFlight[t]
         /\ DestroyOut(i)' => DestroyOut(i)
         /\ DestroyOut(i) => DestroyOut(i)' \/ (inFlight[s].id = i /\ inFlight[s].action = "destroy")
<1>1. inFlight'[s].action = "none"
  BY DEF IInv, TypeOK, NoTransmission
<1>2. \A t \in Slot : t # s => inFlight'[t] = inFlight[t]
  BY DEF IInv, TypeOK
<1>3. \A t \in Slot : inFlight'[t].action # "none" => t # s /\ inFlight'[t] = inFlight[t]
  BY <1>1, <1>2
<1>4. DestroyOut(i)' => DestroyOut(i)
  <2> SUFFICES ASSUME NEW t \in Slot, inFlight'[t].id = i, inFlight'[t].action = "destroy"
               PROVE  DestroyOut(i)
    BY DEF DestroyOut
  <2>1. inFlight'[t] = inFlight[t]
    BY <1>3
  <2> QED BY <2>1 DEF DestroyOut
<1>5. DestroyOut(i) => DestroyOut(i)' \/ (inFlight[s].id = i /\ inFlight[s].action = "destroy")
  <2> SUFFICES ASSUME NEW t \in Slot, inFlight[t].id = i, inFlight[t].action = "destroy", t # s
               PROVE  DestroyOut(i)'
    BY DEF DestroyOut
  <2> QED BY <1>2 DEF DestroyOut
<1> QED BY <1>3, <1>4, <1>5

LEMMA DeliveredSound ==
  ASSUME IInv, NEW s \in Slot, Delivered(s), NEW i \in Id, i \notin reused', Sound(i)
  PROVE  Sound(i)'
<1> DEFINE t == inFlight[s]
<1>1. objectOf' = objectOf /\ t.id \in Id
  BY DEF Delivered, links, IInv, TypeOK, Transmission
<1>2. inFlight' = [inFlight EXCEPT ![s] = NoTransmission]
  BY DEF Delivered
<1>3. CASE t.action = "create"
  <2>1. DestroyOut(i)' <=> DestroyOut(i)
    BY <1>2, <1>3, Reported
  <2>2. command' = [command EXCEPT ![t.id] = HandleCreateAckd(@)] /\ known' = known \cup {t.id} /\ doomed' = doomed
    BY <1>3 DEF Delivered
  <2>3. CASE i = t.id
    <3>1. command'[i] = HandleCreateAckd(command[i])
      BY <2>2, <2>3 DEF IInv, TypeOK
    <3>2. /\ (command'[i].action = "destroy") <=> (command[i].action = "destroy")
          /\ command[i] # NoCommand => command'[i] # NoCommand
      <4>1. command[i] \in Command /\ NoCommand.action = "none"
        BY DEF IInv, TypeOK, NoCommand
      <4>2. command'[i].action = (IF command[i].action = "create" THEN "update" ELSE command[i].action)
        BY <3>1, <4>1, CommandFields
      <4> QED BY <4>1, <4>2 DEF IInv, Whole
    <3>3. i \in known'
      BY <2>2, <2>3
    <3> QED BY <1>1, <2>1, <2>2, <3>2, <3>3 DEF Sound, Stranded
  <2>4. CASE i # t.id
    <3>1. command'[i] = command[i]
      BY <2>2, <2>4 DEF IInv, TypeOK
    <3> QED BY <1>1, <2>1, <2>2, <2>4, <3>1 DEF Sound, Stranded
  <2> QED BY <2>3, <2>4
<1>4. CASE t.action = "update"
  <2>1. DestroyOut(i)' <=> DestroyOut(i)
    BY <1>2, <1>4, Reported
  <2>2. command' = command /\ known' = known /\ doomed' = doomed
    BY <1>4 DEF Delivered
  <2> QED BY <1>1, <2>1, <2>2 DEF Sound, Stranded
<1>5. CASE t.action = "destroy"
  <2>1. command' = [command EXCEPT ![t.id] = NoCommand] /\ known' = known \ {t.id} /\ doomed' = doomed \ {t.id}
    BY <1>5 DEF Delivered
  <2>2. DestroyOut(i)' => DestroyOut(i)
    BY <1>2, Reported
  <2>3. CASE i = t.id
    <3>1. DestroyOut(i)
      BY <1>5, <2>3 DEF DestroyOut
    <3>2. command'[i].action = "none"
      BY <2>1, <2>3 DEF IInv, TypeOK, NoCommand
    <3> QED BY <1>1, <2>1, <2>2, <2>3, <3>1, <3>2 DEF Sound, Stranded
  <2>4. CASE i # t.id
    <3>1. command'[i] = command[i]
      BY <2>1, <2>4 DEF IInv, TypeOK
    <3>2. DestroyOut(i) => DestroyOut(i)'
      BY <1>2, <2>4, Reported
    <3> QED BY <1>1, <2>1, <2>2, <2>4, <3>1, <3>2 DEF Sound, Stranded
  <2> QED BY <2>3, <2>4
<1> QED BY <1>3, <1>4, <1>5 DEF Delivered

LEMMA LostSound ==
  ASSUME IInv, NEW s \in Slot, Lost(s), NEW i \in Id, i \notin reused', Sound(i)
  PROVE  Sound(i)'
<1> DEFINE t == inFlight[s]
<1>1. objectOf' = objectOf /\ known' = known /\ doomed' = doomed /\ t.id \in Id
  BY DEF Lost, links, IInv, TypeOK, Transmission
<1>2. inFlight' = [inFlight EXCEPT ![s] = NoTransmission]
  BY DEF Lost
<1>3. DestroyOut(i)' => DestroyOut(i)
  BY <1>2, Reported
<1>4. CASE i # t.id
  <2>1. command'[i] = command[i]
    BY <1>1, <1>4 DEF Lost, IInv, TypeOK
  <2>2. DestroyOut(i) => DestroyOut(i)'
    BY <1>2, <1>4, Reported
  <2> QED BY <1>1, <1>3, <2>1, <2>2 DEF Sound, Stranded
<1>5. CASE i = t.id /\ t.action = "destroy"
  <2>1. DestroyOut(i)
    BY <1>5 DEF DestroyOut
  <2>2. CASE command[i] = NoCommand
    <3>1. command'[i] = NoCommand /\ i \notin doomed
      BY <1>5, <2>2 DEF Lost, Sound
    <3> QED BY <1>1, <1>3, <2>1, <3>1 DEF Sound, Stranded, NoCommand
  <2>3. CASE command[i] # NoCommand
    <3>1. command'[i] = SetDestroy(command[i])
      BY <1>5, <2>3 DEF Lost, IInv, TypeOK
    <3>2. command'[i].action = "destroy" /\ command'[i] # NoCommand
      BY <3>1, CommandFields DEF IInv, TypeOK
    <3> QED BY <1>1, <2>1, <3>2 DEF Sound, Stranded
  <2> QED BY <2>2, <2>3
<1>6. CASE i = t.id /\ t.action # "destroy"
  <2>1. DestroyOut(i)' <=> DestroyOut(i)
    BY <1>2, <1>6, Reported
  <2>2. t.written \in SUBSET State /\ command[i] \in Command
    BY DEF IInv, TypeOK, Transmission
  <2>3. CASE command[i] # NoCommand /\ objectOf[i] # Nobody
    <3>1. command'[i] = AddDirtyState(command[i], t.written)
      BY <1>6, <2>3 DEF Lost, IInv, TypeOK
    <3>2. command'[i].action = command[i].action
      BY <2>2, <3>1, CommandFields
    <3>3. command'[i] # NoCommand
      BY <2>3, <3>2 DEF IInv, Whole, NoCommand
    <3> QED BY <1>1, <2>1, <2>3, <3>2, <3>3 DEF Sound, Stranded
  <2>4. CASE ~(command[i] # NoCommand /\ objectOf[i] # Nobody)
    <3>1. command'[i] = command[i]
      BY <1>6, <2>4 DEF Lost
    <3> QED BY <1>1, <2>1, <3>1 DEF Sound, Stranded
  <2> QED BY <2>3, <2>4
<1> QED BY <1>4, <1>5, <1>6

LEMMA NextSound ==
  ASSUME IInv, [Next]_vars, NEW i \in Id, i \notin reused'
  PROVE  Sound(i)'
<1>1. i \notin reused
  BY DEF Next, vars, links, Register, Link, Unregister, AddGameObject, RemoveGameObject,
         Change, Write, Delivered, Lost
<1>2. Sound(i)
  BY <1>1, SoundIsLife DEF IInv
<1>3. CASE UNCHANGED vars
  BY <1>2, <1>3 DEF vars, links, Sound, Stranded, DestroyOut
<1> QED
  BY <1>2, <1>3, RegisterSound, LinkSound, UnregisterSound, ChangeSound, WriteSound,
     DeliveredSound, LostSound DEF Next

LEMMA NextWhole ==
  ASSUME TypeOK, Whole, [Next]_vars
  PROVE  Whole'
<1> USE DEF Whole, TypeOK
<1>1. \A c \in Command, bits \in SUBSET State :
        /\ NewCommand(bits).action # "none"
        /\ c.action # "none" => HandleCreateAckd(c).action # "none"
        /\ c = NoCommand => HandleCreateAckd(c) = NoCommand
        /\ c.action # "none" => AddDirtyState(c, bits).action # "none"
        /\ SetDestroy(c).action # "none"
        /\ c.action # "none" => ClearDirtyState(c, bits).action # "none"
  <2>1. \A c \in Command : c = NoCommand => HandleCreateAckd(c) = NoCommand
    BY DEF HandleCreateAckd, NoCommand
  <2> QED BY <2>1, CommandFields
<1>2. CASE UNCHANGED <<command, inFlight>>
  BY <1>2
<1>3. ASSUME NEW o \in Object, NEW bits \in SUBSET State, Register(o, bits)
      PROVE  Whole'
  BY <1>1, <1>3 DEF Register
<1>4. ASSUME NEW o \in Object, Unregister(o)
      PROVE  Whole'
  <2>1. inFlight' = inFlight
    BY <1>4 DEF Unregister
  <2>2. \A k \in Id : command'[k] \in {command[k], SetDestroy(command[k])}
    BY <1>4 DEF Unregister
  <2>3. \A k \in Id : SetDestroy(command[k]).action = "destroy"
    BY DEF SetDestroy, Command
  <2> QED BY <2>1, <2>2, <2>3
<1>5. ASSUME NEW k \in Id, NEW bits \in SUBSET State, Change(k, bits)
      PROVE  Whole'
  BY <1>1, <1>5 DEF Change
<1>6. ASSUME NEW k \in Id, NEW bits \in SUBSET State, NEW s \in Slot, Write(k, s, bits)
      PROVE  Whole'
  <2>1. command[k].action # "none" /\ command[k] \in Command
    BY <1>6 DEF Write
  <2>2. inFlight'[s].action # "none"
    BY <1>6, <2>1 DEF Write
  <2>3. \A t \in Slot : t # s => inFlight'[t] = inFlight[t]
    BY <1>6 DEF Write
  <2>4. command'[k].action # "none"
    BY <1>1, <1>6, <2>1 DEF Write
  <2>5. \A i \in Id : i # k => command'[i] = command[i]
    BY <1>6 DEF Write
  <2> QED BY <2>2, <2>3, <2>4, <2>5
<1>7. ASSUME NEW s \in Slot, Delivered(s) \/ Lost(s)
      PROVE  Whole'
  <2>1. inFlight[s].id \in Id /\ inFlight[s].written \in SUBSET State
    BY DEF Transmission
  <2>2. \A t \in Slot : inFlight'[t] \in {inFlight[t], NoTransmission}
    BY <1>7 DEF Delivered, Lost
  <2>3. \A i \in Id : i # inFlight[s].id => command'[i] = command[i]
    BY <1>7, <2>1 DEF Delivered, Lost
  <2>4. command'[inFlight[s].id].action = "none" => command'[inFlight[s].id] = NoCommand
    <3> DEFINE t == inFlight[s]
               c == command[t.id]
    <3>1. c \in Command /\ (c.action = "none" => c = NoCommand)
      BY <2>1
    <3>2. command'[t.id] \in {c, HandleCreateAckd(c), NoCommand, SetDestroy(c)}
            \/ (c # NoCommand /\ command'[t.id] = AddDirtyState(c, t.written))
      BY <1>7, <2>1 DEF Delivered, Lost
    <3>3. HandleCreateAckd(c).action = "none" => HandleCreateAckd(c) = NoCommand
      BY <1>1, <3>1
    <3>4. SetDestroy(c).action # "none"
      BY <1>1, <3>1
    <3>5. c # NoCommand => AddDirtyState(c, t.written).action # "none"
      BY <1>1, <2>1, <3>1
    <3> HIDE DEF c
    <3> QED BY <3>1, <3>2, <3>3, <3>4, <3>5
  <2> QED BY <2>2, <2>3, <2>4
<1> QED BY <1>2, <1>3, <1>4, <1>5, <1>6, <1>7 DEF Next, Link, vars

\* ReplicationCommand: what a peer is told of an object is its life in the right
\* order.  An acknowledgement that comes after SetDestroy does not undo it, and
\* clearing dirty state does not let an update go out that the peer cannot place.
THEOREM LifeInOrder == Spec => []ObjectLife
<1>1. Init => IInv
  <2> SUFFICES ASSUME Init PROVE IInv
    OBVIOUS
  <2>1. TypeOK /\ Whole
    BY InitType DEF Init, Whole
  <2>2. \A i \in Id : Sound(i)
    BY DEF Init, Sound, Stranded, DestroyOut, NoCommand, NoTransmission
  <2> QED BY <2>1, <2>2, SoundIsLife DEF IInv
<1>2. IInv /\ [Next]_vars => IInv'
  <2> SUFFICES ASSUME IInv, [Next]_vars PROVE IInv'
    OBVIOUS
  <2>1. TypeOK' /\ Whole'
    BY NextType, NextWhole DEF IInv
  <2>2. (\A i \in Id \ reused : Sound(i))'
    BY NextSound
  <2>3. (Quiet /\ DoomedHaveCommand /\ ObjectLife)'
    <3>1. TypeOK' => ((\A i \in Id \ reused : Sound(i))' <=> (Quiet /\ DoomedHaveCommand /\ ObjectLife)')
      BY SoundIsLife, PTL
    <3> QED BY <2>1, <2>2, <3>1
  <2> QED BY <2>1, <2>3 DEF IInv
<1>3. IInv => ObjectLife
  BY DEF IInv
<1> QED BY <1>1, <1>2, <1>3, PTL DEF Spec
=============================================================================
