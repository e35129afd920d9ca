---------------------------- MODULE Replication -----------------------------
(***************************************************************************)
(* A LinkingContext, which links objects to network identifiers, and the   *)
(* ReplicationCommand of each identifier, which says what its peer has     *)
(* still to be told.                                                       *)
(*                                                                         *)
(* The classes that are to use them are empty files.  Their part, marked   *)
(* external, is what the declarations ask for: a new object gets an        *)
(* identifier and a command; a command with dirty state is written and     *)
(* cleared; the transmission is reported delivered or lost at any later    *)
(* time; what was lost is made dirty again if the object still exists.     *)
(* Apart from that, objects are linked and removed in any order, also in   *)
(* ways that make no sense.  A bit mask is a set.                          *)
(***************************************************************************)
EXTENDS Naturals

CONSTANTS
  Object,              \* game objects
  Nobody, NoId,        \* null pointer, absence of an identifier
  IdCount,             \* numbers a network identifier can have: 2^32 in the code
  State,               \* the bits of a dirty state
  Slot                 \* bound: transmissions in flight

ASSUME ReplicationAssumption ==
  /\ IdCount \in Nat /\ IdCount > 1
  /\ Nobody \notin Object
  /\ NoId \notin Nat

Id == 0..(IdCount - 1)

VARIABLES
  objectOf,            \* mNetworkIdToGameObjectMap
  idOf,                \* mGameObjectToNetworkIdMap
  nextId,              \* mNextNetworkId
  command,             \* the command of each identifier
  inFlight,            \* transmissions not yet reported on
  known,               \* history: identifiers whose create was delivered, and whose
                       \* destroy was not
  doomed,              \* history: identifiers by which an object went when it was
                       \* removed, and whose destroy was not yet delivered
  outdated,            \* history: identifiers whose object was then given another
  contested,           \* history: identifiers given to an object, or erased for one,
                       \* while another object went by them
  reused               \* history: identifiers given to an object while something was
                       \* pending or under way for another one

links == <<objectOf, idOf, nextId, outdated, contested, reused>>
vars == <<links, command, inFlight, known, doomed>>

Command == [action : {"none", "create", "update", "destroy"}, dirty : SUBSET State]
Transmission == [id : Id, action : {"none", "create", "update", "destroy"}, written : SUBSET State]

NoCommand == [action |-> "none", dirty |-> {}]
NoTransmission == [id |-> 0, action |-> "none", written |-> {}]

Init ==
  /\ objectOf = [i \in Id |-> Nobody]
  /\ idOf = [o \in Object |-> NoId]
  /\ nextId = 1
  /\ command = [i \in Id |-> NoCommand]
  /\ inFlight = [s \in Slot |-> NoTransmission]
  /\ known = {}
  /\ doomed = {}
  /\ outdated = {}
  /\ contested = {}
  /\ reused = {}

-----------------------------------------------------------------------------
(* The command.                                                            *)

NewCommand(initial) == [action |-> "create", dirty |-> initial]

\* Mutant of HandleCreateAckd: whatever is pending becomes an update.
HandleAnyAckd(c) == IF c = NoCommand THEN c ELSE [c EXCEPT !.action = "update"]

HandleCreateAckd(c) == IF c.action = "create" THEN [c EXCEPT !.action = "update"] ELSE c

AddDirtyState(c, bits) == [c EXCEPT !.dirty = @ \cup bits]

SetDestroy(c) == [c EXCEPT !.action = "destroy"]

HasDirtyState(c) == c.action = "destroy" \/ c.dirty # {}

ClearDirtyState(c, bits) ==
  [action |-> IF c.action = "destroy" THEN "update" ELSE c.action, dirty |-> c.dirty \ bits]

-----------------------------------------------------------------------------
(* The linking context.                                                    *)

\* Mutant of Incremented: no wrap.
IncrementedWide(i) == i + 1

\* The counter is a uint32_t.
Incremented(i) == (i + 1) % IdCount

\* Another object than o goes by the identifier i.
GoesElsewhere(o, i) == \E p \in Object \ {o} : idOf[p] = i

\* Something is still to be said, or to be reported on, under the identifier i.
InUse(i) ==
  \/ command[i] # NoCommand
  \/ \E s \in Slot : inFlight[s] # NoTransmission /\ inFlight[s].id = i

AddGameObject(o, i) ==
  /\ objectOf' = [objectOf EXCEPT ![i] = o]
  /\ idOf' = [idOf EXCEPT ![o] = i]
  /\ outdated' = (outdated \ {i}) \cup ({idOf[o]} \ {i, NoId})
  /\ contested' = (contested \ {i}) \cup {k \in {i} : GoesElsewhere(o, k)}
  /\ reused' = reused \cup {k \in {i} : objectOf[k] # o /\ InUse(k)}

\* Mutant of RemoveGameObject: only one of the maps is updated.
RemoveGameObjectHalf(o) ==
  /\ idOf' = [idOf EXCEPT ![o] = NoId]
  /\ UNCHANGED <<objectOf, outdated, contested, reused>>

\* The map yields zero for an object it does not have, and then what goes by the
\* identifier zero is erased.
RemoveGameObject(o) ==
  LET i == IF idOf[o] = NoId THEN 0 ELSE idOf[o] IN
  /\ objectOf' = [objectOf EXCEPT ![i] = Nobody]
  /\ idOf' = [idOf EXCEPT ![o] = NoId]
  /\ contested' = contested \cup {k \in {i} : GoesElsewhere(o, k)}
  /\ UNCHANGED <<outdated, reused>>

-----------------------------------------------------------------------------
(* The owner of both.                                                      *)

\* GetNetworkId for an object that has none, and a command for it.
Register(o, initial) ==
  /\ idOf[o] = NoId
  /\ AddGameObject(o, nextId)
  /\ nextId' = Incremented(nextId)
  /\ command' = [command EXCEPT ![nextId] = NewCommand(initial)]
  /\ known' = known \ {nextId}
  /\ doomed' = doomed \ {nextId}
  /\ UNCHANGED inFlight

\* An object is linked under an identifier of the caller's choice.
Link(o, i) ==
  /\ AddGameObject(o, i)
  /\ UNCHANGED <<nextId, command, inFlight, known, doomed>>

\* An object goes, whether it was linked or not.
Unregister(o) ==
  /\ RemoveGameObject(o)
  /\ IF idOf[o] # NoId /\ command[idOf[o]] # NoCommand
     THEN /\ command' = [command EXCEPT ![idOf[o]] = SetDestroy(@)]
          /\ doomed' = doomed \cup {idOf[o]}
     ELSE UNCHANGED <<command, doomed>>
  /\ UNCHANGED <<nextId, inFlight, known>>

\* The state of a linked object changes.
Change(i, bits) ==
  /\ objectOf[i] # Nobody /\ command[i] # NoCommand
  /\ command' = [command EXCEPT ![i] = AddDirtyState(@, bits)]
  /\ UNCHANGED <<links, inFlight, known, doomed>>

\* A command is written, with some of its dirty state, and what was written is
\* cleared.  A destroy leaves nothing to be written later.
Write(i, s, bits) ==
  /\ command[i] # NoCommand /\ HasDirtyState(command[i])
  /\ bits \subseteq command[i].dirty
  /\ command[i].action = "destroy" => bits = command[i].dirty
  /\ inFlight[s] = NoTransmission
  /\ inFlight' = [inFlight EXCEPT ![s] =
                    [id |-> i, action |-> command[i].action, written |-> bits]]
  /\ command' = [command EXCEPT ![i] = ClearDirtyState(@, bits)]
  /\ UNCHANGED <<links, known, doomed>>

Delivered(s) ==
  LET t == inFlight[s] IN
  /\ t # NoTransmission
  /\ inFlight' = [inFlight EXCEPT ![s] = NoTransmission]
  /\ \/ /\ t.action = "create"
        /\ command' = [command EXCEPT ![t.id] = HandleCreateAckd(@)]
        /\ known' = known \cup {t.id}
        /\ UNCHANGED doomed
     \/ /\ t.action = "update"
        /\ UNCHANGED <<command, known, doomed>>
     \/ /\ t.action = "destroy"
        /\ command' = [command EXCEPT ![t.id] = NoCommand]
        /\ known' = known \ {t.id}
        /\ doomed' = doomed \ {t.id}
  /\ UNCHANGED links

\* What is lost becomes pending again if GetGameObject still finds the object.
Lost(s) ==
  LET t == inFlight[s]
      again == IF t.action = "destroy" THEN SetDestroy(command[t.id])
               ELSE AddDirtyState(command[t.id], t.written) IN
  /\ t # NoTransmission
  /\ inFlight' = [inFlight EXCEPT ![s] = NoTransmission]
  /\ command' = IF /\ command[t.id] # NoCommand
                   /\ t.action = "destroy" \/ objectOf[t.id] # Nobody
                THEN [command EXCEPT ![t.id] = again] ELSE command
  /\ UNCHANGED <<links, known, doomed>>

Next ==
  \/ \E o \in Object :
       \/ \E bits \in SUBSET State : Register(o, bits)
       \/ \E i \in Id : Link(o, i)
       \/ Unregister(o)
  \/ \E i \in Id, bits \in SUBSET State : Change(i, bits) \/ \E s \in Slot : Write(i, s, bits)
  \/ \E s \in Slot : Delivered(s) \/ Lost(s)

Spec == Init /\ [][Next]_vars

-----------------------------------------------------------------------------
(* Properties.                                                             *)

TypeOK ==
  /\ objectOf \in [Id -> Object \cup {Nobody}]
  /\ idOf \in [Object -> Id \cup {NoId}]
  /\ nextId \in Id
  /\ command \in [Id -> Command]
  /\ inFlight \in [Slot -> Transmission]
  /\ known \in SUBSET Id /\ doomed \in SUBSET Id
  /\ outdated \in SUBSET Id /\ contested \in SUBSET Id /\ reused \in SUBSET Id

\* The two maps agree, each on its own terms.  An object that is found by an
\* identifier goes by it, so that none is found once it was removed: whatever
\* identifiers collide, come again when the counter runs over or are erased for
\* an object nobody knows, this fails only of an identifier that the object had
\* before it was given another.  And an object that goes by an identifier is
\* found by it, unless the last call about that identifier was for one object
\* while another went by it.
LinksAgree ==
  \A i \in Id, o \in Object :
    /\ i \notin outdated => (objectOf[i] = o => idOf[o] = i)
    /\ i \notin contested => (idOf[o] = i => objectOf[i] = o)

\* The destroy of an object that is gone is pending or under way until it is
\* delivered, however late its create is acknowledged.
DestroyAnnounced ==
  \A i \in doomed \ reused :
    command[i].action = "destroy" \/ \E s \in Slot : inFlight[s].id = i /\ inFlight[s].action = "destroy"

\* An update is only there to be sent while the peer has the object: its create
\* was delivered and no destroy was since.
UpdatesKnown ==
  \A i \in Id \ reused : command[i].action = "update" /\ HasDirtyState(command[i]) => i \in known

\* What a peer is told of an object is its life in the right order, also where
\* identifiers collide or come again, as long as none is given away while
\* something is pending or under way for the object that had it.
ObjectLife == DestroyAnnounced /\ UpdatesKnown
=============================================================================
