------------------------ MODULE QContactMemoryEngine ------------------------
(***************************************************************************)
(* The memory backend of the contacts API (src/src/contacts/engines/       *)
(* qcontactmemorybackend.cpp): contacts, relationships between them, the   *)
(* self contact, and the signals by which every engine that shares the     *)
(* data tells its observers what has changed (qcontactchangeset.cpp).      *)
(*                                                                         *)
(* Signals are calls: a slot runs in the middle of the operation that      *)
(* emits, and may call the engine again.  What is still to be done by the  *)
(* operations that are under way is the agenda, innermost first.           *)
(*                                                                         *)
(* Of a contact only its identifier and its cached relationships are kept, *)
(* of a relationship its two participants (one type); the lists of         *)
(* relationships are sets, for the code keeps them free of duplicates.     *)
(***************************************************************************)
EXTENDS Integers, Sequences, FiniteSets, SequencesExt

CONSTANTS
    Engine,         \* the engines that share the data
    MaxContact,     \* bound: contacts that are created
    MaxBatch,       \* bound: contacts in one call
    MaxNested,      \* bound: calls by slots during one call
    FirstUri,       \* manager URIs clients give the first participant
    SecondUri,      \* and the second one
    Copy,           \* clients save contacts "fetched" just now, or "built"
    SlotCalls       \* what slots do: "save", "remove", "relate", "self"

ASSUME ContactAssumption ==
    /\ {MaxContact, MaxBatch, MaxNested} \subseteq Nat
    /\ FirstUri \subseteq {"", "own"}
    /\ SecondUri \subseteq {"", "own", "other"}
    /\ Copy \subseteq {"fetched", "built"}
    /\ SlotCalls \subseteq {"save", "remove", "relate", "self"}

VARIABLES
    m_contacts,             \* the stored contacts, in order
    m_nextContactId,
    m_relationships,        \* all relationships
    m_orderedRelationships, \* those of each identifier
    m_selfContactId,
    m_sharedEngines,        \* the engines that exist, in order
    agenda,                 \* the work of the calls that are under way
    inSlot,                 \* a slot is running
    nested,                 \* calls by slots since the outermost call
    known,                  \* what observers know: contacts ...
    knownSelf,              \* ... and self contact
    undefined               \* memory was written that is not the engine's

store == <<m_contacts, m_nextContactId, m_relationships,
           m_orderedRelationships, m_selfContactId>>
vars == <<store, m_sharedEngines, agenda, inSlot, nested, known, knownSelf,
          undefined>>

\* The first identifier that is given out is 2.
Id == 2 .. MaxContact + 1

Participant(uris) == [uri : uris, id : Id]
Relationship == [first : Participant({"", "own"}),
                 second : Participant({"own", "other"})]

Signal == {"added", "changed", "removed", "relationshipsAdded",
           "relationshipsRemoved", "self"}
EmptyChangeSet == [added |-> {}, changed |-> {}, removed |-> {},
                   relationshipsAdded |-> {}, relationshipsRemoved |-> {},
                   oldSelf |-> 0, newSelf |-> 0]

m_contactIds == {m_contacts[i].id : i \in DOMAIN m_contacts}
IndexOf(id) == SelectInSeq(m_contacts, LAMBDA c : c.id = id)

\* Mutant: the relationships in which the contact comes first only.
FirstRoleOf(id) ==
    {r \in m_relationships : r.first = [uri |-> "own", id |-> id]}

\* relationships() for a contact of this manager, in either role.
RelationshipsOf(id) ==
    LET this == [uri |-> "own", id |-> id]
    IN  {r \in m_relationships : r.first = this \/ r.second = this}

\* Calls come from the application or from a slot that may make them.
MayCall(kind) ==
    /\ ~undefined
    /\ m_sharedEngines # <<>>
    /\ \/ agenda = <<>> /\ nested' = 0
       \/ inSlot /\ kind \in SlotCalls /\ nested < MaxNested /\ nested' = nested + 1

Working(kind) == ~undefined /\ agenda # <<>> /\ Head(agenda).do = kind

\* A signal, if it has something to say.
Some(name, ids) == IF ids = {} THEN <<>> ELSE <<[name |-> name, ids |-> ids]>>

MemTypeOK ==
    /\ m_contacts \in Seq([id : Id, related : SUBSET Relationship])
    /\ m_nextContactId \in 1 .. MaxContact + 1
    /\ m_relationships \subseteq Relationship
    /\ m_orderedRelationships \in [Id -> SUBSET Relationship]
    /\ m_selfContactId \in Id \cup {0}
    /\ m_sharedEngines \in Seq(Engine)
    /\ inSlot \in BOOLEAN
    /\ nested \in 0 .. MaxNested
    /\ known \in [Engine -> SUBSET Id]
    /\ knownSelf \in [Engine -> Id \cup {0}]
    /\ undefined \in BOOLEAN

NewData ==
    /\ m_contacts' = <<>>
    /\ m_nextContactId' = 1
    /\ m_relationships' = {}
    /\ m_orderedRelationships' = [id \in Id |-> {}]
    /\ m_selfContactId' = 0

Init ==
    /\ m_contacts = <<>>
    /\ m_nextContactId = 1
    /\ m_relationships = {}
    /\ m_orderedRelationships = [id \in Id |-> {}]
    /\ m_selfContactId = 0
    /\ m_sharedEngines = <<>>
    /\ agenda = <<>>
    /\ inSlot = FALSE
    /\ nested = 0
    /\ known = [e \in Engine |-> {}]
    /\ knownSelf = [e \in Engine |-> 0]
    /\ undefined = FALSE

-----------------------------------------------------------------------------
(* Mutants: plausible slips in the code below.                             *)

\* Observers are not told of contacts that are removed.
SignalsOfNoRemoval(cs) ==
    Some("added", cs.added) \o Some("changed", cs.changed)
    \o Some("relationshipsAdded", cs.relationshipsAdded)
    \o Some("relationshipsRemoved", cs.relationshipsRemoved)
    \o Some("self", {cs.newSelf} \ {cs.oldSelf})

\* A removed relationship that stays with its second participant.
ForgetFirstOnly(gone) ==
    m_orderedRelationships' =
        [id \in Id |-> m_orderedRelationships[id]
                          \ {r \in gone : r.first.id = id}]

\* A batch that ends at the first contact that does not exist.
StopAtUnknown(rest) == <<>>

-----------------------------------------------------------------------------
(* QContactChangeSet::emitSignals and emitSharedSignals.                   *)

\* The signals of one change set that have something to say, in order.
SignalsOf(cs) ==
    Some("added", cs.added) \o Some("changed", cs.changed)
    \o Some("removed", cs.removed)
    \o Some("relationshipsAdded", cs.relationshipsAdded)
    \o Some("relationshipsRemoved", cs.relationshipsRemoved)
    \o Some("self", {cs.newSelf} \ {cs.oldSelf})

\* To one engine after the other, as they are listed at the beginning.
emitSharedSignals(cs) ==
    IF SignalsOf(cs) = <<>> THEN <<>>
    ELSE [i \in DOMAIN m_sharedEngines |->
             [do |-> "emit", engine |-> m_sharedEngines[i],
              signals |-> SignalsOf(cs)]]

\* The engine emits its next signal: an observer that keeps a list of the
\* contacts takes note, and the slots run.
Deliver ==
    LET work == Head(agenda)
        s == Head(work.signals)
        left == IF Len(work.signals) = 1 THEN <<>>
                ELSE <<[work EXCEPT !.signals = Tail(@)]>>
    IN  /\ Working("emit")
        /\ known' = [known EXCEPT ![work.engine] =
                          IF s.name = "added" THEN @ \cup s.ids
                          ELSE IF s.name = "removed" THEN @ \ s.ids ELSE @]
        /\ knownSelf' = [knownSelf EXCEPT ![work.engine] =
                          IF s.name = "self" THEN CHOOSE id \in s.ids : TRUE
                          ELSE @]
        /\ agenda' = left \o Tail(agenda)
        /\ inSlot' = TRUE
        /\ UNCHANGED <<store, m_sharedEngines, nested, undefined>>

-----------------------------------------------------------------------------
(* Engines.                                                                *)

\* createMemoryEngine with the id of the shared data, and an observer that
\* asks for what there is.
createMemoryEngine(e) ==
    /\ ~undefined /\ agenda = <<>>
    /\ e \notin ToSet(m_sharedEngines)
    /\ m_sharedEngines' = Append(m_sharedEngines, e)
    /\ known' = [known EXCEPT ![e] = m_contactIds]
    /\ knownSelf' = [knownSelf EXCEPT ![e] = m_selfContactId]
    /\ UNCHANGED <<store, agenda, inSlot, nested, undefined>>

\* The destructor: the engine is in the list once, and the data goes with the
\* last one.
destroyEngine(e) ==
    /\ ~undefined /\ agenda = <<>>
    /\ e \in ToSet(m_sharedEngines)
    /\ m_sharedEngines' = RemoveFirst(m_sharedEngines, e)
    /\ IF m_sharedEngines' = <<>> THEN NewData ELSE UNCHANGED store
    /\ known' = [known EXCEPT ![e] = {}]
    /\ knownSelf' = [knownSelf EXCEPT ![e] = 0]
    /\ UNCHANGED <<agenda, inSlot, nested, undefined>>

-----------------------------------------------------------------------------
(* Contacts.                                                               *)

\* saveContacts: each contact of the list is stored, a new one (0) under the
\* next identifier; one that is unknown is an error and is passed over.
saveContacts(list, copy) ==
    LET known0 == ToSet(list) \cap m_contactIds
        fresh == Cardinality({i \in DOMAIN list : list[i] = 0})
        new == [i \in 1 .. fresh |-> [id |-> m_nextContactId + i, related |-> {}]]
        cs == [EmptyChangeSet EXCEPT !.added = {new[i].id : i \in 1 .. fresh},
                                     !.changed = known0]
    IN  /\ MayCall("save")
        /\ m_nextContactId + fresh <= MaxContact + 1
        /\ m_nextContactId' = m_nextContactId + fresh
        /\ m_contacts' =
              [i \in DOMAIN m_contacts |->
                  IF m_contacts[i].id \in known0 /\ copy = "built"
                  THEN [m_contacts[i] EXCEPT !.related = {}] ELSE m_contacts[i]]
              \o new
        /\ agenda' = emitSharedSignals(cs) \o agenda
        /\ inSlot' = FALSE
        /\ UNCHANGED <<m_relationships, m_orderedRelationships, m_selfContactId,
                       m_sharedEngines, known, knownSelf, undefined>>

setSelfContactId(id) ==
    /\ MayCall("self")
    /\ id \in m_contactIds \cup {0}
    /\ m_selfContactId' = id
    /\ agenda' = emitSharedSignals([EmptyChangeSet EXCEPT
                    !.oldSelf = m_selfContactId, !.newSelf = id]) \o agenda
    /\ inSlot' = FALSE
    /\ UNCHANGED <<m_contacts, m_nextContactId, m_relationships,
                   m_orderedRelationships, m_sharedEngines, known, knownSelf,
                   undefined>>

\* removeContacts: a loop over the list, in which removeContact is called.
removeContacts(list) ==
    /\ MayCall("remove")
    /\ agenda' = <<[do |-> "remove", asked |-> ToSet(list) \cap m_contactIds,
                    rest |-> list, cs |-> EmptyChangeSet]>> \o agenda
    /\ inSlot' = FALSE
    /\ UNCHANGED <<store, m_sharedEngines, known, knownSelf, undefined>>

\* The rest of the list after a contact that does not exist.
PassOver(rest) == Tail(rest)

RemoveUnknown ==
    /\ Working("remove")
    /\ Head(agenda).rest # <<>>
    /\ Head(Head(agenda).rest) \notin m_contactIds
    /\ agenda' = <<[Head(agenda) EXCEPT !.rest = PassOver(@)]>> \o Tail(agenda)
    /\ inSlot' = FALSE
    /\ UNCHANGED <<store, m_sharedEngines, nested, known, knownSelf, undefined>>

\* Relationships that are removed leave the lists of their participants and
\* the contacts' caches.
Forget(gone) ==
    m_orderedRelationships' =
        [id \in Id |-> m_orderedRelationships[id]
                          \ {r \in gone : r.first.id = id \/ r.second.id = id}]

StripCaches(gone) ==
    m_contacts' = [i \in DOMAIN m_contacts |->
        LET id == m_contacts[i].id
            mine == {r \in gone : r.first.id = id
                                  \/ r.second = [uri |-> "own", id |-> id]}
        IN  IF mine = {} THEN m_contacts[i]
            ELSE [m_contacts[i] EXCEPT !.related = m_orderedRelationships'[id]]]

\* removeRelationships, as a part of two operations: its signals.
DropRelationships(gone) ==
    /\ m_relationships' = m_relationships \ gone
    /\ Forget(gone)
    /\ StripCaches(gone)

RemovedSignals(gone) ==
    emitSharedSignals([EmptyChangeSet EXCEPT !.relationshipsRemoved =
        {r.first.id : r \in gone} \cup {r.second.id : r \in gone}])

\* removeContact finds the contact's place in the list, and removes its
\* relationships, which is signalled at once.
RemoveBegins ==
    /\ Working("remove")
    /\ Head(agenda).rest # <<>>
    /\ LET id == Head(Head(agenda).rest)
       IN  /\ id \in m_contactIds
           /\ DropRelationships(RelationshipsOf(id))
           /\ agenda' = RemovedSignals(RelationshipsOf(id))
                        \o <<[do |-> "erase", id |-> id, index |-> IndexOf(id)]>>
                        \o agenda
    /\ inSlot' = FALSE
    /\ UNCHANGED <<m_nextContactId, m_selfContactId, m_sharedEngines, nested,
                   known, knownSelf, undefined>>

\* Removing the self contact leaves none.
ResetSelf(id) == m_selfContactId' = IF m_selfContactId = id THEN 0 ELSE m_selfContactId

\* The second half: the contact at that place is removed (QList::removeAt
\* ignores an index that is not in the list any more).
RemoveEnds ==
    LET work == Head(agenda)
        loop == agenda[2]
    IN  /\ Working("erase")
        /\ m_contacts' = IF work.index \notin DOMAIN m_contacts THEN m_contacts
                         ELSE RemoveAt(m_contacts, work.index)
        /\ ResetSelf(work.id)
        /\ agenda' = <<[loop EXCEPT
                !.rest = Tail(@),
                !.cs.removed = @ \cup {work.id},
                !.cs.oldSelf = IF m_selfContactId = work.id THEN work.id ELSE @]>>
              \o SubSeq(agenda, 3, Len(agenda))
        /\ inSlot' = FALSE
        /\ UNCHANGED <<m_nextContactId, m_relationships, m_orderedRelationships,
                       m_sharedEngines, nested, known, knownSelf, undefined>>

\* The loop is done: everything it has removed is signalled.
RemoveDone ==
    /\ Working("remove")
    /\ Head(agenda).rest = <<>>
    /\ agenda' = emitSharedSignals(Head(agenda).cs) \o Tail(agenda)
    /\ inSlot' = FALSE
    /\ UNCHANGED <<store, m_sharedEngines, nested, known, knownSelf, undefined>>

-----------------------------------------------------------------------------
(* Relationships.                                                          *)

\* An empty manager URI of the second participant means this manager.
FillIn(second) == IF second.uri = "" THEN [second EXCEPT !.uri = "own"] ELSE second

\* saveRelationship: the first contact must be here; the second too, unless
\* it is said to be in another manager; an empty second URI is filled in.
\* The relationship is entered with the identifiers of both participants,
\* and with the contacts that have them, whichever manager was meant.
saveRelationship(first, second0) ==
    LET second == FillIn(second0)
        r == [first |-> first, second |-> second]
        both == {first.id, second.id}
    IN  /\ MayCall("relate")
        /\ first.id \in m_contactIds
        /\ second.uri = "own" => second.id \in m_contactIds \ {first.id}
        /\ r \notin m_relationships
        /\ m_relationships' = m_relationships \cup {r}
        /\ m_orderedRelationships' =
              [id \in Id |-> IF id \in both THEN m_orderedRelationships[id] \cup {r}
                             ELSE m_orderedRelationships[id]]
        /\ m_contacts' = [i \in DOMAIN m_contacts |->
              IF m_contacts[i].id \in both
              THEN [m_contacts[i] EXCEPT
                      !.related = m_orderedRelationships'[m_contacts[i].id]]
              ELSE m_contacts[i]]
        /\ undefined' = (second.id \notin m_contactIds)
        /\ agenda' = emitSharedSignals([EmptyChangeSet EXCEPT
                        !.relationshipsAdded = both]) \o agenda
        /\ inSlot' = FALSE
        /\ UNCHANGED <<m_nextContactId, m_selfContactId, m_sharedEngines, known,
                       knownSelf>>

removeRelationships(gone) ==
    /\ MayCall("relate")
    /\ gone \subseteq m_relationships /\ gone # {}
    /\ DropRelationships(gone)
    /\ agenda' = RemovedSignals(gone) \o agenda
    /\ inSlot' = FALSE
    /\ UNCHANGED <<m_nextContactId, m_selfContactId, m_sharedEngines, known,
                   knownSelf, undefined>>

-----------------------------------------------------------------------------
Batches(ids) == BoundedSeq(ids, MaxBatch) \ {<<>>}

Next ==
    \/ \E e \in Engine : createMemoryEngine(e) \/ destroyEngine(e)
    \/ \E list \in Batches(Id \cup {0}), copy \in Copy : saveContacts(list, copy)
    \/ \E list \in Batches(Id) : removeContacts(list)
    \/ \E id \in Id \cup {0} : setSelfContactId(id)
    \/ \E first \in Participant(FirstUri), second \in Participant(SecondUri) :
          saveRelationship(first, second)
    \/ \E gone \in SUBSET m_relationships : removeRelationships(gone)
    \/ Deliver
    \/ RemoveUnknown \/ RemoveBegins \/ RemoveEnds \/ RemoveDone

MemSpec == Init /\ [][Next]_vars

-----------------------------------------------------------------------------
(* Properties.                                                             *)

\* The three places where a relationship is kept agree: the list of all, the
\* ordered lists of its participants, and the contacts themselves.
RelationshipsAgree ==
    \A i \in DOMAIN m_contacts :
        LET id == m_contacts[i].id
        IN  /\ m_orderedRelationships[id] = RelationshipsOf(id)
            /\ m_contacts[i].related = RelationshipsOf(id)

\* Between calls, an observer of any engine that has followed the signals
\* knows which contacts there are, and which of them is the self contact.
ObserversKnow ==
    agenda = <<>> =>
        \A e \in ToSet(m_sharedEngines) :
            /\ known[e] = m_contactIds
            /\ knownSelf[e] = m_selfContactId

\* When removeContacts comes to its end none of the contacts it was asked to
\* remove is left, although some of the list did not exist, and those it is
\* about to report as removed are gone.
RemovesAllAsked ==
    agenda # <<>> /\ Head(agenda).do = "remove" /\ Head(agenda).rest = <<>> =>
        (Head(agenda).asked \cup Head(agenda).cs.removed) \cap m_contactIds = {}

\* "Remove the contact identified by contactId from the database, and also
\* removes any relationships in which the contact was involved."
\* (qcontactmanager.cpp:595): no relationship is left of a contact of this
\* manager that is not there.
NoDanglingRelationship ==
    \A r \in m_relationships :
        /\ r.first.id \in m_contactIds
        /\ r.second.uri = "own" => r.second.id \in m_contactIds
=============================================================================
