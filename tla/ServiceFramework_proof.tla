------------------------ MODULE ServiceFramework_proof ------------------------
(***************************************************************************)
(* Proofs about the two halves of the remote services.                     *)
(*                                                                         *)
(* InstanceManager, for any finite set of clients and any sets of servers  *)
(* and services: what a server has counted is what its clients hold, a     *)
(* proxy has its instance, and a server that ends of its own accord leaves *)
(* nobody with a proxy.                                                    *)
(*                                                                         *)
(* ObjectEndPoint, for any number of calls and signals between a proxy and *)
(* its object: each result goes to its request, the table of responses is  *)
(* exact, and a client that makes one call after another is safe.          *)
(***************************************************************************)
EXTENDS InstanceManager, ObjectEndPoint, FiniteSetTheorems, TLAPS

(***************************************************************************)
(* I.  Instances of services.                                              *)
(***************************************************************************)

-----------------------------------------------------------------------------
(* The inductive invariant.                                                *)

\* A connection has two ends or none; only one that is open carries
\* packages or has an instance.
LinkHasEnds ==
    \A c \in Client :
        IF client[c] \in Connected
        THEN link[c].server \in Server /\ process[link[c].server] = "up"
        ELSE link[c].server = None /\ package[c] = "none" /\ endPoint[c] = 0

\* What the client is told is what the server has done.
AnswerMatches ==
    \A c \in Client :
        /\ package[c] \in {"request", "failed"} => endPoint[c] = 0
        /\ package[c] = "success" => endPoint[c] # 0
        /\ client[c] = "proxy" => endPoint[c] # 0

\* No identifier in use will be given out again.
IdentifiersOld == \A c \in Client : endPoint[c] <= created

IInv ==
    /\ IMTypeOK
    /\ LinkHasEnds
    /\ AnswerMatches
    /\ IdentifiersOld
    /\ InstancesCounted

-----------------------------------------------------------------------------
(* One descriptor.                                                         *)

Descriptor == [globalInstance : Nat, globalRefCount : Nat,
               individualInstances : SUBSET Nat]

LEMMA UsersFinite ==
    ASSUME NEW s, NEW e
    PROVE  IsFiniteSet(Users(s, e))
BY InstanceAssumption, FS_Subset DEF Users

\* Whether a descriptor accounts for its users depends on their identifiers
\* alone.
LEMMA CountsFrame ==
    ASSUME NEW d, NEW e, NEW users, NEW ids, NEW jds,
           \A c \in users : ids[c] = jds[c],
           Counts(d, e, users, ids)
    PROVE  Counts(d, e, users, jds)
<1>1. {ids[c] : c \in users} = {jds[c] : c \in users}
  OBVIOUS
<1>2. QED
  BY <1>1 DEF Counts

\* createObjectInstance accounts for one user more.
LEMMA CreateCounts ==
    ASSUME NEW d \in Descriptor, NEW e \in Entry, NEW users,
           IsFiniteSet(users), NEW ids, NEW jds, NEW c, c \notin users,
           NEW id \in Nat \ {0}, \A b \in users : ids[b] < id,
           \A b \in users : ids[b] \in Nat,
           \A b \in users : jds[b] = ids[b],
           jds[c] = instanceIdOf(d, e, id),
           Counts(d, e, users, ids)
    PROVE  Counts(createObjectInstance(d, e, id), e, users \cup {c}, jds)
<1> DEFINE new == createObjectInstance(d, e, id)
<1>1. CASE e \in GlobalEntry
  <2>1. Cardinality(users \cup {c}) = Cardinality(users) + 1
    BY FS_AddElement
  <2>2. Cardinality(users) \in Nat
    BY FS_CardinalityType
  <2>3. CASE d.globalInstance # 0
    <3>1. new = [d EXCEPT !.globalRefCount = @ + 1]
      BY <1>1, <2>3 DEF createObjectInstance, ShareGlobal
    <3>2. jds[c] = d.globalInstance
      BY <1>1, <2>3 DEF instanceIdOf
    <3>3. QED
      BY <1>1, <2>1, <2>3, <3>1, <3>2 DEF Counts, Descriptor
  <2>4. CASE d.globalInstance = 0
    <3>1. new = [d EXCEPT !.globalInstance = id, !.globalRefCount = 1]
      BY <1>1, <2>4 DEF createObjectInstance, ShareGlobal
    <3>2. jds[c] = id
      BY <2>4 DEF instanceIdOf
    <3>3. users = {} /\ Cardinality(users) = 0
      BY <1>1, <2>4, FS_EmptySet DEF Counts
    <3>4. QED
      BY <1>1, <2>1, <3>1, <3>2, <3>3 DEF Counts, Descriptor
  <2>5. QED
    BY <2>3, <2>4
<1>2. CASE e \notin GlobalEntry
  <2>1. new = [d EXCEPT !.individualInstances = @ \cup {id}]
    BY <1>2 DEF createObjectInstance, AddIndividual
  <2>2. jds[c] = id
    BY <1>2 DEF instanceIdOf
  <2>3. {jds[b] : b \in users \cup {c}} = {ids[b] : b \in users} \cup {id}
    BY <2>2
  <2>4. \A a, b \in users \cup {c} : jds[a] = jds[b] => a = b
    BY <1>2, <2>2 DEF Counts
  <2>5. QED
    BY <1>2, <2>1, <2>3, <2>4 DEF Counts, Descriptor
<1>3. QED
  BY <1>1, <1>2

\* removeObjectInstance accounts for one user less.
LEMMA RemoveCounts ==
    ASSUME NEW d \in Descriptor, NEW e \in Entry, NEW users,
           IsFiniteSet(users), NEW ids, NEW c \in users,
           Counts(d, e, users, ids)
    PROVE  Counts(removeObjectInstance(d, e, ids[c]), e, users \ {c}, ids)
<1> DEFINE new == removeObjectInstance(d, e, ids[c])
<1>1. CASE e \in GlobalEntry
  <2>1. /\ Cardinality(users \ {c}) = Cardinality(users) - 1
        /\ IsFiniteSet(users \ {c})
    BY FS_RemoveElement
  <2>2. d.globalRefCount \in Nat /\ d.globalRefCount = Cardinality(users)
    BY <1>1 DEF Counts, Descriptor
  <2>3. d.globalRefCount # 0
    BY <2>2, FS_EmptySet
  <2>4. users \ {c} = {} <=> d.globalRefCount = 1
    BY <2>1, <2>2, FS_EmptySet
  <2>5. CASE d.globalRefCount = 1
    <3>1. new = [d EXCEPT !.globalInstance = 0, !.globalRefCount = 0]
      BY <1>1, <2>5 DEF removeObjectInstance, ReleaseGlobal
    <3>2. QED
      BY <1>1, <2>1, <2>2, <2>4, <2>5, <3>1 DEF Counts, Descriptor
  <2>6. CASE d.globalRefCount # 1
    <3>1. new = [d EXCEPT !.globalRefCount = @ - 1]
      BY <1>1, <2>2, <2>3, <2>6 DEF removeObjectInstance, ReleaseGlobal
    <3>2. QED
      BY <1>1, <2>1, <2>2, <2>4, <2>6, <3>1 DEF Counts, Descriptor
  <2>7. QED
    BY <2>5, <2>6
<1>2. CASE e \notin GlobalEntry
  <2>1. new = [d EXCEPT !.individualInstances = @ \ {ids[c]}]
    BY <1>2 DEF removeObjectInstance, TakeIndividual
  <2>2. {ids[b] : b \in users \ {c}} = {ids[b] : b \in users} \ {ids[c]}
    BY <1>2 DEF Counts
  <2>3. QED
    BY <1>2, <2>1, <2>2 DEF Counts, Descriptor
<1>3. QED
  BY <1>1, <1>2

LEMMA NobodyCounts ==
    ASSUME NEW e, NEW ids
    PROVE  Counts(Unused, e, {}, ids)
BY FS_EmptySet DEF Counts, Unused

\* The results are descriptors.
LEMMA DescriptorType ==
    ASSUME NEW d \in Descriptor, NEW e, NEW id \in Nat
    PROVE  /\ createObjectInstance(d, e, id) \in Descriptor
           /\ removeObjectInstance(d, e, id) \in Descriptor
           /\ instanceIdOf(d, e, id) \in Nat
           /\ Unused \in Descriptor
<1>1. /\ d.globalInstance \in Nat /\ d.globalRefCount \in Nat
      /\ d.individualInstances \in SUBSET Nat
      /\ d.individualInstances \cup {id} \in SUBSET Nat
      /\ d.individualInstances \ {id} \in SUBSET Nat
  BY DEF Descriptor
<1>2. /\ [d EXCEPT !.globalRefCount = d.globalRefCount + 1] \in Descriptor
      /\ [d EXCEPT !.globalInstance = id, !.globalRefCount = 1] \in Descriptor
      /\ [d EXCEPT !.globalInstance = 0, !.globalRefCount = 0] \in Descriptor
      /\ [d EXCEPT !.individualInstances = @ \cup {id}] \in Descriptor
      /\ [d EXCEPT !.individualInstances = @ \ {id}] \in Descriptor
      /\ d.globalRefCount > 1 =>
            [d EXCEPT !.globalRefCount = d.globalRefCount - 1] \in Descriptor
  <2>1. [d EXCEPT !.globalRefCount = d.globalRefCount + 1] \in Descriptor
    BY <1>1 DEF Descriptor
  <2>2. [d EXCEPT !.globalInstance = id, !.globalRefCount = 1] \in Descriptor
    BY <1>1 DEF Descriptor
  <2>3. [d EXCEPT !.globalInstance = 0, !.globalRefCount = 0] \in Descriptor
    BY <1>1 DEF Descriptor
  <2>4. [d EXCEPT !.individualInstances = @ \cup {id}] \in Descriptor
    BY <1>1 DEF Descriptor
  <2>5. [d EXCEPT !.individualInstances = @ \ {id}] \in Descriptor
    BY <1>1 DEF Descriptor
  <2>6. ASSUME d.globalRefCount > 1
        PROVE  [d EXCEPT !.globalRefCount = d.globalRefCount - 1] \in Descriptor
    BY <1>1, <2>6 DEF Descriptor
  <2>7. QED
    BY <2>1, <2>2, <2>3, <2>4, <2>5, <2>6
<1>3. ShareGlobal(d, id) \in Descriptor /\ AddIndividual(d, id) \in Descriptor
  BY <1>2 DEF ShareGlobal, AddIndividual
<1>4. ReleaseGlobal(d) \in Descriptor
  BY <1>1, <1>2 DEF ReleaseGlobal
<1>5. TakeIndividual(d, id) \in Descriptor
  BY <1>1, <1>2 DEF TakeIndividual
<1>6. instanceIdOf(d, e, id) \in Nat /\ Unused \in Descriptor
  BY <1>1 DEF instanceIdOf, Unused, Descriptor
<1>7. QED
  BY <1>3, <1>4, <1>5, <1>6 DEF createObjectInstance, removeObjectInstance

-----------------------------------------------------------------------------
(* Steps of the whole system.                                              *)

\* A step that leaves the instances alone, and the links of those who have
\* one, leaves every account right.
LEMMA AccountsFrame ==
    ASSUME InstancesCounted, metaMap' = metaMap, endPoint' = endPoint,
           \A c \in Client : endPoint[c] # 0 => link'[c] = link[c]
    PROVE  InstancesCounted'
<1>1. \A s, e : Users(s, e)' = Users(s, e)
  BY DEF Users
<1>2. QED
  BY <1>1 DEF InstancesCounted, Counts

\* The accounts of the descriptors that a step does not touch.
LEMMA OthersFrame ==
    ASSUME InstancesCounted,
           NEW s \in Server, NEW e \in Entry,
           metaMap'[s][e] = metaMap[s][e],
           Users(s, e)' = Users(s, e),
           \A c \in Users(s, e) : endPoint'[c] = endPoint[c]
    PROVE  Counts(metaMap[s][e], e, Users(s, e), endPoint)'
<1>1. Counts(metaMap[s][e], e, Users(s, e), endPoint)
  BY DEF InstancesCounted
<1>2. Counts(metaMap[s][e], e, Users(s, e), endPoint')
  BY <1>1, CountsFrame
<1>3. QED
  BY <1>2 DEF Counts

LEMMA TypeOfMap ==
    ASSUME IMTypeOK, NEW s \in Server
    PROVE  /\ metaMap[s] \in [Entry -> Descriptor]
           /\ \A e \in Entry : metaMap[s][e] \in Descriptor
           /\ [e \in Entry |-> Unused] \in [Entry -> Descriptor]
BY DEF IMTypeOK, Descriptor, Unused

LEMMA InitInv == Init => IInv
<1> SUFFICES ASSUME Init PROVE IInv
  OBVIOUS
<1>1. IMTypeOK
  BY InstanceAssumption DEF Init, IMTypeOK, ProcessState, ClientState, Unused
<1>2. LinkHasEnds /\ AnswerMatches /\ IdentifiersOld
  BY DEF Init, LinkHasEnds, AnswerMatches, IdentifiersOld, Connected
<1>3. InstancesCounted
  <2>1. \A s, e : Users(s, e) = {}
    BY DEF Init, Users
  <2>2. \A s \in Server, e \in Entry : metaMap[s][e] = Unused
    BY DEF Init
  <2>3. QED
    BY <2>1, <2>2, NobodyCounts DEF InstancesCounted
<1>4. QED
  BY <1>1, <1>2, <1>3 DEF IInv

\* The steps of clients and of starting servers.
LEMMA ConnectInv ==
    ASSUME IInv, NEW c \in Client, NEW e \in Entry, ConnectTo(c, e),
           client[c] \in {"idle", "polling"}
    PROVE  IInv'
<1>1. endPoint[c] = 0
  BY DEF IInv, LinkHasEnds, Connected
<1>2. IMTypeOK'
  BY DEF IInv, IMTypeOK, ConnectTo, serverVars, ClientState, Listening
<1>3. LinkHasEnds' /\ AnswerMatches' /\ IdentifiersOld'
  BY <1>1, InstanceAssumption DEF IInv, IMTypeOK, ConnectTo, serverVars,
     Listening, LinkHasEnds, AnswerMatches, IdentifiersOld, Connected
<1>4. InstancesCounted'
  BY <1>1, AccountsFrame DEF IInv, IMTypeOK, ConnectTo
<1>5. QED
  BY <1>2, <1>3, <1>4 DEF IInv

LEMMA ClientStepInv ==
    ASSUME IInv, NEW c \in Client,
           \/ PollGivesUp(c) \/ ProxyReady(c) \/ RequestTimesOut(c)
           \/ LateAnswer(c) \/ Close(c) \/ GiveUpProxy(c)
    PROVE  IInv'
<1> USE DEF PollGivesUp, ProxyReady, RequestTimesOut, LateAnswer, Close,
            GiveUpProxy, serverVars
<1>1. IMTypeOK'
  BY DEF IInv, IMTypeOK, ClientState
<1>2. LinkHasEnds'
  BY DEF IInv, IMTypeOK, LinkHasEnds, Connected
<1>3. AnswerMatches' /\ IdentifiersOld'
  BY DEF IInv, IMTypeOK, AnswerMatches, IdentifiersOld
<1>4. InstancesCounted'
  BY AccountsFrame DEF IInv
<1>5. QED
  BY <1>1, <1>2, <1>3, <1>4 DEF IInv

LEMMA StartInv ==
    ASSUME IInv, NEW s \in Server,
           \/ \E c \in Client, e \in Entry : StartServer(c, e, s)
           \/ RemoveServer(s) \/ Listen(s)
    PROVE  IInv'
<1>1. CASE \E c \in Client, e \in Entry : StartServer(c, e, s)
  <2>1. PICK c \in Client, e \in Entry : StartServer(c, e, s)
    BY <1>1
  <2> USE DEF StartServer
  <2>2. endPoint[c] = 0
    BY <2>1 DEF IInv, LinkHasEnds, Connected
  <2>3. IMTypeOK'
    BY <2>1 DEF IInv, IMTypeOK, ProcessState, ClientState
  <2>4. LinkHasEnds'
    BY <2>1, <2>2 DEF IInv, IMTypeOK, LinkHasEnds, Connected
  <2>5. AnswerMatches' /\ IdentifiersOld'
    BY <2>1 DEF IInv, IMTypeOK, AnswerMatches, IdentifiersOld
  <2>6. InstancesCounted'
    BY <2>1, <2>2, AccountsFrame DEF IInv, IMTypeOK
  <2>7. QED
    BY <2>3, <2>4, <2>5, <2>6 DEF IInv
<1>2. CASE RemoveServer(s) \/ Listen(s)
  <2> USE DEF RemoveServer, Listen
  <2>1. IMTypeOK'
    BY <1>2 DEF IInv, IMTypeOK, ProcessState
  <2>2. LinkHasEnds' /\ AnswerMatches' /\ IdentifiersOld'
    BY <1>2 DEF IInv, IMTypeOK, LinkHasEnds, AnswerMatches, IdentifiersOld
  <2>3. InstancesCounted'
    BY <1>2, AccountsFrame DEF IInv
  <2>4. QED
    BY <2>1, <2>2, <2>3 DEF IInv
<1>3. QED
  BY <1>1, <1>2

\* The steps of a serving process.
LEMMA ServeInv ==
    ASSUME IInv, NEW c \in Client, ServeRequest(c)
    PROVE  IInv'
<1> DEFINE s == link[c].server
           e == link[c].entry
           d == metaMap[s][e]
           id == created + 1
<1>1. /\ s \in Server /\ e \in Entry /\ d \in Descriptor
      /\ created \in Nat /\ id \in Nat \ {0}
      /\ endPoint[c] = 0
      /\ process[s] = "up"
  BY TypeOfMap DEF IInv, IMTypeOK, ServeRequest, LinkHasEnds, AnswerMatches
<1>2. /\ metaMap' = [metaMap EXCEPT ![s][e] = createObjectInstance(d, e, id)]
      /\ endPoint' = [endPoint EXCEPT ![c] = instanceIdOf(d, e, id)]
      /\ created' = IF instanceIdOf(d, e, id) = id THEN id ELSE created
      /\ package' = [package EXCEPT ![c] = "success"]
      /\ UNCHANGED <<process, listener, client, link>>
  BY DEF ServeRequest, serverVars
<1>3. IMTypeOK'
  <2>1. /\ createObjectInstance(d, e, id) \in Descriptor
        /\ instanceIdOf(d, e, id) \in Nat
    BY <1>1, DescriptorType
  <2>2. metaMap' \in [Server -> [Entry -> Descriptor]]
    BY <1>1, <1>2, <2>1, TypeOfMap DEF IInv, IMTypeOK, Descriptor
  <2>3. QED
    BY <1>1, <1>2, <2>1, <2>2 DEF IInv, IMTypeOK, Descriptor
<1>4. /\ d.globalInstance # 0 /\ e \in GlobalEntry =>
            \E b \in Users(s, e) : endPoint[b] = d.globalInstance
      /\ instanceIdOf(d, e, id) # 0
      /\ instanceIdOf(d, e, id) <= created'
  <2>1. Counts(d, e, Users(s, e), endPoint)
    BY <1>1 DEF IInv, InstancesCounted
  <2>2. d.globalInstance # 0 /\ e \in GlobalEntry =>
            \E b \in Users(s, e) : endPoint[b] = d.globalInstance
    BY <2>1 DEF Counts
  <2>3. d.globalInstance # 0 /\ e \in GlobalEntry =>
            d.globalInstance <= created
    BY <2>2 DEF Users, IInv, IdentifiersOld
  <2>4. d.globalInstance \in Nat
    BY <1>1 DEF Descriptor
  <2>5. QED
    BY <1>1, <1>2, <2>2, <2>3, <2>4 DEF instanceIdOf
<1>5. LinkHasEnds'
  BY <1>1, <1>2 DEF IInv, IMTypeOK, LinkHasEnds, ServeRequest
<1>6. AnswerMatches'
  BY <1>1, <1>2, <1>4 DEF IInv, IMTypeOK, AnswerMatches
<1>7. IdentifiersOld'
  <2>1. created' \in Nat /\ created <= created'
    BY <1>1, <1>2
  <2>2. \A b \in Client : endPoint[b] \in Nat /\ endPoint[b] <= created
    BY DEF IInv, IMTypeOK, IdentifiersOld
  <2>3. QED
    BY <1>1, <1>2, <1>4, <2>1, <2>2 DEF IInv, IMTypeOK, IdentifiersOld
<1>8. InstancesCounted'
  <2> SUFFICES ASSUME NEW t \in Server, NEW f \in Entry
               PROVE  Counts(metaMap[t][f], f, Users(t, f), endPoint)'
    BY DEF InstancesCounted
  <2>1. CASE t = s /\ f = e
    <3>1. Users(s, e)' = Users(s, e) \cup {c}
      BY <1>1, <1>2, <1>4 DEF Users, IInv, IMTypeOK
    <3>2. c \notin Users(s, e)
      BY <1>1 DEF Users
    <3>3. metaMap'[s][e] = createObjectInstance(d, e, id)
      BY <1>1, <1>2 DEF IInv, IMTypeOK
    <3>4. \A b \in Users(s, e) :
              /\ endPoint[b] < id
              /\ endPoint[b] \in Nat
              /\ endPoint'[b] = endPoint[b]
      BY <1>1, <1>2, <3>2 DEF Users, IInv, IMTypeOK, IdentifiersOld
    <3>5. endPoint'[c] = instanceIdOf(d, e, id)
      BY <1>2 DEF IInv, IMTypeOK
    <3>6. Counts(d, e, Users(s, e), endPoint)
      BY <1>1 DEF IInv, InstancesCounted
    <3>7. IsFiniteSet(Users(s, e))
      BY UsersFinite
    <3>8. Counts(createObjectInstance(d, e, id), e, Users(s, e) \cup {c},
                 endPoint')
      <4> HIDE DEF s, e, d, id
      <4> DEFINE users == Users(s, e)
      <4> HIDE DEF users
      <4>1. /\ IsFiniteSet(users) /\ c \notin users
            /\ Counts(d, e, users, endPoint)
            /\ \A b \in users : /\ endPoint[b] < id
                               /\ endPoint[b] \in Nat
                               /\ endPoint'[b] = endPoint[b]
        BY <3>2, <3>4, <3>6, <3>7 DEF users
      <4>2. Counts(createObjectInstance(d, e, id), e, users \cup {c}, endPoint')
        BY <1>1, <3>5, <4>1, CreateCounts
      <4>3. QED
        BY <4>2 DEF users
    <3>9. Counts(metaMap'[t][f], f, Users(t, f)', endPoint')
      BY <1>2, <2>1, <3>1, <3>3, <3>8
    <3>10. QED
      BY <3>9 DEF Counts
  <2>2. CASE ~(t = s /\ f = e)
    <3>1. metaMap'[t][f] = metaMap[t][f]
      BY <1>1, <1>2, <2>2 DEF IInv, IMTypeOK
    <3>2. Users(t, f)' = Users(t, f)
      BY <1>1, <1>2, <2>2 DEF Users, IInv, IMTypeOK
    <3>3. \A b \in Users(t, f) : endPoint'[b] = endPoint[b]
      BY <1>1, <1>2, <2>2 DEF Users, IInv, IMTypeOK
    <3>4. QED
      BY <3>1, <3>2, <3>3, OthersFrame DEF IInv
  <2>3. QED
    BY <2>1, <2>2
<1>9. QED
  BY <1>3, <1>5, <1>6, <1>7, <1>8 DEF IInv

LEMMA RefuseInv ==
    ASSUME IInv, NEW c \in Client, RefuseRequest(c)
    PROVE  IInv'
<1> USE DEF RefuseRequest, serverVars
<1>1. IMTypeOK'
  BY DEF IInv, IMTypeOK
<1>2. LinkHasEnds' /\ AnswerMatches' /\ IdentifiersOld'
  BY DEF IInv, IMTypeOK, LinkHasEnds, AnswerMatches, IdentifiersOld
<1>3. InstancesCounted'
  BY AccountsFrame DEF IInv
<1>4. QED
  BY <1>1, <1>2, <1>3 DEF IInv

\* The accounts of a server whose client c has gone, before the end point is
\* struck from it.
LEMMA WithoutCounts ==
    ASSUME IInv, NEW c \in Client, client[c] = "closed"
    PROVE  /\ link[c].server \in Server
           /\ Without(c) \in [Entry -> Descriptor]
           /\ \A f \in Entry :
                Counts(Without(c)[f], f, Users(link[c].server, f) \ {c}, endPoint)
<1> DEFINE s == link[c].server
           e == link[c].entry
<1>1. /\ s \in Server /\ e \in Entry
      /\ metaMap[s] \in [Entry -> Descriptor] /\ metaMap[s][e] \in Descriptor
      /\ endPoint[c] \in Nat
  BY TypeOfMap DEF IInv, IMTypeOK, LinkHasEnds, Connected
<1>2. \A f \in Entry : Counts(metaMap[s][f], f, Users(s, f), endPoint)
  BY <1>1 DEF IInv, InstancesCounted
<1>3. CASE endPoint[c] = 0
  <2>1. Without(c) = metaMap[s] /\ \A f : c \notin Users(s, f)
    BY <1>3 DEF Without, Users
  <2>2. \A f : Users(s, f) \ {c} = Users(s, f)
    BY <2>1
  <2>3. QED
    BY <1>1, <1>2, <2>1, <2>2
<1>4. CASE endPoint[c] # 0
  <2> DEFINE rest == removeObjectInstance(metaMap[s][e], e, endPoint[c])
  <2>1. Without(c) = [metaMap[s] EXCEPT ![e] = rest]
    BY <1>4 DEF Without
  <2>2. c \in Users(s, e)
    BY <1>4 DEF Users
  <2>. IsFiniteSet(Users(s, e))
    BY UsersFinite
  <2>3. Counts(rest, e, Users(s, e) \ {c}, endPoint)
    BY <1>1, <1>2, <2>2, RemoveCounts
  <2>4. rest \in Descriptor
    BY <1>1, DescriptorType
  <2>5. ASSUME NEW f \in Entry
        PROVE  Counts(Without(c)[f], f, Users(s, f) \ {c}, endPoint)
    <3>1. CASE f = e
      BY <1>1, <2>1, <2>3, <3>1
    <3>2. CASE f # e
      <4>1. Users(s, f) \ {c} = Users(s, f)
        BY <3>2 DEF Users
      <4>2. Without(c)[f] = metaMap[s][f]
        BY <1>1, <2>1, <3>2
      <4>3. QED
        BY <1>2, <4>1, <4>2
    <3>3. QED
      BY <3>1, <3>2
  <2>6. QED
    BY <1>1, <2>1, <2>4, <2>5
<1>5. QED
  BY <1>3, <1>4

LEMMA DisconnectedInv ==
    ASSUME IInv, NEW c \in Client, Disconnected(c)
    PROVE  IInv'
<1> DEFINE s == link[c].server
<1>1. /\ client[c] = "closed"
      /\ metaMap' = [metaMap EXCEPT ![s] = Without(c)]
      /\ client' = [client EXCEPT ![c] = "idle"]
      /\ package' = [package EXCEPT ![c] = "none"]
      /\ endPoint' = [endPoint EXCEPT ![c] = 0]
      /\ link' = [link EXCEPT ![c].server = None]
      /\ UNCHANGED <<process, listener, created>>
  BY DEF Disconnected, serverVars
<1>2. /\ s \in Server
      /\ Without(c) \in [Entry -> Descriptor]
      /\ \A f \in Entry :
            Counts(Without(c)[f], f, Users(s, f) \ {c}, endPoint)
  BY <1>1, WithoutCounts
<1>3. IMTypeOK'
  <2>1. metaMap' \in [Server -> [Entry -> Descriptor]]
    BY <1>1, <1>2 DEF IInv, IMTypeOK, Descriptor
  <2>2. link' \in [Client -> [server : Server \cup {None}, entry : Entry]]
    BY <1>1 DEF IInv, IMTypeOK
  <2>3. QED
    BY <1>1, <2>1, <2>2 DEF IInv, IMTypeOK, Descriptor, ClientState
<1>4. LinkHasEnds' /\ AnswerMatches' /\ IdentifiersOld'
  BY <1>1 DEF IInv, IMTypeOK, LinkHasEnds, AnswerMatches, IdentifiersOld,
     Connected
<1>5. InstancesCounted'
  <2> SUFFICES ASSUME NEW t \in Server, NEW f \in Entry
               PROVE  Counts(metaMap[t][f], f, Users(t, f), endPoint)'
    BY DEF InstancesCounted
  <2>1. Users(t, f)' = Users(t, f) \ {c}
    BY <1>1, InstanceAssumption DEF Users, IInv, IMTypeOK
  <2>2. \A b \in Users(t, f) \ {c} : endPoint'[b] = endPoint[b]
    BY <1>1 DEF Users, IInv, IMTypeOK
  <2>3. Counts(metaMap'[t][f], f, Users(t, f) \ {c}, endPoint)
    <3>1. CASE t = s
      BY <1>1, <1>2, <3>1 DEF IInv, IMTypeOK
    <3>2. CASE t # s
      <4>1. Users(t, f) \ {c} = Users(t, f)
        BY <3>2 DEF Users
      <4>2. metaMap'[t][f] = metaMap[t][f]
        BY <1>1, <3>2 DEF IInv, IMTypeOK
      <4>3. QED
        BY <4>1, <4>2 DEF IInv, InstancesCounted
    <3>3. QED
      BY <3>1, <3>2
  <2>4. Counts(metaMap'[t][f], f, Users(t, f) \ {c}, endPoint')
    BY <2>2, <2>3, CountsFrame
  <2>5. QED
    BY <2>1, <2>4 DEF Counts
<1>6. QED
  BY <1>3, <1>4, <1>5 DEF IInv

\* A process that ends, of its own accord or not.
LEMMA EndInv ==
    ASSUME IInv, NEW s \in Server,
           process' = [process EXCEPT ![s] = "gone"],
           metaMap' = [metaMap EXCEPT ![s] = [e \in Entry |-> Unused]],
           listener' \in {listener, None},
           LeaveClients(s), created' = created
    PROVE  IInv'
<1> DEFINE left == {c \in Client : client[c] \in Connected /\ link[c].server = s}
<1>1. /\ client' = [c \in Client |->
                        IF c \notin left THEN client[c]
                        ELSE IF client[c] = "closed" THEN "idle" ELSE "lost"]
      /\ package' = [c \in Client |-> IF c \in left THEN "none" ELSE package[c]]
      /\ endPoint' = [c \in Client |-> IF c \in left THEN 0 ELSE endPoint[c]]
      /\ link' = [c \in Client |->
                        IF c \in left THEN [link[c] EXCEPT !.server = None]
                        ELSE link[c]]
  BY DEF LeaveClients
<1>2. \A c \in Client :
        /\ c \in left => /\ client'[c] \in {"idle", "lost"}
                         /\ package'[c] = "none"
                         /\ endPoint'[c] = 0
                         /\ link'[c].server = None
                         /\ link'[c].entry = link[c].entry
        /\ c \notin left => /\ client'[c] = client[c]
                            /\ package'[c] = package[c]
                            /\ endPoint'[c] = endPoint[c]
                            /\ link'[c] = link[c]
                            /\ link[c].server # s
  BY <1>1, InstanceAssumption DEF IInv, IMTypeOK, LinkHasEnds
<1>3. IMTypeOK'
  <2>1. metaMap' \in [Server -> [Entry -> Descriptor]]
    BY TypeOfMap DEF IInv, IMTypeOK, Descriptor
  <2>2. link' \in [Client -> [server : Server \cup {None}, entry : Entry]]
    BY <1>1 DEF IInv, IMTypeOK
  <2>3. client' \in [Client -> ClientState]
    BY <1>1 DEF IInv, IMTypeOK, ClientState
  <2>4. /\ package' \in [Client -> {"none", "request", "success", "failed"}]
        /\ endPoint' \in [Client -> Nat]
    BY <1>1 DEF IInv, IMTypeOK
  <2>5. process' \in [Server -> ProcessState]
    BY DEF IInv, IMTypeOK, ProcessState
  <2>6. QED
    BY <2>1, <2>2, <2>3, <2>4, <2>5 DEF IInv, IMTypeOK, Descriptor
<1>4. LinkHasEnds'
  <2> SUFFICES ASSUME NEW c \in Client
               PROVE  IF client'[c] \in Connected
                      THEN /\ link'[c].server \in Server
                           /\ process'[link'[c].server] = "up"
                      ELSE /\ link'[c].server = None
                           /\ package'[c] = "none"
                           /\ endPoint'[c] = 0
    BY DEF LinkHasEnds
  <2>1. CASE c \in left
    BY <1>2, <2>1 DEF Connected
  <2>2. CASE c \notin left
    BY <1>2, <2>2 DEF IInv, IMTypeOK, LinkHasEnds
  <2>3. QED
    BY <2>1, <2>2
<1>5. AnswerMatches'
  BY <1>2 DEF IInv, AnswerMatches
<1>6. IdentifiersOld'
  <2>1. \A c \in Client : endPoint'[c] \in {0, endPoint[c]}
    BY <1>2
  <2>2. created \in Nat /\ \A c \in Client : endPoint[c] <= created
    BY DEF IInv, IMTypeOK, IdentifiersOld
  <2>3. QED
    BY <2>1, <2>2 DEF IdentifiersOld
<1>7. InstancesCounted'
  <2> SUFFICES ASSUME NEW t \in Server, NEW f \in Entry
               PROVE  Counts(metaMap[t][f], f, Users(t, f), endPoint)'
    BY DEF InstancesCounted
  <2>1. CASE t = s
    <3>1. Users(t, f)' = {}
      BY <1>2, <2>1, InstanceAssumption DEF Users
    <3>2. metaMap'[t][f] = Unused
      BY <2>1 DEF IInv, IMTypeOK
    <3>3. Counts(Unused, f, {}, endPoint')
      BY NobodyCounts
    <3>4. QED
      BY <3>1, <3>2, <3>3 DEF Counts
  <2>2. CASE t # s
    <3>1. \A c \in Users(t, f) : c \notin left
      BY <2>2 DEF Users
    <3>2. Users(t, f)' = Users(t, f)
      BY <1>2, <3>1, InstanceAssumption DEF Users
    <3>3. metaMap'[t][f] = metaMap[t][f]
      BY <2>2 DEF IInv, IMTypeOK
    <3>4. \A c \in Users(t, f) : endPoint'[c] = endPoint[c]
      BY <1>2, <3>1 DEF Users
    <3>5. QED
      BY <3>2, <3>3, <3>4, OthersFrame DEF IInv
  <2>3. QED
    BY <2>1, <2>2
<1>8. QED
  BY <1>3, <1>4, <1>5, <1>6, <1>7 DEF IInv

LEMMA NextInv == IInv /\ [Next]_vars => IInv'
<1> SUFFICES ASSUME IInv, [Next]_vars PROVE IInv'
  OBVIOUS
<1>1. ASSUME NEW c \in Client, NEW e \in Entry,
             Connect(c, e) \/ \E s \in Server : StartServer(c, e, s)
      PROVE  IInv'
  BY <1>1, ConnectInv, StartInv DEF Connect
<1>2. ASSUME NEW c \in Client, PollConnects(c)
      PROVE  IInv'
  <2>1. link[c].entry \in Entry
    BY DEF IInv, IMTypeOK
  <2>2. QED
    BY <1>2, <2>1, ConnectInv DEF PollConnects
<1>3. ASSUME NEW c \in Client,
             \/ PollGivesUp(c) \/ ProxyReady(c) \/ RequestTimesOut(c)
             \/ LateAnswer(c) \/ Close(c) \/ GiveUpProxy(c)
      PROVE  IInv'
  BY <1>3, ClientStepInv
<1>4. ASSUME NEW c \in Client,
             ServeRequest(c) \/ RefuseRequest(c) \/ Disconnected(c)
      PROVE  IInv'
  BY <1>4, ServeInv, RefuseInv, DisconnectedInv
<1>5. ASSUME NEW c \in Client, QuitOnLastInstance(c)
      PROVE  IInv'
  <2>1. link[c].server \in Server
    BY <1>5, WithoutCounts DEF QuitOnLastInstance
  <2>2. QED
    BY <1>5, <2>1, EndInv DEF QuitOnLastInstance
<1>6. ASSUME NEW s \in Server, RemoveServer(s) \/ Listen(s)
      PROVE  IInv'
  BY <1>6, StartInv
<1>7. ASSUME NEW s \in Server, Crash(s)
      PROVE  IInv'
  <2>1. /\ process' = [process EXCEPT ![s] = "gone"]
        /\ metaMap' = [metaMap EXCEPT ![s] = [e \in Entry |-> Unused]]
        /\ listener' \in {listener, None}
        /\ LeaveClients(s)
        /\ created' = created
    BY <1>7 DEF Crash
  <2>2. QED
    BY <2>1, EndInv
<1>8. CASE UNCHANGED vars
  <2> USE <1>8 DEF vars
  <2>1. IMTypeOK'
    BY DEF IInv, IMTypeOK
  <2>2. LinkHasEnds' /\ AnswerMatches' /\ IdentifiersOld'
    BY DEF IInv, LinkHasEnds, AnswerMatches, IdentifiersOld
  <2>3. InstancesCounted'
    BY AccountsFrame DEF IInv
  <2>4. QED
    BY <2>1, <2>2, <2>3 DEF IInv
<1>9. QED
  BY <1>1, <1>2, <1>3, <1>4, <1>5, <1>6, <1>7, <1>8 DEF Next

-----------------------------------------------------------------------------
(* The theorems.                                                           *)

\* The inductive invariant holds of the specification.
THEOREM Inductive == Spec => []IInv
<1>1. QED
  BY InitInv, NextInv, PTL DEF Spec

\* The variables keep their types.
THEOREM IMTypeCorrect == Spec => []IMTypeOK
<1>1. IInv => IMTypeOK
  BY DEF IInv
<1>2. QED
  BY Inductive, <1>1, PTL

\* Whatever the order of requests, answers, timeouts, closed connections and
\* crashes, the reference counts and the private instances of every server
\* are those of its end points.
THEOREM InstancesAreCounted == Spec => []InstancesCounted
<1>1. IInv => InstancesCounted
  BY DEF IInv
<1>2. QED
  BY Inductive, <1>1, PTL

\* A client that has a proxy has its instance in a running server.
THEOREM ProxiesHaveInstances == Spec => []ProxyHasInstance
<1>1. IInv => ProxyHasInstance
  BY DEF IInv, LinkHasEnds, AnswerMatches, ProxyHasInstance, Connected
<1>2. QED
  BY Inductive, <1>1, PTL

\* The disconnection that ends a server is that of its last user.
LEMMA QuitIsUnused ==
    ASSUME IInv, NEW c \in Client, QuitOnLastInstance(c),
           NEW b \in Client, link[b].server = link[c].server,
           client[b] = "proxy"
    PROVE  FALSE
<1> DEFINE s == link[c].server
           f == link[b].entry
<1>1. /\ client[c] = "closed"
      /\ \A e \in Entry : /\ ~(Without(c)[e].globalRefCount > 0)
                          /\ Without(c)[e].individualInstances = {}
  BY DEF QuitOnLastInstance, LastInstanceCloses, totalInstances
<1>2. f \in Entry /\ b \in Users(s, f) \ {c}
  BY <1>1 DEF IInv, IMTypeOK, AnswerMatches, Users
<1>3. /\ Counts(Without(c)[f], f, Users(s, f) \ {c}, endPoint)
      /\ Without(c)[f] \in Descriptor
  BY <1>1, <1>2, WithoutCounts
<1>4. /\ IsFiniteSet(Users(s, f) \ {c})
      /\ Cardinality(Users(s, f) \ {c}) \in Nat
      /\ Cardinality(Users(s, f) \ {c}) # 0
  <2>1. IsFiniteSet(Users(s, f))
    BY UsersFinite
  <2>2. IsFiniteSet(Users(s, f) \ {c})
    BY <2>1, FS_RemoveElement
  <2>3. QED
    BY <1>2, <2>2, FS_CardinalityType, FS_EmptySet
<1>5. QED
  BY <1>1, <1>2, <1>3, <1>4 DEF Counts

\* A server that is not made to crash ends only when no client has a proxy
\* of one of its objects.
THEOREM QuitsWhenUnused == Spec => QuitOnlyWhenUnused
<1> DEFINE Safe == \A s \in Server :
          process[s] = "up" /\ process'[s] = "gone" /\ s \notin Mortal =>
              \A c \in Client : link[c].server = s => client[c] # "proxy"
<1>1. IInv /\ [Next]_vars => Safe
  <2> SUFFICES ASSUME IInv, [Next]_vars, NEW s \in Server,
                      process[s] = "up", process'[s] = "gone", s \notin Mortal,
                      NEW b \in Client, link[b].server = s, client[b] = "proxy"
               PROVE  FALSE
    OBVIOUS
  <2>1. process \in [Server -> ProcessState]
    BY DEF IInv, IMTypeOK
  <2>2. PICK c \in Client : QuitOnLastInstance(c) /\ link[c].server = s
    <3>1. ASSUME NEW c \in Client, QuitOnLastInstance(c)
          PROVE  link[c].server = s
      BY <2>1, <3>1 DEF QuitOnLastInstance
    <3>2. ASSUME process' = process
          PROVE  FALSE
      BY <3>2
    <3>3. ASSUME NEW t \in Server,
                 \/ RemoveServer(t) \/ Listen(t) \/ Crash(t)
                 \/ \E c \in Client, e \in Entry : StartServer(c, e, t)
          PROVE  FALSE
      BY <2>1, <3>3 DEF RemoveServer, Listen, Crash, StartServer
    <3>4. QED
      BY <3>1, <3>2, <3>3 DEF Next, vars, Connect, ConnectTo, PollConnects,
         PollGivesUp, ProxyReady, RequestTimesOut, LateAnswer, Close,
         GiveUpProxy, ServeRequest, RefuseRequest, Disconnected, serverVars
  <2>3. QED
    BY <2>2, QuitIsUnused
<1>2. QED
  BY Inductive, <1>1, PTL DEF Spec, QuitOnlyWhenUnused

(***************************************************************************)
(* II.  Calls and answers.                                                 *)
(*                                                                         *)
(* The proofs rest on the order of the requests: on the way to the service *)
(* and back they stay in the order of their numbers, so that an answer is  *)
(* for the oldest request that has none, and there is no second one.       *)
(***************************************************************************)

-----------------------------------------------------------------------------
(* Queues of requests and packages.  A signal has the number 0.            *)

Ids(q) == {q[i].id : i \in DOMAIN q} \ {0}

Ordered(q) ==
    \A i, j \in DOMAIN q :
        i < j /\ q[i].id # 0 /\ q[j].id # 0 => q[i].id < q[j].id

Before(q, r) == \A x \in Ids(q), y \in Ids(r) : x < y

Sane(q) == \A i \in DOMAIN q : q[i].kind = "signal" <=> q[i].id = 0

Request1 == [kind : Kind, id : Id]

LEMMA TailFacts ==
    ASSUME NEW S, \A e \in S : e.id \in Nat, NEW q \in Seq(S), q # <<>>, Ordered(q)
    PROVE  /\ Tail(q) \in Seq(S) /\ Ordered(Tail(q)) /\ Head(q) \in S
           /\ Len(Tail(q)) = Len(q) - 1
           /\ Ids(q) = Ids(Tail(q)) \cup ({Head(q).id} \ {0})
           /\ Head(q).id # 0 => \A x \in Ids(Tail(q)) : Head(q).id < x
           /\ Sane(q) => Sane(Tail(q)) /\ (Head(q).kind = "signal" <=> Head(q).id = 0)
<1>1. /\ Tail(q) \in Seq(S) /\ Head(q) = q[1] /\ 1 \in DOMAIN q
      /\ Len(Tail(q)) = Len(q) - 1 /\ Len(q) \in Nat
      /\ \A i \in DOMAIN Tail(q) : i + 1 \in DOMAIN q /\ Tail(q)[i] = q[i + 1]
      /\ \A i \in DOMAIN q : i \in Nat /\ (i = 1 \/ i - 1 \in DOMAIN Tail(q))
  OBVIOUS
<1>2. \A i \in DOMAIN Tail(q) : i \in Nat /\ 1 < i + 1
  OBVIOUS
<1>3. Ordered(Tail(q))
  <2>1. \A i, j \in DOMAIN Tail(q) : i < j => i + 1 < j + 1
    BY <1>2
  <2> QED
    BY <1>1, <2>1 DEF Ordered
<1>4. Ids(q) = Ids(Tail(q)) \cup ({Head(q).id} \ {0})
  <2>1. \A i \in DOMAIN q : i # 1 => Tail(q)[i - 1] = q[i]
    BY <1>1
  <2> QED
    BY <1>1, <2>1 DEF Ids
<1>5. Head(q).id # 0 => \A x \in Ids(Tail(q)) : Head(q).id < x
  BY <1>1, <1>2 DEF Ids, Ordered
<1>6. Sane(q) => Sane(Tail(q)) /\ (Head(q).kind = "signal" <=> Head(q).id = 0)
  BY <1>1 DEF Sane
<1> QED
  BY <1>1, <1>3, <1>4, <1>5, <1>6

LEMMA AppendFacts ==
    ASSUME NEW S, \A e \in S : e.id \in Nat, NEW q \in Seq(S), NEW e \in S, Ordered(q),
           e.id # 0 => \A x \in Ids(q) : x < e.id
    PROVE  /\ Append(q, e) \in Seq(S) /\ Ordered(Append(q, e))
           /\ Len(Append(q, e)) = Len(q) + 1
           /\ Ids(Append(q, e)) = Ids(q) \cup ({e.id} \ {0})
           /\ Sane(q) /\ (e.kind = "signal" <=> e.id = 0) => Sane(Append(q, e))
<1> DEFINE a == Append(q, e)
<1>1. /\ a \in Seq(S) /\ Len(a) = Len(q) + 1 /\ Len(q) \in Nat
      /\ DOMAIN a = 1 .. Len(q) + 1 /\ DOMAIN q = 1 .. Len(q)
      /\ a[Len(q) + 1] = e
      /\ \A i \in DOMAIN q : a[i] = q[i]
  OBVIOUS
<1> HIDE DEF a
<1>2. DOMAIN a = DOMAIN q \cup {Len(q) + 1}
  BY <1>1
<1>3. Ids(a) = Ids(q) \cup ({e.id} \ {0})
  BY <1>1, <1>2 DEF Ids
<1>4. Ordered(a)
  <2>1. SUFFICES ASSUME NEW i \in DOMAIN a, NEW j \in DOMAIN a, i < j,
                        a[i].id # 0, a[j].id # 0
                 PROVE  a[i].id < a[j].id
    BY DEF Ordered
  <2>2. i \in DOMAIN q
    BY <1>1, <2>1
  <2>3. CASE j \in DOMAIN q
    BY <1>1, <2>1, <2>2, <2>3 DEF Ordered
  <2>4. CASE j = Len(q) + 1
    BY <1>1, <2>1, <2>2, <2>4 DEF Ids
  <2> QED
    BY <1>2, <2>3, <2>4
<1>5. Sane(q) /\ (e.kind = "signal" <=> e.id = 0) => Sane(a)
  BY <1>1, <1>2 DEF Sane
<1> QED
  BY <1>1, <1>3, <1>4, <1>5 DEF a

\* The first n elements of r are moved to the end of q.
LEMMA MoveFacts ==
    ASSUME NEW S, \A e \in S : e.id \in Nat, NEW q \in Seq(S), NEW r \in Seq(S),
           Ordered(q), Ordered(r), Before(q, r), NEW n \in 1 .. Len(r)
    PROVE  LET q2 == q \o SubSeq(r, 1, n)
               r2 == SubSeq(r, n + 1, Len(r))
           IN  /\ q2 \in Seq(S) /\ r2 \in Seq(S)
               /\ Len(r2) = Len(r) - n
               /\ Ordered(q2) /\ Ordered(r2) /\ Before(q2, r2)
               /\ Ids(q2) \cup Ids(r2) = Ids(q) \cup Ids(r)
               /\ Ids(r2) \subseteq Ids(r)
               /\ Sane(q) /\ Sane(r) => Sane(q2) /\ Sane(r2)
<1> DEFINE q2 == q \o SubSeq(r, 1, n)
           r2 == SubSeq(r, n + 1, Len(r))
           L == Len(q)
           M == Len(r)
<1>1. /\ q2 \in Seq(S) /\ r2 \in Seq(S) /\ Len(r2) = M - n /\ L \in Nat /\ M \in Nat
      /\ n \in Nat /\ 1 <= n /\ n <= M
      /\ DOMAIN q = 1 .. L /\ DOMAIN r = 1 .. M
      /\ DOMAIN q2 = 1 .. L + n /\ DOMAIN r2 = 1 .. M - n
      /\ \A i \in 1 .. L : q2[i] = q[i]
      /\ \A i \in 1 .. n : q2[L + i] = r[i]
      /\ \A i \in 1 .. M - n : r2[i] = r[n + i]
  OBVIOUS
<1> HIDE DEF q2, r2, L, M
<1>2. \A i \in DOMAIN q2 : \/ i \in DOMAIN q /\ q2[i] = q[i]
                           \/ i - L \in 1 .. n /\ q2[i] = r[i - L]
  <2>1. SUFFICES ASSUME NEW i \in DOMAIN q2, i \notin DOMAIN q
                 PROVE  i - L \in 1 .. n /\ q2[i] = r[i - L]
    BY <1>1
  <2>2. i - L \in 1 .. n /\ L + (i - L) = i
    BY <1>1, <2>1
  <2> QED
    BY <1>1, <2>2
<1>3. \A i \in DOMAIN r2 : n + i \in DOMAIN r /\ r2[i] = r[n + i]
  BY <1>1
<1>4. \A i \in DOMAIN q2, j \in DOMAIN r2 :
         q2[i].id # 0 /\ r2[j].id # 0 => q2[i].id < r2[j].id
  <2>1. SUFFICES ASSUME NEW i \in DOMAIN q2, NEW j \in DOMAIN r2,
                        q2[i].id # 0, r2[j].id # 0
                 PROVE  q2[i].id < r2[j].id
    OBVIOUS
  <2>2. CASE i \in DOMAIN q /\ q2[i] = q[i]
    BY <1>3, <2>1, <2>2 DEF Before, Ids
  <2>3. CASE i - L \in 1 .. n /\ q2[i] = r[i - L]
    <3>1. i - L \in DOMAIN r /\ i - L < n + j
      BY <1>1, <2>3
    <3> QED
      BY <1>3, <2>1, <2>3, <3>1 DEF Ordered
  <2> QED
    BY <1>2, <2>2, <2>3
<1>5. Ordered(r2)
  <2>1. \A i, j \in DOMAIN r2 : i < j => n + i < n + j
    BY <1>1
  <2> QED
    BY <1>3, <2>1 DEF Ordered
<1>6. Ordered(q2)
  <2>1. SUFFICES ASSUME NEW i \in DOMAIN q2, NEW j \in DOMAIN q2, i < j,
                        q2[i].id # 0, q2[j].id # 0
                 PROVE  q2[i].id < q2[j].id
    BY DEF Ordered
  <2>2. CASE i \in DOMAIN q /\ j \in DOMAIN q
    BY <1>1, <2>1, <2>2 DEF Ordered
  <2>3. CASE i \in DOMAIN q /\ j \notin DOMAIN q
    <3>1. j - L \in DOMAIN r /\ q2[j] = r[j - L] /\ q2[i] = q[i]
      BY <1>1, <1>2, <2>3
    <3> QED
      BY <2>1, <2>3, <3>1 DEF Before, Ids
  <2>4. CASE i \notin DOMAIN q
    <3>1. /\ i - L \in DOMAIN r /\ q2[i] = r[i - L]
          /\ j - L \in DOMAIN r /\ q2[j] = r[j - L]
          /\ i - L < j - L
      BY <1>1, <1>2, <2>1, <2>4
    <3> QED
      BY <2>1, <3>1 DEF Ordered
  <2> QED
    BY <2>2, <2>3, <2>4
<1>7. Ids(q2) \cup Ids(r2) = Ids(q) \cup Ids(r) /\ Ids(r2) \subseteq Ids(r)
  <2>1. Ids(q2) \subseteq Ids(q) \cup Ids(r)
    <3>1. \A i \in 1 .. n : i \in DOMAIN r
      BY <1>1
    <3> QED
      BY <1>2, <3>1 DEF Ids
  <2>2. Ids(r2) \subseteq Ids(r)
    BY <1>3 DEF Ids
  <2>3. Ids(q) \subseteq Ids(q2)
    <3>1. \A i \in DOMAIN q : i \in DOMAIN q2 /\ q2[i] = q[i]
      BY <1>1
    <3> QED
      BY <3>1 DEF Ids
  <2>4. ASSUME NEW k \in DOMAIN r, r[k].id # 0
        PROVE  r[k].id \in Ids(q2) \cup Ids(r2)
    <3>1. CASE k <= n
      <4>1. L + k \in DOMAIN q2 /\ q2[L + k] = r[k]
        BY <1>1, <3>1
      <4> QED
        BY <2>4, <4>1 DEF Ids
    <3>2. CASE k > n
      <4>1. k - n \in DOMAIN r2 /\ r2[k - n] = r[k]
        <5>1. k - n \in 1 .. M - n /\ n + (k - n) = k
          BY <1>1, <3>2
        <5> QED
          BY <1>1, <5>1
      <4> QED
        BY <2>4, <4>1 DEF Ids
    <3> QED
      BY <1>1, <3>1, <3>2
  <2>5. Ids(r) \subseteq Ids(q2) \cup Ids(r2)
    BY <2>4 DEF Ids
  <2> QED
    BY <2>1, <2>2, <2>3, <2>5
<1>8. Sane(q) /\ Sane(r) => Sane(q2) /\ Sane(r2)
  <2>1. \A i \in 1 .. n : i \in DOMAIN r
    BY <1>1
  <2> QED
    BY <1>2, <1>3, <2>1 DEF Sane
<1>9. Before(q2, r2)
  BY <1>4 DEF Before, Ids
<1> QED
  BY <1>1, <1>5, <1>6, <1>7, <1>8, <1>9 DEF q2, r2, M

-----------------------------------------------------------------------------
(* The inductive invariant, in four parts.                                 *)

AllIds == Ids(incoming) \cup Ids(toClient) \cup Ids(toServer)

Finished == {id \in Id : response[id].isFinished}

Typed ==
    /\ issued \in 0 .. MaxCalls
    /\ openRequests \subseteq Id
    /\ response \in [Id -> [isFinished : BOOLEAN, result : 0 .. MaxCalls]]
    /\ stack \in Seq(Frame)
    /\ service \in {"null", "proxy"}
    /\ toServer \in Seq(Request1)
    /\ toClient \in Seq(Package)
    /\ incoming \in Seq(Package)
    /\ posted \in Nat
    /\ finishing \in Nat
    /\ signals \in 0 .. MaxSignals
    /\ state \in {"alive", "deleted", "crashed"}
    /\ disturbed \in BOOLEAN

\* Requests and their answers are under way in order, behind those that have
\* been answered.
InOrder ==
    /\ Sane(incoming) /\ Sane(toClient)
    /\ Ordered(incoming) /\ Ordered(toClient) /\ Ordered(toServer)
    /\ Before(incoming, toClient) /\ Before(incoming, toServer)
    /\ Before(toClient, toServer)
    /\ AllIds \subseteq 1 .. issued
    /\ \A id \in Finished : id <= issued /\ \A x \in AllIds : id < x
    /\ \A id \in Id \ Finished : response[id].result = 0

\* What is posted has been sent; what wakes has been answered.
Bounded ==
    /\ issued = 0 => signals = 0
    /\ posted + Len(toClient) + Len(toServer) <= issued + signals
    /\ finishing <= Cardinality(Finished)

\* The calls that wait, innermost last, have entries of their own.
Stacked ==
    /\ issued = 0 => stack = <<>> /\ openRequests = {} /\ service = "null"
    /\ \A i \in Waiting : /\ stack[i].id \in 1 .. issued
                          /\ stack[i].kind = "object" <=> stack[i].id = 1
    /\ \A i, j \in Waiting : i < j => stack[i].id < stack[j].id
    /\ \A i \in Waiting : stack[i].kind = "object" => service = "null"
    /\ RequestsAccounted

\* As long as nothing has disturbed the client: at most one call, and either
\* its request or answer is under way, or its wake-up, or it has been woken.
Sequential ==
    ~disturbed =>
        /\ state = "alive"
        /\ Waiting \subseteq {1}
        /\ \A x \in AllIds : x = issued /\ 1 \in Waiting /\ x \notin Finished
        /\ finishing > 0 => 1 \in Waiting
        /\ 1 \in Waiting =>
              /\ stack[1].id = issued
              /\ finishing > 0 => issued \in Finished /\ finishing = 1 /\ ~stack[1].quit
              /\ stack[1].quit => issued \in Finished /\ finishing = 0

EInv == Typed /\ InOrder /\ Bounded /\ Stacked /\ Sequential

LEMMA EPInitInv == EPInit => EInv
<1> SUFFICES ASSUME EPInit PROVE EInv
  OBVIOUS
<1> USE EndPointAssumption
<1>1. Typed
  <2>1. response \in [Id -> [isFinished : BOOLEAN, result : 0 .. MaxCalls]]
    BY DEF EPInit
  <2>2. <<>> \in Seq(Frame) /\ <<>> \in Seq(Request1) /\ <<>> \in Seq(Package)
    OBVIOUS
  <2>3. issued \in 0 .. MaxCalls /\ signals \in 0 .. MaxSignals
    BY DEF EPInit
  <2>4. openRequests \subseteq Id /\ posted \in Nat /\ finishing \in Nat
    BY DEF EPInit
  <2> QED
    BY <2>1, <2>2, <2>3, <2>4, Zenon DEF EPInit, Typed
<1>2. Ids(<<>>) = {} /\ Waiting = {} /\ AllIds = {} /\ Finished = {}
  BY DEF EPInit, Ids, Waiting, AllIds, Finished
<1>3. InOrder
  BY <1>2 DEF EPInit, InOrder, Sane, Ordered, Before
<1>4. Bounded
  BY <1>2, FS_EmptySet DEF EPInit, Bounded
<1>5. Stacked
  BY <1>2 DEF EPInit, Stacked, RequestsAccounted
<1>6. Sequential
  BY <1>2 DEF EPInit, Sequential
<1> QED
  BY <1>1, <1>3, <1>4, <1>5, <1>6 DEF EInv

-----------------------------------------------------------------------------
(* The stack of calls.                                                     *)

LEMMA PushFacts ==
    ASSUME stack \in Seq(Frame), NEW f \in Frame, stack' = Append(stack, f)
    PROVE  /\ stack' \in Seq(Frame)
           /\ Len(stack) \in Nat /\ Waiting \subseteq 1 .. Len(stack)
           /\ Waiting' = Waiting \cup (IF f.run = "wait" THEN {Len(stack) + 1} ELSE {})
           /\ \A i \in Waiting : stack'[i] = stack[i]
           /\ stack'[Len(stack) + 1] = f
<1>1. /\ stack' \in Seq(Frame) /\ Len(stack) \in Nat
      /\ DOMAIN stack = 1 .. Len(stack) /\ DOMAIN stack' = 1 .. Len(stack) + 1
      /\ stack'[Len(stack) + 1] = f
      /\ \A i \in 1 .. Len(stack) : stack'[i] = stack[i]
  OBVIOUS
<1>2. 1 .. Len(stack) + 1 = (1 .. Len(stack)) \cup {Len(stack) + 1}
  BY <1>1
<1> QED
  BY <1>1, <1>2 DEF Waiting

LEMMA PopFacts ==
    ASSUME stack \in Seq(Frame), stack # <<>>, stack' = Front(stack)
    PROVE  /\ stack' \in Seq(Frame)
           /\ Len(stack) \in Nat \ {0} /\ Waiting \subseteq 1 .. Len(stack)
           /\ Last(stack) = stack[Len(stack)]
           /\ Waiting' = Waiting \ {Len(stack)}
           /\ Len(stack) \in Waiting <=> Last(stack).run = "wait"
           /\ \A i \in Waiting' : stack'[i] = stack[i]
<1>1. /\ stack' \in Seq(Frame) /\ Len(stack) \in Nat \ {0}
      /\ DOMAIN stack = 1 .. Len(stack) /\ DOMAIN stack' = 1 .. Len(stack) - 1
      /\ \A i \in 1 .. Len(stack) - 1 : stack'[i] = stack[i]
      /\ Last(stack) = stack[Len(stack)]
  BY DEF Front, Last
<1>2. 1 .. Len(stack) - 1 = (1 .. Len(stack)) \ {Len(stack)}
  BY <1>1
<1> QED
  BY <1>1, <1>2 DEF Waiting

\* Quitting loops is all that events do to calls that wait.
LEMMA QuitFacts ==
    ASSUME stack \in Seq(Frame), pendingRequestFinished
    PROVE  /\ stack' \in Seq(Frame)
           /\ Waiting' = Waiting
           /\ stack = <<>> => stack' = <<>>
           /\ \A i \in Waiting : /\ stack'[i].id = stack[i].id
                                 /\ stack'[i].kind = stack[i].kind
                                 /\ stack'[i].quit = TRUE
<1>1. stack' = [i \in DOMAIN stack |->
                    IF i \in Waiting THEN [stack[i] EXCEPT !.quit = TRUE]
                    ELSE stack[i]]
  BY DEF pendingRequestFinished
<1>2. \A i \in DOMAIN stack : stack[i] \in Frame
  OBVIOUS
<1>3. \A i \in DOMAIN stack :
         /\ stack'[i] \in Frame
         /\ stack'[i].run = stack[i].run
         /\ stack'[i].id = stack[i].id
         /\ stack'[i].kind = stack[i].kind
         /\ i \in Waiting => stack'[i].quit = TRUE
  BY <1>1, <1>2 DEF Frame
<1>4. DOMAIN stack' = DOMAIN stack /\ stack' \in Seq(Frame)
  BY <1>1, <1>3
<1>5. stack = <<>> => stack' = <<>>
  BY <1>1, <1>4
<1> QED
  BY <1>3, <1>4, <1>5 DEF Waiting

LEMMA TimerFacts ==
    ASSUME stack \in Seq(Frame), NEW k \in Waiting, TimerQuits(k)
    PROVE  /\ stack' \in Seq(Frame)
           /\ Waiting' = Waiting
           /\ \A i \in Waiting : /\ stack'[i].id = stack[i].id
                                 /\ stack'[i].kind = stack[i].kind
<1> DEFINE f == [[stack[k] EXCEPT !.quit = TRUE] EXCEPT !.timedOut = TRUE]
<1>1. k \in DOMAIN stack /\ stack[k] \in Frame
  BY DEF Waiting
<1>2. f \in Frame /\ f.id = stack[k].id /\ f.kind = stack[k].kind /\ f.run = stack[k].run
  BY <1>1 DEF Frame
<1>3. stack' = [stack EXCEPT ![k] = f]
  <2> DEFINE s1 == [stack EXCEPT ![k].quit = TRUE]
  <2>1. stack' = [s1 EXCEPT ![k].timedOut = TRUE]
    BY DEF TimerQuits
  <2>2. s1[k] = [stack[k] EXCEPT !.quit = TRUE]
    BY <1>1
  <2> QED
    BY <1>1, <2>1, <2>2
<1> HIDE DEF f
<1>4. /\ stack' \in Seq(Frame) /\ DOMAIN stack' = DOMAIN stack
      /\ stack'[k] = f
      /\ \A i \in DOMAIN stack : i # k => stack'[i] = stack[i]
  BY <1>1, <1>2, <1>3
<1> QED
  BY <1>1, <1>2, <1>4 DEF Waiting

-----------------------------------------------------------------------------
(* The steps.                                                              *)

\* What the numbers of packages and requests are.
LEMMA PackageIds ==
    /\ \A e \in Package : e.id \in Nat
    /\ \A e \in Request1 : e.id \in Nat \ {0} /\ e.kind \in Kind
    /\ \A k \in Kind : k # "signal"
    /\ Drain \in Frame
    /\ \A k \in Kind, id \in Id : Wait(k, id) \in Frame /\ Wait(k, id).run = "wait"
                                  /\ Wait(k, id).kind = k /\ Wait(k, id).id = id
                                  /\ Wait(k, id).quit = FALSE
  BY EndPointAssumption DEF Package, Request1, Kind, Id, Drain, Wait, Frame

\* The calls are as they were.
LEMMA StackedKept ==
    ASSUME Stacked, UNCHANGED <<issued, openRequests, service>>,
           stack' \in Seq(Frame), Waiting' = Waiting,
           \A i \in Waiting : /\ stack'[i].id = stack[i].id
                              /\ stack'[i].kind = stack[i].kind,
           issued = 0 => stack' = <<>>
    PROVE  Stacked'
  BY DEF Stacked, RequestsAccounted

\* A call: its request is the last one, and its frame the innermost.  A signal
\* may have been taken from the packages read.
LEMMA RequestStep ==
    ASSUME EInv, NEW kind \in Kind, Request(kind, stack),
           kind = "object" <=> issued = 0,
           issued # 0 => service = "proxy",
           UNCHANGED <<response, service, toClient, posted, finishing, signals>>,
           /\ incoming' \in Seq(Package)
           /\ Sane(incoming') /\ Ordered(incoming')
           /\ Ids(incoming') = Ids(incoming),
           disturbed' \in BOOLEAN, state' = state,
           ~disturbed' => ~disturbed /\ stack = <<>>
    PROVE  EInv'
<1> DEFINE id == issued + 1
<1>1. /\ id \in Id /\ issued < MaxCalls /\ issued \in Nat
      /\ issued' = id
      /\ openRequests' = openRequests \cup {id}
      /\ toServer' = Append(toServer, [kind |-> kind, id |-> id])
      /\ stack' = Append(stack, Wait(kind, id))
  BY EndPointAssumption DEF Request, EInv, Typed, Id
<1> HIDE DEF id
<1>2. id = issued + 1
  BY DEF id
<1>3. [kind |-> kind, id |-> id] \in Request1
  BY <1>1 DEF Request1
<1>4. AllIds \subseteq 1 .. issued
  BY DEF EInv, InOrder
<1>5. /\ toServer' \in Seq(Request1) /\ Ordered(toServer')
      /\ Len(toServer') = Len(toServer) + 1
      /\ Ids(toServer') = Ids(toServer) \cup {id}
  <2>1. \A x \in Ids(toServer) : x < id
    BY <1>1, <1>2, <1>4 DEF AllIds
  <2> QED
    BY <1>1, <1>2, <1>3, <2>1, PackageIds, AppendFacts DEF EInv, Typed, InOrder
<1>6. /\ stack' \in Seq(Frame)
      /\ Len(stack) \in Nat /\ Waiting \subseteq 1 .. Len(stack)
      /\ Waiting' = Waiting \cup {Len(stack) + 1}
      /\ \A i \in Waiting : stack'[i] = stack[i]
      /\ stack'[Len(stack) + 1] = Wait(kind, id)
  <2>1. Wait(kind, id) \in Frame /\ Wait(kind, id).run = "wait"
    BY <1>1, PackageIds
  <2>2. stack \in Seq(Frame)
    BY DEF EInv, Typed
  <2> QED
    BY <1>1, <2>1, <2>2, PushFacts
<1>7. Typed'
  BY <1>1, <1>2, <1>5, <1>6 DEF EInv, Typed, Id
<1>8. AllIds' = AllIds \cup {id} /\ Finished' = Finished
  BY <1>5 DEF AllIds, Finished
<1>9. InOrder'
  <2>1. Sane(incoming') /\ Sane(toClient')
        /\ Ordered(incoming') /\ Ordered(toClient') /\ Ordered(toServer')
    BY <1>5 DEF EInv, InOrder
  <2>2. Before(incoming', toClient') /\ Before(incoming', toServer')
        /\ Before(toClient', toServer')
    BY <1>1, <1>2, <1>4, <1>5 DEF EInv, InOrder, Before, AllIds
  <2>3. AllIds' \subseteq 1 .. issued'
    BY <1>1, <1>2, <1>4, <1>8
  <2>4. \A i \in Finished' : i <= issued' /\ \A x \in AllIds' : i < x
    BY <1>1, <1>2, <1>8 DEF EInv, InOrder, Finished, Id
  <2>5. \A i \in Id \ Finished' : response'[i].result = 0
    BY <1>8 DEF EInv, InOrder
  <2> QED
    BY <2>1, <2>2, <2>3, <2>4, <2>5 DEF InOrder
<1>10. Bounded'
  <2>1. Len(toServer) \in Nat /\ Len(toClient) \in Nat /\ posted \in Nat /\ signals \in Nat
    BY DEF EInv, Typed
  <2> QED
    BY <1>1, <1>2, <1>5, <1>8, <2>1 DEF EInv, Bounded
<1>11. Stacked'
  <2>1. \A i \in Waiting' : /\ stack'[i].id \in 1 .. issued'
                            /\ stack'[i].kind = "object" <=> stack'[i].id = 1
    <3>1. ASSUME NEW i \in Waiting
          PROVE  /\ stack'[i].id \in 1 .. issued'
                 /\ stack'[i].kind = "object" <=> stack'[i].id = 1
      <4>1. /\ stack[i].id \in 1 .. issued
            /\ stack[i].kind = "object" <=> stack[i].id = 1
            /\ stack'[i] = stack[i]
        BY <1>6 DEF EInv, Stacked
      <4>2. 1 .. issued \subseteq 1 .. issued'
        BY <1>1, <1>2
      <4> QED
        BY <4>1, <4>2
    <3>2. ASSUME NEW i, i = Len(stack) + 1
          PROVE  /\ stack'[i].id \in 1 .. issued'
                 /\ stack'[i].kind = "object" <=> stack'[i].id = 1
      <4>1. stack'[i].id = id /\ stack'[i].kind = kind
        BY <1>1, <1>6, <3>2, PackageIds
      <4>2. id \in 1 .. issued' /\ (issued = 0 <=> id = 1)
        BY <1>1, <1>2
      <4>3. kind = "object" <=> id = 1
        BY <4>2
      <4> QED
        BY <4>1, <4>2, <4>3
    <3> QED
      BY <1>6, <3>1, <3>2
  <2>2. \A i, j \in Waiting' : i < j => stack'[i].id < stack'[j].id
    <3>1. SUFFICES ASSUME NEW i \in Waiting', NEW j \in Waiting', i < j
                   PROVE  stack'[i].id < stack'[j].id
      OBVIOUS
    <3>2. i \in Waiting
      BY <1>6, <3>1
    <3>3. stack'[i].id = stack[i].id /\ stack[i].id \in 1 .. issued
      BY <1>6, <3>2 DEF EInv, Stacked
    <3>4. CASE j \in Waiting
      BY <1>6, <3>1, <3>2, <3>4 DEF EInv, Stacked
    <3>5. CASE j = Len(stack) + 1
      BY <1>1, <1>2, <1>6, <3>3, <3>5, PackageIds
    <3> QED
      BY <1>6, <3>4, <3>5
  <2>3. \A i \in Waiting' : stack'[i].kind = "object" => service' = "null"
    <3>1. kind = "object" => service = "null"
      BY DEF EInv, Stacked
    <3> QED
      BY <1>1, <1>6, <3>1, PackageIds DEF EInv, Stacked
  <2>4. RequestsAccounted'
    <3>1. {stack'[i].id : i \in Waiting'} = {stack[i].id : i \in Waiting} \cup {id}
      BY <1>1, <1>6, PackageIds
    <3>2. {1} \cap {i \in 1 .. issued : service = "null"}
            \subseteq {1} \cap {i \in 1 .. issued' : service' = "null"}
      BY <1>1, <1>2
    <3> QED
      BY <1>1, <3>1, <3>2 DEF EInv, Stacked, RequestsAccounted
  <2>5. issued' # 0
    BY <1>1, <1>2
  <2> QED
    BY <2>1, <2>2, <2>3, <2>4, <2>5, Zenon DEF Stacked
<1>12. Sequential'
  <2> SUFFICES ASSUME ~disturbed' PROVE Sequential'
    BY DEF Sequential
  <2>1. ~disturbed /\ Len(stack) = 0 /\ Waiting = {} /\ Waiting' = {1}
    BY <1>6 DEF Waiting
  <2>2. AllIds = {} /\ ~(finishing > 0) /\ state = "alive"
    BY <2>1 DEF EInv, Sequential
  <2>3. AllIds' = {id} /\ id \notin Finished
    BY <1>1, <1>2, <1>8, <2>2 DEF EInv, InOrder, Finished, Id
  <2>4. stack'[1].id = id /\ stack'[1].quit = FALSE
    BY <1>1, <1>6, <2>1, PackageIds
  <2> QED
    BY <1>1, <1>8, <2>1, <2>2, <2>3, <2>4 DEF Sequential
<1> QED
  BY <1>7, <1>9, <1>10, <1>11, <1>12 DEF EInv

LEMMA ReturnStep ==
    ASSUME EInv, WaitReturns
    PROVE  EInv'
<1> DEFINE call == Last(stack)
           n == Len(stack)
<1>1. /\ stack # <<>> /\ call.run = "wait" /\ call.quit /\ state = "alive"
      /\ stack' = Front(stack)
      /\ openRequests' = IF call.kind = "object" /\ ~response[call.id].isFinished
                         THEN openRequests ELSE openRequests \ {call.id}
      /\ service' = IF call.kind = "object" /\ response[call.id].result # 0
                    THEN "proxy" ELSE service
      /\ UNCHANGED <<issued, response, queues, finishing, signals, state, disturbed>>
  BY DEF WaitReturns, CloseRequest
<1>2. UNCHANGED <<toServer, toClient, incoming, posted>>
  BY <1>1 DEF queues
<1>3. /\ stack' \in Seq(Frame) /\ n \in Nat \ {0} /\ Waiting \subseteq 1 .. n
      /\ call = stack[n] /\ n \in Waiting
      /\ Waiting' = Waiting \ {n}
      /\ \A i \in Waiting' : stack'[i] = stack[i]
  BY <1>1, PopFacts DEF EInv, Typed
<1> HIDE DEF call, n
<1>4. /\ issued \in 0 .. MaxCalls /\ MaxCalls \in Nat
      /\ call.id \in 1 .. issued /\ (call.kind = "object" <=> call.id = 1)
      /\ call.id \in Id
  BY <1>3, EndPointAssumption DEF EInv, Typed, Stacked, Id
<1>5. AllIds' = AllIds /\ Finished' = Finished
  BY <1>1, <1>2 DEF AllIds, Finished
<1>6. Typed'
  BY <1>1, <1>2, <1>3 DEF EInv, Typed
<1>7. InOrder' /\ Bounded'
  BY <1>1, <1>2, <1>5 DEF EInv, InOrder, Bounded
<1>8. Stacked'
  <2>1. \A i \in Waiting' : i \in Waiting /\ i # n /\ i < n
    <3>1. \A i \in 1 .. n : i # n => i < n
      BY <1>3
    <3> QED
      BY <1>3, <3>1
  <2>2. \A i \in Waiting' : stack'[i].id < call.id
    BY <1>3, <2>1 DEF EInv, Stacked
  <2>3. {stack[i].id : i \in Waiting} = {stack'[i].id : i \in Waiting'} \cup {call.id}
    BY <1>3
  <2>4. call.id \notin {stack'[i].id : i \in Waiting'}
    BY <1>3, <1>4, <2>1, <2>2 DEF EInv, Stacked
  <2>5. \A i \in Waiting' : stack'[i].kind # "object" \/ call.id # 1
    BY <1>3, <1>4, <2>1, <2>2 DEF EInv, Stacked
  <2>6. call.kind = "object" => service = "null"
    BY <1>3 DEF EInv, Stacked
  <2>7. issued # 0
    BY <1>4
  <2>8. \A i \in Waiting' : stack'[i].kind = "object" => service' = "null"
    BY <1>1, <1>3, <1>4, <2>1, <2>5 DEF EInv, Stacked
  <2> DEFINE leaked == {1} \cap {i \in 1 .. issued : service = "null"}
  <2>9. RequestsAccounted'
    <3>1. /\ {stack'[i].id : i \in Waiting'} \cup {call.id} \subseteq openRequests
          /\ openRequests \subseteq {stack'[i].id : i \in Waiting'} \cup {call.id} \cup leaked
      BY <2>3 DEF EInv, Stacked, RequestsAccounted
    <3>2. CASE call.kind = "object" /\ ~response[call.id].isFinished
      <4>1. response[call.id].result = 0
        BY <1>4, <3>2 DEF EInv, InOrder, Finished
      <4>2. service' = service /\ call.id \in leaked
        BY <1>1, <1>4, <2>6, <3>2, <4>1
      <4> QED
        BY <1>1, <3>1, <3>2, <4>2 DEF RequestsAccounted
    <3>3. CASE call.kind = "object" /\ response[call.id].isFinished
      <4>1. openRequests' = openRequests \ {1} /\ call.id = 1 /\ leaked \subseteq {1}
        BY <1>1, <1>4, <3>3
      <4> QED
        BY <1>1, <2>4, <3>1, <4>1 DEF RequestsAccounted
    <3>4. CASE call.kind # "object"
      <4>1. openRequests' = openRequests \ {call.id} /\ service' = service
        BY <1>1, <3>4
      <4> QED
        BY <1>1, <2>4, <3>1, <4>1 DEF RequestsAccounted
    <3> QED
      BY <3>2, <3>3, <3>4
  <2> QED
    BY <1>1, <1>3, <2>1, <2>7, <2>8, <2>9 DEF EInv, Stacked
<1>9. Sequential'
  <2> SUFFICES ASSUME ~disturbed' PROVE Sequential'
    BY DEF Sequential
  <2>1. ~disturbed
    BY <1>1
  <2>2. n = 1 /\ Waiting' = {}
    BY <1>3, <2>1 DEF EInv, Sequential
  <2>3. issued \in Finished /\ finishing = 0
    BY <1>1, <1>3, <2>1, <2>2 DEF EInv, Sequential
  <2>4. AllIds = {}
    BY <2>1, <2>3 DEF EInv, Sequential
  <2> QED
    BY <1>1, <1>5, <2>2, <2>3, <2>4 DEF Sequential
<1> QED
  BY <1>6, <1>7, <1>8, <1>9 DEF EInv

\* The packages on their way change, the calls do not.
LEMMA CallsKept ==
    ASSUME EInv, UNCHANGED <<issued, openRequests, service, stack>>
    PROVE  Stacked' /\ Waiting' = Waiting
<1>1. Waiting' = Waiting
  BY DEF Waiting
<1> QED
  BY <1>1, StackedKept DEF EInv, Stacked, Typed

LEMMA AnswerStep ==
    ASSUME EInv, NEW ok \in BOOLEAN, Answer(ok)
    PROVE  EInv'
<1> DEFINE e == [kind |-> Head(toServer).kind, id |-> Head(toServer).id, ok |-> ok]
<1>1. /\ toServer # <<>>
      /\ toClient' = Append(toClient, e)
      /\ toServer' = Tail(toServer)
      /\ UNCHANGED <<issued, openRequests, response, stack, service, incoming,
                     posted, finishing, signals, state, disturbed>>
  BY DEF Answer
<1>2. /\ Head(toServer) \in Request1
      /\ toServer' \in Seq(Request1) /\ Ordered(toServer')
      /\ Len(toServer') = Len(toServer) - 1
      /\ Ids(toServer) = Ids(toServer') \cup ({Head(toServer).id} \ {0})
      /\ Head(toServer).id # 0 => \A x \in Ids(toServer') : Head(toServer).id < x
  BY <1>1, PackageIds, TailFacts DEF EInv, Typed, InOrder
<1>3. /\ e \in Package /\ e.id \in Id /\ e.id # 0 /\ e.kind # "signal"
      /\ e.id = Head(toServer).id
  BY <1>2, PackageIds, EndPointAssumption DEF Request1, Package, Id, Kind
<1> HIDE DEF e
<1>4. /\ Ids(toServer) = Ids(toServer') \cup {e.id}
      /\ \A x \in Ids(toServer') : e.id < x
  BY <1>2, <1>3
<1>5. \A x \in Ids(toClient) \cup Ids(incoming) : x < e.id
  BY <1>4 DEF EInv, InOrder, Before
<1>6. /\ toClient' \in Seq(Package) /\ Ordered(toClient')
      /\ Len(toClient') = Len(toClient) + 1
      /\ Ids(toClient') = Ids(toClient) \cup {e.id}
      /\ Sane(toClient')
  <2>1. toClient \in Seq(Package) /\ Ordered(toClient) /\ Sane(toClient)
    BY DEF EInv, Typed, InOrder
  <2>2. \A x \in Package : x.id \in Nat
    BY PackageIds
  <2>3. /\ Append(toClient, e) \in Seq(Package) /\ Ordered(Append(toClient, e))
        /\ Len(Append(toClient, e)) = Len(toClient) + 1
        /\ Ids(Append(toClient, e)) = Ids(toClient) \cup ({e.id} \ {0})
        /\ Sane(Append(toClient, e))
    BY <1>3, <1>5, <2>1, <2>2, AppendFacts
  <2> QED
    BY <1>1, <1>3, <2>3
<1>7. AllIds' = AllIds /\ Finished' = Finished
  BY <1>1, <1>4, <1>6 DEF AllIds, Finished
<1>8. Typed'
  BY <1>1, <1>2, <1>6 DEF EInv, Typed
<1>9. InOrder'
  <2>1. Before(incoming', toClient') /\ Before(incoming', toServer')
        /\ Before(toClient', toServer')
    BY <1>1, <1>4, <1>5, <1>6 DEF EInv, InOrder, Before
  <2> QED
    BY <1>1, <1>2, <1>6, <1>7, <2>1 DEF EInv, InOrder
<1>10. Bounded'
  <2>1. Len(toServer) \in Nat /\ Len(toClient) \in Nat /\ posted \in Nat
    BY DEF EInv, Typed
  <2> QED
    BY <1>1, <1>2, <1>6, <1>7, <2>1 DEF EInv, Bounded
<1>11. Stacked' /\ Waiting' = Waiting
  BY <1>1, CallsKept
<1>12. Sequential'
  BY <1>1, <1>7, <1>11 DEF EInv, Sequential
<1> QED
  BY <1>8, <1>9, <1>10, <1>11, <1>12 DEF EInv

LEMMA EmitStep ==
    ASSUME EInv, EmitSignal
    PROVE  EInv'
<1> DEFINE e == [kind |-> "signal", id |-> 0, ok |-> TRUE]
<1>1. /\ signals < MaxSignals /\ signals' = signals + 1 /\ issued > 0
      /\ toClient' = Append(toClient, e)
      /\ UNCHANGED <<issued, openRequests, response, stack, service, toServer,
                     incoming, posted, finishing, state, disturbed>>
  BY DEF EmitSignal
<1>2. e \in Package /\ e.id = 0 /\ e.kind = "signal"
  BY EndPointAssumption DEF Package, Kind
<1> HIDE DEF e
<1>3. /\ toClient' \in Seq(Package) /\ Ordered(toClient')
      /\ Len(toClient') = Len(toClient) + 1
      /\ Ids(toClient') = Ids(toClient)
      /\ Sane(toClient')
  <2>1. toClient \in Seq(Package) /\ Ordered(toClient) /\ Sane(toClient)
    BY DEF EInv, Typed, InOrder
  <2>2. \A x \in Package : x.id \in Nat
    BY PackageIds
  <2>3. /\ Append(toClient, e) \in Seq(Package) /\ Ordered(Append(toClient, e))
        /\ Len(Append(toClient, e)) = Len(toClient) + 1
        /\ Ids(Append(toClient, e)) = Ids(toClient) \cup ({e.id} \ {0})
        /\ Sane(Append(toClient, e))
    BY <1>2, <2>1, <2>2, AppendFacts
  <2> QED
    BY <1>1, <1>2, <2>3
<1>4. AllIds' = AllIds /\ Finished' = Finished
  BY <1>1, <1>3 DEF AllIds, Finished
<1>5. Typed'
  BY <1>1, <1>3, EndPointAssumption DEF EInv, Typed
<1>6. InOrder'
  BY <1>1, <1>3, <1>4 DEF EInv, InOrder, Before
<1>7. Bounded'
  <2>1. Len(toServer) \in Nat /\ Len(toClient) \in Nat /\ posted \in Nat
    BY DEF EInv, Typed
  <2> QED
    BY <1>1, <1>3, <1>4, <2>1 DEF EInv, Typed, Bounded
<1>8. Stacked' /\ Waiting' = Waiting
  BY <1>1, CallsKept
<1>9. Sequential'
  BY <1>1, <1>4, <1>8 DEF EInv, Sequential
<1> QED
  BY <1>5, <1>6, <1>7, <1>8, <1>9 DEF EInv

LEMMA ReadStep ==
    ASSUME EInv, NEW n \in 1 .. Len(toClient), readIncoming(n)
    PROVE  EInv'
<1>1. /\ incoming' = incoming \o SubSeq(toClient, 1, n)
      /\ toClient' = SubSeq(toClient, n + 1, Len(toClient))
      /\ posted' = posted + 1
      /\ UNCHANGED <<issued, openRequests, response, stack, service, toServer,
                     finishing, signals, state, disturbed>>
  BY DEF readIncoming
<1>2. /\ incoming' \in Seq(Package) /\ toClient' \in Seq(Package)
      /\ Len(toClient') = Len(toClient) - n
      /\ Ordered(incoming') /\ Ordered(toClient') /\ Before(incoming', toClient')
      /\ Ids(incoming') \cup Ids(toClient') = Ids(incoming) \cup Ids(toClient)
      /\ Ids(toClient') \subseteq Ids(toClient)
      /\ Sane(incoming') /\ Sane(toClient')
  <2> DEFINE q2 == incoming \o SubSeq(toClient, 1, n)
             r2 == SubSeq(toClient, n + 1, Len(toClient))
  <2>1. /\ toClient \in Seq(Package) /\ Ordered(toClient) /\ Sane(toClient)
        /\ incoming \in Seq(Package) /\ Ordered(incoming) /\ Sane(incoming)
        /\ Before(incoming, toClient)
    BY DEF EInv, Typed, InOrder
  <2>2. \A x \in Package : x.id \in Nat
    BY PackageIds
  <2>3. /\ q2 \in Seq(Package) /\ r2 \in Seq(Package)
        /\ Len(r2) = Len(toClient) - n
        /\ Ordered(q2) /\ Ordered(r2) /\ Before(q2, r2)
        /\ Ids(q2) \cup Ids(r2) = Ids(incoming) \cup Ids(toClient)
        /\ Ids(r2) \subseteq Ids(toClient)
        /\ Sane(incoming) /\ Sane(toClient) => Sane(q2) /\ Sane(r2)
    BY <2>1, <2>2, MoveFacts
  <2>4. incoming' = q2 /\ toClient' = r2
    BY <1>1
  <2> HIDE DEF q2, r2
  <2> QED
    BY <2>1, <2>3, <2>4
<1>3. AllIds' = AllIds /\ Finished' = Finished
  BY <1>1, <1>2 DEF AllIds, Finished
<1>4. Typed'
  BY <1>1, <1>2 DEF EInv, Typed
<1>5. InOrder'
  <2>1. \A x \in Ids(incoming') \cup Ids(toClient') : x \in Ids(incoming) \cup Ids(toClient)
    BY <1>2
  <2>2. Before(incoming', toServer') /\ Before(toClient', toServer')
    BY <1>1, <2>1 DEF EInv, InOrder, Before
  <2> QED
    BY <1>1, <1>2, <1>3, <2>2 DEF EInv, InOrder
<1>6. Bounded'
  <2>1. /\ Len(toServer) \in Nat /\ Len(toClient) \in Nat /\ posted \in Nat
        /\ n \in Nat /\ 1 <= n /\ issued \in Nat /\ signals \in Nat
    BY EndPointAssumption DEF EInv, Typed
  <2>2. posted + Len(toClient) + Len(toServer) <= issued + signals
        /\ finishing <= Cardinality(Finished) /\ (issued = 0 => signals = 0)
    BY DEF EInv, Bounded
  <2>3. posted' = posted + 1 /\ Len(toClient') = Len(toClient) - n
        /\ Len(toServer') = Len(toServer) /\ issued' = issued /\ signals' = signals
        /\ finishing' = finishing /\ Finished' = Finished
    BY <1>1, <1>2, <1>3
  <2>4. posted' + Len(toClient') + Len(toServer') <= issued' + signals'
    BY <2>1, <2>2, <2>3
  <2> QED
    BY <2>2, <2>3, <2>4 DEF Bounded
<1>7. Stacked' /\ Waiting' = Waiting
  BY <1>1, CallsKept
<1>8. Sequential'
  BY <1>1, <1>3, <1>7 DEF EInv, Sequential
<1> QED
  BY <1>4, <1>5, <1>6, <1>7, <1>8 DEF EInv

\* newPackageReady starts to read: no call is added.
LEMMA ReadyStep ==
    ASSUME EInv, newPackageReady
    PROVE  EInv'
<1>1. /\ posted > 0 /\ posted' = posted - 1 /\ stack' = Append(stack, Drain)
      /\ UNCHANGED <<issued, openRequests, response, service, toServer, toClient,
                     incoming, finishing, signals, state, disturbed>>
  BY DEF newPackageReady
<1>2. /\ stack' \in Seq(Frame) /\ Waiting' = Waiting
      /\ \A i \in Waiting : stack'[i] = stack[i]
  <2>1. Drain \in Frame /\ Drain.run = "drain"
    BY PackageIds DEF Drain
  <2> QED
    BY <1>1, <2>1, PushFacts DEF EInv, Typed
<1>3. /\ posted \in Nat /\ issued \in Nat /\ signals \in Nat
      /\ Len(toClient) \in Nat /\ Len(toServer) \in Nat
  BY EndPointAssumption DEF EInv, Typed
<1>4. AllIds' = AllIds /\ Finished' = Finished
  BY <1>1 DEF AllIds, Finished
<1>5. Typed'
  BY <1>1, <1>2, <1>3 DEF EInv, Typed
<1>6. InOrder'
  BY <1>1, <1>4 DEF EInv, InOrder
<1>7. Bounded'
  BY <1>1, <1>3, <1>4 DEF EInv, Bounded
<1>8. Stacked'
  <2>1. issued # 0
    BY <1>1, <1>3 DEF EInv, Bounded
  <2> QED
    BY <1>1, <1>2, <2>1, StackedKept DEF EInv
<1>9. Sequential'
  BY <1>1, <1>2, <1>4 DEF EInv, Sequential
<1> QED
  BY <1>5, <1>6, <1>7, <1>8, <1>9 DEF EInv

\* pendingRequestFinished: the only wake-up there is has reached the only call.
LEMMA FinishedStep ==
    ASSUME EInv, pendingRequestFinished
    PROVE  EInv'
<1>1. /\ finishing > 0 /\ finishing' = finishing - 1
      /\ UNCHANGED <<issued, openRequests, response, service, toServer, toClient,
                     incoming, posted, signals, state, disturbed>>
  BY DEF pendingRequestFinished, queues
<1>2. /\ stack' \in Seq(Frame) /\ Waiting' = Waiting
      /\ stack = <<>> => stack' = <<>>
      /\ \A i \in Waiting : /\ stack'[i].id = stack[i].id
                            /\ stack'[i].kind = stack[i].kind
                            /\ stack'[i].quit = TRUE
  BY QuitFacts DEF EInv, Typed
<1>3. AllIds' = AllIds /\ Finished' = Finished /\ finishing \in Nat
  BY <1>1 DEF AllIds, Finished, EInv, Typed
<1>4. Typed'
  BY <1>1, <1>2, <1>3 DEF EInv, Typed
<1>5. InOrder'
  BY <1>1, <1>3 DEF EInv, InOrder
<1>6. Bounded'
  <2>1. Cardinality(Finished) \in Nat
    <3>1. IsFiniteSet(Id)
      BY EndPointAssumption, FS_Interval DEF Id
    <3> QED
      BY <3>1, FS_Subset, FS_CardinalityType DEF Finished
  <2> QED
    BY <1>1, <1>3, <2>1 DEF EInv, Bounded
<1>7. Stacked'
  <2>1. issued = 0 => stack' = <<>>
    BY <1>2 DEF EInv, Stacked
  <2> QED
    BY <1>1, <1>2, <2>1, StackedKept DEF EInv
<1>8. Sequential'
  BY <1>1, <1>2, <1>3 DEF EInv, Sequential
<1> QED
  BY <1>4, <1>5, <1>6, <1>7, <1>8 DEF EInv

\* A step after which the client counts as disturbed.
LEMMA DisturbedSequential ==
    ASSUME disturbed' = TRUE
    PROVE  Sequential'
  BY DEF Sequential

LEMMA TimerStep ==
    ASSUME EInv, NEW k \in Waiting, TimerQuits(k)
    PROVE  EInv'
<1>1. /\ disturbed' = TRUE
      /\ UNCHANGED <<issued, openRequests, response, service, toServer, toClient,
                     incoming, posted, finishing, signals, state>>
  BY DEF TimerQuits, queues
<1>2. /\ stack' \in Seq(Frame) /\ Waiting' = Waiting
      /\ \A i \in Waiting : /\ stack'[i].id = stack[i].id
                            /\ stack'[i].kind = stack[i].kind
  BY TimerFacts DEF EInv, Typed
<1>3. AllIds' = AllIds /\ Finished' = Finished
  BY <1>1 DEF AllIds, Finished
<1>4. Typed'
  BY <1>1, <1>2 DEF EInv, Typed
<1>5. InOrder' /\ Bounded'
  BY <1>1, <1>3 DEF EInv, InOrder, Bounded
<1>6. Stacked'
  <2>1. issued # 0
    BY DEF EInv, Typed, Stacked, Waiting
  <2> QED
    BY <1>1, <1>2, <2>1, StackedKept DEF EInv
<1> QED
  BY <1>1, <1>4, <1>5, <1>6, DisturbedSequential DEF EInv

LEMMA DisconnectedStep ==
    ASSUME EInv, disconnected
    PROVE  EInv'
<1>1. /\ disturbed' = TRUE /\ state' \in {"deleted", "crashed"}
      /\ UNCHANGED <<issued, openRequests, response, stack, service, toServer,
                     toClient, incoming, posted, finishing, signals>>
  BY DEF disconnected, queues
<1>2. AllIds' = AllIds /\ Finished' = Finished
  BY <1>1 DEF AllIds, Finished
<1>3. Typed'
  BY <1>1 DEF EInv, Typed
<1>4. InOrder' /\ Bounded'
  BY <1>1, <1>2 DEF EInv, InOrder, Bounded
<1>5. Stacked'
  BY <1>1, CallsKept
<1> QED
  BY <1>1, <1>3, <1>4, <1>5, DisturbedSequential DEF EInv

LEMMA DrainEndsStep ==
    ASSUME EInv, DrainEnds
    PROVE  EInv'
<1>1. /\ stack # <<>> /\ Last(stack).run = "drain" /\ stack' = Front(stack)
      /\ UNCHANGED <<issued, openRequests, response, service, toServer, toClient,
                     incoming, posted, finishing, signals, state, disturbed>>
  BY DEF DrainEnds, Reading, queues
<1>2. /\ stack' \in Seq(Frame) /\ Waiting' = Waiting
      /\ \A i \in Waiting : stack'[i] = stack[i]
  <2>1. Last(stack).run # "wait"
    BY <1>1
  <2> QED
    BY <1>1, <2>1, PopFacts DEF EInv, Typed
<1>3. AllIds' = AllIds /\ Finished' = Finished
  BY <1>1 DEF AllIds, Finished
<1>4. Typed'
  BY <1>1, <1>2 DEF EInv, Typed
<1>5. InOrder' /\ Bounded'
  BY <1>1, <1>3 DEF EInv, InOrder, Bounded
<1>6. Stacked'
  <2>1. issued # 0
    BY <1>1 DEF EInv, Stacked
  <2> QED
    BY <1>1, <1>2, <2>1, StackedKept DEF EInv
<1>7. Sequential'
  BY <1>1, <1>2, <1>3 DEF EInv, Sequential
<1> QED
  BY <1>4, <1>5, <1>6, <1>7 DEF EInv

-----------------------------------------------------------------------------
(* The packages that newPackageReady takes.                                *)

\* The one taken is the oldest: every other number under way is larger.
LEMMA TakeFacts ==
    ASSUME EInv, incoming # <<>>, incoming' = Tail(incoming)
    PROVE  /\ Head(incoming) \in Package
           /\ incoming' \in Seq(Package) /\ Sane(incoming') /\ Ordered(incoming')
           /\ Head(incoming).kind = "signal" <=> Head(incoming).id = 0
           /\ Ids(incoming) = Ids(incoming') \cup ({Head(incoming).id} \ {0})
           /\ Head(incoming).id # 0 =>
                 \A x \in Ids(incoming') \cup Ids(toClient) \cup Ids(toServer) :
                    Head(incoming).id < x
<1>1. /\ incoming \in Seq(Package) /\ Ordered(incoming) /\ Sane(incoming)
      /\ Before(incoming, toClient) /\ Before(incoming, toServer)
  BY DEF EInv, Typed, InOrder
<1>2. \A x \in Package : x.id \in Nat
  BY PackageIds
<1>3. /\ Tail(incoming) \in Seq(Package) /\ Ordered(Tail(incoming))
      /\ Head(incoming) \in Package
      /\ Ids(incoming) = Ids(Tail(incoming)) \cup ({Head(incoming).id} \ {0})
      /\ Head(incoming).id # 0 =>
            \A x \in Ids(Tail(incoming)) : Head(incoming).id < x
      /\ Sane(Tail(incoming))
      /\ Head(incoming).kind = "signal" <=> Head(incoming).id = 0
  BY <1>1, <1>2, TailFacts
<1> QED
  BY <1>1, <1>3 DEF Before

\* The rest stays in order when no Response is written.
LEMMA TakenInOrder ==
    ASSUME EInv, incoming # <<>>, incoming' = Tail(incoming),
           UNCHANGED <<issued, response, toServer, toClient, posted, finishing,
                       signals>>
    PROVE  InOrder' /\ Bounded' /\ AllIds' \subseteq AllIds /\ Finished' = Finished
<1>1. /\ Sane(incoming') /\ Ordered(incoming')
      /\ Ids(incoming') \subseteq Ids(incoming)
  BY TakeFacts
<1>2. AllIds' \subseteq AllIds /\ Finished' = Finished
  BY <1>1 DEF AllIds, Finished
<1>3. Before(incoming', toClient') /\ Before(incoming', toServer')
  BY <1>1 DEF EInv, InOrder, Before
<1>4. InOrder'
  BY <1>1, <1>2, <1>3 DEF EInv, InOrder
<1>5. Bounded'
  BY <1>2 DEF EInv, Bounded
<1> QED
  BY <1>2, <1>4, <1>5

LEMMA TakeAnswerStep ==
    ASSUME EInv, TakeAnswer
    PROVE  EInv'
<1> DEFINE h == Head(incoming).id
           r == IF Head(incoming).ok THEN h ELSE 0
<1>1. /\ incoming # <<>> /\ Head(incoming).kind \in Kind /\ h \in openRequests
      /\ incoming' = Tail(incoming)
      /\ response' = [response EXCEPT ![h] = [isFinished |-> TRUE, result |-> r]]
      /\ finishing' = finishing + 1
      /\ UNCHANGED <<issued, openRequests, stack, service, toServer, toClient,
                     posted, signals, state, disturbed>>
  BY DEF TakeAnswer, NextIs, Finish, Wake
<1>2. /\ Head(incoming) \in Package
      /\ incoming' \in Seq(Package) /\ Sane(incoming') /\ Ordered(incoming')
      /\ Head(incoming).kind = "signal" <=> h = 0
      /\ Ids(incoming) = Ids(incoming') \cup ({h} \ {0})
      /\ h # 0 => \A x \in Ids(incoming') \cup Ids(toClient) \cup Ids(toServer) : h < x
  BY <1>1, TakeFacts
<1>3. h \in Id /\ h # 0 /\ r \in 0 .. MaxCalls
  <2>1. h \in Id
    BY <1>1 DEF EInv, Typed
  <2> QED
    BY <2>1, EndPointAssumption DEF Id
<1> HIDE DEF h, r
<1>4. /\ AllIds = AllIds' \cup {h}
      /\ \A x \in AllIds' : h < x
      /\ h \notin AllIds'
  BY <1>1, <1>2, <1>3 DEF AllIds, Id
<1>5. h \notin Finished /\ h <= issued
  <2>1. h \in AllIds /\ h \in Nat
    BY <1>3, <1>4, EndPointAssumption DEF Id
  <2>2. ~(h < h)
    BY <2>1
  <2> QED
    BY <2>1, <2>2 DEF EInv, InOrder, Typed
<1>6. response' \in [Id -> [isFinished : BOOLEAN, result : 0 .. MaxCalls]]
      /\ response'[h].isFinished /\ \A i \in Id : i # h => response'[i] = response[i]
  <2>1. response \in [Id -> [isFinished : BOOLEAN, result : 0 .. MaxCalls]]
    BY DEF EInv, Typed
  <2>2. [isFinished |-> TRUE, result |-> r] \in [isFinished : BOOLEAN, result : 0 .. MaxCalls]
    BY <1>3
  <2> QED
    BY <1>1, <1>3, <2>1, <2>2
<1>7. Finished' = Finished \cup {h}
  BY <1>3, <1>6 DEF Finished
<1>8. Typed'
  BY <1>1, <1>2, <1>6 DEF EInv, Typed
<1>9. InOrder'
  <2>1. Before(incoming', toClient') /\ Before(incoming', toServer')
    BY <1>1, <1>2 DEF EInv, InOrder, Before
  <2>2. AllIds' \subseteq 1 .. issued'
    BY <1>1, <1>4 DEF EInv, InOrder
  <2>3. \A i \in Finished' : i <= issued' /\ \A x \in AllIds' : i < x
    BY <1>1, <1>4, <1>5, <1>7 DEF EInv, InOrder
  <2>4. \A i \in Id \ Finished' : response'[i].result = 0
    BY <1>6, <1>7 DEF EInv, InOrder
  <2> QED
    BY <1>1, <1>2, <2>1, <2>2, <2>3, <2>4 DEF EInv, InOrder
<1>10. Bounded'
  <2>1. IsFiniteSet(Finished)
    <3>1. IsFiniteSet(Id)
      BY EndPointAssumption, FS_Interval DEF Id
    <3> QED
      BY <3>1, FS_Subset DEF Finished
  <2>2. Cardinality(Finished') = Cardinality(Finished) + 1 /\ Cardinality(Finished) \in Nat
    BY <1>5, <1>7, <2>1, FS_AddElement, FS_CardinalityType
  <2>3. finishing \in Nat
    BY DEF EInv, Typed
  <2> QED
    BY <1>1, <2>2, <2>3 DEF EInv, Bounded
<1>11. Stacked' /\ Waiting' = Waiting
  BY <1>1, CallsKept
<1>12. Sequential'
  <2> SUFFICES ASSUME ~disturbed' PROVE Sequential'
    BY DEF Sequential
  <2>1. ~disturbed
    BY <1>1
  <2>2. h = issued /\ 1 \in Waiting /\ AllIds' = {}
    BY <1>4, <2>1 DEF EInv, Sequential
  <2>3. finishing = 0 /\ ~stack[1].quit /\ stack[1].id = issued
    BY <1>5, <2>1, <2>2 DEF EInv, Sequential, Typed
  <2>4. state = "alive" /\ Waiting \subseteq {1}
    BY <2>1 DEF EInv, Sequential
  <2> QED
    BY <1>1, <1>7, <1>11, <2>2, <2>3, <2>4 DEF Sequential
<1> QED
  BY <1>8, <1>9, <1>10, <1>11, <1>12 DEF EInv

\* An answer without a Response is one to a call that timed out.
LEMMA TakeLateStep ==
    ASSUME EInv, TakeLateAnswer
    PROVE  EInv'
<1>1. /\ incoming # <<>> /\ Head(incoming).kind \in Kind
      /\ Head(incoming).id \notin openRequests
      /\ incoming' = Tail(incoming) /\ state' \in {state, "crashed"}
      /\ UNCHANGED <<issued, openRequests, response, stack, service, toServer,
                     toClient, posted, finishing, signals, disturbed>>
  BY DEF TakeLateAnswer, NextIs
<1>2. /\ incoming' \in Seq(Package)
      /\ Head(incoming).id \in AllIds
  <2>1. Head(incoming).kind # "signal"
    BY <1>1, PackageIds
  <2> QED
    BY <1>1, <2>1, TakeFacts DEF AllIds
<1>3. Typed'
  BY <1>1, <1>2 DEF EInv, Typed
<1>4. InOrder' /\ Bounded'
  BY <1>1, TakenInOrder
<1>5. Stacked'
  BY <1>1, CallsKept
<1>6. disturbed
  <2> SUFFICES ASSUME ~disturbed PROVE FALSE
    OBVIOUS
  <2>1. 1 \in Waiting /\ stack[1].id = Head(incoming).id
    BY <1>2 DEF EInv, Sequential
  <2> QED
    BY <1>1, <2>1 DEF EInv, Stacked, RequestsAccounted
<1>7. Sequential'
  BY <1>1, <1>6 DEF Sequential
<1> QED
  BY <1>3, <1>4, <1>5, <1>7 DEF EInv

\* A signal, to a slot that makes a call or to none.
LEMMA TakeSignalStep ==
    ASSUME EInv, TakeSignal
    PROVE  EInv'
<1>1. /\ incoming # <<>> /\ Head(incoming).kind = "signal" /\ service = "proxy"
      /\ incoming' = Tail(incoming) /\ disturbed' = TRUE
      /\ UNCHANGED <<response, service, toClient, posted, finishing, signals, state>>
  BY DEF TakeSignal, NextIs
<1>2. /\ incoming' \in Seq(Package) /\ Sane(incoming') /\ Ordered(incoming')
      /\ Ids(incoming') = Ids(incoming)
  <2>1. Head(incoming).id = 0
    BY <1>1, TakeFacts
  <2> QED
    BY <1>1, <2>1, TakeFacts
<1>3. CASE UNCHANGED <<issued, openRequests, toServer, stack>>
  <2>1. Typed'
    BY <1>1, <1>2, <1>3 DEF EInv, Typed
  <2>2. InOrder' /\ Bounded'
    BY <1>1, <1>3, TakenInOrder
  <2>3. Stacked'
    BY <1>1, <1>3, CallsKept
  <2> QED
    BY <1>1, <2>1, <2>2, <2>3, DisturbedSequential DEF EInv
<1>4. ASSUME NEW kind \in {"method", "property"}, Request(kind, stack)
      PROVE  EInv'
  <2>1. kind \in Kind /\ kind # "object"
    BY DEF Kind
  <2>2. issued # 0
    BY <1>1 DEF EInv, Stacked
  <2> QED
    BY <1>1, <1>2, <1>4, <2>1, <2>2, RequestStep
<1> QED
  BY <1>3, <1>4 DEF TakeSignal

LEMMA TakeEarlyStep ==
    ASSUME EInv, TakeEarlySignal
    PROVE  EInv'
<1>1. /\ incoming # <<>> /\ incoming' = Tail(incoming)
      /\ disturbed' = TRUE /\ state' = "crashed"
      /\ UNCHANGED <<issued, openRequests, response, stack, service, toServer,
                     toClient, posted, finishing, signals>>
  BY DEF TakeEarlySignal, NextIs
<1>2. incoming' \in Seq(Package)
  BY <1>1, TakeFacts
<1>3. Typed'
  BY <1>1, <1>2 DEF EInv, Typed
<1>4. InOrder' /\ Bounded'
  BY <1>1, TakenInOrder
<1>5. Stacked'
  BY <1>1, CallsKept
<1> QED
  BY <1>1, <1>3, <1>4, <1>5, DisturbedSequential DEF EInv

LEMMA ConstructStep ==
    ASSUME EInv, constructProxy
    PROVE  EInv'
<1>1. /\ issued = 0 /\ Request("object", stack)
      /\ UNCHANGED <<response, service, toClient, incoming, posted, finishing,
                     signals, state, disturbed>>
  BY DEF constructProxy
<1>2. "object" \in Kind /\ stack = <<>>
  BY <1>1 DEF Kind, EInv, Stacked
<1>3. /\ incoming' \in Seq(Package) /\ Sane(incoming') /\ Ordered(incoming')
      /\ disturbed' \in BOOLEAN
  BY <1>1 DEF EInv, Typed, InOrder
<1> QED
  BY <1>1, <1>2, <1>3, RequestStep

LEMMA InvokeStep ==
    ASSUME EInv, NEW kind \in Kind, invokeRemote(kind)
    PROVE  EInv'
<1>1. /\ service = "proxy" /\ kind # "object" /\ Request(kind, stack)
      /\ disturbed' = (disturbed \/ stack # <<>>)
      /\ UNCHANGED <<response, service, toClient, incoming, posted, finishing,
                     signals, state>>
  BY DEF invokeRemote
<1>2. issued # 0
  BY <1>1 DEF EInv, Stacked
<1>3. /\ incoming' \in Seq(Package) /\ Sane(incoming') /\ Ordered(incoming')
      /\ disturbed' \in BOOLEAN
  BY <1>1 DEF EInv, Typed, InOrder
<1> QED
  BY <1>1, <1>2, <1>3, RequestStep

LEMMA StutterStep ==
    ASSUME EInv, UNCHANGED epVars
    PROVE  EInv'
<1>1. UNCHANGED <<issued, openRequests, response, stack, service, toServer, toClient,
                  incoming, posted, finishing, signals, state, disturbed>>
  BY DEF epVars
<1>2. AllIds' = AllIds /\ Finished' = Finished /\ Waiting' = Waiting
  BY <1>1 DEF AllIds, Finished, Waiting
<1>3. Typed' /\ InOrder' /\ Bounded'
  BY <1>1, <1>2 DEF EInv, Typed, InOrder, Bounded
<1>4. Stacked'
  BY <1>1, CallsKept
<1>5. Sequential'
  BY <1>1, <1>2 DEF EInv, Sequential
<1> QED
  BY <1>3, <1>4, <1>5 DEF EInv

-----------------------------------------------------------------------------
(* The theorems.                                                           *)

\* Every step of the end point, of the service and of the loops keeps the
\* order of the requests and the accounts of the calls.
THEOREM EInvariant == EPSpec => []EInv
<1>1. EInv /\ [EPNext]_epVars => EInv'
  <2> SUFFICES ASSUME EInv, [EPNext]_epVars PROVE EInv'
    OBVIOUS
  <2>1. CASE constructProxy
    BY <2>1, ConstructStep
  <2>2. CASE \E kind \in Kind : invokeRemote(kind)
    BY <2>2, InvokeStep
  <2>3. CASE WaitReturns
    BY <2>3, ReturnStep
  <2>4. CASE \E ok \in BOOLEAN : Answer(ok)
    BY <2>4, AnswerStep
  <2>5. CASE EmitSignal
    BY <2>5, EmitStep
  <2>6. CASE \E n \in 1 .. Len(toClient) : readIncoming(n)
    BY <2>6, ReadStep
  <2>7. CASE newPackageReady
    BY <2>7, ReadyStep
  <2>8. CASE pendingRequestFinished
    BY <2>8, FinishedStep
  <2>9. CASE \E i \in Waiting : TimerQuits(i)
    BY <2>9, TimerStep
  <2>10. CASE disconnected
    BY <2>10, DisconnectedStep
  <2>11. CASE DrainEnds
    BY <2>11, DrainEndsStep
  <2>12. CASE TakeAnswer
    BY <2>12, TakeAnswerStep
  <2>13. CASE TakeLateAnswer
    BY <2>13, TakeLateStep
  <2>14. CASE TakeSignal
    BY <2>14, TakeSignalStep
  <2>15. CASE TakeEarlySignal
    BY <2>15, TakeEarlyStep
  <2>16. CASE UNCHANGED epVars
    BY <2>16, StutterStep
  <2> QED
    BY <2>1, <2>2, <2>3, <2>4, <2>5, <2>6, <2>7, <2>8, <2>9, <2>10, <2>11,
       <2>12, <2>13, <2>14, <2>15, <2>16 DEF EPNext
<1> QED
  BY <1>1, EPInitInv, PTL DEF EPSpec

\* The variables keep their types.  The bounds on the posted calls and on the
\* wake-ups come from what was sent and answered.
THEOREM EndPointTypes == EPSpec => []EPTypeOK
<1>1. EInv => EPTypeOK
  <2> SUFFICES ASSUME EInv PROVE EPTypeOK
    OBVIOUS
  <2>1. Typed
    BY DEF EInv
  <2>2. posted \in 0 .. MaxCalls + MaxSignals
    <3>1. /\ Len(toClient) \in Nat /\ Len(toServer) \in Nat /\ posted \in Nat
          /\ issued \in 0 .. MaxCalls /\ signals \in 0 .. MaxSignals
      BY <2>1 DEF Typed
    <3>2. posted + Len(toClient) + Len(toServer) <= issued + signals
      BY DEF EInv, Bounded
    <3> QED
      BY <3>1, <3>2, EndPointAssumption
  <2>3. finishing \in 0 .. MaxCalls
    <3>1. IsFiniteSet(Id) /\ Cardinality(Id) = MaxCalls
      BY EndPointAssumption, FS_Interval DEF Id
    <3>2. Cardinality(Finished) <= MaxCalls /\ Cardinality(Finished) \in Nat
      BY <3>1, FS_Subset, FS_CardinalityType DEF Finished
    <3>3. finishing \in Nat /\ finishing <= Cardinality(Finished)
      BY <2>1 DEF EInv, Typed, Bounded
    <3> QED
      BY <3>2, <3>3, EndPointAssumption
  <2>4. toServer \in Seq([kind : Kind, id : Id])
    BY <2>1 DEF Typed, Request1
  <2> QED
    BY <2>1, <2>2, <2>3, <2>4, Zenon DEF Typed, EPTypeOK
<1> QED
  BY <1>1, EInvariant, PTL

\* A result is the answer to the request it is returned for, whatever calls
\* are made while one waits and in whatever order they are answered.
THEOREM ResultIsOwnAnswer == EPSpec => []AnswerIsOwn
<1>1. EPInit => AnswerIsOwn
  BY DEF EPInit, AnswerIsOwn
<1>2. EInv /\ AnswerIsOwn /\ [EPNext]_epVars => AnswerIsOwn'
  <2> SUFFICES ASSUME EInv, AnswerIsOwn, [EPNext]_epVars PROVE AnswerIsOwn'
    OBVIOUS
  <2>1. CASE UNCHANGED response
    BY <2>1 DEF AnswerIsOwn
  <2>2. CASE TakeAnswer
    <3> DEFINE h == Head(incoming).id
               r == IF Head(incoming).ok THEN h ELSE 0
    <3>1. response' = [response EXCEPT ![h] = [isFinished |-> TRUE, result |-> r]]
      BY <2>2 DEF TakeAnswer, Finish
    <3>2. r \in {0, h}
      OBVIOUS
    <3>3. response \in [Id -> [isFinished : BOOLEAN, result : 0 .. MaxCalls]]
      BY DEF EInv, Typed
    <3> HIDE DEF h, r
    <3> QED
      BY <3>1, <3>2, <3>3 DEF AnswerIsOwn
  <2>3. TakeAnswer \/ UNCHANGED response
    BY DEF EPNext, epVars, constructProxy, invokeRemote, WaitReturns, Answer, EmitSignal,
           readIncoming, newPackageReady, pendingRequestFinished, TimerQuits,
           disconnected, DrainEnds, TakeLateAnswer, TakeSignal, TakeEarlySignal
  <2> QED
    BY <2>1, <2>2, <2>3
<1> QED
  BY <1>1, <1>2, EInvariant, PTL DEF EPSpec

\* The table of responses holds the calls that wait and nothing else, but for
\* a constructProxy that was not answered.
THEOREM TableIsExact == EPSpec => []RequestsAccounted
<1>1. EInv => RequestsAccounted
  BY DEF EInv, Stacked
<1> QED
  BY <1>1, EInvariant, PTL

\* One call after another, each answered in time and without signals: the
\* client never crashes, and no loop is quit without the answer it waits for.
THEOREM SequentialCallsAreSafe == EPSpec => []SequentialIsSafe
<1>1. EInv => SequentialIsSafe
  <2> SUFFICES ASSUME EInv, ~disturbed PROVE SequentialIsSafe
    BY DEF SequentialIsSafe
  <2>1. /\ state = "alive" /\ Waiting \subseteq {1}
        /\ finishing > 0 => 1 \in Waiting
        /\ 1 \in Waiting => /\ stack[1].id = issued
                            /\ stack[1].quit => issued \in Finished
    BY DEF EInv, Sequential
  <2>2. \A i \in Waiting : stack[i].quit => response[stack[i].id].isFinished
    BY <2>1 DEF Finished
  <2> QED
    BY <2>1, <2>2 DEF SequentialIsSafe
<1> QED
  BY <1>1, EInvariant, PTL

=============================================================================
