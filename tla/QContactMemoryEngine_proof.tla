--------------------- MODULE QContactMemoryEngine_proof ---------------------
(***************************************************************************)
(* Proofs about QContactMemoryEngine, for any engines, any number of       *)
(* contacts, batches of any length and calls nested to any depth.          *)
(*                                                                         *)
(* The invariant has parts, and every theorem takes those that it needs:   *)
(*   Typed       the state, and the agenda: the second half of a removal   *)
(*               stands before the loop it is a part of                    *)
(*   Identified  identifiers are given out once                            *)
(*   Agreed      the three places where relationships are kept             *)
(*   Orderly     there is one removal at a time and its place is right     *)
(*   Detached    nothing refers to a contact that is being removed         *)
(*   Informed    what observers do not know yet they are going to hear     *)
(*                                                                         *)
(* What an action does to the state is said once, in an operator of its    *)
(* own without records and tuples (Saved, Related, Begun, Erased, ...),    *)
(* and shown of the action; the proofs about the parts use only that.      *)
(***************************************************************************)
EXTENDS QContactMemoryEngine, FiniteSetTheorems, WellFoundedInduction, TLAPS

-----------------------------------------------------------------------------
(* The inductive invariant.                                                *)

\* What one engine is told, and what the operations under way have left to do.
Told ==
    [name : Signal \ {"self"}, ids : SUBSET Id]
    \cup [name : {"self"}, ids : {{id} : id \in Id \cup {0}}]

ChangeSet == [added : SUBSET Id, changed : SUBSET Id, removed : SUBSET Id,
              relationshipsAdded : SUBSET Id, relationshipsRemoved : SUBSET Id,
              oldSelf : Id \cup {0}, newSelf : Id \cup {0}]

Emission == [do : {"emit"}, engine : Engine, signals : Seq(Told) \ {<<>>}]
Erasure == [do : {"erase"}, id : Id, index : Nat]
Removal == [do : {"remove"}, asked : SUBSET Id, rest : Seq(Id), cs : ChangeSet]

Task == Emission \cup Erasure \cup Removal

\* The second half of a removal stands before the loop it is a part of.
Halfway == {loop \in Removal : loop.rest # <<>>}

Agenda(work) ==
    /\ work \in Seq(Task)
    /\ \A i \in DOMAIN work : work[i] \in Erasure =>
          i + 1 \in DOMAIN work /\ work[i + 1] \in Halfway

Typed == MemTypeOK /\ Agenda(agenda)

\* Identifiers are given out once, and relationships have only those.
Given == 2 .. m_nextContactId

Identified ==
    /\ m_contactIds \subseteq Given
    /\ \A i, j \in DOMAIN m_contacts : m_contacts[i].id = m_contacts[j].id => i = j
    /\ \A r \in m_relationships :
          r.first.id \in Given /\ (r.second.uri = "own" => r.second.id \in Given)

\* Clients name the manager and save what they have fetched.
ClientsNameManager ==
    FirstUri \subseteq {"own"} /\ SecondUri \subseteq {"", "own"} /\ Copy \subseteq {"fetched"}

\* The relationships of every identifier that there may be.
Agreed ==
    /\ \A id \in Id : m_orderedRelationships[id] = RelationshipsOf(id)
    /\ \A i \in DOMAIN m_contacts :
          m_contacts[i].related = RelationshipsOf(m_contacts[i].id)
    /\ \A r \in m_relationships : r.first.uri = "own" /\ r.second.uri = "own"

\* While slots do not remove contacts there is one removal at a time, at the
\* bottom of the agenda, and the place it has found is still right.
SlotsDoNotRemove == "remove" \notin SlotCalls

Order(work, removals, erasures) ==
    \A i \in DOMAIN work :
        /\ work[i] \in Removal => i = Len(work) /\ work[i] \in removals
        /\ work[i] \in Erasure => i + 1 = Len(work) /\ <<work[i], work[i + 1]>> \in erasures

Removing(loop) ==
    /\ loop.asked \subseteq Given
    /\ loop.asked \cap m_contactIds \subseteq ToSet(loop.rest)
    /\ loop.cs.removed \subseteq Given \ m_contactIds

Erasing(work, loop) ==
    /\ loop.rest # <<>> /\ Head(loop.rest) = work.id
    /\ work.index \in DOMAIN m_contacts /\ m_contacts[work.index].id = work.id

Removals == {loop \in Removal : Removing(loop)}
Erasures == {pair \in Erasure \X Removal : Erasing(pair[1], pair[2])}

Orderly == Order(agenda, Removals, Erasures)

\* If they do not relate contacts either, nothing refers to a contact any more
\* when it is removed.
SlotsKeep == FirstUri \subseteq {"own"} /\ SlotCalls \subseteq {"save", "self"}

Detached ==
    /\ \A work \in ToSet(agenda) : work \in Erasure => RelationshipsOf(work.id) = {}
    /\ \A r \in m_relationships : r.first.uri = "own"
    /\ NoDanglingRelationship

\* While slots neither remove contacts nor change the self contact: what is
\* still to be heard is true, and whatever an observer does not know yet is
\* something it is going to hear.
SlotsTell == SlotCalls \subseteq {"save", "relate"}

Due(work) ==
    {due \in Engine \X Told : \E w \in ToSet(work) :
        w \in Emission /\ w.engine = due[1] /\ due[2] \in ToSet(w.signals)}

Loops(work) == ToSet(work) \cap Removal

Truthful(s) ==
    /\ s.name = "added" => s.ids \subseteq m_contactIds
    /\ s.name = "removed" => s.ids \subseteq Given \ m_contactIds
    /\ s.name = "self" => s.ids = {m_selfContactId}

Plain(loop) ==
    /\ loop.cs.added = {} /\ loop.cs.newSelf = 0
    /\ loop.cs.oldSelf # 0 => m_selfContactId = 0

Hears(e) ==
    /\ \A id \in m_contactIds \ known[e] :
          \E s \in Told : s.name = "added" /\ id \in s.ids /\ <<e, s>> \in Due(agenda)
    /\ \A id \in known[e] \ m_contactIds :
          \/ \E s \in Told : s.name = "removed" /\ id \in s.ids /\ <<e, s>> \in Due(agenda)
          \/ \E loop \in Loops(agenda) : id \in loop.cs.removed
    /\ knownSelf[e] # m_selfContactId =>
          \/ \E s \in Told : s.name = "self" /\ <<e, s>> \in Due(agenda)
          \/ \E loop \in Loops(agenda) : loop.cs.oldSelf # 0

Informed ==
    /\ \A due \in Due(agenda) : Truthful(due[2])
    /\ \A loop \in Loops(agenda) : Plain(loop)
    /\ \A e \in ToSet(m_sharedEngines) : Hears(e)
    /\ \A i, j \in DOMAIN m_sharedEngines : m_sharedEngines[i] = m_sharedEngines[j] => i = j

-----------------------------------------------------------------------------
(* Sequences.                                                              *)

LEMMA Concatenation ==
    ASSUME NEW S, NEW s \in Seq(S), NEW t \in Seq(S)
    PROVE  /\ s \o t \in Seq(S) /\ Len(s \o t) = Len(s) + Len(t)
           /\ \A i \in 1 .. Len(s) : (s \o t)[i] = s[i]
           /\ \A i \in 1 .. Len(t) : (s \o t)[Len(s) + i] = t[i]
           /\ \A i \in Len(s) + 1 .. Len(s) + Len(t) :
                 i - Len(s) \in 1 .. Len(t) /\ (s \o t)[i] = t[i - Len(s)]
           /\ ToSet(s \o t) = ToSet(s) \cup ToSet(t)
<1>1. /\ s \o t \in Seq(S) /\ Len(s \o t) = Len(s) + Len(t)
      /\ \A i \in 1 .. Len(s) : (s \o t)[i] = s[i]
      /\ \A i \in 1 .. Len(t) : (s \o t)[Len(s) + i] = t[i]
      /\ \A i \in Len(s) + 1 .. Len(s) + Len(t) :
            i - Len(s) \in 1 .. Len(t) /\ (s \o t)[i] = t[i - Len(s)]
  OBVIOUS
<1>2. \A i \in DOMAIN s : i \in DOMAIN (s \o t)
  BY <1>1
<1>3. \A i \in DOMAIN t : Len(s) + i \in DOMAIN (s \o t)
  BY <1>1
<1> QED
  BY <1>1, <1>2, <1>3 DEF ToSet

LEMMA Single ==
    ASSUME NEW S, NEW x \in S
    PROVE  <<x>> \in Seq(S) /\ Len(<<x>>) = 1 /\ <<x>>[1] = x /\ ToSet(<<x>>) = {x}
<1>1. <<x>> \in Seq(S) /\ Len(<<x>>) = 1 /\ <<x>>[1] = x /\ DOMAIN <<x>> = {1}
  OBVIOUS
<1> QED
  BY <1>1 DEF ToSet

LEMMA NoneIn ==
    ASSUME NEW S, NEW s \in Seq(S), Len(s) = 0
    PROVE  s = <<>>
  OBVIOUS

LEMMA NoneLeft == Len(<<>>) = 0
  OBVIOUS

LEMMA HeadAndTail ==
    ASSUME NEW S, NEW s \in Seq(S), s # <<>>
    PROVE  /\ Head(s) \in S /\ Head(s) = s[1] /\ 1 \in DOMAIN s
           /\ Tail(s) \in Seq(S) /\ Len(Tail(s)) = Len(s) - 1
           /\ \A i \in DOMAIN Tail(s) : i + 1 \in DOMAIN s /\ Tail(s)[i] = s[i + 1]
           /\ \A i \in DOMAIN s : i = 1 \/ (i - 1 \in DOMAIN Tail(s) /\ s[i] = Tail(s)[i - 1])
           /\ ToSet(s) = {Head(s)} \cup ToSet(Tail(s))
<1>1. /\ Head(s) \in S /\ Head(s) = s[1] /\ 1 \in DOMAIN s
      /\ Tail(s) \in Seq(S) /\ Len(Tail(s)) = Len(s) - 1
      /\ \A i \in DOMAIN Tail(s) : i + 1 \in DOMAIN s /\ Tail(s)[i] = s[i + 1]
      /\ \A i \in DOMAIN s : i = 1 \/ (i - 1 \in DOMAIN Tail(s) /\ s[i] = Tail(s)[i - 1])
  OBVIOUS
<1> QED
  BY <1>1 DEF ToSet

LEMMA OneIn ==
    ASSUME NEW S, NEW s \in Seq(S), Len(s) = 1
    PROVE  s # <<>> /\ Head(s) = s[1] /\ 1 \in DOMAIN s /\ Tail(s) = <<>>
<1>1. s # <<>>
  OBVIOUS
<1>2. Tail(s) \in Seq(S) /\ Len(Tail(s)) = 0
  BY <1>1, HeadAndTail
<1>3. Tail(s) = <<>>
  BY <1>2, NoneIn
<1>4. Head(s) = s[1] /\ 1 \in DOMAIN s
  BY <1>1, HeadAndTail
<1> QED
  BY <1>1, <1>3, <1>4

\* What is left of a sequence when one place is taken out.
LEMMA TakenOut ==
    ASSUME NEW S, NEW s \in Seq(S), NEW k \in DOMAIN s
    PROVE  /\ RemoveAt(s, k) \in Seq(S) /\ Len(RemoveAt(s, k)) = Len(s) - 1
           /\ \A i \in DOMAIN RemoveAt(s, k) :
                 /\ i < k => i \in DOMAIN s /\ RemoveAt(s, k)[i] = s[i]
                 /\ i >= k => i + 1 \in DOMAIN s /\ RemoveAt(s, k)[i] = s[i + 1]
           /\ \A i \in DOMAIN s :
                 /\ i < k => i \in DOMAIN RemoveAt(s, k) /\ RemoveAt(s, k)[i] = s[i]
                 /\ i > k => i - 1 \in DOMAIN RemoveAt(s, k) /\ RemoveAt(s, k)[i - 1] = s[i]
<1>1. k \in 1 .. Len(s)
  OBVIOUS
<1> DEFINE a == SubSeq(s, 1, k - 1)
           b == SubSeq(s, k + 1, Len(s))
<1>2. a \in Seq(S) /\ Len(a) = k - 1 /\ \A i \in 1 .. k - 1 : a[i] = s[i]
  BY <1>1
<1>3. b \in Seq(S) /\ Len(b) = Len(s) - k /\ \A i \in 1 .. Len(s) - k : b[i] = s[k + i]
  BY <1>1
<1>4. RemoveAt(s, k) = a \o b
  BY DEF RemoveAt
<1> HIDE DEF a, b
<1> DEFINE c == a \o b
<1>5. /\ c \in Seq(S) /\ Len(c) = Len(a) + Len(b)
      /\ \A i \in 1 .. Len(a) : c[i] = a[i]
      /\ \A i \in Len(a) + 1 .. Len(a) + Len(b) :
            i - Len(a) \in 1 .. Len(b) /\ c[i] = b[i - Len(a)]
  <2>1. a \in Seq(S) /\ b \in Seq(S)
    BY <1>2, <1>3
  <2>2. c \in Seq(S) /\ Len(c) = Len(a) + Len(b)
    BY <2>1, Concatenation
  <2>3. \A i \in 1 .. Len(a) : c[i] = a[i]
    BY <2>1, Concatenation
  <2>4. \A i \in Len(a) + 1 .. Len(a) + Len(b) :
            i - Len(a) \in 1 .. Len(b) /\ c[i] = b[i - Len(a)]
    BY <2>1, Concatenation
  <2> QED
    BY <2>2, <2>3, <2>4
<1>9. RemoveAt(s, k) = c
  BY <1>4
<1> HIDE DEF c
<1>6. Len(c) = Len(s) - 1 /\ DOMAIN c = 1 .. Len(s) - 1
  BY <1>1, <1>2, <1>3, <1>5
<1>7. ASSUME NEW i \in 1 .. Len(s) - 1 PROVE c[i] = IF i < k THEN s[i] ELSE s[i + 1]
  <2>1. CASE i < k
    <3>1. i \in 1 .. k - 1
      BY <1>1, <2>1
    <3> QED
      BY <1>2, <1>5, <1>6, <2>1, <3>1
  <2>2. CASE i >= k
    <3>1. /\ i \in Len(a) + 1 .. Len(a) + Len(b)
          /\ i - (k - 1) \in 1 .. Len(s) - k /\ k + (i - (k - 1)) = i + 1
      BY <1>1, <1>2, <1>3, <2>2
    <3>2. c[i] = b[i - (k - 1)]
      BY <1>2, <1>5, <3>1
    <3>3. b[i - (k - 1)] = s[i + 1]
      BY <1>3, <3>1
    <3>4. ~(i < k)
      BY <1>1, <2>2
    <3> QED
      BY <3>2, <3>3, <3>4
  <2>3. i < k \/ i >= k
    BY <1>1
  <2> QED
    BY <2>1, <2>2, <2>3
<1>8. /\ \A i \in DOMAIN c : /\ i < k => i \in DOMAIN s /\ c[i] = s[i]
                             /\ i >= k => i + 1 \in DOMAIN s /\ c[i] = s[i + 1]
      /\ \A i \in DOMAIN s : /\ i < k => i \in DOMAIN c /\ c[i] = s[i]
                             /\ i > k => i - 1 \in DOMAIN c /\ c[i - 1] = s[i]
  <2>1. DOMAIN s = 1 .. Len(s)
    OBVIOUS
  <2>2. ASSUME NEW i \in DOMAIN s, i > k
        PROVE  i - 1 \in DOMAIN c /\ i - 1 >= k /\ c[i - 1] = s[i]
    <3>1. i - 1 \in 1 .. Len(s) - 1 /\ ~(i - 1 < k) /\ (i - 1) + 1 = i
      BY <1>1, <2>1, <2>2
    <3> QED
      BY <1>6, <1>7, <3>1
  <2>3. ASSUME NEW i \in DOMAIN s, i < k
        PROVE  i \in DOMAIN c /\ c[i] = s[i]
    BY <1>1, <1>6, <1>7, <2>1, <2>3
  <2>4. ASSUME NEW i \in DOMAIN c, i >= k
        PROVE  i + 1 \in DOMAIN s /\ c[i] = s[i + 1]
    BY <1>1, <1>6, <1>7, <2>1, <2>4
  <2>5. ASSUME NEW i \in DOMAIN c, i < k
        PROVE  i \in DOMAIN s /\ c[i] = s[i]
    BY <1>1, <1>6, <1>7, <2>1, <2>5
  <2> QED
    BY <2>2, <2>3, <2>4, <2>5
<1> QED
  BY <1>5, <1>6, <1>8, <1>9

-----------------------------------------------------------------------------
(* Signals.                                                                *)

LEMMA SomeSays ==
    ASSUME NEW name, NEW ids
    PROVE  /\ ids = {} => Some(name, ids) = <<>> /\ ToSet(Some(name, ids)) = {}
           /\ ids # {} => /\ Some(name, ids) = <<[name |-> name, ids |-> ids]>>
                          /\ ToSet(Some(name, ids)) = {[name |-> name, ids |-> ids]}
  BY Single DEF Some, ToSet

\* What a change set has to say.
Says(cs, s) ==
    \/ s.name = "added" /\ s.ids = cs.added
    \/ s.name = "changed" /\ s.ids = cs.changed
    \/ s.name = "removed" /\ s.ids = cs.removed
    \/ s.name = "relationshipsAdded" /\ s.ids = cs.relationshipsAdded
    \/ s.name = "relationshipsRemoved" /\ s.ids = cs.relationshipsRemoved
    \/ s.name = "self" /\ s.ids = {cs.newSelf} /\ cs.newSelf # cs.oldSelf

LEMMA SignalsSay ==
    ASSUME NEW cs \in ChangeSet
    PROVE  /\ SignalsOf(cs) \in Seq(Told)
           /\ ToSet(SignalsOf(cs)) = {s \in Told : s.ids # {} /\ Says(cs, s)}
<1> DEFINE S(name, ids) == [name |-> name, ids |-> ids]
           self == {cs.newSelf} \ {cs.oldSelf}
<1>1. /\ \A name \in Signal \ {"self"}, ids \in SUBSET Id : S(name, ids) \in Told
      /\ self # {} => S("self", self) \in Told
  BY DEF Told, ChangeSet
<1>2. ASSUME NEW name, NEW ids, ids # {} => S(name, ids) \in Told
      PROVE  /\ Some(name, ids) \in Seq(Told)
             /\ ToSet(Some(name, ids)) = {s \in Told : s.ids # {} /\ s = S(name, ids)}
  <2>1. CASE ids = {}
    <3>1. Some(name, ids) = <<>> /\ ToSet(Some(name, ids)) = {}
      BY <2>1, SomeSays
    <3>2. /\ <<>> \in Seq(Told)
          /\ {s \in Told : s.ids # {} /\ s = S(name, ids)} = {}
      BY <2>1
    <3> HIDE DEF S
    <3> QED
      BY <3>1, <3>2
  <2>2. CASE ids # {}
    <3>1. Some(name, ids) = <<S(name, ids)>> /\ ToSet(Some(name, ids)) = {S(name, ids)}
      BY <2>2, SomeSays
    <3>2. S(name, ids) \in Told /\ S(name, ids).ids = ids
      BY <1>2, <2>2
    <3> HIDE DEF S
    <3>3. <<S(name, ids)>> \in Seq(Told)
      BY <3>2
    <3>4. {S(name, ids)} = {s \in Told : s.ids # {} /\ s = S(name, ids)}
      BY <2>2, <3>2
    <3> QED
      BY <3>1, <3>3, <3>4, Zenon
  <2> QED
    BY <2>1, <2>2
<1> DEFINE P(name, ids) == {s \in Told : s.ids # {} /\ s = S(name, ids)}
           T(name, ids) == Some(name, ids) \in Seq(Told) /\ ToSet(Some(name, ids)) = P(name, ids)
<1>3. /\ T("added", cs.added) /\ T("changed", cs.changed) /\ T("removed", cs.removed)
      /\ T("relationshipsAdded", cs.relationshipsAdded)
      /\ T("relationshipsRemoved", cs.relationshipsRemoved)
  <2>1. /\ cs.added \in SUBSET Id /\ cs.changed \in SUBSET Id /\ cs.removed \in SUBSET Id
        /\ cs.relationshipsAdded \in SUBSET Id /\ cs.relationshipsRemoved \in SUBSET Id
    BY DEF ChangeSet
  <2>2. {"added", "changed", "removed", "relationshipsAdded", "relationshipsRemoved"}
            \subseteq Signal \ {"self"}
    BY DEF Signal
  <2> HIDE DEF S
  <2> QED
    BY <1>1, <1>2, <2>1, <2>2
<1>4. T("self", self)
  BY <1>1, <1>2
<1> HIDE DEF S, self
<1>5. /\ SignalsOf(cs) \in Seq(Told)
      /\ ToSet(SignalsOf(cs)) =
            P("added", cs.added) \cup P("changed", cs.changed) \cup P("removed", cs.removed)
            \cup P("relationshipsAdded", cs.relationshipsAdded)
            \cup P("relationshipsRemoved", cs.relationshipsRemoved) \cup P("self", self)
  <2> DEFINE a == Some("added", cs.added)
             b == Some("changed", cs.changed)
             c == Some("removed", cs.removed)
             d == Some("relationshipsAdded", cs.relationshipsAdded)
             e == Some("relationshipsRemoved", cs.relationshipsRemoved)
             f == Some("self", self)
  <2>1. SignalsOf(cs) = a \o b \o c \o d \o e \o f
    BY DEF SignalsOf, self
  <2>2. /\ a \in Seq(Told) /\ b \in Seq(Told) /\ c \in Seq(Told) /\ d \in Seq(Told)
        /\ e \in Seq(Told) /\ f \in Seq(Told)
    BY <1>3, <1>4
  <2> HIDE DEF a, b, c, d, e, f, P
  <2>3. PICK ab \in Seq(Told) : ab = a \o b /\ ToSet(ab) = ToSet(a) \cup ToSet(b)
    BY <2>2, Concatenation
  <2>4. PICK ac \in Seq(Told) : ac = ab \o c /\ ToSet(ac) = ToSet(ab) \cup ToSet(c)
    BY <2>2, Concatenation
  <2>5. PICK ad \in Seq(Told) : ad = ac \o d /\ ToSet(ad) = ToSet(ac) \cup ToSet(d)
    BY <2>2, Concatenation
  <2>6. PICK ae \in Seq(Told) : ae = ad \o e /\ ToSet(ae) = ToSet(ad) \cup ToSet(e)
    BY <2>2, Concatenation
  <2>7. PICK af \in Seq(Told) : af = ae \o f /\ ToSet(af) = ToSet(ae) \cup ToSet(f)
    BY <2>2, Concatenation
  <2>8. SignalsOf(cs) = af
    BY <2>1, <2>3, <2>4, <2>5, <2>6, <2>7
  <2> QED
    BY <2>3, <2>4, <2>5, <2>6, <2>7, <2>8, <1>3, <1>4 DEF a, b, c, d, e, f
<1>6. ASSUME NEW s \in Told
      PROVE  /\ \A name, ids : s = S(name, ids) <=> s.name = name /\ s.ids = ids
             /\ s.ids = self /\ s.ids # {} <=> s.ids = {cs.newSelf} /\ cs.newSelf # cs.oldSelf
  <2>1. s = [name |-> s.name, ids |-> s.ids]
    BY DEF Told
  <2> QED
    BY <2>1 DEF S, self
<1> QED
  BY <1>5, <1>6 DEF Says

-----------------------------------------------------------------------------
(* The agenda.                                                             *)

LEMMA Kinds ==
    /\ \A work \in Task : /\ work \in Emission <=> work.do = "emit"
                          /\ work \in Erasure <=> work.do = "erase"
                          /\ work \in Removal <=> work.do = "remove"
    /\ Emission \subseteq Task /\ Erasure \subseteq Task /\ Removal \subseteq Task
    /\ Emission \cap Erasure = {} /\ Emission \cap Removal = {} /\ Erasure \cap Removal = {}
  BY DEF Task, Emission, Erasure, Removal

LEMMA Regrouped ==
    ASSUME NEW S, NEW s \in Seq(S), NEW t \in Seq(S), NEW u \in Seq(S)
    PROVE  (s \o t) \o u = s \o (t \o u)
  OBVIOUS

LEMMA ThirdOn ==
    ASSUME NEW S, NEW s \in Seq(S), Len(s) >= 2
    PROVE  SubSeq(s, 3, Len(s)) = Tail(Tail(s))
<1> DEFINE a == Tail(s)
           b == Tail(a)
           c == SubSeq(s, 3, Len(s))
<1>1. a \in Seq(S) /\ Len(a) = Len(s) - 1 /\ \A i \in 1 .. Len(s) - 1 : a[i] = s[i + 1]
  OBVIOUS
<1>2. c \in Seq(S) /\ Len(c) = Len(s) - 2 /\ \A i \in 1 .. Len(s) - 2 : c[i] = s[i + 2]
  <2>1. Len(s) \in Nat /\ 3 \in 1 .. Len(s) + 1 /\ Len(s) \in 3 - 1 .. Len(s)
    OBVIOUS
  <2>2. /\ c \in Seq(S) /\ Len(c) = Len(s) - 3 + 1
        /\ \A i \in 1 .. Len(s) - 3 + 1 : c[i] = s[3 + i - 1]
    <3>1. \A n \in Nat : n >= 2 /\ n = Len(s) =>
              /\ SubSeq(s, 3, n) \in Seq(S) /\ Len(SubSeq(s, 3, n)) = n - 3 + 1
              /\ \A i \in 1 .. n - 3 + 1 : SubSeq(s, 3, n)[i] = s[3 + i - 1]
      OBVIOUS
    <3> QED
      BY <2>1, <3>1
  <2>3. Len(s) - 3 + 1 = Len(s) - 2 /\ \A i \in Nat : 3 + i - 1 = i + 2
    BY <2>1
  <2> HIDE DEF c
  <2> QED
    BY <2>2, <2>3
<1>3. Len(a) >= 1
  BY <1>1
<1> HIDE DEF a, c
<1>4. b \in Seq(S) /\ Len(b) = Len(s) - 2 /\ \A i \in 1 .. Len(s) - 2 : b[i] = a[i + 1]
  <2>1. a # <<>>
    BY <1>1, <1>3
  <2>2. b \in Seq(S) /\ Len(b) = Len(a) - 1 /\ \A i \in 1 .. Len(a) - 1 : b[i] = a[i + 1]
    BY <1>1, <2>1
  <2> HIDE DEF b
  <2> QED
    BY <1>1, <2>2
<1> HIDE DEF b
<1>5. \A i \in 1 .. Len(s) - 2 : b[i] = c[i]
  BY <1>1, <1>2, <1>4
<1>6. /\ b = [i \in 1 .. Len(s) - 2 |-> b[i]] /\ c = [i \in 1 .. Len(s) - 2 |-> c[i]]
  BY <1>2, <1>4
<1>7. b = c
  BY <1>5, <1>6
<1> QED
  BY <1>7 DEF a, b, c

LEMMA WithFirst ==
    ASSUME NEW work, Agenda(work), NEW x \in Task,
           x \in Erasure => work # <<>> /\ Head(work) \in Halfway
    PROVE  Agenda(<<x>> \o work)
<1> DEFINE new == <<x>> \o work
<1>1. work \in Seq(Task) /\ \A i \in 1 .. Len(work) : work[i] \in Erasure =>
          i + 1 \in 1 .. Len(work) /\ work[i + 1] \in Halfway
  BY DEF Agenda
<1>2. /\ new \in Seq(Task) /\ Len(new) = Len(work) + 1 /\ new[1] = x
      /\ \A i \in 1 .. Len(work) : new[i + 1] = work[i]
  BY <1>1
<1>3. work # <<>> => Head(work) = work[1] /\ 1 \in 1 .. Len(work)
  BY <1>1
<1> HIDE DEF new
<1>4. ASSUME NEW i \in 1 .. Len(new), new[i] \in Erasure
      PROVE  i + 1 \in 1 .. Len(new) /\ new[i + 1] \in Halfway
  <2>1. CASE i = 1
    BY <1>1, <1>2, <1>3, <1>4, <2>1
  <2>2. CASE i > 1
    <3>1. i - 1 \in 1 .. Len(work) /\ (i - 1) + 1 = i
      BY <1>1, <1>2, <2>2
    <3>2. new[i] = work[i - 1]
      BY <1>2, <3>1
    <3>3. (i - 1) + 1 \in 1 .. Len(work) /\ work[(i - 1) + 1] \in Halfway
      BY <1>1, <1>4, <3>1, <3>2
    <3> QED
      BY <1>1, <1>2, <3>1, <3>3
  <2> QED
    BY <1>2, <2>1, <2>2
<1> QED
  BY <1>2, <1>4 DEF Agenda, new

LEMMA EmissionsFirst ==
    ASSUME NEW work, Agenda(work), NEW first \in Seq(Emission)
    PROVE  Agenda(first \o work)
<1> DEFINE new == first \o work
<1>1. work \in Seq(Task) /\ \A i \in 1 .. Len(work) : work[i] \in Erasure =>
          i + 1 \in 1 .. Len(work) /\ work[i + 1] \in Halfway
  BY DEF Agenda
<1>2. first \in Seq(Task)
  BY Kinds
<1>3. /\ new \in Seq(Task) /\ Len(new) = Len(first) + Len(work)
      /\ \A i \in 1 .. Len(first) : new[i] = first[i]
      /\ \A i \in 1 .. Len(work) : new[Len(first) + i] = work[i]
  BY <1>1, <1>2, Concatenation
<1> HIDE DEF new
<1>4. ASSUME NEW i \in 1 .. Len(new), new[i] \in Erasure
      PROVE  i + 1 \in 1 .. Len(new) /\ new[i + 1] \in Halfway
  <2>1. CASE i <= Len(first)
    <3>1. i \in 1 .. Len(first)
      BY <1>2, <2>1
    <3>2. new[i] \in Emission
      BY <1>3, <3>1
    <3> QED
      BY <1>4, <3>2, Kinds
  <2>2. CASE i > Len(first)
    <3>1. PICK j \in 1 .. Len(work) : i = Len(first) + j
      <4>1. i - Len(first) \in 1 .. Len(work) /\ i = Len(first) + (i - Len(first))
        BY <1>1, <1>2, <1>3, <2>2
      <4> QED
        BY <4>1
    <3>2. j + 1 \in 1 .. Len(work) /\ work[j + 1] \in Halfway
      BY <1>1, <1>3, <1>4, <3>1
    <3>3. Len(first) + (j + 1) = i + 1 /\ i + 1 \in 1 .. Len(new)
      BY <1>1, <1>2, <1>3, <3>1, <3>2
    <3> QED
      BY <1>3, <3>2, <3>3
  <2> QED
    BY <1>2, <1>3, <2>1, <2>2
<1>5. new \in Seq(Task) /\ DOMAIN new = 1 .. Len(new)
  BY <1>3
<1>6. Agenda(new)
  BY <1>4, <1>5, Zenon DEF Agenda
<1> QED
  BY <1>6 DEF new

LEMMA WithoutFirst ==
    ASSUME NEW work, Agenda(work), work # <<>>
    PROVE  /\ Agenda(Tail(work)) /\ Head(work) \in Task
           /\ Head(work) \in Erasure => /\ Tail(work) # <<>> /\ Len(work) >= 2
                                        /\ Head(Tail(work)) \in Halfway
                                        /\ work[2] = Head(Tail(work))
<1> DEFINE new == Tail(work)
<1>1. work \in Seq(Task) /\ \A i \in 1 .. Len(work) : work[i] \in Erasure =>
          i + 1 \in 1 .. Len(work) /\ work[i + 1] \in Halfway
  BY DEF Agenda
<1>2. /\ new \in Seq(Task) /\ Len(new) = Len(work) - 1 /\ Len(work) >= 1
      /\ \A i \in 1 .. Len(new) : new[i] = work[i + 1]
      /\ Head(work) = work[1] /\ Head(work) \in Task
  BY <1>1
<1>3. \A i \in 1 .. Len(new) : new[i] \in Erasure =>
          i + 1 \in 1 .. Len(new) /\ new[i + 1] \in Halfway
  BY <1>1, <1>2
<1>4. ASSUME Head(work) \in Erasure
      PROVE  /\ new # <<>> /\ Len(work) >= 2
             /\ Head(new) \in Halfway
             /\ work[2] = Head(new)
  BY <1>1, <1>2, <1>4
<1> QED
  BY <1>2, <1>3, <1>4 DEF Agenda

LEMMA Emitted ==
    ASSUME m_sharedEngines \in Seq(Engine), NEW cs \in ChangeSet
    PROVE  /\ emitSharedSignals(cs) \in Seq(Emission)
           /\ \A i \in DOMAIN emitSharedSignals(cs) :
                 /\ i \in DOMAIN m_sharedEngines
                 /\ emitSharedSignals(cs)[i].engine = m_sharedEngines[i]
                 /\ emitSharedSignals(cs)[i].signals = SignalsOf(cs)
           /\ SignalsOf(cs) # <<>> =>
                 \A i \in DOMAIN m_sharedEngines : i \in DOMAIN emitSharedSignals(cs)
<1>1. SignalsOf(cs) \in Seq(Told)
  BY SignalsSay
<1>2. CASE SignalsOf(cs) = <<>>
  BY <1>2 DEF emitSharedSignals
<1>3. CASE SignalsOf(cs) # <<>>
  <2> DEFINE E(i) == [do |-> "emit", engine |-> m_sharedEngines[i], signals |-> SignalsOf(cs)]
  <2>1. \A i \in 1 .. Len(m_sharedEngines) :
            /\ E(i) \in Emission /\ E(i).engine = m_sharedEngines[i]
            /\ E(i).signals = SignalsOf(cs)
    BY <1>1, <1>3 DEF Emission
  <2>2. /\ emitSharedSignals(cs) = [i \in 1 .. Len(m_sharedEngines) |-> E(i)]
        /\ DOMAIN m_sharedEngines = 1 .. Len(m_sharedEngines) /\ Len(m_sharedEngines) \in Nat
    BY <1>3 DEF emitSharedSignals
  <2> HIDE DEF E
  <2> QED
    BY <2>1, <2>2
<1> QED
  BY <1>2, <1>3

-----------------------------------------------------------------------------
(* Steps that the agenda and the store take together.                      *)

LEMMA SmallestIsThere ==
    ASSUME NEW N \in SUBSET Nat, N # {}
    PROVE  \E k \in N : \A j \in N : k <= j
<1> DEFINE R == OpToRel(<, Nat)
<1>1. \A x, y \in Nat : x < y => <<x, y>> \in R
  BY DEF OpToRel
<1>2. IsWellFoundedOn(R, Nat)
  BY NatLessThanWellFounded
<1> HIDE DEF R
<1>3. PICK k \in N : \A j \in N : ~ (<<j, k>> \in R)
  BY <1>2, WFMin
<1>4. ASSUME NEW j \in N PROVE k <= j
  <2>1. j \in Nat /\ k \in Nat
    OBVIOUS
  <2>2. ~ (j < k)
    BY <1>1, <1>3, <2>1
  <2> QED
    BY <2>1, <2>2
<1> QED
  BY <1>4

LEMMA ChangeSets ==
    /\ EmptyChangeSet \in ChangeSet
    /\ \A new, old \in SUBSET Id :
          [EmptyChangeSet EXCEPT !.added = new, !.changed = old] \in ChangeSet
    /\ \A ids \in SUBSET Id :
          /\ [EmptyChangeSet EXCEPT !.relationshipsAdded = ids] \in ChangeSet
          /\ [EmptyChangeSet EXCEPT !.relationshipsRemoved = ids] \in ChangeSet
    /\ \A old, new \in Id \cup {0} :
          [EmptyChangeSet EXCEPT !.oldSelf = old, !.newSelf = new] \in ChangeSet
  BY DEF EmptyChangeSet, ChangeSet

LEMMA EngineGone ==
    ASSUME NEW S, NEW s \in Seq(S), NEW e \in ToSet(s)
    PROVE  /\ RemoveFirst(s, e) \in Seq(S)
           /\ ToSet(RemoveFirst(s, e)) \subseteq ToSet(s)
           /\ (\A i, j \in DOMAIN s : s[i] = s[j] => i = j) =>
                 LET left == RemoveFirst(s, e)
                 IN  /\ e \notin ToSet(left)
                     /\ \A i, j \in DOMAIN left : left[i] = left[j] => i = j
<1> DEFINE Places == {i \in 1 .. Len(s) : s[i] = e}
<1>1. PICK k \in 1 .. Len(s) : s[k] = e /\ SelectInSeq(s, LAMBDA v : v = e) = k
  <2>1. Places # {} /\ Places \subseteq Nat
    BY DEF ToSet
  <2>2. PICK k \in Places : \A j \in Places : k <= j
    BY <2>1, SmallestIsThere
  <2>3. Min(Places) \in Places
    BY <2>2 DEF Min
  <2>4. SelectInSeq(s, LAMBDA v : v = e) = Min(Places)
    BY <2>1 DEF SelectInSeq
  <2> QED
    BY <2>3, <2>4
<1>2. RemoveFirst(s, e) = RemoveAt(s, k) /\ k \in DOMAIN s
  BY <1>1 DEF RemoveFirst
<1> DEFINE left == RemoveAt(s, k)
<1>3. /\ left \in Seq(S) /\ Len(left) = Len(s) - 1
      /\ \A i \in DOMAIN left : /\ i < k => i \in DOMAIN s /\ left[i] = s[i]
                                /\ i >= k => i + 1 \in DOMAIN s /\ left[i] = s[i + 1]
  BY <1>2, TakenOut
<1> HIDE DEF left
<1>4. \A i \in DOMAIN left : i \in Nat /\ (i < k \/ i >= k)
  BY <1>3
<1>5. ToSet(left) \subseteq ToSet(s)
  BY <1>3, <1>4 DEF ToSet
<1>6. ASSUME \A i, j \in DOMAIN s : s[i] = s[j] => i = j
      PROVE  /\ e \notin ToSet(left)
             /\ \A i, j \in DOMAIN left : left[i] = left[j] => i = j
  <2>1. ASSUME NEW i \in DOMAIN left PROVE left[i] # e
    BY <1>1, <1>2, <1>3, <1>4, <1>6
  <2>2. ASSUME NEW i \in DOMAIN left, NEW j \in DOMAIN left, left[i] = left[j]
        PROVE  i = j
    BY <1>2, <1>3, <1>4, <1>6, <2>2
  <2> QED
    BY <2>1, <2>2 DEF ToSet
<1> QED
  BY <1>2, <1>3, <1>5, <1>6 DEF left

-----------------------------------------------------------------------------
(* Types.                                                                  *)

LEMMA Store ==
    ASSUME MemTypeOK
    PROVE  /\ m_contactIds \subseteq Id /\ m_contacts \in Seq([id : Id, related : SUBSET Relationship])
           /\ \A i \in DOMAIN m_contacts : m_contacts[i].id \in m_contactIds
           /\ \A id \in m_contactIds : \E i \in DOMAIN m_contacts : m_contacts[i].id = id
           /\ m_nextContactId \in Nat /\ MaxContact \in Nat /\ MaxNested \in Nat
           /\ nested \in Nat
           /\ \A r \in Relationship : r.first.id \in Id /\ r.second.id \in Id
           /\ \A id : RelationshipsOf(id) \subseteq m_relationships
<1>1. MaxContact \in Nat /\ MaxNested \in Nat
  BY ContactAssumption
<1> DEFINE Contact == [id : Id, related : SUBSET Relationship]
<1>2. m_contacts \in Seq(Contact) /\ \A c \in Contact : c.id \in Id
  BY DEF MemTypeOK
<1>3. \A i \in DOMAIN m_contacts : m_contacts[i] \in Contact
  <2> HIDE DEF Contact
  <2> QED
    BY <1>2
<1>4. /\ m_contactIds \subseteq Id
      /\ \A i \in DOMAIN m_contacts : m_contacts[i].id \in m_contactIds
      /\ \A id \in m_contactIds : \E i \in DOMAIN m_contacts : m_contacts[i].id = id
  BY <1>2, <1>3 DEF m_contactIds
<1>5. m_nextContactId \in Nat /\ nested \in Nat
  BY <1>1 DEF MemTypeOK
<1>6. /\ \A r \in Relationship : r.first.id \in Id /\ r.second.id \in Id
      /\ \A id : RelationshipsOf(id) \subseteq m_relationships
  BY DEF Relationship, Participant, RelationshipsOf
<1> QED
  BY <1>1, <1>2, <1>4, <1>5, <1>6

LEMMA MayCallTypes ==
    ASSUME MemTypeOK, NEW kind, MayCall(kind)
    PROVE  nested' \in 0 .. MaxNested
  BY Store DEF MemTypeOK, MayCall

\* The parts of the type invariant that a step changes.
StoreTyped ==
    /\ m_contacts \in Seq([id : Id, related : SUBSET Relationship])
    /\ m_nextContactId \in 1 .. MaxContact + 1
    /\ m_relationships \subseteq Relationship
    /\ m_orderedRelationships \in [Id -> SUBSET Relationship]
    /\ m_selfContactId \in Id \cup {0}

RestTyped ==
    /\ m_sharedEngines \in Seq(Engine)
    /\ inSlot \in BOOLEAN
    /\ nested \in 0 .. MaxNested
    /\ known \in [Engine -> SUBSET Id]
    /\ knownSelf \in [Engine -> Id \cup {0}]
    /\ undefined \in BOOLEAN

LEMMA TypedParts == MemTypeOK <=> StoreTyped /\ RestTyped
  BY DEF MemTypeOK, StoreTyped, RestTyped

LEMMA EmissionBefore ==
    ASSUME Typed, NEW cs \in ChangeSet
    PROVE  Agenda(emitSharedSignals(cs) \o agenda)
<1>1. PICK new \in Seq(Emission) : new = emitSharedSignals(cs)
  BY Emitted DEF Typed, MemTypeOK
<1> QED
  BY <1>1, EmissionsFirst DEF Typed

LEMMA createTyped ==
    ASSUME Typed, NEW e \in Engine, createMemoryEngine(e)
    PROVE  Typed'
<1>1. StoreTyped'
  BY TypedParts DEF Typed, createMemoryEngine, store, StoreTyped
<1>2. RestTyped'
  <2>1. m_sharedEngines' \in Seq(Engine)
    BY DEF Typed, createMemoryEngine, MemTypeOK
  <2>2. known' \in [Engine -> SUBSET Id] /\ knownSelf' \in [Engine -> Id \cup {0}]
    BY Store DEF Typed, createMemoryEngine, MemTypeOK
  <2> QED
    BY <2>1, <2>2 DEF Typed, createMemoryEngine, MemTypeOK, RestTyped
<1>3. Agenda(agenda')
  BY DEF createMemoryEngine, Typed
<1> QED
  BY <1>1, <1>2, <1>3, TypedParts DEF Typed, MemTypeOK, StoreTyped, RestTyped

LEMMA destroyTyped ==
    ASSUME Typed, NEW e \in Engine, destroyEngine(e)
    PROVE  Typed'
<1>1. StoreTyped'
  <2>1. CASE NewData
    BY <2>1, Store DEF NewData, StoreTyped, Typed
  <2>2. CASE UNCHANGED store
    BY <2>2, TypedParts DEF Typed, store, StoreTyped
  <2> QED
    BY <2>1, <2>2 DEF destroyEngine
<1>2. RestTyped'
  <2>1. m_sharedEngines' \in Seq(Engine)
    BY EngineGone DEF Typed, destroyEngine, MemTypeOK
  <2>2. known' \in [Engine -> SUBSET Id] /\ knownSelf' \in [Engine -> Id \cup {0}]
    BY DEF Typed, destroyEngine, MemTypeOK
  <2> QED
    BY <2>1, <2>2 DEF Typed, destroyEngine, MemTypeOK, RestTyped
<1>3. Agenda(agenda')
  BY DEF destroyEngine, Typed
<1> QED
  BY <1>1, <1>2, <1>3, TypedParts DEF Typed, MemTypeOK, StoreTyped, RestTyped

LEMMA DeliverTyped ==
    ASSUME Typed, Deliver
    PROVE  Typed'
<1>1. PICK work : work = Head(agenda)
  OBVIOUS
<1>2. agenda # <<>> /\ work \in Emission
  BY <1>1, WithoutFirst, Kinds DEF Deliver, Working, Typed
<1>3. work.engine \in Engine /\ work.signals \in Seq(Told) /\ work.signals # <<>>
  BY <1>2 DEF Emission
<1>4. Head(work.signals) \in Told
  BY <1>3
<1>5. RestTyped'
  <2>1. PICK s \in Told : s = Head(work.signals)
    BY <1>4
  <2>2. /\ known' = [known EXCEPT ![work.engine] =
                          IF s.name = "added" THEN @ \cup s.ids
                          ELSE IF s.name = "removed" THEN @ \ s.ids ELSE @]
        /\ knownSelf' = [knownSelf EXCEPT ![work.engine] =
                          IF s.name = "self" THEN CHOOSE id \in s.ids : TRUE ELSE @]
    BY <1>1, <2>1 DEF Deliver
  <2>3. /\ s.name = "added" => s.ids \subseteq Id
        /\ s.name = "self" => (CHOOSE id \in s.ids : TRUE) \in Id \cup {0}
    BY DEF Told
  <2>4. known' \in [Engine -> SUBSET Id] /\ knownSelf' \in [Engine -> Id \cup {0}]
    BY <1>3, <2>2, <2>3 DEF Typed, MemTypeOK
  <2> QED
    BY <2>4 DEF Typed, Deliver, MemTypeOK, RestTyped
<1>6. StoreTyped'
  BY TypedParts DEF Typed, Deliver, store, StoreTyped
<1>7. Agenda(Tail(agenda))
  BY <1>2, WithoutFirst DEF Typed
<1>8. Agenda(agenda')
  <2>1. CASE Len(work.signals) = 1
    <3>1. agenda' = <<>> \o Tail(agenda)
      BY <1>1, <2>1 DEF Deliver
    <3>2. agenda' = Tail(agenda)
      BY <1>7, <3>1 DEF Agenda
    <3> QED
      BY <1>7, <3>2
  <2>2. CASE Len(work.signals) # 1
    <3>1. PICK rest : rest = [work EXCEPT !.signals = Tail(@)]
      OBVIOUS
    <3>2. rest \in Emission
      <4>1. Tail(work.signals) \in Seq(Told) \ {<<>>}
        <5>1. Tail(work.signals) \in Seq(Told) /\ Len(Tail(work.signals)) = Len(work.signals) - 1
          BY <1>3, HeadAndTail
        <5>2. Len(work.signals) \in Nat /\ Len(work.signals) # 0
          BY <1>3
        <5>3. Len(Tail(work.signals)) # 0
          BY <2>2, <5>1, <5>2
        <5>4. PICK l \in Seq(Told) : l = Tail(work.signals) /\ Len(l) # 0
          BY <5>1, <5>3
        <5>5. l # <<>>
          BY <5>4
        <5> QED
          BY <5>4, <5>5
      <4> QED
        BY <1>2, <3>1, <4>1 DEF Emission
    <3>3. agenda' = <<rest>> \o Tail(agenda)
      BY <1>1, <2>2, <3>1 DEF Deliver
    <3> QED
      BY <1>7, <3>2, <3>3, WithFirst, Kinds
  <2> QED
    BY <2>1, <2>2
<1> QED
  BY <1>5, <1>6, <1>8, TypedParts DEF Typed, MemTypeOK, StoreTyped, RestTyped

Contact == [id : Id, related : SUBSET Relationship]

LEMMA BatchIsSeq ==
    ASSUME NEW S, NEW list \in Batches(S)
    PROVE  list \in Seq(S) /\ DOMAIN list = 1 .. Len(list) /\ Len(list) \in Nat
<1>1. \A n \in Nat : [1 .. n -> S] \subseteq Seq(S)
  OBVIOUS
<1>2. \A n \in 0 .. MaxBatch : n \in Nat
  OBVIOUS
<1>3. list \in Seq(S)
  BY <1>1, <1>2 DEF Batches, BoundedSeq, SeqOf
<1> QED
  BY <1>3

\* What saveContacts does to the store: the contacts keep their places and
\* their identifiers, and n new ones follow.
Saved(n, cs, copy) ==
    /\ m_nextContactId' = m_nextContactId + n
    /\ m_nextContactId + n <= MaxContact + 1
    /\ cs.added = m_nextContactId + 1 .. m_nextContactId + n
    /\ cs.removed = {} /\ cs.newSelf = cs.oldSelf
    /\ m_contacts' \in Seq(Contact) /\ Len(m_contacts') = Len(m_contacts) + n
    /\ \A i \in 1 .. Len(m_contacts) :
          /\ m_contacts'[i].id = m_contacts[i].id
          /\ copy = "fetched" => m_contacts'[i].related = m_contacts[i].related
    /\ \A i \in Len(m_contacts) + 1 .. Len(m_contacts) + n :
          /\ m_contacts'[i].id = m_nextContactId + (i - Len(m_contacts))
          /\ m_contacts'[i].related = {}
    /\ agenda' = emitSharedSignals(cs) \o agenda

LEMMA saveSaves ==
    ASSUME MemTypeOK, NEW list \in Batches(Id \cup {0}), NEW copy, saveContacts(list, copy)
    PROVE  \E n \in Nat, cs \in ChangeSet : Saved(n, cs, copy)
<1> DEFINE known0 == ToSet(list) \cap m_contactIds
           fresh == Cardinality({i \in DOMAIN list : list[i] = 0})
           new == [i \in 1 .. fresh |-> [id |-> m_nextContactId + i, related |-> {}]]
           old == [i \in DOMAIN m_contacts |->
                      IF m_contacts[i].id \in known0 /\ copy = "built"
                      THEN [m_contacts[i] EXCEPT !.related = {}] ELSE m_contacts[i]]
           cs == [EmptyChangeSet EXCEPT !.added = {new[i].id : i \in 1 .. fresh},
                                        !.changed = known0]
<1>1. /\ m_nextContactId + fresh <= MaxContact + 1
      /\ m_nextContactId' = m_nextContactId + fresh
      /\ m_contacts' = old \o new
      /\ agenda' = emitSharedSignals(cs) \o agenda
  BY Zenon DEF saveContacts
<1>2. fresh \in Nat
  <2>1. IsFiniteSet(1 .. Len(list)) /\ DOMAIN list = 1 .. Len(list)
    BY BatchIsSeq, FS_Interval
  <2>2. IsFiniteSet({i \in DOMAIN list : list[i] = 0})
    BY <2>1, FS_Subset
  <2> QED
    BY <2>2, FS_CardinalityType
<1>3. known0 \subseteq Id
  BY Store
<1> HIDE DEF fresh, known0
<1>4. \A i \in 1 .. fresh : m_nextContactId + i \in Id
  <2>1. m_nextContactId \in 1 .. MaxContact + 1 /\ MaxContact \in Nat
    BY Store DEF MemTypeOK
  <2>2. m_nextContactId + fresh <= MaxContact + 1
    BY <1>1, Zenon
  <2> QED
    BY <1>2, <2>1, <2>2 DEF Id
<1>5. /\ new \in Seq(Contact) /\ Len(new) = fresh
      /\ \A i \in 1 .. fresh : new[i].id = m_nextContactId + i /\ new[i].related = {}
  <2>1. \A i \in 1 .. fresh : [id |-> m_nextContactId + i, related |-> {}] \in Contact
    BY <1>4 DEF Contact
  <2> QED
    BY <1>2, <2>1
<1>6. /\ old \in Seq(Contact) /\ Len(old) = Len(m_contacts)
      /\ \A i \in 1 .. Len(m_contacts) :
            /\ old[i].id = m_contacts[i].id
            /\ copy = "fetched" => old[i].related = m_contacts[i].related
  <2>1. m_contacts \in Seq(Contact) /\ DOMAIN m_contacts = 1 .. Len(m_contacts)
    BY DEF MemTypeOK, Contact
  <2>2. \A c \in Contact : [c EXCEPT !.related = {}] \in Contact /\ [c EXCEPT !.related = {}].id = c.id
    BY DEF Contact
  <2>3. "fetched" # "built"
    OBVIOUS
  <2>4. \A i \in 1 .. Len(m_contacts) : m_contacts[i] \in Contact
    BY <2>1
  <2>5. \A i \in 1 .. Len(m_contacts) :
            /\ old[i] \in Contact
            /\ old[i].id = m_contacts[i].id
            /\ copy = "fetched" => old[i].related = m_contacts[i].related
    BY <2>1, <2>2, <2>3, <2>4
  <2>6. old = [i \in 1 .. Len(m_contacts) |-> old[i]] /\ Len(m_contacts) \in Nat
    BY <2>1
  <2> HIDE DEF old
  <2> QED
    BY <2>5, <2>6
<1>7. /\ cs \in ChangeSet /\ cs.removed = {} /\ cs.newSelf = cs.oldSelf
      /\ cs.added = m_nextContactId + 1 .. m_nextContactId + fresh
  <2>1. {new[i].id : i \in 1 .. fresh} = m_nextContactId + 1 .. m_nextContactId + fresh
    <3>1. \A i \in 1 .. fresh : new[i].id = m_nextContactId + i
      BY <1>5
    <3> HIDE DEF new
    <3>2. ASSUME NEW x \in m_nextContactId + 1 .. m_nextContactId + fresh
          PROVE  x \in {new[i].id : i \in 1 .. fresh}
      <4>1. x - m_nextContactId \in 1 .. fresh /\ x = m_nextContactId + (x - m_nextContactId)
        BY <1>2, Store
      <4> QED
        BY <3>1, <4>1
    <3>3. ASSUME NEW i \in 1 .. fresh
          PROVE  new[i].id \in m_nextContactId + 1 .. m_nextContactId + fresh
      BY <1>2, <3>1, Store
    <3> QED
      BY <3>2, <3>3
  <2>2. {new[i].id : i \in 1 .. fresh} \in SUBSET Id
    BY <1>4, <1>5
  <2> HIDE DEF new
  <2> QED
    BY <1>3, <2>1, <2>2, ChangeSets DEF EmptyChangeSet
<1> HIDE DEF old, new, cs
<1>8. /\ m_contacts' \in Seq(Contact) /\ Len(m_contacts') = Len(m_contacts) + fresh
      /\ \A i \in 1 .. Len(m_contacts) : m_contacts'[i] = old[i]
      /\ \A i \in Len(m_contacts) + 1 .. Len(m_contacts) + fresh :
            i - Len(m_contacts) \in 1 .. fresh /\ m_contacts'[i] = new[i - Len(m_contacts)]
  <2>1. old \in Seq(Contact) /\ new \in Seq(Contact)
    BY <1>5, <1>6
  <2>2. old \o new \in Seq(Contact) /\ Len(old \o new) = Len(old) + Len(new)
    BY <2>1, Concatenation
  <2>3. \A i \in 1 .. Len(old) : (old \o new)[i] = old[i]
    BY <2>1, Concatenation
  <2>4. \A i \in Len(old) + 1 .. Len(old) + Len(new) :
            i - Len(old) \in 1 .. Len(new) /\ (old \o new)[i] = new[i - Len(old)]
    BY <2>1, Concatenation
  <2> QED
    BY <1>1, <1>5, <1>6, <2>2, <2>3, <2>4
<1>9. Saved(fresh, cs, copy)
  BY <1>1, <1>5, <1>6, <1>7, <1>8 DEF Saved
<1> QED
  BY <1>2, <1>7, <1>9

\* The contacts keep their places and their identifiers.
SameContacts ==
    /\ m_contacts' \in Seq(Contact) /\ Len(m_contacts') = Len(m_contacts)
    /\ \A i \in DOMAIN m_contacts : i \in DOMAIN m_contacts' /\ m_contacts'[i].id = m_contacts[i].id
    /\ \A i \in DOMAIN m_contacts' : i \in DOMAIN m_contacts

\* Signals about relationships and about contacts that have only changed.
Quiet(cs) ==
    cs \in ChangeSet /\ cs.added = {} /\ cs.removed = {} /\ cs.newSelf = cs.oldSelf

Cached(gone, id) ==
    {r \in gone : r.first.id = id \/ r.second = [uri |-> "own", id |-> id]}

Recaching(same, related) ==
    m_contacts' = [i \in DOMAIN m_contacts |->
        IF m_contacts[i].id \in same THEN m_contacts[i]
        ELSE [m_contacts[i] EXCEPT !.related = related[m_contacts[i].id]]]

LEMMA Recached ==
    ASSUME MemTypeOK, NEW related \in [Id -> SUBSET Relationship], NEW same,
           Recaching(same, related)
    PROVE  /\ SameContacts
           /\ \A i \in DOMAIN m_contacts :
                 m_contacts'[i].related = IF m_contacts[i].id \in same THEN m_contacts[i].related
                                          ELSE related[m_contacts[i].id]
<1>1. /\ m_contacts \in Seq(Contact) /\ DOMAIN m_contacts = 1 .. Len(m_contacts)
      /\ Len(m_contacts) \in Nat
      /\ \A i \in DOMAIN m_contacts : m_contacts[i] \in Contact
  <2>1. m_contacts \in Seq(Contact)
    BY DEF MemTypeOK, Contact
  <2> QED
    BY <2>1
<1>2. ASSUME NEW c \in Contact
      PROVE  /\ c.id \in Id
             /\ [c EXCEPT !.related = related[c.id]] \in Contact
             /\ [c EXCEPT !.related = related[c.id]].id = c.id
             /\ [c EXCEPT !.related = related[c.id]].related = related[c.id]
  BY DEF Contact
<1>3. \A i \in 1 .. Len(m_contacts) :
          /\ m_contacts'[i] \in Contact /\ m_contacts'[i].id = m_contacts[i].id
          /\ m_contacts'[i].related = IF m_contacts[i].id \in same THEN m_contacts[i].related
                                      ELSE related[m_contacts[i].id]
  BY <1>1, <1>2 DEF Recaching
<1>4. m_contacts' = [i \in 1 .. Len(m_contacts) |-> m_contacts'[i]]
  BY <1>1 DEF Recaching
<1>5. m_contacts' \in Seq(Contact) /\ Len(m_contacts') = Len(m_contacts)
  BY <1>1, <1>3, <1>4
<1> QED
  BY <1>1, <1>3, <1>5 DEF SameContacts

LEMMA dropDrops ==
    ASSUME MemTypeOK, NEW gone \in SUBSET m_relationships, DropRelationships(gone)
    PROVE  /\ SameContacts
           /\ m_relationships' = m_relationships \ gone
           /\ m_orderedRelationships' \in [Id -> SUBSET Relationship]
           /\ \A id \in Id : m_orderedRelationships'[id] =
                 m_orderedRelationships[id] \ {r \in gone : r.first.id = id \/ r.second.id = id}
           /\ \A i \in DOMAIN m_contacts : m_contacts'[i].related =
                 IF Cached(gone, m_contacts[i].id) = {} THEN m_contacts[i].related
                 ELSE m_orderedRelationships'[m_contacts[i].id]
<1>1. /\ m_orderedRelationships' \in [Id -> SUBSET Relationship]
      /\ \A id \in Id : m_orderedRelationships'[id] =
            m_orderedRelationships[id] \ {r \in gone : r.first.id = id \/ r.second.id = id}
  BY DEF DropRelationships, Forget, MemTypeOK
<1>2. PICK ordered \in [Id -> SUBSET Relationship] : ordered = m_orderedRelationships'
  BY <1>1
<1> DEFINE free == {id \in Id : Cached(gone, id) = {}}
<1>3. Recaching(free, ordered)
  <2>1. \A i \in DOMAIN m_contacts : m_contacts[i].id \in Id
    BY Store
  <2> QED
    BY <1>2, <2>1 DEF DropRelationships, StripCaches, Cached, Recaching
<1> HIDE DEF free
<1>4. /\ SameContacts
      /\ \A i \in DOMAIN m_contacts :
            m_contacts'[i].related = IF m_contacts[i].id \in free THEN m_contacts[i].related
                                     ELSE ordered[m_contacts[i].id]
  BY <1>2, <1>3, Recached
<1>5. \A i \in DOMAIN m_contacts : m_contacts[i].id \in Id
  BY Store
<1> QED
  BY <1>1, <1>2, <1>4, <1>5 DEF DropRelationships, free

\* What saveRelationship does to the store.
Related(r, cs) ==
    /\ r \in Relationship /\ r.first.id \in m_contactIds
    /\ r.second.uri = "own" => r.second.id \in m_contactIds
    /\ m_relationships' = m_relationships \cup {r}
    /\ m_orderedRelationships' \in [Id -> SUBSET Relationship]
    /\ \A id \in Id : m_orderedRelationships'[id] =
          IF id \in {r.first.id, r.second.id} THEN m_orderedRelationships[id] \cup {r}
          ELSE m_orderedRelationships[id]
    /\ SameContacts
    /\ \A i \in DOMAIN m_contacts : m_contacts'[i].related =
          IF m_contacts[i].id \in {r.first.id, r.second.id}
          THEN m_orderedRelationships'[m_contacts[i].id] ELSE m_contacts[i].related
    /\ Quiet(cs)
    /\ agenda' = emitSharedSignals(cs) \o agenda

LEMMA saveRelates ==
    ASSUME MemTypeOK, NEW first \in Participant(FirstUri),
           NEW second \in Participant(SecondUri), saveRelationship(first, second)
    PROVE  \E r, cs : /\ Related(r, cs) /\ r.first.uri \in FirstUri
                      /\ SecondUri \subseteq {"", "own"} => r.second.uri = "own"
<1>1. PICK that : that = FillIn(second)
  OBVIOUS
<1>2. /\ that \in Participant({"own", "other"})
      /\ SecondUri \subseteq {"", "own"} => that.uri = "own"
  BY <1>1, ContactAssumption DEF FillIn, Participant
<1>3. PICK r : r = [first |-> first, second |-> that]
  OBVIOUS
<1>4. /\ r \in Relationship /\ r.first = first /\ r.second = that
      /\ first.id \in Id /\ that.id \in Id /\ r.first.uri \in FirstUri
  BY <1>2, <1>3, ContactAssumption DEF Relationship, Participant
<1>5. PICK both : both = {first.id, that.id}
  OBVIOUS
<1>6. /\ first.id \in m_contactIds
      /\ that.uri = "own" => that.id \in m_contactIds
      /\ m_relationships' = m_relationships \cup {r}
      /\ m_orderedRelationships' =
            [id \in Id |-> IF id \in both THEN m_orderedRelationships[id] \cup {r}
                           ELSE m_orderedRelationships[id]]
      /\ m_contacts' = [i \in DOMAIN m_contacts |->
            IF m_contacts[i].id \in both
            THEN [m_contacts[i] EXCEPT !.related = m_orderedRelationships'[m_contacts[i].id]]
            ELSE m_contacts[i]]
      /\ agenda' = emitSharedSignals([EmptyChangeSet EXCEPT !.relationshipsAdded = both]) \o agenda
  BY <1>1, <1>3, <1>5 DEF saveRelationship
<1>7. /\ m_orderedRelationships' \in [Id -> SUBSET Relationship]
      /\ \A id \in Id : m_orderedRelationships'[id] =
            IF id \in both THEN m_orderedRelationships[id] \cup {r} ELSE m_orderedRelationships[id]
  BY <1>4, <1>6 DEF MemTypeOK
<1>8. PICK ordered \in [Id -> SUBSET Relationship] : ordered = m_orderedRelationships'
  BY <1>7
<1> DEFINE same == Id \ both
<1>9. \A i \in DOMAIN m_contacts : m_contacts[i].id \in Id
  BY Store
<1>10. Recaching(same, ordered)
  BY <1>6, <1>8, <1>9 DEF Recaching
<1> HIDE DEF same
<1>11. /\ SameContacts
       /\ \A i \in DOMAIN m_contacts :
             m_contacts'[i].related = IF m_contacts[i].id \in same THEN m_contacts[i].related
                                      ELSE ordered[m_contacts[i].id]
  BY <1>8, <1>10, Recached
<1>12. PICK cs : cs = [EmptyChangeSet EXCEPT !.relationshipsAdded = both]
  OBVIOUS
<1>13. Quiet(cs)
  <2>1. cs \in ChangeSet
    BY <1>4, <1>5, <1>12, ChangeSets
  <2> QED
    BY <1>12, <2>1 DEF Quiet, EmptyChangeSet
<1>14. \A i \in DOMAIN m_contacts : m_contacts'[i].related =
          IF m_contacts[i].id \in both
          THEN m_orderedRelationships'[m_contacts[i].id] ELSE m_contacts[i].related
  BY <1>8, <1>9, <1>11 DEF same
<1>15. agenda' = emitSharedSignals(cs) \o agenda
  BY <1>6, <1>12
<1>16. Related(r, cs)
  BY <1>4, <1>5, <1>6, <1>7, <1>11, <1>13, <1>14, <1>15 DEF Related
<1> QED
  BY <1>2, <1>4, <1>16

LEMMA RemovedIsQuiet ==
    ASSUME MemTypeOK, NEW gone \in SUBSET m_relationships
    PROVE  \E cs : Quiet(cs) /\ RemovedSignals(gone) = emitSharedSignals(cs)
<1>1. PICK ids : ids = {r.first.id : r \in gone} \cup {r.second.id : r \in gone}
  OBVIOUS
<1>2. ids \in SUBSET Id
  BY <1>1, Store DEF MemTypeOK
<1>3. PICK cs : cs = [EmptyChangeSet EXCEPT !.relationshipsRemoved = ids]
  OBVIOUS
<1>4. Quiet(cs)
  BY <1>2, <1>3, ChangeSets DEF Quiet, EmptyChangeSet
<1>5. RemovedSignals(gone) = emitSharedSignals(cs)
  BY <1>1, <1>3 DEF RemovedSignals
<1> QED
  BY <1>4, <1>5

\* What RemoveEnds does.
Erased(work, loop, next, rest) ==
    /\ agenda # <<>> /\ work = Head(agenda) /\ work \in Erasure
    /\ Tail(agenda) # <<>> /\ loop = Head(Tail(agenda)) /\ loop \in Halfway
    /\ rest = Tail(Tail(agenda)) /\ Agenda(rest)
    /\ Len(agenda) >= 2 /\ loop = agenda[2] /\ Len(rest) = Len(agenda) - 2
    /\ m_contacts' = IF work.index \notin DOMAIN m_contacts THEN m_contacts
                     ELSE RemoveAt(m_contacts, work.index)
    /\ m_selfContactId' = IF m_selfContactId = work.id THEN 0 ELSE m_selfContactId
    /\ next.do = "remove" /\ next.asked = loop.asked
    /\ next.rest = Tail(loop.rest)
    /\ next.cs.removed = loop.cs.removed \cup {work.id}
    /\ next.cs.oldSelf = IF m_selfContactId = work.id THEN work.id ELSE loop.cs.oldSelf
    /\ next.cs.added = loop.cs.added /\ next.cs.newSelf = loop.cs.newSelf
    /\ next \in Removal
    /\ agenda' = <<next>> \o rest

LEMMA endErases ==
    ASSUME Typed, RemoveEnds
    PROVE  \E work, loop, next, rest : Erased(work, loop, next, rest)
<1>1. agenda # <<>> /\ Agenda(agenda) /\ agenda \in Seq(Task)
  BY DEF RemoveEnds, Working, Typed, Agenda
<1>2. PICK work, loop, rest :
          work = Head(agenda) /\ loop = agenda[2] /\ rest = Tail(Tail(agenda))
  OBVIOUS
<1>3. work \in Erasure
  BY <1>1, <1>2, WithoutFirst, Kinds DEF RemoveEnds, Working
<1>4. /\ Tail(agenda) # <<>> /\ Len(agenda) >= 2 /\ loop = Head(Tail(agenda))
      /\ loop \in Halfway /\ Agenda(Tail(agenda)) /\ loop \in Removal /\ loop.rest # <<>>
  BY <1>1, <1>2, <1>3, WithoutFirst DEF Halfway
<1>5. Agenda(rest) /\ Len(rest) = Len(agenda) - 2 /\ SubSeq(agenda, 3, Len(agenda)) = rest
  <2>1. Tail(agenda) \in Seq(Task) /\ Len(Tail(agenda)) = Len(agenda) - 1 /\ Len(agenda) \in Nat
    BY <1>1, HeadAndTail
  <2>2. Len(Tail(Tail(agenda))) = Len(Tail(agenda)) - 1
    BY <1>4, <2>1, HeadAndTail
  <2>3. Agenda(Tail(Tail(agenda)))
    BY <1>4, WithoutFirst
  <2>4. SubSeq(agenda, 3, Len(agenda)) = Tail(Tail(agenda))
    BY <1>1, <1>4, ThirdOn
  <2> QED
    BY <1>2, <2>1, <2>2, <2>3, <2>4
<1>6. PICK self \in Id \cup {0} : self = m_selfContactId
  BY DEF Typed, MemTypeOK
<1>7. PICK next : next = [loop EXCEPT !.rest = Tail(@), !.cs.removed = @ \cup {work.id},
                                      !.cs.oldSelf = IF self = work.id THEN work.id ELSE @]
  OBVIOUS
<1>8. work.id \in Id
  BY <1>3 DEF Erasure
<1>9. PICK cs \in ChangeSet : cs = loop.cs
  BY <1>4 DEF Removal
<1>10. PICK cs2 : cs2 = [cs EXCEPT !.removed = cs.removed \cup {work.id},
                                   !.oldSelf = IF self = work.id THEN work.id ELSE cs.oldSelf]
  OBVIOUS
<1>11. /\ cs2 \in ChangeSet /\ cs2.removed = cs.removed \cup {work.id}
       /\ cs2.oldSelf = IF self = work.id THEN work.id ELSE cs.oldSelf
       /\ cs2.added = cs.added /\ cs2.newSelf = cs.newSelf
  BY <1>8, <1>10 DEF ChangeSet
<1>12. PICK asked \in SUBSET Id, todo \in Seq(Id) :
           /\ loop = [do |-> "remove", asked |-> asked, rest |-> todo, cs |-> cs]
           /\ asked = loop.asked /\ todo = loop.rest
  BY <1>4, <1>9 DEF Removal
<1>13. next = [do |-> "remove", asked |-> asked, rest |-> Tail(todo), cs |-> cs2]
  <2>1. PICK first : first = [loop EXCEPT !.rest = Tail(@)]
    OBVIOUS
  <2>2. first = [do |-> "remove", asked |-> asked, rest |-> Tail(todo), cs |-> cs]
    BY <1>12, <2>1
  <2>3. PICK middle : middle = [first EXCEPT !.cs.removed = @ \cup {work.id}]
    OBVIOUS
  <2>4. middle = [do |-> "remove", asked |-> asked, rest |-> Tail(todo),
                  cs |-> [cs EXCEPT !.removed = @ \cup {work.id}]]
    BY <2>2, <2>3
  <2>5. next = [middle EXCEPT !.cs.oldSelf = IF self = work.id THEN work.id ELSE @]
    BY <1>7, <2>1, <2>3
  <2>6. [[cs EXCEPT !.removed = @ \cup {work.id}] EXCEPT
            !.oldSelf = IF self = work.id THEN work.id ELSE @] = cs2
    BY <1>10 DEF ChangeSet
  <2> QED
    BY <2>4, <2>5, <2>6
<1>14. next \in Removal
  <2>1. Tail(todo) \in Seq(Id)
    <3>1. todo # <<>>
      BY <1>4, <1>12
    <3> QED
      BY <3>1
  <2> QED
    BY <1>11, <1>12, <1>13, <2>1 DEF Removal
<1>15. agenda' = <<next>> \o rest
  BY <1>2, <1>5, <1>6, <1>7 DEF RemoveEnds
<1>16. /\ m_contacts' = IF work.index \notin DOMAIN m_contacts THEN m_contacts
                        ELSE RemoveAt(m_contacts, work.index)
       /\ m_selfContactId' = IF m_selfContactId = work.id THEN 0 ELSE m_selfContactId
  BY <1>2 DEF RemoveEnds, ResetSelf
<1>17. Erased(work, loop, next, rest)
  <2>1. /\ next.do = "remove" /\ next.asked = loop.asked /\ next.rest = Tail(loop.rest)
        /\ next.cs = cs2
    BY <1>12, <1>13
  <2> QED
    BY <1>1, <1>2, <1>3, <1>4, <1>5, <1>6, <1>9, <1>11, <1>14, <1>15, <1>16, <2>1 DEF Erased
<1> QED
  BY <1>17

\* What RemoveBegins does.
Begun(id, loop, cs, work) ==
    /\ agenda # <<>> /\ loop = Head(agenda) /\ loop \in Halfway
    /\ id = Head(loop.rest) /\ id \in m_contactIds
    /\ DropRelationships(RelationshipsOf(id))
    /\ Quiet(cs)
    /\ work \in Erasure /\ work.id = id
    /\ work.index \in DOMAIN m_contacts /\ m_contacts[work.index].id = id
    /\ agenda' = emitSharedSignals(cs) \o (<<work>> \o agenda)
    /\ Agenda(<<work>> \o agenda)

LEMMA beginBegins ==
    ASSUME Typed, RemoveBegins
    PROVE  \E id, loop, cs, work : Begun(id, loop, cs, work)
<1>1. agenda # <<>> /\ Agenda(agenda) /\ agenda \in Seq(Task) /\ MemTypeOK
  BY DEF RemoveBegins, Working, Typed, Agenda
<1>2. PICK loop : loop = Head(agenda)
  OBVIOUS
<1>3. loop \in Removal /\ loop.rest # <<>> /\ loop \in Halfway
  BY <1>1, <1>2, WithoutFirst, Kinds DEF RemoveBegins, Working, Halfway
<1>4. PICK id : id = Head(loop.rest)
  OBVIOUS
<1>5. /\ id \in m_contactIds /\ DropRelationships(RelationshipsOf(id))
      /\ agenda' = RemovedSignals(RelationshipsOf(id))
                   \o <<[do |-> "erase", id |-> id, index |-> IndexOf(id)]>> \o agenda
  BY <1>2, <1>4 DEF RemoveBegins
<1>6. IndexOf(id) \in DOMAIN m_contacts /\ m_contacts[IndexOf(id)].id = id
  <2> DEFINE Places == {i \in 1 .. Len(m_contacts) : m_contacts[i].id = id}
  <2>1. DOMAIN m_contacts = 1 .. Len(m_contacts)
    BY <1>1, Store
  <2>2. Places # {} /\ Places \in SUBSET Nat
    BY <1>1, <1>5, <2>1, Store
  <2>3. PICK k \in Places : \A j \in Places : k <= j
    BY <2>2, SmallestIsThere
  <2>4. Min(Places) \in Places
    BY <2>3 DEF Min
  <2>5. IndexOf(id) = Min(Places)
    BY <2>2 DEF IndexOf, SelectInSeq
  <2> QED
    BY <2>1, <2>4, <2>5
<1>7. PICK work : work = [do |-> "erase", id |-> id, index |-> IndexOf(id)]
  OBVIOUS
<1>8. work \in Erasure /\ work.id = id /\ work.index = IndexOf(id)
  <2>1. id \in Id /\ IndexOf(id) \in Nat
    BY <1>1, <1>5, <1>6, Store
  <2> QED
    BY <1>7, <2>1 DEF Erasure
<1>9. PICK cs : Quiet(cs) /\ RemovedSignals(RelationshipsOf(id)) = emitSharedSignals(cs)
  BY <1>1, Store, RemovedIsQuiet
<1>10. PICK new \in Seq(Emission) : new = emitSharedSignals(cs)
  BY <1>1, <1>9, Emitted DEF Quiet, MemTypeOK
<1>11. agenda' = new \o (<<work>> \o agenda)
  <2>1. agenda' = new \o <<work>> \o agenda
    BY <1>5, <1>7, <1>9, <1>10
  <2>2. new \in Seq(Task) /\ <<work>> \in Seq(Task)
    BY <1>8, <1>10, Kinds
  <2> QED
    BY <1>1, <2>1, <2>2, Regrouped
<1>12. Agenda(<<work>> \o agenda)
  BY <1>1, <1>2, <1>3, <1>8, Kinds, WithFirst
<1>13. Begun(id, loop, cs, work)
  BY <1>1, <1>2, <1>3, <1>4, <1>5, <1>6, <1>8, <1>9, <1>10, <1>11, <1>12 DEF Begun
<1> QED
  BY <1>13

-----------------------------------------------------------------------------
(* Types, continued.                                                       *)

LEMMA FromParts ==
    ASSUME StoreTyped', RestTyped', Agenda(agenda')
    PROVE  Typed'
  BY DEF StoreTyped, RestTyped, Typed, MemTypeOK

LEMMA saveTyped ==
    ASSUME Typed, NEW list \in Batches(Id \cup {0}), NEW copy \in Copy, saveContacts(list, copy)
    PROVE  Typed'
<1>1. PICK n \in Nat, cs \in ChangeSet : Saved(n, cs, copy)
  BY saveSaves DEF Typed
<1>2. StoreTyped'
  <2>1. m_nextContactId' \in 1 .. MaxContact + 1
    BY <1>1, Store DEF Saved, Typed, MemTypeOK
  <2> QED
    BY <1>1, <2>1 DEF Saved, Contact, saveContacts, Typed, MemTypeOK, StoreTyped
<1>3. RestTyped'
  BY MayCallTypes DEF saveContacts, Typed, MemTypeOK, RestTyped
<1>4. Agenda(agenda')
  BY <1>1, EmissionBefore DEF Saved
<1> QED
  BY <1>2, <1>3, <1>4, FromParts

LEMMA selfTyped ==
    ASSUME Typed, NEW id \in Id \cup {0}, setSelfContactId(id)
    PROVE  Typed'
<1>1. StoreTyped'
  BY DEF setSelfContactId, Typed, MemTypeOK, StoreTyped
<1>2. RestTyped'
  BY MayCallTypes DEF setSelfContactId, Typed, MemTypeOK, RestTyped
<1>3. Agenda(agenda')
  <2>1. PICK cs : cs = [EmptyChangeSet EXCEPT !.oldSelf = m_selfContactId, !.newSelf = id]
    OBVIOUS
  <2>2. cs \in ChangeSet
    BY <2>1, ChangeSets DEF Typed, MemTypeOK
  <2>3. agenda' = emitSharedSignals(cs) \o agenda
    BY <2>1 DEF setSelfContactId
  <2> QED
    BY <2>2, <2>3, EmissionBefore
<1> QED
  BY <1>1, <1>2, <1>3, FromParts

\* What removeContacts puts on the agenda.
Asked(loop, list) ==
    /\ loop \in Removal /\ loop.rest = list
    /\ loop.asked = ToSet(list) \cap m_contactIds /\ loop.cs = EmptyChangeSet
    /\ agenda' = <<loop>> \o agenda

LEMMA removeAsks ==
    ASSUME Typed, NEW list \in Batches(Id), removeContacts(list)
    PROVE  \E loop : Asked(loop, list)
<1>1. PICK loop : loop = [do |-> "remove", asked |-> ToSet(list) \cap m_contactIds,
                          rest |-> list, cs |-> EmptyChangeSet]
  OBVIOUS
<1>2. loop \in Removal
  BY <1>1, BatchIsSeq, ChangeSets, Store DEF Removal, Typed
<1>3. agenda' = <<loop>> \o agenda
  BY <1>1 DEF removeContacts
<1>4. Asked(loop, list)
  BY <1>1, <1>2, <1>3 DEF Asked
<1> QED
  BY <1>4

LEMMA removeTyped ==
    ASSUME Typed, NEW list \in Batches(Id), removeContacts(list)
    PROVE  Typed'
<1>1. PICK loop : Asked(loop, list)
  BY removeAsks
<1>2. StoreTyped'
  BY TypedParts DEF removeContacts, store, Typed, StoreTyped
<1>3. RestTyped'
  BY MayCallTypes DEF removeContacts, Typed, MemTypeOK, RestTyped
<1>4. Agenda(agenda')
  BY <1>1, WithFirst, Kinds DEF Asked, Typed
<1> QED
  BY <1>2, <1>3, <1>4, FromParts

\* What RemoveUnknown does.
Passed(loop, next) ==
    /\ agenda # <<>> /\ loop = Head(agenda) /\ loop \in Halfway /\ next \in Removal
    /\ Head(loop.rest) \notin m_contactIds
    /\ next.asked = loop.asked /\ next.rest = Tail(loop.rest) /\ next.cs = loop.cs
    /\ agenda' = <<next>> \o Tail(agenda)

LEMMA unknownPasses ==
    ASSUME Typed, RemoveUnknown
    PROVE  \E loop, next : Passed(loop, next)
<1>1. agenda # <<>> /\ Agenda(agenda)
  BY DEF RemoveUnknown, Working, Typed
<1>2. PICK loop : loop = Head(agenda)
  OBVIOUS
<1>3. loop \in Removal /\ loop.rest # <<>> /\ loop \in Halfway
  BY <1>1, <1>2, WithoutFirst, Kinds DEF RemoveUnknown, Working, Halfway
<1>4. PICK asked \in SUBSET Id, todo \in Seq(Id), cs \in ChangeSet :
          /\ loop = [do |-> "remove", asked |-> asked, rest |-> todo, cs |-> cs]
          /\ asked = loop.asked /\ todo = loop.rest /\ cs = loop.cs
  BY <1>3 DEF Removal
<1>5. PICK next : next = [loop EXCEPT !.rest = Tail(@)]
  OBVIOUS
<1>6. next = [do |-> "remove", asked |-> asked, rest |-> Tail(todo), cs |-> cs]
  BY <1>4, <1>5
<1>7. next \in Removal
  <2>1. Tail(todo) \in Seq(Id)
    <3>1. todo # <<>>
      BY <1>3, <1>4
    <3> QED
      BY <3>1
  <2> QED
    BY <1>6, <2>1 DEF Removal
<1>8. agenda' = <<next>> \o Tail(agenda) /\ Head(loop.rest) \notin m_contactIds
  BY <1>2, <1>5 DEF RemoveUnknown, PassOver
<1>9. next.asked = loop.asked /\ next.rest = Tail(loop.rest) /\ next.cs = loop.cs
  BY <1>4, <1>6
<1>10. Passed(loop, next)
  BY <1>1, <1>2, <1>3, <1>7, <1>8, <1>9 DEF Passed
<1> QED
  BY <1>10

LEMMA unknownTyped ==
    ASSUME Typed, RemoveUnknown
    PROVE  Typed'
<1>1. PICK loop, next : Passed(loop, next)
  BY unknownPasses
<1>2. StoreTyped'
  BY TypedParts DEF RemoveUnknown, store, Typed, StoreTyped
<1>3. RestTyped'
  BY DEF RemoveUnknown, Typed, MemTypeOK, RestTyped
<1>4. Agenda(agenda')
  BY <1>1, WithFirst, WithoutFirst, Kinds DEF Passed, Typed
<1> QED
  BY <1>2, <1>3, <1>4, FromParts

LEMMA beginTyped ==
    ASSUME Typed, RemoveBegins
    PROVE  Typed'
<1>1. PICK id, loop, cs, work : Begun(id, loop, cs, work)
  BY beginBegins
<1>2. StoreTyped'
  <2>1. /\ SameContacts
        /\ m_relationships' = m_relationships \ RelationshipsOf(id)
        /\ m_orderedRelationships' \in [Id -> SUBSET Relationship]
    BY <1>1, Store, dropDrops DEF Begun, Typed
  <2> QED
    BY <2>1 DEF SameContacts, Contact, RemoveBegins, Typed, MemTypeOK, StoreTyped
<1>3. RestTyped'
  BY DEF RemoveBegins, Typed, MemTypeOK, RestTyped
<1>4. Agenda(agenda')
  <2>1. PICK new \in Seq(Emission) : new = emitSharedSignals(cs)
    BY <1>1, Emitted DEF Begun, Quiet, Typed, MemTypeOK
  <2>2. PICK old : old = <<work>> \o agenda
    OBVIOUS
  <2> QED
    BY <1>1, <2>1, <2>2, EmissionsFirst DEF Begun
<1> QED
  BY <1>2, <1>3, <1>4, FromParts

LEMMA endTyped ==
    ASSUME Typed, RemoveEnds
    PROVE  Typed'
<1>1. PICK work, loop, next, rest : Erased(work, loop, next, rest)
  BY endErases
<1>2. StoreTyped'
  <2>1. m_contacts' \in Seq(Contact)
    <3>1. m_contacts \in Seq(Contact)
      BY DEF Typed, MemTypeOK, Contact
    <3> QED
      BY <1>1, <3>1, TakenOut DEF Erased
  <2>2. m_selfContactId' \in Id \cup {0}
    BY <1>1 DEF Erased, Typed, MemTypeOK
  <2> QED
    BY <2>1, <2>2 DEF Contact, RemoveEnds, Typed, MemTypeOK, StoreTyped
<1>3. RestTyped'
  BY DEF RemoveEnds, Typed, MemTypeOK, RestTyped
<1>4. Agenda(agenda')
  BY <1>1, WithFirst, Kinds DEF Erased
<1> QED
  BY <1>2, <1>3, <1>4, FromParts

LEMMA doneTyped ==
    ASSUME Typed, RemoveDone
    PROVE  Typed'
<1>1. agenda # <<>> /\ Agenda(agenda) /\ Head(agenda) \in Removal
  BY WithoutFirst, Kinds DEF RemoveDone, Working, Typed
<1>2. PICK cs \in ChangeSet : cs = Head(agenda).cs
  BY <1>1 DEF Removal
<1>3. StoreTyped'
  BY TypedParts DEF RemoveDone, store, Typed, StoreTyped
<1>4. RestTyped'
  BY DEF RemoveDone, Typed, MemTypeOK, RestTyped
<1>5. Agenda(agenda')
  <2>1. PICK new \in Seq(Emission) : new = emitSharedSignals(cs)
    BY Emitted DEF Typed, MemTypeOK
  <2>2. agenda' = new \o Tail(agenda)
    BY <1>2, <2>1 DEF RemoveDone
  <2>3. Agenda(Tail(agenda))
    BY <1>1, WithoutFirst
  <2> QED
    BY <2>2, <2>3, EmissionsFirst
<1> QED
  BY <1>3, <1>4, <1>5, FromParts

LEMMA relateTyped ==
    ASSUME Typed, NEW first \in Participant(FirstUri),
           NEW second \in Participant(SecondUri), saveRelationship(first, second)
    PROVE  Typed'
<1>1. PICK r, cs : Related(r, cs)
  BY saveRelates DEF Typed
<1>2. StoreTyped'
  BY <1>1 DEF Related, SameContacts, Contact, saveRelationship, Typed, MemTypeOK, StoreTyped
<1>3. RestTyped'
  <2>1. undefined' \in BOOLEAN
    BY DEF saveRelationship
  <2> QED
    BY <2>1, MayCallTypes DEF saveRelationship, Typed, MemTypeOK, RestTyped
<1>4. Agenda(agenda')
  BY <1>1, EmissionBefore DEF Related, Quiet
<1> QED
  BY <1>2, <1>3, <1>4, FromParts

LEMMA unrelateTyped ==
    ASSUME Typed, NEW gone \in SUBSET m_relationships, removeRelationships(gone)
    PROVE  Typed'
<1>1. PICK cs : Quiet(cs) /\ RemovedSignals(gone) = emitSharedSignals(cs)
  BY RemovedIsQuiet DEF Typed
<1>2. StoreTyped'
  <2>1. /\ SameContacts
        /\ m_relationships' = m_relationships \ gone
        /\ m_orderedRelationships' \in [Id -> SUBSET Relationship]
    BY dropDrops DEF removeRelationships, Typed
  <2> QED
    BY <2>1 DEF SameContacts, Contact, removeRelationships, Typed, MemTypeOK, StoreTyped
<1>3. RestTyped'
  BY MayCallTypes DEF removeRelationships, Typed, MemTypeOK, RestTyped
<1>4. Agenda(agenda')
  BY <1>1, EmissionBefore DEF removeRelationships, Quiet
<1> QED
  BY <1>2, <1>3, <1>4, FromParts

LEMMA TypedInit == Init => Typed
<1> SUFFICES ASSUME Init PROVE Typed
  OBVIOUS
<1>1. MaxContact \in Nat /\ MaxNested \in Nat
  BY ContactAssumption
<1>2. StoreTyped
  BY <1>1 DEF Init, StoreTyped
<1>3. RestTyped
  <2>1. known \in [Engine -> SUBSET Id] /\ knownSelf \in [Engine -> Id \cup {0}]
    BY DEF Init
  <2>2. 0 \in 0 .. MaxNested /\ <<>> \in Seq(Engine)
    BY <1>1
  <2> QED
    BY <2>1, <2>2 DEF Init, RestTyped
<1>4. Agenda(agenda)
  BY DEF Init, Agenda
<1> QED
  BY <1>2, <1>3, <1>4, TypedParts DEF Typed

LEMMA TypedStep == Typed /\ [Next]_vars => Typed'
<1> SUFFICES ASSUME Typed, [Next]_vars PROVE Typed'
  OBVIOUS
<1>1. CASE \E e \in Engine : createMemoryEngine(e) \/ destroyEngine(e)
  BY <1>1, createTyped, destroyTyped
<1>2. CASE \E list \in Batches(Id \cup {0}), copy \in Copy : saveContacts(list, copy)
  BY <1>2, saveTyped
<1>3. CASE \E list \in Batches(Id) : removeContacts(list)
  BY <1>3, removeTyped
<1>4. CASE \E id \in Id \cup {0} : setSelfContactId(id)
  BY <1>4, selfTyped
<1>5. CASE \E first \in Participant(FirstUri), second \in Participant(SecondUri) :
               saveRelationship(first, second)
  BY <1>5, relateTyped
<1>6. CASE \E gone \in SUBSET m_relationships : removeRelationships(gone)
  BY <1>6, unrelateTyped
<1>7. CASE Deliver
  BY <1>7, DeliverTyped
<1>8. CASE RemoveUnknown
  BY <1>8, unknownTyped
<1>9. CASE RemoveBegins
  BY <1>9, beginTyped
<1>10. CASE RemoveEnds
  BY <1>10, endTyped
<1>11. CASE RemoveDone
  BY <1>11, doneTyped
<1>12. CASE UNCHANGED vars
  BY <1>12 DEF vars, store, Typed, MemTypeOK
<1> QED
  BY <1>1, <1>2, <1>3, <1>4, <1>5, <1>6, <1>7, <1>8, <1>9, <1>10, <1>11, <1>12 DEF Next

\* The variables keep their types, whatever clients and slots do: a removal
\* that is interrupted by signals always finds its loop where it left it.
THEOREM MemTypes == MemSpec => []MemTypeOK
<1>1. MemSpec => []Typed
  BY TypedInit, TypedStep, PTL DEF MemSpec
<1>2. Typed => MemTypeOK
  BY DEF Typed
<1> QED
  BY <1>1, <1>2, PTL

-----------------------------------------------------------------------------
(* Identifiers.                                                            *)

\* The contacts of one state are those of the next.
LEMMA SameIds ==
    ASSUME MemTypeOK, SameContacts
    PROVE  /\ m_contactIds' = m_contactIds
           /\ DOMAIN m_contacts' = DOMAIN m_contacts
           /\ \A i \in DOMAIN m_contacts' :
                 i \in DOMAIN m_contacts /\ m_contacts'[i].id = m_contacts[i].id
<1>1. DOMAIN m_contacts' = DOMAIN m_contacts
  BY DEF SameContacts
<1>2. \A i \in DOMAIN m_contacts' :
          i \in DOMAIN m_contacts /\ m_contacts'[i].id = m_contacts[i].id
  BY DEF SameContacts
<1> QED
  BY <1>1, <1>2 DEF m_contactIds

LEMMA SavedIds ==
    ASSUME MemTypeOK, NEW n \in Nat, NEW cs, NEW copy, Saved(n, cs, copy)
    PROVE  /\ m_contactIds' = m_contactIds \cup (m_nextContactId + 1 .. m_nextContactId + n)
           /\ \A i \in DOMAIN m_contacts' :
                 \/ i \in DOMAIN m_contacts /\ m_contacts'[i].id = m_contacts[i].id
                 \/ /\ m_contacts'[i].id = m_nextContactId + (i - Len(m_contacts))
                    /\ m_contacts'[i].id \in m_nextContactId + 1 .. m_nextContactId + n
                    /\ m_contacts'[i].related = {} /\ i \notin DOMAIN m_contacts
           /\ DOMAIN m_contacts' \subseteq Nat
<1>1. PICK len \in Nat : len = Len(m_contacts) /\ DOMAIN m_contacts = 1 .. len
  <2>1. m_contacts \in Seq(Contact)
    BY DEF MemTypeOK, Contact
  <2> QED
    BY <2>1
<1>2. /\ DOMAIN m_contacts' = 1 .. len + n
      /\ \A i \in 1 .. len : m_contacts'[i].id = m_contacts[i].id
      /\ \A i \in len + 1 .. len + n : /\ m_contacts'[i].id = m_nextContactId + (i - len)
                                       /\ m_contacts'[i].related = {}
  BY <1>1 DEF Saved
<1>3. PICK next \in Nat : next = m_nextContactId
  BY Store
<1>4. ASSUME NEW i \in DOMAIN m_contacts'
      PROVE  \/ i \in DOMAIN m_contacts /\ m_contacts'[i].id = m_contacts[i].id
             \/ /\ m_contacts'[i].id = next + (i - len)
                /\ m_contacts'[i].id \in next + 1 .. next + n
                /\ m_contacts'[i].related = {} /\ i \notin DOMAIN m_contacts
  <2>1. CASE i \in 1 .. len
    BY <1>1, <1>2, <2>1
  <2>2. CASE i \notin 1 .. len
    <3>1. i \in len + 1 .. len + n /\ next + (i - len) \in next + 1 .. next + n
      BY <1>1, <1>2, <1>3, <2>2
    <3> QED
      BY <1>1, <1>2, <1>3, <2>2, <3>1
  <2> QED
    BY <2>1, <2>2
<1>5. \A i \in DOMAIN m_contacts : i \in DOMAIN m_contacts' /\ m_contacts'[i].id = m_contacts[i].id
  BY <1>1, <1>2
<1>6. ASSUME NEW x \in next + 1 .. next + n
      PROVE  \E i \in DOMAIN m_contacts' : m_contacts'[i].id = x
  <2>1. PICK k \in 1 .. n : x = next + k
    <3>1. x - next \in 1 .. n /\ x = next + (x - next)
      BY <1>3
    <3> QED
      BY <3>1
  <2>2. len + k \in len + 1 .. len + n /\ (len + k) - len = k /\ len + k \in 1 .. len + n
    BY <1>1
  <2> QED
    BY <1>2, <1>3, <2>1, <2>2
<1>7. m_contactIds' = m_contactIds \cup (next + 1 .. next + n)
  BY <1>4, <1>5, <1>6 DEF m_contactIds
<1> QED
  BY <1>1, <1>2, <1>3, <1>4, <1>7

\* A contact that is taken out of the list.
LEMMA ErasedIds ==
    ASSUME MemTypeOK, NEW work, NEW loop, NEW next, NEW rest, Erased(work, loop, next, rest)
    PROVE  /\ m_contactIds' \subseteq m_contactIds
           /\ \A i \in DOMAIN m_contacts' : \E j \in DOMAIN m_contacts :
                 m_contacts'[i] = m_contacts[j]
           /\ (\A i, j \in DOMAIN m_contacts : m_contacts[i].id = m_contacts[j].id => i = j) =>
                 /\ \A i, j \in DOMAIN m_contacts' :
                       m_contacts'[i].id = m_contacts'[j].id => i = j
                 /\ work.index \in DOMAIN m_contacts =>
                       m_contactIds' = m_contactIds \ {m_contacts[work.index].id}
<1>1. PICK k : k = work.index
  OBVIOUS
<1>2. m_contacts \in Seq(Contact)
  BY DEF MemTypeOK, Contact
<1>3. CASE k \notin DOMAIN m_contacts
  BY <1>1, <1>3 DEF Erased, m_contactIds
<1>4. CASE k \in DOMAIN m_contacts
  <2>1. PICK left : left = m_contacts'
    OBVIOUS
  <2>2. left = RemoveAt(m_contacts, k)
    BY <1>1, <1>4, <2>1 DEF Erased
  <2>3. /\ left \in Seq(Contact)
        /\ \A i \in DOMAIN left :
              /\ i < k => i \in DOMAIN m_contacts /\ left[i] = m_contacts[i]
              /\ i >= k => i + 1 \in DOMAIN m_contacts /\ left[i] = m_contacts[i + 1]
        /\ \A i \in DOMAIN m_contacts :
              /\ i < k => i \in DOMAIN left /\ left[i] = m_contacts[i]
              /\ i > k => i - 1 \in DOMAIN left /\ left[i - 1] = m_contacts[i]
    BY <1>2, <1>4, <2>2, TakenOut
  <2>4. /\ DOMAIN left \subseteq Nat /\ DOMAIN m_contacts \subseteq Nat /\ k \in Nat
    BY <1>2, <1>4, <2>3
  <2>5. \A i \in DOMAIN left : \E j \in DOMAIN m_contacts :
            left[i] = m_contacts[j] /\ j # k /\ j = IF i < k THEN i ELSE i + 1
    <3>1. \A i \in DOMAIN left : i < k \/ (i >= k /\ ~(i < k) /\ i + 1 # k)
      BY <2>4
    <3>2. \A i \in DOMAIN left : i < k => i # k
      BY <2>4
    <3> QED
      BY <2>3, <3>1, <3>2
  <2>6. \A j \in DOMAIN m_contacts : j # k => \E i \in DOMAIN left : left[i] = m_contacts[j]
    <3>1. \A j \in DOMAIN m_contacts : j # k => j < k \/ j > k
      BY <2>4
    <3> QED
      BY <2>3, <3>1
  <2>7. m_contactIds' \subseteq m_contactIds
    BY <2>1, <2>5 DEF m_contactIds
  <2>8. ASSUME \A i, j \in DOMAIN m_contacts : m_contacts[i].id = m_contacts[j].id => i = j
        PROVE  /\ \A i, j \in DOMAIN left : left[i].id = left[j].id => i = j
               /\ m_contactIds' = m_contactIds \ {m_contacts[k].id}
    <3>1. ASSUME NEW i \in DOMAIN left, NEW j \in DOMAIN left, left[i].id = left[j].id
          PROVE  i = j
      <4>1. (IF i < k THEN i ELSE i + 1) = (IF j < k THEN j ELSE j + 1)
        BY <2>5, <2>8, <3>1
      <4>2. i \in Nat /\ j \in Nat /\ k \in Nat
        BY <2>4
      <4> QED
        BY <4>1, <4>2
    <3>2. m_contactIds' = m_contactIds \ {m_contacts[k].id}
      BY <1>4, <2>1, <2>5, <2>6, <2>8 DEF m_contactIds
    <3> QED
      BY <3>1, <3>2
  <2> QED
    BY <1>1, <2>1, <2>5, <2>7, <2>8
<1> QED
  BY <1>3, <1>4

LEMMA Unidentified ==
    ASSUME Identified, UNCHANGED <<m_contacts, m_nextContactId, m_relationships>>
    PROVE  Identified'
  BY DEF Identified, m_contactIds, Given

LEMMA IdentifiedSaved ==
    ASSUME Typed, Identified, NEW n \in Nat, NEW cs, NEW copy, Saved(n, cs, copy),
           m_relationships' = m_relationships
    PROVE  Identified'
<1>1. PICK next \in Nat : next = m_nextContactId /\ next >= 1 /\ m_nextContactId' = next + n
  BY Store DEF Typed, MemTypeOK, Saved
<1>2. /\ m_contactIds' = m_contactIds \cup (next + 1 .. next + n)
      /\ m_contactIds \subseteq 2 .. next
  BY <1>1, SavedIds DEF Typed, Identified, Given
<1>3. Given \subseteq Given' /\ next + 1 .. next + n \subseteq Given'
  BY <1>1 DEF Given
<1>4. m_contactIds' \subseteq Given'
  BY <1>1, <1>2, <1>3 DEF Given
<1>5. ASSUME NEW i \in DOMAIN m_contacts', NEW j \in DOMAIN m_contacts',
             m_contacts'[i].id = m_contacts'[j].id
      PROVE  i = j
  <2>1. PICK len \in Nat : len = Len(m_contacts) /\ DOMAIN m_contacts = 1 .. len
    <3>1. m_contacts \in Seq(Contact)
      BY DEF Typed, MemTypeOK, Contact
    <3> QED
      BY <3>1
  <2>2. ASSUME NEW k \in DOMAIN m_contacts'
        PROVE  /\ k \in Nat
               /\ \/ k \in DOMAIN m_contacts /\ m_contacts'[k].id = m_contacts[k].id
                     /\ m_contacts'[k].id \in 2 .. next
                  \/ m_contacts'[k].id = next + (k - len) /\ m_contacts'[k].id \in next + 1 .. next + n
    BY <1>1, <1>2, <2>1, SavedIds, Store DEF Typed
  <2>3. CASE m_contacts'[i].id \in 2 .. next
    <3>1. m_contacts'[i].id \notin next + 1 .. next + n
      BY <1>1, <2>3
    <3> QED
      BY <1>5, <2>2, <3>1 DEF Identified
  <2>4. CASE m_contacts'[i].id \in next + 1 .. next + n
    <3>1. m_contacts'[i].id \notin 2 .. next
      BY <1>1, <2>4
    <3>2. next + (i - len) = next + (j - len) /\ i \in Nat /\ j \in Nat
      BY <1>5, <2>2, <3>1
    <3> QED
      BY <1>1, <2>1, <3>2
  <2> QED
    BY <2>2, <2>3, <2>4
<1>6. \A r \in m_relationships' :
          r.first.id \in Given' /\ (r.second.uri = "own" => r.second.id \in Given')
  BY <1>3 DEF Identified
<1> QED
  BY <1>4, <1>5, <1>6 DEF Identified

LEMMA IdentifiedKept ==
    ASSUME Typed, Identified, SameContacts, m_nextContactId' = m_nextContactId,
           \A r \in m_relationships' :
               r.first.id \in Given /\ (r.second.uri = "own" => r.second.id \in Given)
    PROVE  Identified'
<1>1. Given' = Given
  BY DEF Given
<1>2. /\ m_contactIds' = m_contactIds
      /\ \A i \in DOMAIN m_contacts' :
            i \in DOMAIN m_contacts /\ m_contacts'[i].id = m_contacts[i].id
  BY SameIds DEF Typed
<1> QED
  BY <1>1, <1>2 DEF Identified

LEMMA IdentifiedStep == Typed /\ Identified /\ [Next]_vars => Identified'
<1> SUFFICES ASSUME Typed, Identified, [Next]_vars PROVE Identified'
  OBVIOUS
<1>1. ASSUME NEW e \in Engine, createMemoryEngine(e) PROVE Identified'
  BY <1>1, Unidentified DEF createMemoryEngine, store
<1>2. ASSUME NEW e \in Engine, destroyEngine(e) PROVE Identified'
  <2>1. CASE NewData
    BY <2>1 DEF NewData, Identified, m_contactIds
  <2>2. CASE UNCHANGED store
    BY <2>2, Unidentified DEF store
  <2> QED
    BY <1>2, <2>1, <2>2 DEF destroyEngine
<1>3. ASSUME NEW list \in Batches(Id \cup {0}), NEW copy \in Copy, saveContacts(list, copy)
      PROVE  Identified'
  <2>1. PICK n \in Nat, cs \in ChangeSet : Saved(n, cs, copy)
    BY <1>3, saveSaves DEF Typed
  <2> QED
    BY <1>3, <2>1, IdentifiedSaved DEF saveContacts
<1>4. ASSUME NEW list \in Batches(Id), removeContacts(list) PROVE Identified'
  BY <1>4, Unidentified DEF removeContacts, store
<1>5. ASSUME NEW id \in Id \cup {0}, setSelfContactId(id) PROVE Identified'
  BY <1>5, Unidentified DEF setSelfContactId
<1>6. ASSUME NEW first \in Participant(FirstUri), NEW second \in Participant(SecondUri),
             saveRelationship(first, second)
      PROVE  Identified'
  <2>1. PICK r, cs : Related(r, cs)
    BY <1>6, saveRelates DEF Typed
  <2>2. \A s \in m_relationships' :
            s.first.id \in Given /\ (s.second.uri = "own" => s.second.id \in Given)
    BY <2>1 DEF Related, Identified
  <2> QED
    BY <1>6, <2>1, <2>2, IdentifiedKept DEF Related, saveRelationship
<1>7. ASSUME NEW gone \in SUBSET m_relationships, removeRelationships(gone) PROVE Identified'
  <2>1. SameContacts /\ m_relationships' = m_relationships \ gone
    BY <1>7, dropDrops DEF removeRelationships, Typed
  <2>2. \A s \in m_relationships' :
            s.first.id \in Given /\ (s.second.uri = "own" => s.second.id \in Given)
    BY <2>1 DEF Identified
  <2> QED
    BY <1>7, <2>1, <2>2, IdentifiedKept DEF removeRelationships
<1>8. CASE Deliver \/ RemoveUnknown \/ RemoveDone \/ UNCHANGED vars
  BY <1>8, Unidentified DEF Deliver, RemoveUnknown, RemoveDone, vars, store
<1>9. CASE RemoveBegins
  <2>1. PICK id, loop, cs, work : Begun(id, loop, cs, work)
    BY <1>9, beginBegins
  <2>2. SameContacts /\ m_relationships' = m_relationships \ RelationshipsOf(id)
    BY <2>1, dropDrops, Store DEF Begun, Typed
  <2>3. \A s \in m_relationships' :
            s.first.id \in Given /\ (s.second.uri = "own" => s.second.id \in Given)
    BY <2>2 DEF Identified
  <2> QED
    BY <1>9, <2>2, <2>3, IdentifiedKept DEF RemoveBegins
<1>10. CASE RemoveEnds
  <2>1. PICK work, loop, next, rest : Erased(work, loop, next, rest)
    BY <1>10, endErases
  <2>2. /\ m_contactIds' \subseteq m_contactIds
        /\ \A i, j \in DOMAIN m_contacts' : m_contacts'[i].id = m_contacts'[j].id => i = j
    BY <2>1, ErasedIds DEF Typed, Identified
  <2> QED
    BY <1>10, <2>2 DEF RemoveEnds, Identified, Given
<1> QED
  BY <1>1, <1>2, <1>3, <1>4, <1>5, <1>6, <1>7, <1>8, <1>9, <1>10 DEF Next

-----------------------------------------------------------------------------
(* The three places where relationships are kept.                          *)

Of(relationships, id) ==
    {r \in relationships : r.first.id = id \/ r.second.id = id}

AllOwn(relationships) ==
    \A r \in relationships : r.first.uri = "own" /\ r.second.uri = "own"

LEMMA EitherRole ==
    ASSUME NEW relationships \in SUBSET Relationship, AllOwn(relationships), NEW id
    PROVE  /\ {r \in relationships : \/ r.first = [uri |-> "own", id |-> id]
                                     \/ r.second = [uri |-> "own", id |-> id]}
              = Of(relationships, id)
           /\ Cached(relationships, id) = Of(relationships, id)
<1>1. ASSUME NEW r \in relationships
      PROVE  /\ r.first = [uri |-> "own", id |-> id] <=> r.first.id = id
             /\ r.second = [uri |-> "own", id |-> id] <=> r.second.id = id
  <2>1. /\ r.first \in [uri : {"", "own"}, id : Id] /\ r.second \in [uri : {"own", "other"}, id : Id]
        /\ r.first.uri = "own" /\ r.second.uri = "own"
    BY DEF Relationship, Participant, AllOwn
  <2>2. PICK a \in Id, b \in Id : /\ r.first = [uri |-> "own", id |-> a]
                                /\ r.second = [uri |-> "own", id |-> b]
    BY <2>1
  <2>3. \A c : [uri |-> "own", id |-> c] = [uri |-> "own", id |-> id] <=> c = id
    OBVIOUS
  <2>4. r.first.id = a /\ r.second.id = b
    BY <2>2
  <2> QED
    BY <2>2, <2>3, <2>4
<1> QED
  BY <1>1 DEF Of, Cached

\* Agreed, in terms of identifiers only.
AgreedOn(contacts, relationships, ordered) ==
    /\ \A id \in Id : ordered[id] = Of(relationships, id)
    /\ \A i \in DOMAIN contacts : contacts[i].related = Of(relationships, contacts[i].id)
    /\ AllOwn(relationships)

LEMMA AgreedIs ==
    ASSUME Typed
    PROVE  Agreed <=> AgreedOn(m_contacts, m_relationships, m_orderedRelationships)
<1>1. m_relationships \in SUBSET Relationship
  BY DEF Typed, MemTypeOK
<1>2. AllOwn(m_relationships) => \A id : RelationshipsOf(id) = Of(m_relationships, id)
  BY <1>1, EitherRole DEF RelationshipsOf
<1> QED
  BY <1>2 DEF Agreed, AgreedOn, AllOwn

LEMMA AgreedIsNext == (Typed => (Agreed <=>
    AgreedOn(m_contacts, m_relationships, m_orderedRelationships)))'
  BY AgreedIs, PTL

LEMMA AgreedDropped ==
    ASSUME MemTypeOK, AgreedOn(m_contacts, m_relationships, m_orderedRelationships),
           NEW gone \in SUBSET m_relationships, DropRelationships(gone)
    PROVE  AgreedOn(m_contacts', m_relationships', m_orderedRelationships')
<1>1. /\ SameContacts /\ m_relationships' = m_relationships \ gone
      /\ \A id \in Id : m_orderedRelationships'[id] =
            m_orderedRelationships[id] \ {r \in gone : r.first.id = id \/ r.second.id = id}
      /\ \A i \in DOMAIN m_contacts : m_contacts'[i].related =
            IF Cached(gone, m_contacts[i].id) = {} THEN m_contacts[i].related
            ELSE m_orderedRelationships'[m_contacts[i].id]
  BY dropDrops
<1>2. /\ gone \in SUBSET Relationship /\ AllOwn(gone)
  BY DEF MemTypeOK, AgreedOn, AllOwn
<1>3. \A id : Cached(gone, id) = Of(gone, id)
  BY <1>2, EitherRole
<1>4. \A id : Of(m_relationships', id) = Of(m_relationships, id) \ Of(gone, id)
  BY <1>1 DEF Of
<1>5. \A id \in Id : m_orderedRelationships'[id] = Of(m_relationships', id)
  BY <1>1, <1>4 DEF Of, AgreedOn
<1>6. ASSUME NEW i \in DOMAIN m_contacts'
      PROVE  m_contacts'[i].related = Of(m_relationships', m_contacts'[i].id)
  <2>1. i \in DOMAIN m_contacts /\ m_contacts'[i].id = m_contacts[i].id
    BY <1>1, SameIds
  <2>2. PICK id \in Id : id = m_contacts[i].id
    BY <2>1, Store
  <2>3. CASE Of(gone, id) = {}
    <3>1. m_contacts'[i].related = m_contacts[i].related
      BY <1>1, <1>3, <2>1, <2>2, <2>3
    <3>2. m_contacts[i].related = Of(m_relationships, id)
      BY <2>1, <2>2 DEF AgreedOn
    <3>3. Of(m_relationships', id) = Of(m_relationships, id)
      BY <1>4, <2>3
    <3> QED
      BY <2>1, <2>2, <3>1, <3>2, <3>3
  <2>4. CASE Of(gone, id) # {}
    BY <1>1, <1>3, <1>5, <2>1, <2>2, <2>4
  <2> QED
    BY <2>3, <2>4
<1>7. AllOwn(m_relationships')
  BY <1>1 DEF AgreedOn, AllOwn
<1> QED
  BY <1>5, <1>6, <1>7 DEF AgreedOn

LEMMA AgreedRelated ==
    ASSUME MemTypeOK, AgreedOn(m_contacts, m_relationships, m_orderedRelationships),
           NEW r, NEW cs, Related(r, cs), r.first.uri = "own", r.second.uri = "own"
    PROVE  AgreedOn(m_contacts', m_relationships', m_orderedRelationships')
<1>1. \A id : Of(m_relationships', id) =
          IF id \in {r.first.id, r.second.id} THEN Of(m_relationships, id) \cup {r}
          ELSE Of(m_relationships, id)
  BY DEF Related, Of
<1>2. \A id \in Id : m_orderedRelationships'[id] = Of(m_relationships', id)
  BY <1>1 DEF Related, AgreedOn
<1>3. ASSUME NEW i \in DOMAIN m_contacts'
      PROVE  m_contacts'[i].related = Of(m_relationships', m_contacts'[i].id)
  <2>1. i \in DOMAIN m_contacts /\ m_contacts'[i].id = m_contacts[i].id
    BY SameIds DEF Related
  <2>2. PICK id \in Id : id = m_contacts[i].id
    BY <2>1, Store
  <2>3. CASE id \in {r.first.id, r.second.id}
    <3>1. m_contacts'[i].related = m_orderedRelationships'[id]
      BY <2>1, <2>2, <2>3 DEF Related
    <3> QED
      BY <1>2, <2>1, <2>2, <3>1
  <2>4. CASE id \notin {r.first.id, r.second.id}
    <3>1. m_contacts'[i].related = m_contacts[i].related
      BY <2>1, <2>2, <2>4 DEF Related
    <3>2. m_contacts[i].related = Of(m_relationships, id)
      BY <2>1, <2>2 DEF AgreedOn
    <3>3. Of(m_relationships', id) = Of(m_relationships, id)
      BY <1>1, <2>4
    <3> QED
      BY <2>1, <2>2, <3>1, <3>2, <3>3
  <2> QED
    BY <2>3, <2>4
<1>4. AllOwn(m_relationships')
  BY DEF Related, AgreedOn, AllOwn
<1> QED
  BY <1>2, <1>3, <1>4 DEF AgreedOn

LEMMA AgreedSaved ==
    ASSUME Typed, Identified, AgreedOn(m_contacts, m_relationships, m_orderedRelationships),
           NEW n \in Nat, NEW cs, Saved(n, cs, "fetched"),
           m_relationships' = m_relationships,
           m_orderedRelationships' = m_orderedRelationships
    PROVE  AgreedOn(m_contacts', m_relationships', m_orderedRelationships')
<1>1. PICK next \in Nat : next = m_nextContactId
  BY Store DEF Typed
<1>2. ASSUME NEW id \in next + 1 .. next + n PROVE Of(m_relationships, id) = {}
  <2>1. id \notin 2 .. next
    BY <1>1, <1>2
  <2> QED
    BY <1>1, <2>1 DEF Of, AgreedOn, AllOwn, Identified, Given
<1>3. ASSUME NEW i \in DOMAIN m_contacts'
      PROVE  m_contacts'[i].related = Of(m_relationships, m_contacts'[i].id)
  <2>1. CASE i \in DOMAIN m_contacts /\ m_contacts'[i].id = m_contacts[i].id
    <3>1. i \in 1 .. Len(m_contacts)
      <4>1. m_contacts \in Seq(Contact)
        BY DEF Typed, MemTypeOK, Contact
      <4> QED
        BY <2>1, <4>1
    <3> QED
      BY <2>1, <3>1 DEF Saved, AgreedOn
  <2>2. CASE /\ m_contacts'[i].id \in next + 1 .. next + n
             /\ m_contacts'[i].related = {}
    BY <1>2, <2>2
  <2> QED
    BY <1>1, <2>1, <2>2, SavedIds DEF Typed
<1> QED
  BY <1>3 DEF AgreedOn

LEMMA AgreedSame ==
    ASSUME AgreedOn(m_contacts, m_relationships, m_orderedRelationships),
           \A i \in DOMAIN m_contacts' : \E j \in DOMAIN m_contacts :
               m_contacts'[i] = m_contacts[j],
           m_relationships' = m_relationships,
           m_orderedRelationships' = m_orderedRelationships
    PROVE  AgreedOn(m_contacts', m_relationships', m_orderedRelationships')
  BY DEF AgreedOn

LEMMA AgreedStep ==
    ASSUME ClientsNameManager
    PROVE  Typed /\ Typed' /\ Identified /\ Agreed /\ [Next]_vars => Agreed'
<1> DEFINE Now == AgreedOn(m_contacts, m_relationships, m_orderedRelationships)
<1> SUFFICES ASSUME Typed, Typed', Identified, Agreed, [Next]_vars PROVE Agreed'
  OBVIOUS
<1>1. Now
  BY AgreedIs
<1> DEFINE Then == AgreedOn(m_contacts', m_relationships', m_orderedRelationships')
<1>2. ASSUME UNCHANGED <<m_contacts, m_relationships, m_orderedRelationships>> PROVE Then
  BY <1>1, <1>2
<1> HIDE DEF Then, Now
<1>3. ASSUME NEW e \in Engine, createMemoryEngine(e) \/ destroyEngine(e) PROVE Then
  <2>1. CASE NewData
    <3>1. m_contacts' = <<>> /\ m_relationships' = {} /\ m_orderedRelationships' = [id \in Id |-> {}]
      BY <2>1 DEF NewData
    <3>2. /\ \A id \in Id : m_orderedRelationships'[id] = {}
          /\ DOMAIN m_contacts' = {} /\ \A id : Of(m_relationships', id) = {}
      BY <3>1 DEF Of
    <3> QED
      BY <3>1, <3>2 DEF Then, AgreedOn, AllOwn
  <2>2. CASE UNCHANGED store
    BY <1>2, <2>2 DEF store
  <2> QED
    BY <1>3, <2>1, <2>2 DEF createMemoryEngine, destroyEngine
<1>4. ASSUME NEW list \in Batches(Id \cup {0}), NEW copy \in Copy, saveContacts(list, copy)
      PROVE  Then
  <2>1. PICK n \in Nat, cs \in ChangeSet : Saved(n, cs, copy)
    BY <1>4, saveSaves DEF Typed
  <2>2. copy = "fetched"
    BY <1>4 DEF ClientsNameManager
  <2> QED
    BY <1>1, <1>4, <2>1, <2>2, AgreedSaved DEF saveContacts, Now, Then
<1>5. ASSUME NEW list \in Batches(Id), removeContacts(list) PROVE Then
  BY <1>2, <1>5 DEF removeContacts, store
<1>6. ASSUME NEW id \in Id \cup {0}, setSelfContactId(id) PROVE Then
  BY <1>2, <1>6 DEF setSelfContactId
<1>7. ASSUME NEW first \in Participant(FirstUri), NEW second \in Participant(SecondUri),
             saveRelationship(first, second)
      PROVE  Then
  <2>1. PICK r, cs : /\ Related(r, cs) /\ r.first.uri \in FirstUri
                     /\ SecondUri \subseteq {"", "own"} => r.second.uri = "own"
    BY <1>7, saveRelates DEF Typed
  <2>2. r.first.uri = "own" /\ r.second.uri = "own"
    BY <2>1 DEF ClientsNameManager
  <2> QED
    BY <1>1, <2>1, <2>2, AgreedRelated DEF Typed, Now, Then
<1>8. ASSUME NEW gone \in SUBSET m_relationships, removeRelationships(gone) PROVE Then
  BY <1>1, <1>8, AgreedDropped DEF removeRelationships, Typed, Now, Then
<1>9. ASSUME Deliver \/ RemoveUnknown \/ RemoveDone \/ UNCHANGED vars PROVE Then
  BY <1>2, <1>9 DEF Deliver, RemoveUnknown, RemoveDone, vars, store
<1>10. ASSUME RemoveBegins PROVE Then
  <2>1. PICK id, loop, cs, work : Begun(id, loop, cs, work)
    BY <1>10, beginBegins
  <2> QED
    BY <1>1, <2>1, AgreedDropped, Store DEF Begun, Typed, Now, Then
<1>11. ASSUME RemoveEnds PROVE Then
  <2>1. PICK work, loop, next, rest : Erased(work, loop, next, rest)
    BY <1>11, endErases
  <2>2. \A i \in DOMAIN m_contacts' : \E j \in DOMAIN m_contacts : m_contacts'[i] = m_contacts[j]
    BY <2>1, ErasedIds DEF Typed
  <2> QED
    BY <1>1, <1>11, <2>2, AgreedSame DEF RemoveEnds, Now, Then
<1>12. Then
  BY <1>3, <1>4, <1>5, <1>6, <1>7, <1>8, <1>9, <1>10, <1>11 DEF Next
<1>13. Agreed' <=> Then
  BY AgreedIsNext DEF Then
<1> QED
  BY <1>12, <1>13

\* When clients name their own manager and save contacts that they have fetched
\* just now, the lists of relationships agree at every moment, also while slots
\* call the engine in the middle of what it does, and whatever they call.
THEOREM TheRelationshipsAgree ==
    ASSUME ClientsNameManager
    PROVE  MemSpec => []RelationshipsAgree
<1>1. Init => Identified /\ Agreed
  BY DEF Init, Identified, Agreed, m_contactIds, RelationshipsOf
<1>2. Typed /\ Identified /\ Agreed /\ [Next]_vars => (Typed /\ Identified /\ Agreed)'
  BY TypedStep, IdentifiedStep, AgreedStep
<1>3. Typed /\ Agreed => RelationshipsAgree
  BY Store DEF Typed, Agreed, RelationshipsAgree
<1> QED
  BY <1>1, <1>2, <1>3, TypedInit, PTL DEF MemSpec

-----------------------------------------------------------------------------
(* The order of what is left to do.                                        *)

LEMMA OrderGrows ==
    ASSUME NEW work, NEW r1, NEW e1, Order(work, r1, e1), NEW r2, NEW e2,
           \A w \in ToSet(work) : w \in Removal /\ w \in r1 => w \in r2,
           \A v, w \in ToSet(work) : v \in Erasure /\ <<v, w>> \in e1 => <<v, w>> \in e2,
           \A i \in DOMAIN work : work[i] \in Erasure => i + 1 \in DOMAIN work
    PROVE  Order(work, r2, e2)
<1>1. \A i \in DOMAIN work : work[i] \in ToSet(work)
  BY DEF ToSet
<1> QED
  BY <1>1 DEF Order

LEMMA OrderAhead ==
    ASSUME NEW work \in Seq(Task), NEW removals, NEW erasures, Order(work, removals, erasures),
           NEW first \in Seq(Emission)
    PROVE  Order(first \o work, removals, erasures)
<1> DEFINE new == first \o work
<1>1. first \in Seq(Task) /\ \A i \in 1 .. Len(first) : first[i] \in Emission
  BY Kinds
<1>2. /\ Len(new) = Len(first) + Len(work) /\ new \in Seq(Task)
      /\ \A i \in 1 .. Len(first) : new[i] = first[i]
      /\ \A i \in 1 .. Len(work) : new[Len(first) + i] = work[i]
      /\ \A i \in Len(first) + 1 .. Len(first) + Len(work) :
            i - Len(first) \in 1 .. Len(work) /\ new[i] = work[i - Len(first)]
  BY <1>1, Concatenation
<1> HIDE DEF new
<1>3. PICK n \in Nat, m \in Nat :
          /\ n = Len(first) /\ m = Len(work) /\ DOMAIN work = 1 .. m
          /\ DOMAIN new = 1 .. n + m /\ Len(new) = n + m
  BY <1>1, <1>2
<1>4. ASSUME NEW i \in 1 .. n + m
      PROVE  /\ new[i] \in Removal => i = n + m /\ new[i] \in removals
             /\ new[i] \in Erasure => i + 1 = n + m /\ <<new[i], new[i + 1]>> \in erasures
  <2>1. CASE i \in 1 .. n
    BY <1>1, <1>2, <1>3, <2>1, Kinds
  <2>2. CASE i \notin 1 .. n
    <3>1. PICK j \in 1 .. m : i = n + j /\ new[i] = work[j]
      <4>1. i \in n + 1 .. n + m /\ i = n + (i - n)
        BY <2>2
      <4> QED
        BY <1>2, <1>3, <4>1
    <3>2. /\ work[j] \in Removal => j = m /\ work[j] \in removals
          /\ work[j] \in Erasure => j + 1 = m /\ <<work[j], work[j + 1]>> \in erasures
      BY <1>3 DEF Order
    <3>3. j + 1 = m => i + 1 = n + m /\ new[i + 1] = work[j + 1]
      <4>1. j + 1 = m => j + 1 \in 1 .. m /\ n + (j + 1) = i + 1 /\ i + 1 = n + m
        BY <3>1
      <4> QED
        BY <1>2, <1>3, <4>1
    <3> QED
      BY <3>1, <3>2, <3>3
  <2> QED
    BY <2>1, <2>2
<1> QED
  BY <1>3, <1>4 DEF Order, new

LEMMA OrderBehind ==
    ASSUME NEW work \in Seq(Task), work # <<>>, NEW removals, NEW erasures,
           Order(work, removals, erasures)
    PROVE  Order(Tail(work), removals, erasures)
<1> DEFINE new == Tail(work)
<1>1. PICK n \in Nat : DOMAIN work = 1 .. n /\ Len(work) = n /\ n # 0
  OBVIOUS
<1>2. /\ Len(new) = n - 1 /\ DOMAIN new = 1 .. n - 1
      /\ \A i \in 1 .. n - 1 : new[i] = work[i + 1]
  BY <1>1
<1> HIDE DEF new
<1>3. ASSUME NEW i \in 1 .. n - 1
      PROVE  /\ new[i] \in Removal => i = n - 1 /\ new[i] \in removals
             /\ new[i] \in Erasure => i + 1 = n - 1 /\ <<new[i], new[i + 1]>> \in erasures
  <2>1. /\ i + 1 \in 1 .. n /\ new[i] = work[i + 1]
        /\ i + 1 = n - 1 => new[i + 1] = work[(i + 1) + 1]
    BY <1>1, <1>2
  <2>2. /\ work[i + 1] \in Removal => i + 1 = n /\ work[i + 1] \in removals
        /\ work[i + 1] \in Erasure => (i + 1) + 1 = n /\ <<work[i + 1], work[(i + 1) + 1]>> \in erasures
    BY <1>1, <2>1 DEF Order
  <2>3. (i + 1 = n => i = n - 1) /\ ((i + 1) + 1 = n => i + 1 = n - 1)
    BY <1>1
  <2> QED
    BY <2>1, <2>2, <2>3
<1> QED
  BY <1>2, <1>3 DEF Order, new

LEMMA OrderAlone ==
    ASSUME NEW loop \in Removal, NEW removals, NEW erasures, loop \in removals
    PROVE  Order(<<loop>>, removals, erasures)
<1>1. loop \notin Erasure
  BY Kinds
<1>2. DOMAIN <<loop>> = {1} /\ Len(<<loop>>) = 1 /\ <<loop>>[1] = loop
  OBVIOUS
<1> QED
  BY <1>1, <1>2 DEF Order

\* What stands behind a removal, or behind its second half and the removal.
LEMMA OrderEnds ==
    ASSUME NEW work \in Seq(Task), work # <<>>, NEW removals, NEW erasures,
           Order(work, removals, erasures)
    PROVE  /\ Head(work) \in Removal => Tail(work) = <<>> /\ Head(work) \in removals
           /\ Head(work) \in Erasure => /\ Tail(Tail(work)) = <<>>
                                        /\ <<Head(work), Head(Tail(work))>> \in erasures
<1>1. Head(work) = work[1] /\ 1 \in DOMAIN work /\ Len(work) \in Nat
  BY HeadAndTail
<1>2. ASSUME Head(work) \in Removal PROVE Tail(work) = <<>> /\ Head(work) \in removals
  <2>1. 1 = Len(work) /\ Head(work) \in removals
    BY <1>1, <1>2 DEF Order
  <2>2. Tail(work) \in Seq(Task) /\ Len(Tail(work)) = 0
    BY <2>1, HeadAndTail
  <2> QED
    BY <2>1, <2>2, NoneIn
<1>3. ASSUME Head(work) \in Erasure
      PROVE  Tail(Tail(work)) = <<>> /\ <<Head(work), Head(Tail(work))>> \in erasures
  <2>1. Len(work) = 2 /\ <<work[1], work[2]>> \in erasures
    BY <1>1, <1>3 DEF Order
  <2>2. Tail(work) \in Seq(Task) /\ Len(Tail(work)) = 1
    <3>1. Tail(work) \in Seq(Task) /\ Len(Tail(work)) = Len(work) - 1
      BY HeadAndTail
    <3> QED
      BY <2>1, <3>1
  <2>3. /\ Head(Tail(work)) = Tail(work)[1] /\ 1 \in DOMAIN Tail(work)
        /\ Tail(Tail(work)) = <<>>
    BY <2>2, OneIn
  <2>4. Tail(work)[1] = work[1 + 1]
    BY <2>3, HeadAndTail
  <2> QED
    BY <1>1, <2>1, <2>3, <2>4
<1> QED
  BY <1>2, <1>3

LEMMA OrderNone ==
    ASSUME NEW removals, NEW erasures
    PROVE  Order(<<>>, removals, erasures)
<1>1. DOMAIN <<>> = {}
  OBVIOUS
<1> QED
  BY <1>1 DEF Order

LEMMA OrderPair ==
    ASSUME NEW work \in Erasure, NEW rest \in Seq(Task), rest # <<>>, Tail(rest) = <<>>,
           NEW loop \in Removal, loop = Head(rest), NEW removals, NEW erasures,
           loop \in removals, <<work, loop>> \in erasures
    PROVE  Order(<<work>> \o rest, removals, erasures)
<1>1. PICK new : new = <<work>> \o rest
  OBVIOUS
<1>2. Len(rest) = 1 /\ rest[1] = loop
  <2>1. Len(Tail(rest)) = Len(rest) - 1 /\ Head(rest) = rest[1] /\ Len(rest) \in Nat
    BY HeadAndTail
  <2>2. Len(Tail(rest)) = 0
    BY NoneLeft
  <2>3. \A n \in Nat : n - 1 = 0 => n = 1
    OBVIOUS
  <2> QED
    BY <2>1, <2>2, <2>3
<1>3. Len(new) = 2 /\ DOMAIN new = {1, 2} /\ new[1] = work /\ new[2] = loop
  <2>1. work \in Task
    BY Kinds
  <2>2. <<work>> \in Seq(Task) /\ Len(<<work>>) = 1 /\ <<work>>[1] = work
    BY <2>1, Single
  <2>3. Len(new) = 1 + 1 /\ new \in Seq(Task)
    BY <1>1, <1>2, <2>2, Concatenation
  <2>4. \A i \in 1 .. 1 : new[i] = <<work>>[i] /\ new[1 + i] = rest[i]
    BY <1>1, <1>2, <2>2, Concatenation
  <2> QED
    BY <1>2, <2>2, <2>3, <2>4
<1>4. work \notin Removal /\ loop \notin Erasure
  BY Kinds
<1>5. Order(new, removals, erasures)
  BY <1>3, <1>4 DEF Order
<1> QED
  BY <1>1, <1>5

\* Contacts may come, behind those that are there, but none goes.
Stays ==
    /\ Given \subseteq Given' /\ m_contactIds' \cap Given \subseteq m_contactIds
    /\ \A i \in DOMAIN m_contacts :
          i \in DOMAIN m_contacts' /\ m_contacts'[i].id = m_contacts[i].id

LEMMA StaysInOrder ==
    ASSUME Stays, NEW work, Order(work, Removals, Erasures)
    PROVE  Order(work, Removals', Erasures')
<1>1. \A loop \in Removals : loop \in Removals'
  BY DEF Stays, Removals, Removing
<1>2. \A pair \in Erasures : pair \in Erasures'
  BY DEF Stays, Erasures, Erasing
<1> QED
  BY <1>1, <1>2 DEF Order

LEMMA StaysSaved ==
    ASSUME Typed, NEW n \in Nat, NEW cs, NEW copy, Saved(n, cs, copy)
    PROVE  Stays
<1>1. PICK next \in Nat : next = m_nextContactId /\ m_nextContactId' = next + n
  BY Store DEF Typed, Saved
<1>2. m_contactIds' = m_contactIds \cup (next + 1 .. next + n)
  BY <1>1, SavedIds DEF Typed
<1>3. /\ \A id \in next + 1 .. next + n : id \notin 2 .. next
      /\ 2 .. next \subseteq 2 .. next + n
  BY <1>1
<1>4. m_contacts \in Seq(Contact)
  BY DEF Typed, MemTypeOK, Contact
<1>5. \A i \in DOMAIN m_contacts :
          i \in DOMAIN m_contacts' /\ m_contacts'[i].id = m_contacts[i].id
  BY <1>4 DEF Saved
<1> QED
  BY <1>1, <1>2, <1>3, <1>5 DEF Stays, Given

LEMMA StaysSame ==
    ASSUME Typed, SameContacts, m_nextContactId' = m_nextContactId
    PROVE  Stays
<1>1. m_contactIds' = m_contactIds
  BY SameIds DEF Typed
<1> QED
  BY <1>1 DEF Stays, SameContacts, Given

LEMMA StaysUnchanged ==
    ASSUME UNCHANGED <<m_contacts, m_nextContactId>>
    PROVE  Stays
  BY DEF Stays, Given, m_contactIds

LEMMA OrderlyAhead ==
    ASSUME Typed, Orderly, Stays, NEW cs \in ChangeSet, agenda' = emitSharedSignals(cs) \o agenda
    PROVE  Orderly'
<1>1. PICK new \in Seq(Emission) : new = emitSharedSignals(cs)
  BY Emitted DEF Typed, MemTypeOK
<1>2. agenda \in Seq(Task) /\ agenda' = new \o agenda
  BY <1>1 DEF Typed, Agenda
<1>3. Order(agenda, Removals', Erasures')
  BY StaysInOrder DEF Orderly
<1> QED
  BY <1>2, <1>3, OrderAhead DEF Orderly

\* What Deliver does: a signal is taken from the first emission.
Delivered(work, s, left, rest) ==
    /\ agenda # <<>> /\ work = Head(agenda) /\ rest = Tail(agenda)
    /\ work \in Emission /\ s \in Told /\ s = Head(work.signals)
    /\ left \in Seq(Emission) /\ Agenda(rest)
    /\ \A w \in ToSet(left) :
          w.engine = work.engine /\ ToSet(w.signals) \subseteq ToSet(work.signals)
    /\ s \in ToSet(work.signals)
    /\ \A t \in ToSet(work.signals) : t = s \/
          \E w \in ToSet(left) : w \in Emission /\ w.engine = work.engine /\ t \in ToSet(w.signals)
    /\ agenda' = left \o rest
    /\ known' = [known EXCEPT ![work.engine] =
                      IF s.name = "added" THEN known[work.engine] \cup s.ids
                      ELSE IF s.name = "removed" THEN known[work.engine] \ s.ids
                      ELSE known[work.engine]]
    /\ knownSelf' = [knownSelf EXCEPT ![work.engine] =
                      IF s.name = "self" THEN CHOOSE id \in s.ids : TRUE
                      ELSE knownSelf[work.engine]]

LEMMA deliverDelivers ==
    ASSUME Typed, Deliver
    PROVE  \E work, s, left, rest : Delivered(work, s, left, rest)
<1>1. PICK work, rest : work = Head(agenda) /\ rest = Tail(agenda)
  OBVIOUS
<1>2. agenda # <<>> /\ work \in Emission /\ Agenda(rest) /\ agenda \in Seq(Task)
  BY <1>1, WithoutFirst, Kinds DEF Deliver, Working, Typed, Agenda
<1>3. PICK signals : signals = work.signals
  OBVIOUS
<1>4. work.engine \in Engine /\ signals \in Seq(Told) /\ signals # <<>>
  BY <1>2, <1>3 DEF Emission
<1>5. PICK s \in Told : s = Head(signals)
  BY <1>4
<1>6. PICK next \in Seq(Told) : next = Tail(signals) /\ Len(next) = Len(signals) - 1
  BY <1>4, HeadAndTail
<1>7. ToSet(signals) = {s} \cup ToSet(next)
  BY <1>4, <1>5, <1>6, HeadAndTail
<1>8. /\ known' = [known EXCEPT ![work.engine] =
                      IF s.name = "added" THEN known[work.engine] \cup s.ids
                      ELSE IF s.name = "removed" THEN known[work.engine] \ s.ids
                      ELSE known[work.engine]]
      /\ knownSelf' = [knownSelf EXCEPT ![work.engine] =
                      IF s.name = "self" THEN CHOOSE id \in s.ids : TRUE
                      ELSE knownSelf[work.engine]]
  BY <1>1, <1>3, <1>5 DEF Deliver
<1>9. PICK left \in Seq(Emission) :
          /\ agenda' = left \o rest
          /\ \A w \in ToSet(left) : w.engine = work.engine /\ w.signals = next
          /\ \A t \in ToSet(next) : \E w \in ToSet(left) :
                w \in Emission /\ w.engine = work.engine /\ t \in ToSet(w.signals)
  <2>1. CASE Len(signals) = 1
    <3>1. agenda' = <<>> \o rest
      BY <1>1, <1>3, <2>1 DEF Deliver
    <3>2. next = <<>>
      BY <1>6, <2>1, NoneIn
    <3>3. ToSet(<<>>) = {} /\ <<>> \in Seq(Emission)
      BY DEF ToSet
    <3> QED
      BY <3>1, <3>2, <3>3, Zenon
  <2>2. CASE Len(signals) # 1
    <3>1. PICK after : after = [work EXCEPT !.signals = next]
      OBVIOUS
    <3>2. after \in Emission /\ after.engine = work.engine /\ after.signals = next
      <4>1. next # <<>>
        <5>1. Len(signals) \in Nat /\ Len(signals) # 0
          BY <1>4
        <5>2. Len(next) # 0
          BY <1>6, <2>2, <5>1
        <5> QED
          BY <5>2
      <4> QED
        BY <1>2, <3>1, <4>1 DEF Emission
    <3>3. agenda' = <<after>> \o rest
      BY <1>1, <1>3, <1>6, <2>2, <3>1 DEF Deliver
    <3>4. <<after>> \in Seq(Emission) /\ ToSet(<<after>>) = {after}
      BY <3>2, Single
    <3> QED
      BY <3>2, <3>3, <3>4
  <2> QED
    BY <2>1, <2>2
<1>10. Delivered(work, s, left, rest)
  BY <1>1, <1>2, <1>3, <1>5, <1>7, <1>8, <1>9 DEF Delivered
<1> QED
  BY <1>10

LEMMA removeInOrder ==
    ASSUME SlotsDoNotRemove, Typed, Identified, NEW list \in Batches(Id), removeContacts(list)
    PROVE  Orderly'
<1>1. PICK loop : Asked(loop, list)
  BY removeAsks
<1>2. agenda = <<>>
  BY DEF removeContacts, MayCall, SlotsDoNotRemove
<1>3. loop \in Removal /\ agenda' = <<loop>>
  <2>1. agenda' = <<loop>> \o <<>> /\ loop \in Removal
    BY <1>1, <1>2 DEF Asked
  <2> QED
    BY <2>1
<1>4. Removing(loop)'
  <2>1. Given' = Given /\ m_contactIds' = m_contactIds
    BY DEF removeContacts, store, Given, m_contactIds
  <2>2. loop.asked = ToSet(list) \cap m_contactIds /\ loop.rest = list /\ loop.cs.removed = {}
    BY <1>1 DEF Asked, EmptyChangeSet
  <2> QED
    BY <2>1, <2>2 DEF Removing, Identified
<1>5. loop \in Removals'
  BY <1>3, <1>4 DEF Removals
<1> QED
  BY <1>3, <1>5, OrderAlone DEF Orderly

LEMMA beginInOrder ==
    ASSUME Typed, Orderly, RemoveBegins
    PROVE  Orderly'
<1>1. PICK id, loop, cs, work : Begun(id, loop, cs, work)
  BY beginBegins
<1>2. agenda \in Seq(Task) /\ agenda # <<>> /\ loop = Head(agenda) /\ loop \in Removal
  BY <1>1 DEF Begun, Halfway, Typed, Agenda
<1>3. Tail(agenda) = <<>> /\ loop \in Removals
  BY <1>2, OrderEnds DEF Orderly
<1>4. Stays /\ SameContacts
  <2>1. SameContacts
    BY <1>1, dropDrops, Store DEF Begun, Typed
  <2> QED
    BY <2>1, StaysSame DEF RemoveBegins
<1>5. loop \in Removals'
  BY <1>3, <1>4 DEF Stays, Removals, Removing
<1>6. <<work, loop>> \in Erasures'
  BY <1>1, <1>2, <1>4 DEF Begun, Halfway, Erasures, Erasing, SameContacts
<1>7. Order(<<work>> \o agenda, Removals', Erasures')
  BY <1>1, <1>2, <1>3, <1>5, <1>6, OrderPair DEF Begun
<1>8. PICK new \in Seq(Emission) : new = emitSharedSignals(cs)
  BY <1>1, Emitted DEF Begun, Quiet, Typed, MemTypeOK
<1>9. PICK old \in Seq(Task) : old = <<work>> \o agenda
  BY <1>1 DEF Begun, Agenda
<1> QED
  BY <1>1, <1>7, <1>8, <1>9, OrderAhead DEF Begun, Orderly

\* The contact that is taken out is the one that was asked for.
LEMMA ErasesTheRight ==
    ASSUME Typed, Identified, Orderly, NEW work, NEW loop, NEW next, NEW rest,
           Erased(work, loop, next, rest)
    PROVE  /\ rest = <<>> /\ loop \in Removals /\ loop.rest # <<>> /\ Head(loop.rest) = work.id
           /\ work.id \in m_contactIds /\ m_contactIds' = m_contactIds \ {work.id}
<1>1. agenda \in Seq(Task) /\ agenda # <<>> /\ work = Head(agenda) /\ work \in Erasure
  BY DEF Erased, Typed, Agenda
<1>2. rest = <<>> /\ <<work, loop>> \in Erasures
  BY <1>1, OrderEnds DEF Erased, Orderly
<1>3. Erasing(work, loop)
  BY <1>2 DEF Erasures
<1>4. loop \in Removals
  <2>1. Agenda(Tail(agenda)) /\ Tail(agenda) # <<>> /\ Order(Tail(agenda), Removals, Erasures)
    BY <1>1, WithoutFirst, OrderBehind DEF Typed, Orderly, Erased
  <2>2. loop \in Removal /\ loop = Head(Tail(agenda))
    BY DEF Erased, Halfway
  <2>3. Tail(agenda) \in Seq(Task)
    BY <2>1 DEF Agenda
  <2> QED
    BY <2>1, <2>2, <2>3, OrderEnds
<1>5. /\ m_contactIds' = m_contactIds \ {m_contacts[work.index].id}
      /\ work.id \in m_contactIds
  BY <1>3, ErasedIds, Store DEF Erasing, Typed, Identified
<1> QED
  BY <1>2, <1>3, <1>4, <1>5 DEF Erasing

LEMMA endInOrder ==
    ASSUME Typed, Identified, Orderly, RemoveEnds
    PROVE  Orderly'
<1>1. PICK work, loop, next, rest : Erased(work, loop, next, rest)
  BY endErases
<1>2. /\ rest = <<>> /\ loop \in Removals /\ loop.rest # <<>> /\ Head(loop.rest) = work.id
      /\ work.id \in m_contactIds /\ m_contactIds' = m_contactIds \ {work.id}
  BY <1>1, ErasesTheRight
<1>3. next \in Removal /\ agenda' = <<next>>
  <2>1. next \in Removal /\ agenda' = <<next>> \o <<>>
    BY <1>1, <1>2 DEF Erased
  <2> QED
    BY <2>1
<1>4. Given' = Given
  BY DEF RemoveEnds, Given
<1>5. ToSet(loop.rest) = {work.id} \cup ToSet(next.rest)
  <2>1. PICK list \in Seq(Id) : list = loop.rest
    BY <1>2 DEF Removals, Removal
  <2> QED
    BY <1>1, <1>2, <2>1, HeadAndTail DEF Erased
<1>6. Removing(next)'
  BY <1>1, <1>2, <1>4, <1>5 DEF Erased, Removals, Removing, Identified
<1> QED
  BY <1>3, <1>6, OrderAlone DEF Orderly, Removals

LEMMA unknownInOrder ==
    ASSUME Typed, Orderly, RemoveUnknown
    PROVE  Orderly'
<1>1. PICK loop, next : Passed(loop, next)
  BY unknownPasses
<1>2. agenda \in Seq(Task) /\ agenda # <<>> /\ loop = Head(agenda) /\ loop \in Removal
  BY <1>1 DEF Passed, Halfway, Typed, Agenda
<1>3. Tail(agenda) = <<>> /\ loop \in Removals
  BY <1>2, OrderEnds DEF Orderly
<1>4. next \in Removal /\ agenda' = <<next>>
  <2>1. next \in Removal /\ agenda' = <<next>> \o <<>>
    BY <1>1, <1>3 DEF Passed
  <2> QED
    BY <2>1
<1>5. Given' = Given /\ m_contactIds' = m_contactIds
  BY DEF RemoveUnknown, store, Given, m_contactIds
<1>6. ToSet(loop.rest) = {Head(loop.rest)} \cup ToSet(next.rest)
  <2>1. PICK list \in Seq(Id) : list = loop.rest /\ list # <<>>
    BY <1>1 DEF Passed, Halfway, Removal
  <2> QED
    BY <1>1, <2>1, HeadAndTail DEF Passed
<1>7. Removing(next)'
  BY <1>1, <1>3, <1>5, <1>6 DEF Passed, Removals, Removing
<1> QED
  BY <1>4, <1>7, OrderAlone DEF Orderly, Removals

\* What RemoveDone does.
Reported(loop, cs) ==
    /\ agenda # <<>> /\ loop = Head(agenda) /\ loop \in Removal /\ cs = loop.cs /\ cs \in ChangeSet
    /\ loop.rest = <<>> /\ agenda' = emitSharedSignals(cs) \o Tail(agenda)

LEMMA doneReports ==
    ASSUME Typed, RemoveDone
    PROVE  \E loop, cs : Reported(loop, cs)
<1>1. agenda # <<>> /\ Head(agenda) \in Removal
  BY WithoutFirst, Kinds DEF RemoveDone, Working, Typed
<1>2. PICK loop, cs : loop = Head(agenda) /\ cs = loop.cs
  OBVIOUS
<1>3. cs \in ChangeSet
  BY <1>1, <1>2 DEF Removal
<1>4. Reported(loop, cs)
  BY <1>1, <1>2, <1>3 DEF RemoveDone, Reported
<1> QED
  BY <1>4

LEMMA doneInOrder ==
    ASSUME Typed, Orderly, RemoveDone
    PROVE  Orderly'
<1>1. PICK loop, cs : Reported(loop, cs)
  BY doneReports
<1>2. agenda \in Seq(Task)
  BY DEF Typed, Agenda
<1>3. Tail(agenda) = <<>>
  BY <1>1, <1>2, OrderEnds DEF Reported, Orderly
<1>4. PICK new \in Seq(Emission) : new = emitSharedSignals(cs)
  BY <1>1, Emitted DEF Reported, Typed, MemTypeOK
<1>5. agenda' = new \o <<>>
  BY <1>1, <1>3, <1>4 DEF Reported
<1> QED
  <2>5. <<>> \in Seq(Task)
    OBVIOUS
  <2>1. PICK none \in Seq(Task) : none = <<>>
    BY <2>5
  <2>3. Order(none, Removals', Erasures')
    BY <2>1, OrderNone
  <2>4. Order(new \o none, Removals', Erasures')
    BY <2>3, OrderAhead
  <2>2. Order(new \o <<>>, Removals', Erasures')
    BY <2>1, <2>4
  <2> QED
    BY <1>5, <2>2 DEF Orderly

LEMMA OrderlyStep ==
    ASSUME SlotsDoNotRemove
    PROVE  Typed /\ Identified /\ Orderly /\ [Next]_vars => Orderly'
<1> SUFFICES ASSUME Typed, Identified, Orderly, [Next]_vars PROVE Orderly'
  OBVIOUS
<1>1. ASSUME NEW e \in Engine, createMemoryEngine(e) \/ destroyEngine(e) PROVE Orderly'
  BY <1>1, OrderNone DEF createMemoryEngine, destroyEngine, Orderly
<1>2. ASSUME NEW list \in Batches(Id \cup {0}), NEW copy \in Copy, saveContacts(list, copy)
      PROVE  Orderly'
  <2>1. PICK n \in Nat, cs \in ChangeSet : Saved(n, cs, copy)
    BY <1>2, saveSaves DEF Typed
  <2> QED
    BY <2>1, StaysSaved, OrderlyAhead DEF Saved
<1>3. ASSUME NEW list \in Batches(Id), removeContacts(list) PROVE Orderly'
  BY <1>3, removeInOrder
<1>4. ASSUME NEW id \in Id \cup {0}, setSelfContactId(id) PROVE Orderly'
  <2>1. PICK cs : cs = [EmptyChangeSet EXCEPT !.oldSelf = m_selfContactId, !.newSelf = id]
    OBVIOUS
  <2>2. cs \in ChangeSet /\ agenda' = emitSharedSignals(cs) \o agenda
    BY <1>4, <2>1, ChangeSets DEF setSelfContactId, Typed, MemTypeOK
  <2> QED
    BY <1>4, <2>2, StaysUnchanged, OrderlyAhead DEF setSelfContactId
<1>5. ASSUME NEW first \in Participant(FirstUri), NEW second \in Participant(SecondUri),
             saveRelationship(first, second)
      PROVE  Orderly'
  <2>1. PICK r, cs : Related(r, cs)
    BY <1>5, saveRelates DEF Typed
  <2>2. Stays
    BY <1>5, <2>1, StaysSame DEF Related, saveRelationship
  <2> QED
    BY <2>1, <2>2, OrderlyAhead DEF Related, Quiet
<1>6. ASSUME NEW gone \in SUBSET m_relationships, removeRelationships(gone) PROVE Orderly'
  <2>1. PICK cs : Quiet(cs) /\ RemovedSignals(gone) = emitSharedSignals(cs)
    BY RemovedIsQuiet DEF Typed
  <2>2. Stays
    <3>1. SameContacts
      BY <1>6, dropDrops DEF removeRelationships, Typed
    <3> QED
      BY <1>6, <3>1, StaysSame DEF removeRelationships
  <2> QED
    BY <1>6, <2>1, <2>2, OrderlyAhead DEF removeRelationships, Quiet
<1>7. CASE Deliver
  <2>1. PICK work, s, left, rest : Delivered(work, s, left, rest)
    BY <1>7, deliverDelivers
  <2>2. agenda \in Seq(Task) /\ rest \in Seq(Task)
    BY <2>1 DEF Delivered, Typed, Agenda
  <2>3. Order(rest, Removals, Erasures)
    BY <2>1, <2>2, OrderBehind DEF Delivered, Orderly
  <2>4. Order(rest, Removals', Erasures')
    BY <1>7, <2>3, StaysUnchanged, StaysInOrder DEF Deliver, store
  <2> QED
    BY <2>1, <2>2, <2>4, OrderAhead DEF Delivered, Orderly
<1>8. CASE UNCHANGED vars
  BY <1>8, StaysUnchanged, StaysInOrder DEF vars, store, Orderly
<1> QED
  BY <1>1, <1>2, <1>3, <1>4, <1>5, <1>6, <1>7, <1>8, beginInOrder, endInOrder,
     unknownInOrder, doneInOrder DEF Next

\* removeContacts has removed every contact that it was asked to remove when it
\* comes to the end of its list, and is going to report no contact as removed
\* that is still there, provided that no slot removes contacts meanwhile.
THEOREM RemovalRemovesAllAsked ==
    ASSUME SlotsDoNotRemove
    PROVE  MemSpec => []RemovesAllAsked
<1>1. Init => Identified /\ Orderly
  BY OrderNone DEF Init, Identified, m_contactIds, Orderly
<1>2. Typed /\ Identified /\ Orderly /\ [Next]_vars => (Typed /\ Identified /\ Orderly)'
  BY TypedStep, IdentifiedStep, OrderlyStep
<1>3. Typed /\ Orderly => RemovesAllAsked
  <2> SUFFICES ASSUME Typed, Orderly, agenda # <<>>, Head(agenda).do = "remove",
                      Head(agenda).rest = <<>>
               PROVE  (Head(agenda).asked \cup Head(agenda).cs.removed) \cap m_contactIds = {}
    BY DEF RemovesAllAsked
  <2>1. agenda \in Seq(Task) /\ Head(agenda) \in Removal
    BY WithoutFirst, Kinds DEF Typed, Agenda
  <2>2. Head(agenda) \in Removals
    BY <2>1, OrderEnds DEF Orderly
  <2>3. ToSet(<<>>) = {}
    BY DEF ToSet
  <2> QED
    BY <2>2, <2>3 DEF Removals, Removing
<1> QED
  BY <1>1, <1>2, <1>3, TypedInit, PTL DEF MemSpec

-----------------------------------------------------------------------------
(* Relationships do not outlive the contacts.                              *)

LEMMA ErasuresAhead ==
    ASSUME NEW work \in Seq(Task), NEW new \in Seq(Emission)
    PROVE  \A w \in ToSet(new \o work) : w \in Erasure => w \in ToSet(work)
<1>1. new \in Seq(Task) /\ \A w \in ToSet(new) : w \in Emission
  BY Kinds DEF ToSet
<1>2. ToSet(new \o work) = ToSet(new) \cup ToSet(work)
  BY <1>1, Concatenation
<1> QED
  BY <1>1, <1>2, Kinds

LEMMA SignalsAhead ==
    ASSUME Typed, NEW cs \in ChangeSet, agenda' = emitSharedSignals(cs) \o agenda
    PROVE  \A w \in ToSet(agenda') : w \in Erasure => w \in ToSet(agenda)
<1>1. PICK new \in Seq(Emission) : new = emitSharedSignals(cs)
  BY Emitted DEF Typed, MemTypeOK
<1>2. agenda \in Seq(Task)
  BY DEF Typed, Agenda
<1>3. \A w \in ToSet(new \o agenda) : w \in Erasure => w \in ToSet(agenda)
  BY <1>2, ErasuresAhead
<1> QED
  BY <1>1, <1>3

LEMMA TaskAhead ==
    ASSUME NEW x \in Task, NEW work \in Seq(Task)
    PROVE  ToSet(<<x>> \o work) = {x} \cup ToSet(work)
<1>1. PICK first \in Seq(Task) : first = <<x>> /\ ToSet(first) = {x}
  BY Single
<1>2. ToSet(first \o work) = ToSet(first) \cup ToSet(work)
  BY Concatenation
<1> QED
  BY <1>1, <1>2

LEMMA LoopAhead ==
    ASSUME NEW loop \in Removal, NEW work \in Seq(Task)
    PROVE  /\ \A w \in ToSet(<<loop>> \o work) : w \in Erasure => w \in ToSet(work)
           /\ ToSet(<<loop>> \o work) = {loop} \cup ToSet(work)
<1>1. loop \in Task
  BY Kinds
<1>2. ToSet(<<loop>> \o work) = {loop} \cup ToSet(work)
  BY <1>1, TaskAhead
<1> QED
  BY <1>2, Kinds

LEMMA DetachedKept ==
    ASSUME Detached, m_relationships' \subseteq m_relationships, m_contactIds \subseteq m_contactIds',
           \A w \in ToSet(agenda') : w \in Erasure => w \in ToSet(agenda)
    PROVE  Detached'
<1>1. \A id : RelationshipsOf(id)' \subseteq RelationshipsOf(id)
  BY DEF RelationshipsOf
<1>2. \A work \in ToSet(agenda') : work \in Erasure => RelationshipsOf(work.id)' = {}
  BY <1>1 DEF Detached
<1>3. NoDanglingRelationship'
  BY DEF Detached, NoDanglingRelationship
<1> QED
  BY <1>2, <1>3 DEF Detached

LEMMA relateDetached ==
    ASSUME SlotsKeep, Typed, Detached, NEW first \in Participant(FirstUri),
           NEW second \in Participant(SecondUri), saveRelationship(first, second)
    PROVE  Detached'
<1>1. PICK r, cs : Related(r, cs) /\ r.first.uri \in FirstUri
  BY saveRelates DEF Typed
<1>2. agenda = <<>>
  BY DEF saveRelationship, MayCall, SlotsKeep
<1>3. \A w \in ToSet(agenda') : w \notin Erasure
  <2>1. ToSet(<<>>) = {}
    BY DEF ToSet
  <2> QED
    BY <1>1, <1>2, <2>1, SignalsAhead DEF Related, Quiet
<1>4. m_contactIds' = m_contactIds
  BY <1>1, SameIds DEF Related, Typed
<1>5. NoDanglingRelationship'
  BY <1>1, <1>4 DEF Related, Detached, NoDanglingRelationship
<1>6. \A s \in m_relationships' : s.first.uri = "own"
  BY <1>1 DEF Related, Detached, SlotsKeep
<1> QED
  BY <1>3, <1>5, <1>6 DEF Detached

LEMMA beginDetached ==
    ASSUME Typed, Detached, RemoveBegins
    PROVE  Detached'
<1>1. PICK id, loop, cs, work : Begun(id, loop, cs, work)
  BY beginBegins
<1>2. SameContacts /\ m_relationships' = m_relationships \ RelationshipsOf(id)
  BY <1>1, dropDrops, Store DEF Begun, Typed
<1>3. m_contactIds' = m_contactIds
  BY <1>2, SameIds DEF Typed
<1>4. /\ RelationshipsOf(id)' = {}
      /\ \A x : RelationshipsOf(x)' \subseteq RelationshipsOf(x)
  BY <1>2 DEF RelationshipsOf
<1>5. \A w \in ToSet(agenda') : w \in Erasure => w = work \/ w \in ToSet(agenda)
  <2>1. PICK new \in Seq(Emission) : new = emitSharedSignals(cs)
    BY <1>1, Emitted DEF Begun, Quiet, Typed, MemTypeOK
  <2>2. PICK old \in Seq(Task) : old = <<work>> \o agenda
    BY <1>1 DEF Begun, Agenda
  <2>3. \A w \in ToSet(agenda') : w \in Erasure => w \in ToSet(old)
    <3>1. agenda' = new \o old
      BY <1>1, <2>1, <2>2 DEF Begun
    <3> QED
      BY <3>1, ErasuresAhead
  <2>4. ToSet(old) = {work} \cup ToSet(agenda)
    <3>1. work \in Task /\ agenda \in Seq(Task)
      BY <1>1, Kinds DEF Begun, Typed, Agenda
    <3>2. ToSet(<<work>> \o agenda) = {work} \cup ToSet(agenda)
      BY <3>1, TaskAhead
    <3> QED
      BY <2>2, <3>2
  <2> QED
    BY <2>3, <2>4
<1>6. \A w \in ToSet(agenda') : w \in Erasure => RelationshipsOf(w.id)' = {}
  BY <1>1, <1>4, <1>5 DEF Begun, Detached
<1>7. NoDanglingRelationship'
  BY <1>2, <1>3 DEF Detached, NoDanglingRelationship
<1> QED
  BY <1>2, <1>6, <1>7 DEF Detached

LEMMA endDetached ==
    ASSUME Typed, Identified, Orderly, Detached, RemoveEnds
    PROVE  Detached'
<1>1. PICK work, loop, next, rest : Erased(work, loop, next, rest)
  BY endErases
<1>2. rest = <<>> /\ m_contactIds' = m_contactIds \ {work.id}
  BY <1>1, ErasesTheRight
<1>3. \A w \in ToSet(agenda') : w \notin Erasure
  <2>1. ToSet(<<>>) = {} /\ <<>> \in Seq(Task)
    BY DEF ToSet
  <2>2. next \in Removal /\ agenda' = <<next>> \o rest /\ rest \in Seq(Task)
    BY <1>1 DEF Erased, Agenda
  <2>3. \A w \in ToSet(agenda') : w \in Erasure => w \in ToSet(rest)
    BY <2>2, LoopAhead
  <2> QED
    BY <1>2, <2>1, <2>3
<1>4. PICK id : id = work.id
  OBVIOUS
<1>5. RelationshipsOf(id) = {}
  <2>1. work \in ToSet(agenda)
    BY <1>1, HeadAndTail DEF Erased, Typed, Agenda
  <2> QED
    BY <1>1, <1>4, <2>1 DEF Erased, Detached
<1>6. ASSUME NEW r \in m_relationships
      PROVE  r.first.id # id /\ (r.second.uri = "own" => r.second.id # id)
  <2>1. r \in Relationship /\ r.first.uri = "own"
    BY DEF Typed, MemTypeOK, Detached
  <2>2. PICK a \in Id, uri \in {"own", "other"}, b \in Id :
            r.first = [uri |-> "own", id |-> a] /\ r.second = [uri |-> uri, id |-> b]
    BY <2>1 DEF Relationship, Participant
  <2>3. r.first # [uri |-> "own", id |-> id] /\ r.second # [uri |-> "own", id |-> id]
    BY <1>5 DEF RelationshipsOf
  <2>4. a # id /\ (uri = "own" => b # id)
    BY <2>2, <2>3
  <2> QED
    BY <2>2, <2>4
<1>7. m_relationships' = m_relationships
  BY DEF RemoveEnds
<1>8. NoDanglingRelationship'
  BY <1>2, <1>4, <1>6, <1>7 DEF Detached, NoDanglingRelationship
<1> QED
  BY <1>3, <1>7, <1>8 DEF Detached

LEMMA DetachedStep ==
    ASSUME SlotsKeep
    PROVE  Typed /\ Identified /\ Orderly /\ Detached /\ [Next]_vars => Detached'
<1> SUFFICES ASSUME Typed, Identified, Orderly, Detached, [Next]_vars PROVE Detached'
  OBVIOUS
<1>0. agenda \in Seq(Task)
  BY DEF Typed, Agenda
<1>1. ASSUME UNCHANGED <<m_contacts, m_relationships, agenda>> PROVE Detached'
  BY <1>1, DetachedKept DEF m_contactIds
<1>2. ASSUME NEW e \in Engine, createMemoryEngine(e) \/ destroyEngine(e) PROVE Detached'
  <2>1. CASE NewData /\ UNCHANGED agenda
    <3>1. m_relationships' = {}
      BY <2>1 DEF NewData
    <3> QED
      BY <2>1, <3>1 DEF Detached, NoDanglingRelationship, RelationshipsOf
  <2>2. CASE UNCHANGED <<store, agenda>>
    BY <1>1, <2>2 DEF store
  <2> QED
    BY <1>2, <2>1, <2>2 DEF createMemoryEngine, destroyEngine
<1>3. ASSUME NEW list \in Batches(Id \cup {0}), NEW copy \in Copy, saveContacts(list, copy)
      PROVE  Detached'
  <2>1. PICK n \in Nat, cs \in ChangeSet : Saved(n, cs, copy)
    BY <1>3, saveSaves DEF Typed
  <2>2. m_contactIds \subseteq m_contactIds'
    BY <2>1, SavedIds DEF Typed
  <2> QED
    BY <1>3, <2>1, <2>2, SignalsAhead, DetachedKept DEF Saved, saveContacts
<1>4. ASSUME NEW list \in Batches(Id), removeContacts(list) PROVE Detached'
  <2>1. PICK loop : Asked(loop, list)
    BY <1>4, removeAsks
  <2>2. \A w \in ToSet(agenda') : w \in Erasure => w \in ToSet(agenda)
    BY <1>0, <2>1, LoopAhead DEF Asked
  <2> QED
    BY <1>4, <2>2, DetachedKept DEF removeContacts, store, m_contactIds
<1>5. ASSUME NEW id \in Id \cup {0}, setSelfContactId(id) PROVE Detached'
  <2>1. PICK cs : cs = [EmptyChangeSet EXCEPT !.oldSelf = m_selfContactId, !.newSelf = id]
    OBVIOUS
  <2>2. cs \in ChangeSet /\ agenda' = emitSharedSignals(cs) \o agenda
    BY <1>5, <2>1, ChangeSets DEF setSelfContactId, Typed, MemTypeOK
  <2> QED
    BY <1>5, <2>2, SignalsAhead, DetachedKept DEF setSelfContactId, m_contactIds
<1>6. ASSUME NEW first \in Participant(FirstUri), NEW second \in Participant(SecondUri),
             saveRelationship(first, second)
      PROVE  Detached'
  BY <1>6, relateDetached
<1>7. ASSUME NEW gone \in SUBSET m_relationships, removeRelationships(gone) PROVE Detached'
  <2>1. PICK cs : Quiet(cs) /\ RemovedSignals(gone) = emitSharedSignals(cs)
    BY RemovedIsQuiet DEF Typed
  <2>2. SameContacts /\ m_relationships' = m_relationships \ gone
    BY <1>7, dropDrops DEF removeRelationships, Typed
  <2>3. m_contactIds' = m_contactIds
    BY <2>2, SameIds DEF Typed
  <2> QED
    BY <1>7, <2>1, <2>2, <2>3, SignalsAhead, DetachedKept DEF removeRelationships, Quiet
<1>8. CASE Deliver
  <2>1. PICK work, s, left, rest : Delivered(work, s, left, rest)
    BY <1>8, deliverDelivers
  <2>2. rest \in Seq(Task) /\ ToSet(rest) \subseteq ToSet(agenda)
    BY <1>0, <2>1, HeadAndTail DEF Delivered, Agenda
  <2>3. \A w \in ToSet(agenda') : w \in Erasure => w \in ToSet(agenda)
    BY <2>1, <2>2, ErasuresAhead DEF Delivered
  <2> QED
    BY <1>8, <2>3, DetachedKept DEF Deliver, store, m_contactIds
<1>9. CASE RemoveUnknown
  <2>1. PICK loop, next : Passed(loop, next)
    BY <1>9, unknownPasses
  <2>2. Tail(agenda) \in Seq(Task) /\ ToSet(Tail(agenda)) \subseteq ToSet(agenda)
    BY <1>0, <2>1, HeadAndTail DEF Passed
  <2>3. \A w \in ToSet(agenda') : w \in Erasure => w \in ToSet(agenda)
    BY <2>1, <2>2, LoopAhead DEF Passed
  <2> QED
    BY <1>9, <2>3, DetachedKept DEF RemoveUnknown, store, m_contactIds
<1>10. CASE RemoveDone
  <2>1. PICK loop, cs : Reported(loop, cs)
    BY <1>10, doneReports
  <2>2. Tail(agenda) \in Seq(Task) /\ ToSet(Tail(agenda)) \subseteq ToSet(agenda)
    BY <1>0, <2>1, HeadAndTail DEF Reported
  <2>3. PICK new \in Seq(Emission) : new = emitSharedSignals(cs)
    BY <2>1, Emitted DEF Reported, Typed, MemTypeOK
  <2>4. \A w \in ToSet(agenda') : w \in Erasure => w \in ToSet(agenda)
    BY <2>1, <2>2, <2>3, ErasuresAhead DEF Reported
  <2> QED
    BY <1>10, <2>4, DetachedKept DEF RemoveDone, store, m_contactIds
<1>11. CASE UNCHANGED vars
  BY <1>1, <1>11 DEF vars, store
<1> QED
  BY <1>2, <1>3, <1>4, <1>5, <1>6, <1>7, <1>8, <1>9, <1>10, <1>11, beginDetached,
     endDetached DEF Next

\* No relationship is left of a contact of this manager that is not there, at
\* any moment, when clients name their own manager and slots neither remove nor
\* relate contacts.
THEOREM RelationshipsDoNotDangle ==
    ASSUME SlotsKeep
    PROVE  MemSpec => []NoDanglingRelationship
<1>1. Init => Identified /\ Orderly /\ Detached
  <2>1. ToSet(<<>>) = {}
    BY DEF ToSet
  <2> QED
    BY <2>1, OrderNone DEF Init, Identified, m_contactIds, Orderly, Detached, NoDanglingRelationship
<1>2. SlotsDoNotRemove
  BY DEF SlotsKeep, SlotsDoNotRemove
<1>3. Typed /\ Identified /\ Orderly /\ Detached /\ [Next]_vars
      => (Typed /\ Identified /\ Orderly /\ Detached)'
  BY <1>2, TypedStep, IdentifiedStep, OrderlyStep, DetachedStep
<1>4. Detached => NoDanglingRelationship
  BY DEF Detached
<1> QED
  BY <1>1, <1>3, <1>4, TypedInit, PTL DEF MemSpec

-----------------------------------------------------------------------------
(* What observers know.                                                    *)

LEMMA DueSplit ==
    ASSUME NEW a \in Seq(Task), NEW b \in Seq(Task)
    PROVE  Due(a \o b) = Due(a) \cup Due(b) /\ Loops(a \o b) = Loops(a) \cup Loops(b)
<1>1. ToSet(a \o b) = ToSet(a) \cup ToSet(b)
  BY Concatenation
<1> QED
  BY <1>1 DEF Due, Loops

LEMMA DueAhead ==
    ASSUME NEW x \in Task, NEW work \in Seq(Task)
    PROVE  /\ x \notin Emission => Due(<<x>> \o work) = Due(work)
           /\ x \in Removal => Loops(<<x>> \o work) = {x} \cup Loops(work)
           /\ x \notin Removal => Loops(<<x>> \o work) = Loops(work)
<1>1. PICK all : all = ToSet(<<x>> \o work) /\ all = {x} \cup ToSet(work)
  BY TaskAhead
<1>2. ASSUME x \notin Emission PROVE Due(<<x>> \o work) = Due(work)
  BY <1>1, <1>2 DEF Due
<1>3. Loops(<<x>> \o work) = ({x} \cup ToSet(work)) \cap Removal
  BY <1>1 DEF Loops
<1> QED
  BY <1>2, <1>3 DEF Loops

LEMMA DueNone == Due(<<>>) = {} /\ Loops(<<>>) = {}
<1>1. ToSet(<<>>) = {}
  BY DEF ToSet
<1> QED
  BY <1>1 DEF Due, Loops

\* A change set is made known to every engine.
LEMMA Heard ==
    ASSUME MemTypeOK, NEW cs \in ChangeSet, NEW work \in Seq(Task), NEW all,
           all = emitSharedSignals(cs) \o work
    PROVE  /\ Loops(all) = Loops(work)
           /\ Due(work) \subseteq Due(all)
           /\ \A due \in Due(all) : due \in Due(work) \/ (due[2].ids # {} /\ Says(cs, due[2]))
           /\ \A e \in ToSet(m_sharedEngines), s \in Told :
                 s.ids # {} /\ Says(cs, s) => <<e, s>> \in Due(all)
<1>1. PICK new \in Seq(Emission) :
          /\ new = emitSharedSignals(cs)
          /\ \A i \in DOMAIN new : /\ i \in DOMAIN m_sharedEngines
                                   /\ new[i].engine = m_sharedEngines[i]
                                   /\ new[i].signals = SignalsOf(cs)
          /\ SignalsOf(cs) # <<>> => \A i \in DOMAIN m_sharedEngines : i \in DOMAIN new
  BY Emitted DEF MemTypeOK
<1>2. new \in Seq(Task) /\ \A i \in DOMAIN new : new[i] \in Emission
  BY Kinds
<1>3. Due(all) = Due(new) \cup Due(work) /\ Loops(all) = Loops(new) \cup Loops(work)
  BY <1>1, <1>2, DueSplit
<1>4. Loops(new) = {}
  BY <1>2, Kinds DEF Loops, ToSet
<1>5. ASSUME NEW due \in Due(new) PROVE due[2].ids # {} /\ Says(cs, due[2])
  <2>1. due[2] \in ToSet(SignalsOf(cs))
    BY <1>1 DEF Due, ToSet
  <2> QED
    BY <2>1, SignalsSay
<1>6. ASSUME NEW e \in ToSet(m_sharedEngines), NEW s \in Told, s.ids # {}, Says(cs, s)
      PROVE  <<e, s>> \in Due(new)
  <2>1. s \in ToSet(SignalsOf(cs))
    BY <1>6, SignalsSay
  <2>2. SignalsOf(cs) # <<>>
    BY <2>1 DEF ToSet
  <2>3. PICK i \in DOMAIN m_sharedEngines : e = m_sharedEngines[i]
    BY DEF ToSet
  <2>4. i \in DOMAIN new /\ new[i] \in ToSet(new) /\ new[i].engine = e /\ new[i].signals = SignalsOf(cs)
    BY <1>1, <2>2, <2>3 DEF ToSet
  <2>5. e \in Engine
    <3>1. m_sharedEngines \in Seq(Engine)
      BY DEF MemTypeOK
    <3> QED
      BY <2>3, <3>1
  <2> QED
    BY <1>2, <2>1, <2>4, <2>5 DEF Due
<1> QED
  BY <1>3, <1>4, <1>5, <1>6

\* Signals that observers of the contacts do not heed.
Unheeded(s) == s.name \notin {"added", "removed", "self"}

LEMMA QuietUnheeded ==
    ASSUME NEW cs, Quiet(cs), NEW s, s.ids # {}, Says(cs, s)
    PROVE  Unheeded(s)
  BY DEF Quiet, Says, Unheeded

LEMMA InformedCarried ==
    ASSUME Informed, m_contactIds' = m_contactIds,
           UNCHANGED <<m_nextContactId, m_selfContactId, m_sharedEngines, known, knownSelf>>,
           Due(agenda) \subseteq Due(agenda)',
           \A due \in Due(agenda)' : due \in Due(agenda) \/ Unheeded(due[2]),
           \A loop \in Loops(agenda)' :
               loop.cs = EmptyChangeSet \/ \E old \in Loops(agenda) : loop.cs = old.cs,
           \A loop \in Loops(agenda) : \E new \in Loops(agenda)' : new.cs = loop.cs
    PROVE  Informed'
<1>1. Given' = Given
  BY DEF Given
<1>2. \A due \in Due(agenda)' : Truthful(due[2])'
  BY <1>1 DEF Informed, Truthful, Unheeded
<1>3. \A loop \in Loops(agenda)' : Plain(loop)'
  <2>1. EmptyChangeSet.added = {} /\ EmptyChangeSet.newSelf = 0 /\ EmptyChangeSet.oldSelf = 0
    BY DEF EmptyChangeSet
  <2> QED
    BY <2>1 DEF Informed, Plain
<1>4. ASSUME NEW e \in ToSet(m_sharedEngines) PROVE Hears(e)'
  <2>1. Hears(e)
    BY DEF Informed
  <2>2. \A id \in m_contactIds \ known[e] :
            \E s \in Told : s.name = "added" /\ id \in s.ids /\ <<e, s>> \in Due(agenda)'
    BY <2>1 DEF Hears
  <2>3. \A id \in known[e] \ m_contactIds :
            \/ \E s \in Told : s.name = "removed" /\ id \in s.ids /\ <<e, s>> \in Due(agenda)'
            \/ \E loop \in Loops(agenda)' : id \in loop.cs.removed
    BY <2>1 DEF Hears
  <2>4. knownSelf[e] # m_selfContactId =>
            \/ \E s \in Told : s.name = "self" /\ <<e, s>> \in Due(agenda)'
            \/ \E loop \in Loops(agenda)' : loop.cs.oldSelf # 0
    BY <2>1 DEF Hears
  <2> QED
    BY <2>2, <2>3, <2>4 DEF Hears
<1> QED
  BY <1>2, <1>3, <1>4 DEF Informed

\* A step that emits signals that are not heeded.
LEMMA InformedQuietly ==
    ASSUME Typed, Informed, m_contactIds' = m_contactIds,
           UNCHANGED <<m_nextContactId, m_selfContactId, m_sharedEngines, known, knownSelf>>,
           NEW cs, Quiet(cs), NEW work \in Seq(Task), Due(work) = Due(agenda),
           Loops(work) = Loops(agenda), agenda' = emitSharedSignals(cs) \o work
    PROVE  Informed'
<1>1. cs \in ChangeSet /\ MemTypeOK
  BY DEF Quiet, Typed
<1>2. PICK all : all = emitSharedSignals(cs) \o work
  OBVIOUS
<1>3. /\ Loops(all) = Loops(work) /\ Due(work) \subseteq Due(all)
      /\ \A due \in Due(all) : due \in Due(work) \/ (due[2].ids # {} /\ Says(cs, due[2]))
  BY <1>1, <1>2, Heard
<1>4. Loops(agenda)' = Loops(all) /\ Due(agenda)' = Due(all)
  BY <1>2 DEF Loops, Due
<1> QED
  BY <1>3, <1>4, QuietUnheeded, InformedCarried

LEMMA saveInformed ==
    ASSUME Typed, Identified, Informed, NEW n \in Nat, NEW cs \in ChangeSet, NEW copy,
           Saved(n, cs, copy), UNCHANGED <<m_selfContactId, m_sharedEngines, known, knownSelf>>
    PROVE  Informed'
<1>1. PICK next \in Nat : next = m_nextContactId /\ m_nextContactId' = next + n
  BY Store DEF Typed, Saved
<1>2. PICK new : new = next + 1 .. next + n
  OBVIOUS
<1>3. /\ m_contactIds' = m_contactIds \cup new /\ cs.added = new
      /\ cs.removed = {} /\ cs.newSelf = cs.oldSelf
  BY <1>1, <1>2, SavedIds DEF Saved, Typed
<1>4. Given \cap new = {} /\ Given \subseteq Given'
  BY <1>1, <1>2 DEF Given
<1>5. agenda \in Seq(Task) /\ MemTypeOK
  BY DEF Typed, Agenda
<1>6. /\ Loops(agenda)' = Loops(agenda) /\ Due(agenda) \subseteq Due(agenda)'
      /\ \A due \in Due(agenda)' : due \in Due(agenda) \/ (due[2].ids # {} /\ Says(cs, due[2]))
      /\ \A e \in ToSet(m_sharedEngines), s \in Told :
            s.ids # {} /\ Says(cs, s) => <<e, s>> \in Due(agenda)'
  <2>1. PICK all : all = emitSharedSignals(cs) \o agenda
    OBVIOUS
  <2>2. /\ Loops(all) = Loops(agenda) /\ Due(agenda) \subseteq Due(all)
        /\ \A due \in Due(all) : due \in Due(agenda) \/ (due[2].ids # {} /\ Says(cs, due[2]))
        /\ \A e \in ToSet(m_sharedEngines), s \in Told :
              s.ids # {} /\ Says(cs, s) => <<e, s>> \in Due(all)
    BY <1>5, <2>1, Heard
  <2>3. Loops(agenda)' = Loops(all) /\ Due(agenda)' = Due(all)
    BY <2>1 DEF Saved, Loops, Due
  <2> QED
    BY <2>2, <2>3
<1>7. ASSUME NEW due \in Due(agenda)' PROVE Truthful(due[2])'
  <2>1. CASE due \in Due(agenda)
    <3>1. Truthful(due[2])
      BY <2>1 DEF Informed
    <3> QED
      BY <1>3, <1>4, <3>1 DEF Truthful
  <2>2. CASE due[2].ids # {} /\ Says(cs, due[2])
    BY <1>3, <2>2 DEF Truthful, Says
  <2> QED
    BY <1>6, <2>1, <2>2
<1>8. \A loop \in Loops(agenda)' : Plain(loop)'
  BY <1>6 DEF Informed, Plain
<1>9. ASSUME NEW e \in ToSet(m_sharedEngines) PROVE Hears(e)'
  <2>1. Hears(e)
    BY DEF Informed
  <2>2. ASSUME NEW id \in m_contactIds' \ known[e]
        PROVE  \E s \in Told : s.name = "added" /\ id \in s.ids /\ <<e, s>> \in Due(agenda)'
    <3>1. CASE id \in m_contactIds
      BY <1>6, <2>1, <2>2, <3>1 DEF Hears
    <3>2. CASE id \in new
      <4>1. PICK s : s = [name |-> "added", ids |-> new]
        OBVIOUS
      <4>2. s \in Told
        BY <1>3, <4>1 DEF Told, ChangeSet, Signal
      <4>3. s.name = "added" /\ s.ids = new
        BY <4>1
      <4>4. <<e, s>> \in Due(agenda)'
        BY <1>3, <1>6, <3>2, <4>2, <4>3 DEF Says
      <4> QED
        BY <3>2, <4>2, <4>3, <4>4
    <3> QED
      BY <1>3, <2>2, <3>1, <3>2
  <2>3. \A id \in known[e] \ m_contactIds' :
            \/ \E s \in Told : s.name = "removed" /\ id \in s.ids /\ <<e, s>> \in Due(agenda)'
            \/ \E loop \in Loops(agenda)' : id \in loop.cs.removed
    BY <1>3, <1>6, <2>1 DEF Hears
  <2>4. knownSelf[e] # m_selfContactId =>
            \/ \E s \in Told : s.name = "self" /\ <<e, s>> \in Due(agenda)'
            \/ \E loop \in Loops(agenda)' : loop.cs.oldSelf # 0
    BY <1>6, <2>1 DEF Hears
  <2> QED
    BY <2>2, <2>3, <2>4 DEF Hears
<1> QED
  BY <1>7, <1>8, <1>9 DEF Informed

\* When nothing is under way observers know everything.
LEMMA InformedAtRest ==
    ASSUME Informed, agenda = <<>>, NEW e \in ToSet(m_sharedEngines), known[e] \subseteq Id
    PROVE  known[e] = m_contactIds /\ knownSelf[e] = m_selfContactId
<1>1. Hears(e)
  BY DEF Informed
<1>2. Due(agenda) = {} /\ Loops(agenda) = {}
  BY DueNone
<1> QED
  BY <1>1, <1>2 DEF Hears

LEMMA RestInforms ==
    ASSUME agenda = <<>>,
           \A e \in ToSet(m_sharedEngines) :
               known[e] = m_contactIds /\ knownSelf[e] = m_selfContactId,
           \A i, j \in DOMAIN m_sharedEngines : m_sharedEngines[i] = m_sharedEngines[j] => i = j
    PROVE  Informed
<1>1. Due(agenda) = {} /\ Loops(agenda) = {}
  BY DueNone
<1> QED
  BY <1>1 DEF Informed, Hears

LEMMA RestInformsNext ==
    (/\ agenda = <<>>
     /\ \A e \in ToSet(m_sharedEngines) :
            known[e] = m_contactIds /\ knownSelf[e] = m_selfContactId
     /\ \A i, j \in DOMAIN m_sharedEngines : m_sharedEngines[i] = m_sharedEngines[j] => i = j
     => Informed)'
  BY RestInforms, PTL

LEMMA selfInformed ==
    ASSUME SlotsTell, Typed, Informed, NEW id \in Id \cup {0}, setSelfContactId(id)
    PROVE  Informed'
<1>1. PICK cs : cs = [EmptyChangeSet EXCEPT !.oldSelf = m_selfContactId, !.newSelf = id]
  OBVIOUS
<1>2. cs \in ChangeSet
  BY <1>1, ChangeSets DEF Typed, MemTypeOK
<1>3. /\ cs.added = {} /\ cs.removed = {} /\ cs.newSelf = id /\ cs.oldSelf = m_selfContactId
  BY <1>1 DEF EmptyChangeSet
<1>4. agenda = <<>> /\ m_selfContactId' = id
  BY DEF setSelfContactId, MayCall, SlotsTell
<1>5. /\ m_contactIds' = m_contactIds /\ Given' = Given
      /\ UNCHANGED <<m_sharedEngines, known, knownSelf>>
  BY DEF setSelfContactId, m_contactIds, Given
<1>6. /\ Loops(agenda)' = {}
      /\ \A due \in Due(agenda)' : due[2].ids # {} /\ Says(cs, due[2])
      /\ \A e \in ToSet(m_sharedEngines), s \in Told :
            s.ids # {} /\ Says(cs, s) => <<e, s>> \in Due(agenda)'
  <2>1. PICK all : all = emitSharedSignals(cs) \o agenda
    OBVIOUS
  <2>2. /\ Loops(all) = Loops(agenda)
        /\ \A due \in Due(all) : due \in Due(agenda) \/ (due[2].ids # {} /\ Says(cs, due[2]))
        /\ \A e \in ToSet(m_sharedEngines), s \in Told :
              s.ids # {} /\ Says(cs, s) => <<e, s>> \in Due(all)
    <3>1. agenda \in Seq(Task) /\ MemTypeOK
      BY DEF Typed, Agenda
    <3> QED
      BY <1>2, <2>1, <3>1, Heard
  <2>3. Loops(agenda)' = Loops(all) /\ Due(agenda)' = Due(all)
    BY <1>1, <2>1 DEF setSelfContactId, Loops, Due
  <2>4. Due(agenda) = {} /\ Loops(agenda) = {}
    BY <1>4, DueNone
  <2> QED
    BY <2>2, <2>3, <2>4
<1>7. \A due \in Due(agenda)' : Truthful(due[2])'
  BY <1>3, <1>4, <1>6 DEF Truthful, Says
<1>8. ASSUME NEW e \in ToSet(m_sharedEngines) PROVE Hears(e)'
  <2>1. known[e] = m_contactIds /\ knownSelf[e] = m_selfContactId
    <3>1. known[e] \subseteq Id
      <4>1. e \in Engine
        BY DEF ToSet, Typed, MemTypeOK
      <4> QED
        BY <4>1 DEF Typed, MemTypeOK
    <3> QED
      BY <1>4, <3>1, InformedAtRest
  <2>2. ASSUME id # m_selfContactId
        PROVE  \E s \in Told : s.name = "self" /\ <<e, s>> \in Due(agenda)'
    <3>1. PICK s : s = [name |-> "self", ids |-> {id}]
      OBVIOUS
    <3>2. s \in Told /\ s.name = "self" /\ s.ids = {id}
      BY <3>1 DEF Told
    <3>3. <<e, s>> \in Due(agenda)'
      BY <1>3, <1>6, <2>2, <3>2 DEF Says
    <3> QED
      BY <3>2, <3>3
  <2> QED
    BY <1>4, <1>5, <2>1, <2>2 DEF Hears
<1> QED
  BY <1>5, <1>6, <1>7, <1>8 DEF Informed

LEMMA createInformed ==
    ASSUME Typed, Informed, NEW e \in Engine, createMemoryEngine(e)
    PROVE  Informed'
<1>1. agenda = <<>> /\ agenda' = <<>> /\ e \notin ToSet(m_sharedEngines)
  BY DEF createMemoryEngine
<1>2. m_contactIds' = m_contactIds /\ m_selfContactId' = m_selfContactId
  BY DEF createMemoryEngine, store, m_contactIds
<1>3. PICK old \in Seq(Engine) : old = m_sharedEngines
  BY DEF Typed, MemTypeOK
<1>4. PICK new : new = Append(old, e)
  OBVIOUS
<1>5. /\ ToSet(new) = ToSet(old) \cup {e}
      /\ (\A i, j \in DOMAIN old : old[i] = old[j] => i = j) /\ e \notin ToSet(old) =>
            \A i, j \in DOMAIN new : new[i] = new[j] => i = j
  <2>1. /\ DOMAIN old = 1 .. Len(old) /\ DOMAIN new = 1 .. Len(old) + 1 /\ Len(old) \in Nat
        /\ \A i \in 1 .. Len(old) : new[i] = old[i]
        /\ new[Len(old) + 1] = e
    BY <1>4
  <2>2. \A i \in 1 .. Len(old) + 1 : i \in 1 .. Len(old) \/ i = Len(old) + 1
    BY <2>1
  <2>3. 1 .. Len(old) \subseteq 1 .. Len(old) + 1 /\ Len(old) + 1 \in 1 .. Len(old) + 1
    BY <2>1
  <2>4. ToSet(new) = ToSet(old) \cup {e}
    BY <2>1, <2>2, <2>3 DEF ToSet
  <2>5. ASSUME \A i, j \in DOMAIN old : old[i] = old[j] => i = j, e \notin ToSet(old),
               NEW i \in DOMAIN new, NEW j \in DOMAIN new, new[i] = new[j]
        PROVE  i = j
    BY <2>1, <2>2, <2>5 DEF ToSet
  <2> QED
    BY <2>4, <2>5
<1>6. m_sharedEngines' = new
  BY <1>3, <1>4 DEF createMemoryEngine
<1>7. ASSUME NEW f \in ToSet(new)
      PROVE  known'[f] = m_contactIds /\ knownSelf'[f] = m_selfContactId
  <2>1. f \in Engine /\ (f \in ToSet(m_sharedEngines) \/ f = e)
    BY <1>3, <1>5, <1>7 DEF ToSet
  <2>2. /\ known' = [known EXCEPT ![e] = m_contactIds] /\ known \in [Engine -> SUBSET Id]
        /\ knownSelf' = [knownSelf EXCEPT ![e] = m_selfContactId]
        /\ knownSelf \in [Engine -> Id \cup {0}]
    BY DEF createMemoryEngine, Typed, MemTypeOK
  <2>3. CASE f = e
    BY <2>2, <2>3
  <2>4. CASE f # e
    <3>1. known'[f] = known[f] /\ knownSelf'[f] = knownSelf[f] /\ known[f] \subseteq Id
      BY <2>1, <2>2, <2>4
    <3> QED
      BY <1>1, <2>1, <2>4, <3>1, InformedAtRest
  <2> QED
    BY <2>3, <2>4
<1>8. \A i, j \in DOMAIN new : new[i] = new[j] => i = j
  BY <1>1, <1>3, <1>5 DEF Informed
<1> QED
  BY <1>1, <1>2, <1>6, <1>7, <1>8, RestInformsNext

LEMMA destroyInformed ==
    ASSUME Typed, Informed, NEW e \in Engine, destroyEngine(e)
    PROVE  Informed'
<1>1. agenda = <<>> /\ agenda' = <<>> /\ e \in ToSet(m_sharedEngines)
  BY DEF destroyEngine
<1>2. PICK old \in Seq(Engine) : old = m_sharedEngines
  BY DEF Typed, MemTypeOK
<1>3. PICK left : left = RemoveFirst(old, e)
  OBVIOUS
<1>4. /\ ToSet(left) \subseteq ToSet(old) /\ e \notin ToSet(left)
      /\ \A i, j \in DOMAIN left : left[i] = left[j] => i = j
  BY <1>1, <1>2, <1>3, EngineGone DEF Informed
<1>5. m_sharedEngines' = left
  BY <1>2, <1>3 DEF destroyEngine
<1>6. ASSUME NEW f \in ToSet(left)
      PROVE  known'[f] = m_contactIds' /\ knownSelf'[f] = m_selfContactId'
  <2>1. left # <<>>
    BY <1>6 DEF ToSet
  <2>2. m_contactIds' = m_contactIds /\ m_selfContactId' = m_selfContactId
    BY <1>5, <2>1 DEF destroyEngine, store, m_contactIds
  <2>3. f \in Engine /\ f # e /\ f \in ToSet(m_sharedEngines)
    BY <1>2, <1>4, <1>6 DEF ToSet
  <2>4. known'[f] = known[f] /\ knownSelf'[f] = knownSelf[f] /\ known[f] \subseteq Id
    BY <2>3 DEF destroyEngine, Typed, MemTypeOK
  <2> QED
    BY <1>1, <2>2, <2>3, <2>4, InformedAtRest
<1> QED
  BY <1>1, <1>4, <1>5, <1>6, RestInformsNext

\* A delivered signal is not due any more, and nothing else changes.
LEMMA DueDelivered ==
    ASSUME Typed, NEW work, NEW s, NEW left, NEW rest, Delivered(work, s, left, rest)
    PROVE  /\ Loops(agenda)' = Loops(agenda) /\ Due(agenda)' \subseteq Due(agenda)
           /\ <<work.engine, s>> \in Due(agenda)
           /\ \A due \in Due(agenda) : due \in Due(agenda)' \/ due = <<work.engine, s>>
<1>1. /\ work \in Emission /\ work.engine \in Engine /\ s \in Told /\ s \in ToSet(work.signals)
      /\ left \in Seq(Emission) /\ rest \in Seq(Task)
  BY DEF Delivered, Emission, Agenda
<1>2. ToSet(agenda) = {work} \cup ToSet(rest)
  BY HeadAndTail DEF Delivered, Typed, Agenda
<1>3. left \in Seq(Task) /\ \A w \in ToSet(left) : w \in Emission
  BY <1>1, Kinds DEF ToSet
<1>4. Due(agenda)' = Due(left) \cup Due(rest) /\ Loops(agenda)' = Loops(left) \cup Loops(rest)
  <2>1. Due(left \o rest) = Due(left) \cup Due(rest) /\ Loops(left \o rest) = Loops(left) \cup Loops(rest)
    BY <1>1, <1>3, DueSplit
  <2>2. Due(agenda)' = Due(left \o rest) /\ Loops(agenda)' = Loops(left \o rest)
    BY DEF Delivered, Due, Loops
  <2> QED
    BY <2>1, <2>2
<1>5. Loops(left) = {} /\ Loops(agenda) = Loops(rest)
  BY <1>1, <1>2, <1>3, Kinds DEF Loops
<1>6. Due(rest) \subseteq Due(agenda)
  BY <1>2 DEF Due
<1>7. \A due \in Engine \X Told : due[1] = work.engine /\ due[2] \in ToSet(work.signals) => due \in Due(agenda)
  BY <1>1, <1>2 DEF Due
<1>8. \A due \in Due(left) : due \in Engine \X Told /\ due[1] = work.engine /\ due[2] \in ToSet(work.signals)
  BY DEF Due, Delivered
<1>9. ASSUME NEW due \in Due(agenda) PROVE due \in Due(agenda)' \/ due = <<work.engine, s>>
  <2>1. PICK w \in ToSet(agenda) : w \in Emission /\ w.engine = due[1] /\ due[2] \in ToSet(w.signals)
    BY DEF Due
  <2>2. due \in Engine \X Told
    BY DEF Due
  <2>3. CASE w \in ToSet(rest)
    BY <1>4, <2>1, <2>2, <2>3 DEF Due
  <2>4. CASE w = work
    <3>1. CASE due[2] = s
      BY <2>1, <2>2, <2>4, <3>1
    <3>2. CASE due[2] # s
      <4>1. \E v \in ToSet(left) : v \in Emission /\ v.engine = work.engine /\ due[2] \in ToSet(v.signals)
        BY <2>1, <2>4, <3>2 DEF Delivered
      <4>2. due \in Due(left)
        BY <2>1, <2>2, <2>4, <4>1 DEF Due
      <4> QED
        BY <1>4, <4>2
    <3> QED
      BY <3>1, <3>2
  <2> QED
    BY <1>2, <2>1, <2>3, <2>4
<1>10. <<work.engine, s>> \in Due(agenda)
  <2>1. PICK due \in Engine \X Told : due = <<work.engine, s>>
    BY <1>1
  <2> QED
    BY <1>1, <1>7, <2>1
<1> QED
  BY <1>4, <1>5, <1>6, <1>7, <1>8, <1>9, <1>10

LEMMA deliverInformed ==
    ASSUME Typed, Informed, Deliver
    PROVE  Informed'
<1>1. PICK work, s, left, rest : Delivered(work, s, left, rest)
  BY deliverDelivers
<1>2. /\ Loops(agenda)' = Loops(agenda) /\ Due(agenda)' \subseteq Due(agenda)
      /\ <<work.engine, s>> \in Due(agenda)
      /\ \A due \in Due(agenda) : due \in Due(agenda)' \/ due = <<work.engine, s>>
  BY <1>1, DueDelivered
<1>3. /\ m_contactIds' = m_contactIds /\ Given' = Given
      /\ m_selfContactId' = m_selfContactId /\ m_sharedEngines' = m_sharedEngines
  BY DEF Deliver, store, m_contactIds, Given
<1>4. Truthful(s)
  <2>1. \A due \in Due(agenda) : Truthful(due[2])
    BY DEF Informed
  <2>2. PICK due \in Due(agenda) : due = <<work.engine, s>>
    BY <1>2
  <2>3. due[2] = s
    BY <2>2
  <2> QED
    BY <2>1, <2>3
<1>5. ASSUME NEW e \in ToSet(m_sharedEngines) PROVE Hears(e)'
  <2>1. Hears(e) /\ e \in Engine
    BY DEF Informed, Typed, MemTypeOK, ToSet
  <2>2. /\ known'[e] = IF e # work.engine THEN known[e]
                       ELSE IF s.name = "added" THEN known[e] \cup s.ids
                       ELSE IF s.name = "removed" THEN known[e] \ s.ids ELSE known[e]
        /\ knownSelf'[e] = IF e = work.engine /\ s.name = "self" THEN CHOOSE id \in s.ids : TRUE
                           ELSE knownSelf[e]
    <3>1. /\ known \in [Engine -> SUBSET Id] /\ knownSelf \in [Engine -> Id \cup {0}]
          /\ work.engine \in Engine
      BY <1>1 DEF Delivered, Emission, Typed, MemTypeOK
    <3>2. PICK heard : heard = IF s.name = "added" THEN known[work.engine] \cup s.ids
                               ELSE IF s.name = "removed" THEN known[work.engine] \ s.ids
                               ELSE known[work.engine]
      OBVIOUS
    <3>3. known' = [known EXCEPT ![work.engine] = heard]
      BY <1>1, <3>2, Zenon DEF Delivered
    <3>4. known'[e] = IF e = work.engine THEN heard ELSE known[e]
      BY <2>1, <3>1, <3>3
    <3>5. PICK self : self = IF s.name = "self" THEN CHOOSE id \in s.ids : TRUE
                             ELSE knownSelf[work.engine]
      OBVIOUS
    <3>6. knownSelf' = [knownSelf EXCEPT ![work.engine] = self]
      BY <1>1, <3>5 DEF Delivered
    <3>7. knownSelf'[e] = IF e = work.engine THEN self ELSE knownSelf[e]
      BY <2>1, <3>1, <3>6
    <3> QED
      BY <3>2, <3>4, <3>5, <3>7
  <2>3. \A t \in Told : <<e, t>> \in Due(agenda) =>
            <<e, t>> \in Due(agenda)' \/ (t = s /\ e = work.engine)
    BY <1>2
  <2>4. ASSUME NEW id \in m_contactIds \ known'[e]
        PROVE  \E t \in Told : t.name = "added" /\ id \in t.ids /\ <<e, t>> \in Due(agenda)'
    <3>1. id \notin known[e]
      BY <1>4, <2>2, <2>4 DEF Truthful
    <3>2. PICK t \in Told : t.name = "added" /\ id \in t.ids /\ <<e, t>> \in Due(agenda)
      BY <2>1, <2>4, <3>1 DEF Hears
    <3>3. ~(t = s /\ e = work.engine)
      BY <2>2, <2>4, <3>2
    <3> QED
      BY <2>3, <3>2, <3>3
  <2>5. ASSUME NEW id \in known'[e] \ m_contactIds
        PROVE  \/ \E t \in Told : t.name = "removed" /\ id \in t.ids /\ <<e, t>> \in Due(agenda)'
               \/ \E loop \in Loops(agenda)' : id \in loop.cs.removed
    <3>1. id \in known[e]
      BY <1>4, <2>2, <2>5 DEF Truthful
    <3>2. CASE \E loop \in Loops(agenda) : id \in loop.cs.removed
      BY <1>2, <3>2
    <3>3. CASE \E t \in Told : t.name = "removed" /\ id \in t.ids /\ <<e, t>> \in Due(agenda)
      <4>1. PICK t \in Told : t.name = "removed" /\ id \in t.ids /\ <<e, t>> \in Due(agenda)
        BY <3>3
      <4>2. ~(t = s /\ e = work.engine)
        BY <2>2, <2>5, <4>1
      <4> QED
        BY <2>3, <4>1, <4>2
    <3> QED
      BY <2>1, <2>5, <3>1, <3>2, <3>3 DEF Hears
  <2>6. ASSUME knownSelf'[e] # m_selfContactId
        PROVE  \/ \E t \in Told : t.name = "self" /\ <<e, t>> \in Due(agenda)'
               \/ \E loop \in Loops(agenda)' : loop.cs.oldSelf # 0
    <3>1. ~(e = work.engine /\ s.name = "self")
      BY <1>4, <2>2, <2>6 DEF Truthful
    <3>2. knownSelf[e] # m_selfContactId
      BY <2>2, <2>6, <3>1
    <3>3. CASE \E loop \in Loops(agenda) : loop.cs.oldSelf # 0
      BY <1>2, <3>3
    <3>4. CASE \E t \in Told : t.name = "self" /\ <<e, t>> \in Due(agenda)
      BY <2>3, <3>1, <3>4
    <3> QED
      BY <2>1, <3>2, <3>3, <3>4 DEF Hears
  <2> QED
    BY <1>3, <2>4, <2>5, <2>6 DEF Hears
<1>6. \A due \in Due(agenda)' : Truthful(due[2])'
  BY <1>2, <1>3 DEF Informed, Truthful
<1>7. \A loop \in Loops(agenda)' : Plain(loop)'
  BY <1>2, <1>3 DEF Informed, Plain
<1> QED
  BY <1>3, <1>5, <1>6, <1>7 DEF Informed

\* The loop that a removal is a part of is all there is, and remembers it.
LEMMA endInformed ==
    ASSUME Typed, Identified, Orderly, Informed, RemoveEnds
    PROVE  Informed'
<1>1. PICK work, loop, next, rest : Erased(work, loop, next, rest)
  BY endErases
<1>2. rest = <<>> /\ m_contactIds' = m_contactIds \ {work.id}
  BY <1>1, ErasesTheRight
<1>3. UNCHANGED <<m_sharedEngines, known, knownSelf>>
  BY DEF RemoveEnds
<1>4. work \in Erasure /\ loop \in Removal /\ next \in Removal
  BY <1>1 DEF Erased, Halfway
<1>5. <<>> \in Seq(Task) /\ Due(<<>>) = {} /\ Loops(<<>>) = {}
  BY DueNone
<1>6. Due(agenda) = {} /\ Loops(agenda) = {loop}
  <2>1. PICK back : /\ back = Tail(agenda) /\ back \in Seq(Task) /\ back # <<>>
                    /\ Head(back) = loop /\ Tail(back) = <<>>
                    /\ ToSet(agenda) = {work} \cup ToSet(back)
    <3>1. /\ agenda \in Seq(Task) /\ agenda # <<>> /\ work = Head(agenda)
          /\ Tail(agenda) # <<>> /\ Head(Tail(agenda)) = loop /\ Tail(Tail(agenda)) = <<>>
      BY <1>1, <1>2 DEF Erased, Typed, Agenda
    <3>2. Tail(agenda) \in Seq(Task) /\ ToSet(agenda) = {work} \cup ToSet(Tail(agenda))
      BY <3>1, HeadAndTail
    <3> QED
      BY <3>1, <3>2
  <2>2. ToSet(back) = {loop} \cup ToSet(<<>>)
    BY <2>1, HeadAndTail
  <2>3. ToSet(<<>>) = {}
    BY DEF ToSet
  <2>4. ToSet(agenda) = {work, loop}
    BY <2>1, <2>2, <2>3
  <2> QED
    BY <1>4, <2>4, Kinds DEF Due, Loops
<1>7. Due(agenda)' = {} /\ Loops(agenda)' = {next}
  <2>1. agenda' = <<next>> \o <<>>
    BY <1>1, <1>2 DEF Erased
  <2>2. Due(<<next>> \o <<>>) = {} /\ Loops(<<next>> \o <<>>) = {next}
    <3>1. PICK none \in Seq(Task) : none = <<>>
      BY <1>5
    <3>2. next \in Task /\ next \notin Emission
      BY <1>4, Kinds
    <3>3. Due(<<next>> \o none) = Due(none) /\ Loops(<<next>> \o none) = {next} \cup Loops(none)
      BY <1>4, <3>2, DueAhead
    <3> QED
      BY <1>5, <3>1, <3>3
  <2>3. Due(agenda)' = Due(<<next>> \o <<>>) /\ Loops(agenda)' = Loops(<<next>> \o <<>>)
    BY <2>1 DEF Due, Loops
  <2> QED
    BY <2>2, <2>3
<1>8. /\ next.cs.removed = loop.cs.removed \cup {work.id}
      /\ next.cs.oldSelf = IF m_selfContactId = work.id THEN work.id ELSE loop.cs.oldSelf
      /\ next.cs.added = loop.cs.added /\ next.cs.newSelf = loop.cs.newSelf
      /\ m_selfContactId' = IF m_selfContactId = work.id THEN 0 ELSE m_selfContactId
      /\ work.id # 0
  <2>1. \A id \in Id : id # 0
    BY DEF Id
  <2> QED
    BY <1>1, <1>4, <2>1 DEF Erased, Erasure
<1>9. Plain(next)'
  BY <1>6, <1>8 DEF Informed, Plain
<1>10. ASSUME NEW e \in ToSet(m_sharedEngines) PROVE Hears(e)'
  <2>1. Hears(e)
    BY DEF Informed
  <2>2. m_contactIds' \ known[e] = {}
    BY <1>2, <1>6, <2>1 DEF Hears
  <2>3. \A id \in known[e] \ m_contactIds' : id \in next.cs.removed
    BY <1>2, <1>6, <1>8, <2>1 DEF Hears
  <2>4. knownSelf[e] # m_selfContactId' => next.cs.oldSelf # 0
    BY <1>6, <1>8, <2>1 DEF Hears
  <2> QED
    BY <1>3, <1>7, <2>2, <2>3, <2>4 DEF Hears
<1> QED
  BY <1>3, <1>7, <1>9, <1>10 DEF Informed

LEMMA doneInformed ==
    ASSUME Typed, Orderly, Informed, RemoveDone
    PROVE  Informed'
<1>1. PICK loop, cs : Reported(loop, cs)
  BY doneReports
<1>2. agenda \in Seq(Task) /\ MemTypeOK /\ cs \in ChangeSet
  BY <1>1 DEF Reported, Typed, Agenda
<1>3. Tail(agenda) = <<>> /\ loop \in Removals
  BY <1>1, <1>2, OrderEnds DEF Reported, Orderly
<1>4. <<>> \in Seq(Task) /\ Due(<<>>) = {} /\ Loops(<<>>) = {}
  BY DueNone
<1>5. Due(agenda) = {} /\ Loops(agenda) = {loop}
  <2>1. ToSet(agenda) = {loop} \cup ToSet(<<>>)
    BY <1>1, <1>2, <1>3, HeadAndTail DEF Reported
  <2>2. ToSet(agenda) = {loop}
    BY <2>1 DEF ToSet
  <2> QED
    BY <1>1, <2>2, Kinds DEF Reported, Due, Loops
<1>6. /\ Loops(agenda)' = {}
      /\ \A due \in Due(agenda)' : due[2].ids # {} /\ Says(cs, due[2])
      /\ \A e \in ToSet(m_sharedEngines), s \in Told :
            s.ids # {} /\ Says(cs, s) => <<e, s>> \in Due(agenda)'
  <2>1. PICK none \in Seq(Task) : none = <<>>
    BY <1>4
  <2>2. PICK all : all = emitSharedSignals(cs) \o none
    OBVIOUS
  <2>3. /\ Loops(all) = Loops(none)
        /\ \A due \in Due(all) : due \in Due(none) \/ (due[2].ids # {} /\ Says(cs, due[2]))
        /\ \A e \in ToSet(m_sharedEngines), s \in Told :
              s.ids # {} /\ Says(cs, s) => <<e, s>> \in Due(all)
    BY <1>2, <2>2, Heard
  <2>4. Loops(agenda)' = Loops(all) /\ Due(agenda)' = Due(all)
    BY <1>1, <1>3, <2>1, <2>2 DEF Reported, Loops, Due
  <2> QED
    BY <1>4, <2>1, <2>3, <2>4
<1>7. /\ m_contactIds' = m_contactIds /\ Given' = Given
      /\ UNCHANGED <<m_selfContactId, m_sharedEngines, known, knownSelf>>
  BY DEF RemoveDone, store, m_contactIds, Given
<1>8. /\ cs.removed \subseteq Given \ m_contactIds /\ cs.added = {} /\ cs.newSelf = 0
      /\ cs.oldSelf # 0 => m_selfContactId = 0
  <2>1. Plain(loop) /\ Removing(loop) /\ cs = loop.cs
    BY <1>1, <1>3, <1>5 DEF Informed, Removals, Reported
  <2> QED
    BY <2>1 DEF Plain, Removing
<1>9. ASSUME NEW due \in Due(agenda)' PROVE Truthful(due[2])'
  <2>1. due[2].ids # {} /\ Says(cs, due[2])
    BY <1>6
  <2> QED
    BY <1>7, <1>8, <2>1 DEF Truthful, Says
<1>10. ASSUME NEW e \in ToSet(m_sharedEngines) PROVE Hears(e)'
  <2>1. Hears(e)
    BY DEF Informed
  <2>2. m_contactIds \ known[e] = {}
    BY <1>5, <2>1 DEF Hears
  <2>3. ASSUME NEW id \in known[e] \ m_contactIds
        PROVE  \E s \in Told : s.name = "removed" /\ id \in s.ids /\ <<e, s>> \in Due(agenda)'
    <3>1. id \in cs.removed
      BY <1>1, <1>5, <2>1 DEF Hears, Reported
    <3>2. PICK s : s = [name |-> "removed", ids |-> cs.removed]
      OBVIOUS
    <3>3. s \in Told /\ s.name = "removed" /\ s.ids = cs.removed
      BY <1>2, <3>2 DEF Told, ChangeSet, Signal
    <3>4. <<e, s>> \in Due(agenda)'
      BY <1>6, <3>1, <3>3 DEF Says
    <3> QED
      BY <3>1, <3>3, <3>4
  <2>4. ASSUME knownSelf[e] # m_selfContactId
        PROVE  \E s \in Told : s.name = "self" /\ <<e, s>> \in Due(agenda)'
    <3>1. cs.oldSelf # 0
      BY <1>1, <1>5, <2>1, <2>4 DEF Hears, Reported
    <3>2. PICK s : s = [name |-> "self", ids |-> {0}]
      OBVIOUS
    <3>3. s \in Told /\ s.name = "self" /\ s.ids = {0}
      BY <3>2 DEF Told
    <3>4. <<e, s>> \in Due(agenda)'
      BY <1>6, <1>8, <3>1, <3>3 DEF Says
    <3> QED
      BY <3>3, <3>4
  <2> QED
    BY <1>7, <2>2, <2>3, <2>4 DEF Hears
<1> QED
  BY <1>6, <1>7, <1>9, <1>10 DEF Informed

LEMMA beginInformed ==
    ASSUME Typed, Informed, RemoveBegins
    PROVE  Informed'
<1>1. PICK id, loop, cs, work : Begun(id, loop, cs, work)
  BY beginBegins
<1>2. m_contactIds' = m_contactIds
  BY <1>1, dropDrops, SameIds, Store DEF Begun, Typed
<1>3. PICK old \in Seq(Task) : old = <<work>> \o agenda
  BY <1>1 DEF Begun, Agenda
<1>4. work \in Task /\ work \notin Emission /\ work \notin Removal /\ agenda \in Seq(Task)
  BY <1>1, Kinds DEF Begun, Typed, Agenda
<1>5. Due(<<work>> \o agenda) = Due(agenda) /\ Loops(<<work>> \o agenda) = Loops(agenda)
  BY <1>4, DueAhead
<1>6. Quiet(cs) /\ agenda' = emitSharedSignals(cs) \o old
  BY <1>1, <1>3 DEF Begun
<1>7. UNCHANGED <<m_nextContactId, m_selfContactId, m_sharedEngines, known, knownSelf>>
  BY DEF RemoveBegins
<1> QED
  BY <1>2, <1>3, <1>5, <1>6, <1>7, InformedQuietly

LEMMA unknownInformed ==
    ASSUME Typed, Informed, RemoveUnknown
    PROVE  Informed'
<1>1. PICK loop, next : Passed(loop, next)
  BY unknownPasses
<1>2. PICK back \in Seq(Task) : back = Tail(agenda) /\ ToSet(agenda) = {loop} \cup ToSet(back)
  <2>1. Tail(agenda) \in Seq(Task) /\ ToSet(agenda) = {Head(agenda)} \cup ToSet(Tail(agenda))
    BY <1>1, HeadAndTail DEF Passed, Typed, Agenda
  <2> QED
    BY <1>1, <2>1 DEF Passed
<1>3. /\ loop \in Removal /\ next \in Removal /\ next \in Task /\ next \notin Emission
      /\ loop \notin Emission /\ next.cs = loop.cs
  BY <1>1, Kinds DEF Passed, Halfway
<1>4. Due(agenda) = Due(back) /\ Loops(agenda) = {loop} \cup Loops(back)
  BY <1>2, <1>3 DEF Due, Loops
<1>5. Due(<<next>> \o back) = Due(back) /\ Loops(<<next>> \o back) = {next} \cup Loops(back)
  BY <1>3, DueAhead
<1>6. Due(agenda)' = Due(back) /\ Loops(agenda)' = {next} \cup Loops(back)
  <2>1. agenda' = <<next>> \o back
    BY <1>1, <1>2 DEF Passed
  <2>2. Due(agenda)' = Due(<<next>> \o back) /\ Loops(agenda)' = Loops(<<next>> \o back)
    BY <2>1 DEF Due, Loops
  <2> QED
    BY <1>5, <2>2
<1>7. /\ m_contactIds' = m_contactIds
      /\ UNCHANGED <<m_nextContactId, m_selfContactId, m_sharedEngines, known, knownSelf>>
  BY DEF RemoveUnknown, store, m_contactIds
<1> QED
  BY <1>3, <1>4, <1>6, <1>7, InformedCarried

LEMMA removeInformed ==
    ASSUME Typed, Informed, NEW list \in Batches(Id), removeContacts(list)
    PROVE  Informed'
<1>1. PICK loop : Asked(loop, list)
  BY removeAsks
<1>2. loop \in Removal /\ loop \in Task /\ loop \notin Emission /\ loop.cs = EmptyChangeSet
  BY <1>1, Kinds DEF Asked
<1>3. Due(<<loop>> \o agenda) = Due(agenda) /\ Loops(<<loop>> \o agenda) = {loop} \cup Loops(agenda)
  BY <1>2, DueAhead DEF Typed, Agenda
<1>4. Due(agenda)' = Due(agenda) /\ Loops(agenda)' = {loop} \cup Loops(agenda)
  <2>1. agenda' = <<loop>> \o agenda
    BY <1>1 DEF Asked
  <2>2. Due(agenda)' = Due(<<loop>> \o agenda) /\ Loops(agenda)' = Loops(<<loop>> \o agenda)
    BY <2>1 DEF Due, Loops
  <2> QED
    BY <1>3, <2>2
<1>5. /\ m_contactIds' = m_contactIds
      /\ UNCHANGED <<m_nextContactId, m_selfContactId, m_sharedEngines, known, knownSelf>>
  BY DEF removeContacts, store, m_contactIds
<1> QED
  BY <1>2, <1>4, <1>5, InformedCarried

LEMMA InformedStep ==
    ASSUME SlotsTell
    PROVE  Typed /\ Identified /\ Orderly /\ Informed /\ [Next]_vars => Informed'
<1> SUFFICES ASSUME Typed, Identified, Orderly, Informed, [Next]_vars PROVE Informed'
  OBVIOUS
<1>0. agenda \in Seq(Task)
  BY DEF Typed, Agenda
<1>1. ASSUME NEW list \in Batches(Id \cup {0}), NEW copy \in Copy, saveContacts(list, copy)
      PROVE  Informed'
  <2>1. PICK n \in Nat, cs \in ChangeSet : Saved(n, cs, copy)
    BY <1>1, saveSaves DEF Typed
  <2> QED
    BY <1>1, <2>1, saveInformed DEF saveContacts
<1>2. ASSUME NEW first \in Participant(FirstUri), NEW second \in Participant(SecondUri),
             saveRelationship(first, second)
      PROVE  Informed'
  <2>1. PICK r, cs : Related(r, cs)
    BY <1>2, saveRelates DEF Typed
  <2>2. m_contactIds' = m_contactIds
    BY <2>1, SameIds DEF Related, Typed
  <2> QED
    BY <1>0, <1>2, <2>1, <2>2, InformedQuietly DEF Related, saveRelationship
<1>3. ASSUME NEW gone \in SUBSET m_relationships, removeRelationships(gone) PROVE Informed'
  <2>1. PICK cs : Quiet(cs) /\ RemovedSignals(gone) = emitSharedSignals(cs)
    BY RemovedIsQuiet DEF Typed
  <2>2. m_contactIds' = m_contactIds
    BY <1>3, dropDrops, SameIds DEF removeRelationships, Typed
  <2>3. agenda' = emitSharedSignals(cs) \o agenda
    BY <1>3, <2>1 DEF removeRelationships
  <2> QED
    BY <1>0, <1>3, <2>1, <2>2, <2>3, InformedQuietly DEF removeRelationships
<1>4. CASE UNCHANGED vars
  <2>1. Due(agenda)' = Due(agenda) /\ Loops(agenda)' = Loops(agenda)
    BY <1>4 DEF vars, Due, Loops
  <2> QED
    BY <1>4, <2>1, InformedCarried DEF vars, store, m_contactIds
<1> QED
  BY <1>1, <1>2, <1>3, <1>4, createInformed, destroyInformed, selfInformed, removeInformed,
     deliverInformed, unknownInformed, beginInformed, endInformed, doneInformed DEF Next

\* Between calls every observer of every engine that has followed the signals
\* knows the contacts and the self contact, when slots do no more than save and
\* relate contacts: however many signals of however many calls are nested, for
\* every engine they add up to what the store contains.
THEOREM ObserversAreInformed ==
    ASSUME SlotsTell
    PROVE  MemSpec => []ObserversKnow
<1>1. Init => Identified /\ Orderly /\ Informed
  <2>1. ToSet(<<>>) = {} /\ DOMAIN <<>> = {}
    BY DEF ToSet
  <2>2. Init => Informed
    BY <2>1, RestInforms DEF Init
  <2> QED
    BY <2>1, <2>2, OrderNone DEF Init, Identified, m_contactIds, Orderly
<1>2. SlotsDoNotRemove
  BY DEF SlotsTell, SlotsDoNotRemove
<1>3. Typed /\ Identified /\ Orderly /\ Informed /\ [Next]_vars
      => (Typed /\ Identified /\ Orderly /\ Informed)'
  BY <1>2, TypedStep, IdentifiedStep, OrderlyStep, InformedStep
<1>4. Typed /\ Informed => ObserversKnow
  <2> SUFFICES ASSUME Typed, Informed, agenda = <<>>, NEW e \in ToSet(m_sharedEngines)
               PROVE  known[e] = m_contactIds /\ knownSelf[e] = m_selfContactId
    BY DEF ObserversKnow
  <2>1. e \in Engine
    BY DEF ToSet, Typed, MemTypeOK
  <2>2. known[e] \subseteq Id
    BY <2>1 DEF Typed, MemTypeOK
  <2> QED
    BY <2>2, InformedAtRest
<1> QED
  BY <1>1, <1>3, <1>4, TypedInit, PTL DEF MemSpec
=============================================================================
