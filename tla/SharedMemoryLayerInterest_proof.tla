------------------- MODULE SharedMemoryLayerInterest_proof -------------------
(***************************************************************************)
(* Proofs about SharedMemoryLayerInterest for any processes, paths,        *)
(* publishers and queues: the server's counters and the requests under way *)
(* add up to the subscribers, no counter is ever negative, and publishers  *)
(* get to know whether anybody is interested.                              *)
(***************************************************************************)
EXTENDS SharedMemoryLayerInterest, FiniteSetTheorems, SequenceTheorems, TLAPS

\* How often r is among the first n requests of q.
Places(q, n, r) == {k \in 1 .. n : q[k] = r}
Times(q, n, r) == Cardinality(Places(q, n, r))

\* The two requests that change a counter.
Comes(p) == InterestOp(p, TRUE)
Goes(p) == InterestOp(p, FALSE)

\* A counter when n requests more of the queue have been served.
Level(count, q, p, n) ==
    count + Times(q, n, Comes(p)) - Times(q, n, Goes(p))

\* What a request does to the counter of its process at a path.
Effect(r, p) == IF r = Comes(p) THEN 1
                ELSE IF r = Goes(p) THEN -1 ELSE 0

CountTypes ==
    /\ subscribers \in [Process -> [Path -> 0 .. MaxInterest]]
    /\ pathsOfInterest \in [Path -> [Process -> 0 .. MaxInterest]]
    /\ toServer \in [Client -> Seq(Requests)]
    /\ connections \subseteq Client

\* However many requests of the queue have been served, the counter stays in its
\* range, and at the end it is the number of subscribers.
Agrees(count, q, p, number) ==
    /\ \A n \in 0 .. Len(q) : Level(count, q, p, n) \in 0 .. MaxInterest
    /\ Level(count, q, p, Len(q)) = number

LevelInv == \A c \in Client, p \in Path :
                Agrees(pathsOfInterest[p][c], toServer[c], p, subscribers[c][p])

ServerInv == \A p \in Path : pathsOfInterest[p][Server] = subscribers[Server][p]

CountInv == CountTypes /\ LevelInv /\ ServerInv

-----------------------------------------------------------------------------
(* Counting in queues.                                                     *)

LEMMA TimesFacts ==
    ASSUME NEW q, NEW n \in Nat, NEW r
    PROVE  IsFiniteSet(Places(q, n, r)) /\ Times(q, n, r) \in Nat
<1>1. IsFiniteSet(1 .. n)
  BY FS_Interval
<1>2. Places(q, n, r) \in SUBSET (1 .. n)
  BY DEF Places
<1> QED
  BY <1>1, <1>2, FS_Subset, FS_CardinalityType DEF Times

LEMMA TimesNone ==
    ASSUME NEW q, NEW r
    PROVE  Times(q, 0, r) = 0
<1>1. Places(q, 0, r) = {}
  BY DEF Places
<1> QED
  BY <1>1, FS_EmptySet DEF Times

LEMMA TimesNext ==
    ASSUME NEW q, NEW n \in Nat, NEW r
    PROVE  Times(q, n + 1, r) = Times(q, n, r) + IF q[n + 1] = r THEN 1 ELSE 0
<1>1. IsFiniteSet(Places(q, n, r)) /\ Times(q, n, r) \in Nat
  BY TimesFacts
<1>2. CASE q[n + 1] = r
  <2>1. Places(q, n + 1, r) = Places(q, n, r) \cup {n + 1}
    BY <1>2 DEF Places
  <2>2. n + 1 \notin Places(q, n, r)
    BY DEF Places
  <2> QED
    BY <1>1, <1>2, <2>1, <2>2, FS_AddElement DEF Times
<1>3. CASE q[n + 1] # r
  <2>1. Places(q, n + 1, r) = Places(q, n, r)
    BY <1>3 DEF Places
  <2> QED
    BY <1>1, <1>3, <2>1 DEF Times
<1> QED
  BY <1>2, <1>3

LEMMA TimesSame ==
    ASSUME NEW q, NEW s, NEW n \in Nat, NEW r, \A k \in 1 .. n : q[k] = s[k]
    PROVE  Times(q, n, r) = Times(s, n, r)
<1>1. Places(q, n, r) = Places(s, n, r)
  BY DEF Places
<1> QED
  BY <1>1 DEF Times

LEMMA TimesTail ==
    ASSUME NEW q, NEW t, NEW n \in Nat, NEW r, \A k \in 1 .. n : t[k] = q[k + 1]
    PROVE  Times(q, n + 1, r) = Times(t, n, r) + IF q[1] = r THEN 1 ELSE 0
<1> DEFINE S == Places(t, n, r)
           Shifted == {k \in 2 .. n + 1 : q[k] = r}
           f == [k \in S |-> k + 1]
<1>1. IsFiniteSet(S) /\ Cardinality(S) \in Nat
  BY TimesFacts DEF Times
<1>2. IsFiniteSet(Shifted) /\ Cardinality(Shifted) = Cardinality(S)
  <2>1. \A k \in S : k \in 1 .. n /\ t[k] = r
    BY DEF Places
  <2>2. \A k \in S : k + 1 \in Shifted
    BY <2>1
  <2>3. \A j \in Shifted : j - 1 \in S /\ (j - 1) + 1 = j
    BY DEF Places
  <2>4. \A k, l \in S : k + 1 = l + 1 => k = l
    BY <2>1
  <2> HIDE DEF S, Shifted
  <2>5. f \in Bijection(S, Shifted)
    <3>1. f \in [S -> Shifted]
      BY <2>2
    <3>2. f \in Injection(S, Shifted)
      BY <2>4, <3>1 DEF Injection, IsInjective
    <3>3. f \in Surjection(S, Shifted)
      BY <2>3, <3>1 DEF Surjection
    <3> QED
      BY <3>2, <3>3 DEF Bijection
  <2>6. ExistsBijection(S, Shifted)
    BY <2>5 DEF ExistsBijection
  <2> QED
    BY <1>1, <2>6, FS_Bijection
<1>3. CASE q[1] = r
  <2>1. Places(q, n + 1, r) = Shifted \cup {1}
    BY <1>3 DEF Places
  <2>2. 1 \notin Shifted
    OBVIOUS
  <2> HIDE DEF Shifted
  <2> QED
    BY <1>1, <1>2, <1>3, <2>1, <2>2, FS_AddElement DEF Times
<1>4. CASE q[1] # r
  <2>1. Places(q, n + 1, r) = Shifted
    BY <1>4 DEF Places
  <2> HIDE DEF Shifted
  <2> QED
    BY <1>1, <1>2, <1>4, <2>1 DEF Times
<1> QED
  BY <1>3, <1>4

Is(r, x) == IF r = x THEN 1 ELSE 0

LEMMA EffectOfBoth ==
    ASSUME NEW r, NEW p
    PROVE  /\ Is(r, Comes(p)) \in 0 .. 1 /\ Is(r, Goes(p)) \in 0 .. 1
           /\ Effect(r, p) = Is(r, Comes(p)) - Is(r, Goes(p))
<1>1. Comes(p) # Goes(p)
  <2>1. Comes(p).interested /\ ~Goes(p).interested
    BY DEF InterestOp, Comes, Goes
  <2> QED
    BY <2>1
<1>2. CASE r = Comes(p)
  <2>1. Is(r, Comes(p)) = 1 /\ Is(r, Goes(p)) = 0 /\ Effect(r, p) = 1
    BY <1>1, <1>2 DEF Effect, Is
  <2> QED
    BY <2>1
<1>3. CASE r = Goes(p)
  <2>1. Is(r, Comes(p)) = 0 /\ Is(r, Goes(p)) = 1 /\ Effect(r, p) = -1
    BY <1>1, <1>3 DEF Effect, Is
  <2> QED
    BY <2>1
<1>4. CASE r # Comes(p) /\ r # Goes(p)
  <2>1. Is(r, Comes(p)) = 0 /\ Is(r, Goes(p)) = 0 /\ Effect(r, p) = 0
    BY <1>4 DEF Effect, Is
  <2> QED
    BY <2>1
<1> QED
  BY <1>2, <1>3, <1>4

\* A request at the end of a queue.
LEMMA LevelAppend ==
    ASSUME NEW count \in Int, NEW q \in Seq(Requests), NEW r \in Requests, NEW p
    PROVE  /\ \A n \in 0 .. Len(q) :
                 Level(count, Append(q, r), p, n) = Level(count, q, p, n)
           /\ Level(count, Append(q, r), p, Len(q) + 1)
                  = Level(count, q, p, Len(q)) + Effect(r, p)
<1>1. PICK s \in Seq(Requests) :
          /\ s = Append(q, r) /\ Len(s) = Len(q) + 1 /\ s[Len(q) + 1] = r
          /\ \A k \in 1 .. Len(q) : s[k] = q[k]
  <2>1. /\ Append(q, r) \in Seq(Requests) /\ Len(Append(q, r)) = Len(q) + 1
        /\ Append(q, r)[Len(q) + 1] = r
        /\ \A k \in 1 .. Len(q) : Append(q, r)[k] = q[k]
    BY AppendProperties
  <2> QED
    BY <2>1
<1>2. ASSUME NEW n \in 0 .. Len(q), NEW x PROVE Times(s, n, x) = Times(q, n, x)
  <2>1. \A k \in 1 .. n : s[k] = q[k]
    BY <1>1
  <2> QED
    BY <2>1, TimesSame
<1>3. PICK m \in Nat : m = Len(q)
  OBVIOUS
<1>4. ASSUME NEW x
      PROVE  Times(s, m + 1, x) = Times(q, m, x) + Is(r, x)
  <2>1. Times(s, m + 1, x) = Times(s, m, x) + IF s[m + 1] = x THEN 1 ELSE 0
    BY TimesNext
  <2> QED
    BY <1>1, <1>2, <1>3, <2>1 DEF Is
<1>5. \A x : Times(q, m, x) \in Nat
  BY TimesFacts
<1>6. Level(count, s, p, m + 1) = Level(count, q, p, m) + Effect(r, p)
  <2>1. PICK yes \in Int, no \in Int :
            /\ yes = Is(r, Comes(p)) /\ no = Is(r, Goes(p))
            /\ Effect(r, p) = yes - no
    BY EffectOfBoth
  <2>2. PICK y \in Nat, z \in Nat :
            /\ y = Times(q, m, Comes(p)) /\ z = Times(q, m, Goes(p))
    BY <1>5
  <2>3. /\ Times(s, m + 1, Comes(p)) = y + yes
        /\ Times(s, m + 1, Goes(p)) = z + no
    BY <1>4, <2>1, <2>2
  <2>4. Level(count, s, p, m + 1) = count + (y + yes) - (z + no)
    BY <2>3 DEF Level
  <2>5. Level(count, q, p, m) = count + y - z
    BY <2>2 DEF Level
  <2> QED
    BY <2>1, <2>4, <2>5
<1> QED
  BY <1>1, <1>2, <1>3, <1>6 DEF Level

\* The first request of a queue has been served.
LEMMA LevelTail ==
    ASSUME NEW count \in Int, NEW q \in Seq(Requests), q # <<>>, NEW p
    PROVE  \A n \in 0 .. Len(q) - 1 :
               Level(count + Effect(Head(q), p), Tail(q), p, n) = Level(count, q, p, n + 1)
<1>1. PICK t \in Seq(Requests) :
          /\ t = Tail(q) /\ Len(t) = Len(q) - 1
          /\ \A k \in 1 .. Len(q) - 1 : t[k] = q[k + 1]
  <2>1. /\ Tail(q) \in Seq(Requests) /\ Len(Tail(q)) = Len(q) - 1
        /\ \A k \in 1 .. Len(q) - 1 : Tail(q)[k] = q[k + 1]
    OBVIOUS
  <2> QED
    BY <2>1
<1>2. PICK r : r = Head(q) /\ r = q[1]
  OBVIOUS
<1>3. SUFFICES ASSUME NEW n \in 0 .. Len(q) - 1
               PROVE  Level(count + Effect(r, p), t, p, n) = Level(count, q, p, n + 1)
  BY <1>1, <1>2
<1>4. n \in Nat /\ \A k \in 1 .. n : t[k] = q[k + 1]
  BY <1>1
<1>5. ASSUME NEW x
      PROVE  Times(q, n + 1, x) = Times(t, n, x) + Is(r, x)
  BY <1>2, <1>4, TimesTail DEF Is
<1>6. \A x : Times(t, n, x) \in Nat
  BY <1>4, TimesFacts
<1> QED
  <2>1. PICK yes \in Int, no \in Int :
            /\ yes = Is(r, Comes(p)) /\ no = Is(r, Goes(p))
            /\ Effect(r, p) = yes - no
    BY EffectOfBoth
  <2>2. PICK y \in Nat, z \in Nat :
            /\ y = Times(t, n, Comes(p)) /\ z = Times(t, n, Goes(p))
    BY <1>6
  <2>3. /\ Times(q, n + 1, Comes(p)) = y + yes
        /\ Times(q, n + 1, Goes(p)) = z + no
    BY <1>5, <2>1, <2>2
  <2>4. Level(count, q, p, n + 1) = count + (y + yes) - (z + no)
    BY <2>3 DEF Level
  <2>5. Level(count + Effect(r, p), t, p, n) = count + (yes - no) + y - z
    BY <2>1, <2>2 DEF Level
  <2> QED
    BY <2>4, <2>5

-----------------------------------------------------------------------------
(* What a request does to the counters.                                    *)

LEMMA RequestKinds ==
    ASSUME NEW r \in Requests
    PROVE  \/ \E x \in Path : r = Comes(x) \/ r = Goes(x)
           \/ \E op \in {"ADDWATCH", "REMWATCH"}, w \in Publisher : r = WatchOp(op, w)
<1>1. CASE r \in {InterestOp(p, yes) : p \in Path, yes \in BOOLEAN}
  <2>1. PICK x \in Path, yes \in BOOLEAN : r = InterestOp(x, yes)
    BY <1>1
  <2> QED
    BY <2>1 DEF Comes, Goes
<1>2. CASE r \in {WatchOp(op, w) : op \in {"ADDWATCH", "REMWATCH"}, w \in Publisher}
  BY <1>2
<1> QED
  BY <1>1, <1>2 DEF Requests

LEMMA RequestTypes ==
    /\ \A p \in Path : Comes(p) \in Requests /\ Goes(p) \in Requests
    /\ \A op \in {"ADDWATCH", "REMWATCH"}, w \in Publisher : WatchOp(op, w) \in Requests
<1>1. ASSUME NEW p \in Path, NEW yes \in BOOLEAN PROVE InterestOp(p, yes) \in Requests
  BY DEF Requests
<1>2. ASSUME NEW op \in {"ADDWATCH", "REMWATCH"}, NEW w \in Publisher
      PROVE  WatchOp(op, w) \in Requests
  BY DEF Requests
<1>3. TRUE \in BOOLEAN /\ FALSE \in BOOLEAN
  OBVIOUS
<1>4. ASSUME NEW p \in Path PROVE Comes(p) \in Requests /\ Goes(p) \in Requests
  BY <1>1, <1>3 DEF Comes, Goes
<1> QED
  BY <1>2, <1>4

LEMMA EffectFacts ==
    ASSUME NEW x, NEW p
    PROVE  /\ Effect(Comes(x), p) = IF x = p THEN 1 ELSE 0
           /\ Effect(Goes(x), p) = IF x = p THEN -1 ELSE 0
<1>1. /\ Comes(x).path = x /\ Goes(x).path = x /\ Comes(p).path = p /\ Goes(p).path = p
      /\ Comes(x).interested /\ Comes(p).interested
      /\ ~Goes(x).interested /\ ~Goes(p).interested
  BY DEF Comes, Goes, InterestOp
<1>2. Comes(x) # Goes(p) /\ Goes(x) # Comes(p)
  BY <1>1
<1>3. x # p => Comes(x) # Comes(p) /\ Goes(x) # Goes(p)
  BY <1>1
<1> QED
  BY <1>2, <1>3 DEF Effect

LEMMA EffectOfWatch ==
    ASSUME NEW op \in {"ADDWATCH", "REMWATCH"}, NEW w, NEW p
    PROVE  Effect(WatchOp(op, w), p) = 0
<1>1. WatchOp(op, w).op # "NOTIFY" /\ Comes(p).op = "NOTIFY" /\ Goes(p).op = "NOTIFY"
  BY DEF WatchOp, Comes, Goes, InterestOp
<1>2. WatchOp(op, w) # Comes(p) /\ WatchOp(op, w) # Goes(p)
  BY <1>1
<1> QED
  BY <1>2 DEF Effect

LEMMA EffectType ==
    ASSUME NEW r, NEW p
    PROVE  Effect(r, p) \in Int
  BY DEF Effect

LEMMA ServeStep ==
    ASSUME CountTypes, NEW queues, NEW a \in Process, NEW r \in Requests,
           Serve(queues, a, r)
    PROVE  /\ pathsOfInterest' \in [Path -> [Process -> Int]]
           /\ \A p \in Path, b \in Process :
                 pathsOfInterest'[p][b]
                     = pathsOfInterest[p][b] + (IF b = a THEN Effect(r, p) ELSE 0)
<1>1. pathsOfInterest \in [Path -> [Process -> Int]]
  <2>1. 0 .. MaxInterest \subseteq Int
    OBVIOUS
  <2> QED
    BY <2>1 DEF CountTypes
<1>2. ASSUME NEW x \in Path, r = Comes(x) \/ r = Goes(x)
      PROVE  /\ pathsOfInterest' \in [Path -> [Process -> Int]]
             /\ \A p \in Path, b \in Process :
                   pathsOfInterest'[p][b]
                       = pathsOfInterest[p][b] + (IF b = a THEN Effect(r, p) ELSE 0)
  <2>1. r.op = "NOTIFY" /\ r.path = x
    BY <1>2 DEF Comes, Goes, InterestOp
  <2>2. Recount(r.path, a, r.interested)
    BY <2>1 DEF Serve, doNotify
  <2>3. PICK d \in Int : /\ pathsOfInterest' = [pathsOfInterest EXCEPT ![x][a] = @ + d]
                         /\ d = Effect(r, x)
    <3>1. CASE r = Comes(x)
      <4>1. r.interested
        BY <3>1 DEF Comes, InterestOp
      <4>2. Effect(r, x) = 1
        BY <3>1, EffectFacts
      <4>3. pathsOfInterest' = [pathsOfInterest EXCEPT ![x][a] = @ + 1]
        BY <2>1, <2>2, <4>1 DEF Recount
      <4>4. 1 \in Int /\ 1 = Effect(r, x)
        BY <4>2
      <4> WITNESS 1 \in Int
      <4> QED
        BY <4>3, <4>4
    <3>2. CASE r = Goes(x)
      <4>1. ~r.interested
        BY <3>2 DEF Goes, InterestOp
      <4>2. Effect(r, x) = -1
        BY <3>2, EffectFacts
      <4>3. pathsOfInterest' = [pathsOfInterest EXCEPT ![x][a] = @ - 1]
        BY <2>1, <2>2, <4>1 DEF Recount
      <4>4. pathsOfInterest[x][a] - 1 = pathsOfInterest[x][a] + (-1)
        BY <1>1
      <4>5. pathsOfInterest' = [pathsOfInterest EXCEPT ![x][a] = @ + (-1)]
        BY <4>3, <4>4
      <4>6. -1 \in Int /\ -1 = Effect(r, x)
        BY <4>2
      <4> WITNESS -1 \in Int
      <4> QED
        BY <4>5, <4>6
    <3> QED
      BY <1>2, <3>1, <3>2
  <2>4. \A p \in Path : p # x => Effect(r, p) = 0
    BY <1>2, EffectFacts
  <2>5. pathsOfInterest' \in [Path -> [Process -> Int]]
    BY <1>1, <2>3
  <2>6. ASSUME NEW p \in Path, NEW b \in Process
        PROVE  pathsOfInterest'[p][b]
                   = pathsOfInterest[p][b] + (IF b = a THEN Effect(r, p) ELSE 0)
    <3>1. pathsOfInterest[p][b] \in Int
      BY <1>1
    <3>2. CASE p = x /\ b = a
      BY <1>1, <2>3, <3>2
    <3>3. CASE p # x \/ b # a
      <4>1. pathsOfInterest'[p][b] = pathsOfInterest[p][b]
        BY <1>1, <2>3, <3>3
      <4>2. (IF b = a THEN Effect(r, p) ELSE 0) = 0
        BY <2>4, <3>3
      <4> QED
        BY <3>1, <4>1, <4>2
    <3> QED
      BY <3>2, <3>3
  <2> QED
    BY <2>5, <2>6
<1>3. ASSUME NEW op \in {"ADDWATCH", "REMWATCH"}, NEW w \in Publisher, r = WatchOp(op, w)
      PROVE  /\ pathsOfInterest' \in [Path -> [Process -> Int]]
             /\ \A p \in Path, b \in Process :
                   pathsOfInterest'[p][b]
                       = pathsOfInterest[p][b] + (IF b = a THEN Effect(r, p) ELSE 0)
  <2>1. r.op = op
    BY <1>3 DEF WatchOp
  <2>2. pathsOfInterest' = pathsOfInterest
    BY <2>1 DEF Serve, doSetWatch, doRemWatch
  <2>3. \A p \in Path : Effect(r, p) = 0
    BY <1>3, EffectOfWatch
  <2>4. \A p \in Path, b \in Process :
            pathsOfInterest[p][b] \in Int /\ (IF b = a THEN Effect(r, p) ELSE 0) = 0
    BY <1>1, <2>3
  <2> QED
    BY <1>1, <2>2, <2>4
<1> QED
  BY <1>2, <1>3, RequestKinds

-----------------------------------------------------------------------------
(* One client, one path.                                                   *)

LEMMA AgreesAppend ==
    ASSUME NEW count \in Int, NEW q \in Seq(Requests), NEW r \in Requests, NEW p,
           NEW number \in Int, Agrees(count, q, p, number),
           number + Effect(r, p) \in 0 .. MaxInterest
    PROVE  Agrees(count, Append(q, r), p, number + Effect(r, p))
<1>1. PICK m \in Nat : m = Len(q)
  OBVIOUS
<1>2. PICK s \in Seq(Requests) : s = Append(q, r) /\ Len(s) = m + 1
  <2>1. Append(q, r) \in Seq(Requests) /\ Len(Append(q, r)) = Len(q) + 1
    BY AppendProperties
  <2> QED
    BY <1>1, <2>1
<1>3. /\ \A n \in 0 .. m : Level(count, s, p, n) = Level(count, q, p, n)
      /\ Level(count, s, p, m + 1) = Level(count, q, p, m) + Effect(r, p)
  BY <1>1, <1>2, LevelAppend
<1>4. /\ \A n \in 0 .. m : Level(count, q, p, n) \in 0 .. MaxInterest
      /\ Level(count, q, p, m) = number
  BY <1>1 DEF Agrees
<1>5. Level(count, s, p, m + 1) = number + Effect(r, p)
  BY <1>3, <1>4
<1>6. ASSUME NEW n \in 0 .. m + 1 PROVE Level(count, s, p, n) \in 0 .. MaxInterest
  <2>1. CASE n \in 0 .. m
    BY <1>3, <1>4, <2>1
  <2>2. CASE n = m + 1
    BY <1>5, <2>2
  <2> QED
    BY <2>1, <2>2
<1> QED
  BY <1>2, <1>5, <1>6 DEF Agrees

LEMMA AgreesTail ==
    ASSUME NEW count \in Int, NEW q \in Seq(Requests), q # <<>>, NEW p,
           NEW number \in Int, Agrees(count, q, p, number)
    PROVE  /\ Agrees(count + Effect(Head(q), p), Tail(q), p, number)
           /\ count + Effect(Head(q), p) \in 0 .. MaxInterest
<1>1. PICK m \in Nat : Len(q) = m + 1
  <2>1. Len(q) \in Nat \ {0}
    OBVIOUS
  <2>2. Len(q) - 1 \in Nat /\ Len(q) = (Len(q) - 1) + 1
    BY <2>1
  <2> QED
    BY <2>2
<1>2. PICK t \in Seq(Requests) : t = Tail(q) /\ Len(t) = m
  <2>1. Tail(q) \in Seq(Requests) /\ Len(Tail(q)) = Len(q) - 1
    OBVIOUS
  <2>2. Len(q) - 1 = m
    BY <1>1
  <2> QED
    BY <2>1, <2>2
<1>3. PICK d \in Int : d = count + Effect(Head(q), p)
  BY EffectType
<1>4. \A n \in 0 .. m : Level(d, t, p, n) = Level(count, q, p, n + 1)
  <2>1. \A n \in 0 .. Len(q) - 1 :
            Level(count + Effect(Head(q), p), Tail(q), p, n) = Level(count, q, p, n + 1)
    BY LevelTail
  <2>2. Len(q) - 1 = m
    BY <1>1
  <2> QED
    BY <1>2, <1>3, <2>1, <2>2
<1>5. /\ \A n \in 0 .. m + 1 : Level(count, q, p, n) \in 0 .. MaxInterest
      /\ Level(count, q, p, m + 1) = number
  BY <1>1 DEF Agrees
<1>6. \A n \in 0 .. m : n + 1 \in 0 .. m + 1
  OBVIOUS
<1>7. Agrees(d, t, p, number)
  <2>1. m \in 0 .. m
    OBVIOUS
  <2> QED
    BY <1>2, <1>4, <1>5, <1>6, <2>1 DEF Agrees
<1>8. d \in 0 .. MaxInterest
  <2>1. Level(d, t, p, 0) = d
    BY TimesNone DEF Level
  <2>2. 0 \in 0 .. m
    OBVIOUS
  <2> QED
    BY <1>4, <1>5, <1>6, <2>1, <2>2
<1> QED
  BY <1>2, <1>3, <1>7, <1>8

LEMMA AgreesEmpty ==
    ASSUME NEW p
    PROVE  Agrees(0, <<>>, p, 0)
<1>1. Level(0, <<>>, p, 0) = 0
  BY TimesNone DEF Level
<1>2. Len(<<>>) = 0 /\ 0 .. 0 = {0} /\ MaxInterest \in Nat
  BY InterestAssumption
<1>3. 0 \in 0 .. MaxInterest
  BY <1>2
<1> QED
  BY <1>1, <1>2, <1>3 DEF Agrees

LEMMA InRange ==
    ASSUME NEW f \in [Path -> [Process -> Int]],
           \A p \in Path, b \in Process : f[p][b] \in 0 .. MaxInterest
    PROVE  f \in [Path -> [Process -> 0 .. MaxInterest]]
<1>1. \A p \in Path : f[p] \in [Process -> 0 .. MaxInterest]
  OBVIOUS
<1> QED
  BY <1>1

-----------------------------------------------------------------------------
(* Every step.                                                             *)

LEMMA CallStep ==
    ASSUME CountInv, NEW a \in Process, NEW r \in Requests, Call(a, r),
           subscribers' \in [Process -> [Path -> 0 .. MaxInterest]],
           \A b \in Process, p \in Path :
               subscribers'[b][p] = subscribers[b][p] + (IF b = a THEN Effect(r, p) ELSE 0),
           connections' = connections
    PROVE  CountInv'
<1>1. /\ CountTypes /\ MaxInterest \in Nat /\ Server \in Process /\ Server \notin Client
      /\ Client \subseteq Process /\ Process = Client \cup {Server}
      /\ \A b \in Process, p \in Path : /\ subscribers[b][p] \in 0 .. MaxInterest
                                        /\ subscribers'[b][p] \in 0 .. MaxInterest
                                        /\ pathsOfInterest[p][b] \in 0 .. MaxInterest
  BY InterestAssumption DEF CountInv, CountTypes, Process
<1>2. CASE a = Server
  <2>1. Serve(toClient, a, r) /\ toServer' = toServer
    BY <1>2 DEF Call
  <2>2. /\ pathsOfInterest' \in [Path -> [Process -> Int]]
        /\ \A p \in Path, b \in Process :
              pathsOfInterest'[p][b]
                  = pathsOfInterest[p][b] + (IF b = a THEN Effect(r, p) ELSE 0)
    <3>1. CountTypes
      BY <1>1
    <3> QED
      BY <2>1, <3>1, ServeStep
  <2>3. ServerInv'
    BY <1>1, <1>2, <2>2 DEF CountInv, ServerInv
  <2>4. \A c \in Client, p \in Path : /\ pathsOfInterest'[p][c] = pathsOfInterest[p][c]
                                      /\ subscribers'[c][p] = subscribers[c][p]
    <3>1. ASSUME NEW c \in Client, NEW p \in Path
          PROVE  /\ pathsOfInterest'[p][c] = pathsOfInterest[p][c]
                 /\ subscribers'[c][p] = subscribers[c][p]
      <4>1. c # a /\ c \in Process
        BY <1>1, <1>2
      <4>2. /\ pathsOfInterest'[p][c] = pathsOfInterest[p][c] + 0
            /\ subscribers'[c][p] = subscribers[c][p] + 0
        BY <2>2, <4>1
      <4>3. pathsOfInterest[p][c] \in Int /\ subscribers[c][p] \in Int
        BY <1>1, <4>1
      <4> QED
        BY <4>2, <4>3
    <3> QED
      BY <3>1
  <2>5. LevelInv'
    BY <2>1, <2>4 DEF CountInv, LevelInv
  <2>6. \A p \in Path, b \in Process : pathsOfInterest'[p][b] \in 0 .. MaxInterest
    <3>1. ASSUME NEW p \in Path, NEW b \in Process
          PROVE  pathsOfInterest'[p][b] \in 0 .. MaxInterest
      <4>1. CASE b = Server
        BY <1>1, <2>3, <4>1 DEF ServerInv
      <4>2. CASE b \in Client
        BY <1>1, <2>4, <4>2
      <4> QED
        BY <1>1, <4>1, <4>2
    <3> QED
      BY <3>1
  <2>7. CountTypes'
    <3>1. pathsOfInterest' \in [Path -> [Process -> 0 .. MaxInterest]]
      BY <2>2, <2>6, InRange
    <3> QED
      BY <1>1, <2>1, <3>1 DEF CountTypes
  <2> QED
    BY <2>3, <2>5, <2>7 DEF CountInv
<1>3. CASE a # Server
  <2>1. /\ a \in Client /\ pathsOfInterest' = pathsOfInterest
        /\ toServer' = [toServer EXCEPT ![a] = Append(@, r)]
    BY <1>1, <1>3 DEF Call
  <2>2. toServer \in [Client -> Seq(Requests)]
    BY <1>1 DEF CountTypes
  <2>3. PICK q \in Seq(Requests) : q = toServer[a]
    BY <2>1, <2>2
  <2>4. /\ toServer'[a] = Append(q, r) /\ Append(q, r) \in Seq(Requests)
        /\ \A c \in Client : c # a => toServer'[c] = toServer[c]
    BY <2>1, <2>2, <2>3, AppendProperties
  <2>5. CountTypes'
    <3>1. toServer' \in [Client -> Seq(Requests)]
      BY <2>1, <2>2, <2>3, <2>4
    <3> QED
      BY <1>1, <2>1, <3>1 DEF CountTypes
  <2>6. ASSUME NEW b \in Process, NEW p \in Path, b # a
        PROVE  subscribers'[b][p] = subscribers[b][p]
    <3>1. subscribers'[b][p] = subscribers[b][p] + 0
      BY <2>6
    <3>2. subscribers[b][p] \in Int
      BY <1>1
    <3> QED
      BY <3>1, <3>2
  <2>7. ServerInv'
    BY <1>1, <1>3, <2>1, <2>6 DEF CountInv, ServerInv
  <2>8. ASSUME NEW c \in Client, NEW p \in Path
        PROVE  Agrees(pathsOfInterest'[p][c], toServer'[c], p, subscribers'[c][p])
    <3>1. Agrees(pathsOfInterest[p][c], toServer[c], p, subscribers[c][p])
      BY DEF CountInv, LevelInv
    <3>2. CASE c = a
      <4>1. PICK count \in Int, number \in Int :
                count = pathsOfInterest[p][c] /\ number = subscribers[c][p]
        <5>1. pathsOfInterest[p][c] \in Int /\ subscribers[c][p] \in Int
          BY <1>1
        <5> QED
          BY <5>1
      <4>2. subscribers'[c][p] = number + Effect(r, p)
        BY <1>1, <3>2, <4>1
      <4>3. number + Effect(r, p) \in 0 .. MaxInterest
        BY <1>1, <4>2
      <4>4. Agrees(count, q, p, number)
        BY <2>3, <3>1, <3>2, <4>1
      <4>5. Agrees(count, Append(q, r), p, number + Effect(r, p))
        BY <4>3, <4>4, AgreesAppend
      <4> QED
        BY <2>1, <2>4, <3>2, <4>1, <4>2, <4>5
    <3>3. CASE c # a
      BY <1>1, <2>1, <2>4, <2>6, <3>1, <3>3
    <3> QED
      BY <3>2, <3>3
  <2> QED
    BY <2>5, <2>7, <2>8 DEF CountInv, LevelInv
<1> QED
  BY <1>2, <1>3

LEMMA SubscribeStep ==
    ASSUME CountInv, NEW a \in Process, NEW p \in Path,
           subscribe(a, p) \/ unsubscribe(a, p)
    PROVE  CountInv'
<1>1. /\ subscribers \in [Process -> [Path -> 0 .. MaxInterest]] /\ MaxInterest \in Nat
  BY InterestAssumption DEF CountInv, CountTypes
<1>2. PICK r \in Requests, d \in Int :
          /\ Call(a, r) /\ connections' = connections
          /\ subscribers' = [subscribers EXCEPT ![a][p] = @ + d]
          /\ subscribers[a][p] + d \in 0 .. MaxInterest
          /\ \A x : Effect(r, x) = IF p = x THEN d ELSE 0
  <2>1. CASE subscribe(a, p)
    <3>1. /\ Call(a, Comes(p)) /\ connections' = connections
          /\ subscribers' = [subscribers EXCEPT ![a][p] = @ + 1]
          /\ subscribers[a][p] < MaxInterest
      BY <2>1 DEF subscribe, Comes
    <3>2. subscribers[a][p] + 1 \in 0 .. MaxInterest
      BY <1>1, <3>1
    <3>3. Comes(p) \in Requests /\ \A x : Effect(Comes(p), x) = IF p = x THEN 1 ELSE 0
      BY RequestTypes, EffectFacts
    <3>4. PICK q \in Requests : q = Comes(p)
      BY <3>3
    <3> WITNESS q \in Requests, 1 \in Int
    <3> QED
      BY <3>1, <3>2, <3>3, <3>4
  <2>2. CASE unsubscribe(a, p)
    <3>1. /\ Call(a, Goes(p)) /\ connections' = connections
          /\ subscribers' = [subscribers EXCEPT ![a][p] = @ - 1]
          /\ subscribers[a][p] > 0
      BY <2>2 DEF unsubscribe, Goes
    <3>2. subscribers[a][p] - 1 = subscribers[a][p] + (-1)
      BY <1>1
    <3>3. subscribers[a][p] + (-1) \in 0 .. MaxInterest
      BY <1>1, <3>1
    <3>4. subscribers' = [subscribers EXCEPT ![a][p] = @ + (-1)]
      BY <3>1, <3>2
    <3>5. Goes(p) \in Requests /\ \A x : Effect(Goes(p), x) = IF p = x THEN -1 ELSE 0
      BY RequestTypes, EffectFacts
    <3>6. PICK q \in Requests : q = Goes(p)
      BY <3>5
    <3> WITNESS q \in Requests, -1 \in Int
    <3> QED
      BY <3>1, <3>3, <3>4, <3>5, <3>6
  <2> QED
    BY <2>1, <2>2
<1>3. subscribers' \in [Process -> [Path -> 0 .. MaxInterest]]
  BY <1>1, <1>2
<1>4. ASSUME NEW b \in Process, NEW x \in Path
      PROVE  subscribers'[b][x] = subscribers[b][x] + (IF b = a THEN Effect(r, x) ELSE 0)
  <2>1. subscribers[b][x] \in Int
    BY <1>1
  <2>2. CASE b = a /\ x = p
    BY <1>1, <1>2, <2>2
  <2>3. CASE b # a \/ x # p
    <3>1. subscribers'[b][x] = subscribers[b][x]
      BY <1>1, <1>2, <2>3
    <3>2. (IF b = a THEN Effect(r, x) ELSE 0) = 0
      BY <1>2, <2>3
    <3> QED
      BY <2>1, <3>1, <3>2
  <2> QED
    BY <2>2, <2>3
<1> QED
  BY <1>2, <1>3, <1>4, CallStep

LEMMA WatchStep ==
    ASSUME CountInv, NEW w \in Publisher, addWatch(w) \/ removeWatches(w)
    PROVE  CountInv'
<1>1. /\ subscribers \in [Process -> [Path -> 0 .. MaxInterest]]
      /\ ProcessOf[w] \in Process
  BY InterestAssumption DEF CountInv, CountTypes
<1>2. PICK op \in {"ADDWATCH", "REMWATCH"} :
          /\ Call(ProcessOf[w], WatchOp(op, w))
          /\ connections' = connections /\ subscribers' = subscribers
  BY DEF addWatch, removeWatches
<1>3. PICK r \in Requests : r = WatchOp(op, w)
  BY RequestTypes
<1>4. \A b \in Process, x \in Path :
          subscribers'[b][x]
              = subscribers[b][x] + (IF b = ProcessOf[w] THEN Effect(r, x) ELSE 0)
  <2>1. ASSUME NEW b \in Process, NEW x \in Path
        PROVE  subscribers'[b][x]
                   = subscribers[b][x] + (IF b = ProcessOf[w] THEN Effect(r, x) ELSE 0)
    <3>1. Effect(r, x) = 0
      BY <1>3, EffectOfWatch
    <3>2. subscribers[b][x] \in Int
      BY <1>1
    <3> QED
      BY <1>2, <3>1, <3>2
  <2> QED
    BY <2>1
<1> QED
  BY <1>1, <1>2, <1>3, <1>4, CallStep

LEMMA ServedStep ==
    ASSUME CountInv, NEW c \in Client, ServerReadyRead(c)
    PROVE  CountInv'
<1>1. /\ CountTypes /\ MaxInterest \in Nat /\ Server \notin Client
      /\ c \in Process /\ Process = Client \cup {Server}
      /\ toServer \in [Client -> Seq(Requests)]
      /\ \A b \in Process, p \in Path : /\ subscribers[b][p] \in 0 .. MaxInterest
                                        /\ pathsOfInterest[p][b] \in 0 .. MaxInterest
  BY InterestAssumption DEF CountInv, CountTypes, Process
<1>2. PICK q \in Seq(Requests) : q = toServer[c] /\ q # <<>>
  BY <1>1 DEF ServerReadyRead
<1>3. Tail(q) \in Seq(Requests) /\ Head(q) \in Requests
  BY <1>2
<1>4. /\ toServer' = [toServer EXCEPT ![c] = Tail(@)]
      /\ UNCHANGED <<subscribers, connections>>
      /\ Serve(toClient, c, Head(q))
  BY <1>2 DEF ServerReadyRead
<1>5. /\ pathsOfInterest' \in [Path -> [Process -> Int]]
      /\ \A p \in Path, b \in Process :
            pathsOfInterest'[p][b]
                = pathsOfInterest[p][b] + (IF b = c THEN Effect(Head(q), p) ELSE 0)
  <2>1. CountTypes /\ c \in Process
    BY <1>1
  <2> QED
    BY <1>3, <1>4, <2>1, ServeStep
<1>6. ASSUME NEW p \in Path, NEW b \in Process, b # c
      PROVE  pathsOfInterest'[p][b] = pathsOfInterest[p][b]
  <2>1. pathsOfInterest'[p][b] = pathsOfInterest[p][b] + 0
    BY <1>5, <1>6
  <2>2. pathsOfInterest[p][b] \in Int
    BY <1>1
  <2> QED
    BY <2>1, <2>2
<1>7. ASSUME NEW p \in Path
      PROVE  /\ Agrees(pathsOfInterest'[p][c], toServer'[c], p, subscribers[c][p])
             /\ pathsOfInterest'[p][c] \in 0 .. MaxInterest
  <2>1. PICK count \in Int, number \in Int :
            count = pathsOfInterest[p][c] /\ number = subscribers[c][p]
    <3>1. pathsOfInterest[p][c] \in Int /\ subscribers[c][p] \in Int
      BY <1>1
    <3> QED
      BY <3>1
  <2>2. Agrees(count, q, p, number)
    BY <1>2, <2>1 DEF CountInv, LevelInv
  <2>3. /\ Agrees(count + Effect(Head(q), p), Tail(q), p, number)
        /\ count + Effect(Head(q), p) \in 0 .. MaxInterest
    BY <1>2, <2>2, AgreesTail
  <2>4. pathsOfInterest'[p][c] = count + Effect(Head(q), p)
    BY <1>1, <1>5, <2>1
  <2>5. toServer'[c] = Tail(q)
    BY <1>1, <1>2, <1>4
  <2> QED
    BY <2>1, <2>3, <2>4, <2>5
<1>8. LevelInv'
  <2>1. ASSUME NEW d \in Client, NEW p \in Path
        PROVE  Agrees(pathsOfInterest'[p][d], toServer'[d], p, subscribers'[d][p])
    <3>1. CASE d = c
      BY <1>4, <1>7, <3>1
    <3>2. CASE d # c
      <4>1. d \in Process /\ toServer'[d] = toServer[d]
        BY <1>1, <1>4, <3>2
      <4>2. Agrees(pathsOfInterest[p][d], toServer[d], p, subscribers[d][p])
        BY DEF CountInv, LevelInv
      <4> QED
        BY <1>4, <1>6, <3>2, <4>1, <4>2
    <3> QED
      BY <3>1, <3>2
  <2> QED
    BY <2>1 DEF LevelInv
<1>9. ServerInv'
  BY <1>1, <1>4, <1>6 DEF CountInv, ServerInv
<1>10. CountTypes'
  <2>1. \A p \in Path, b \in Process : pathsOfInterest'[p][b] \in 0 .. MaxInterest
    BY <1>1, <1>6, <1>7
  <2>2. pathsOfInterest' \in [Path -> [Process -> 0 .. MaxInterest]]
    BY <1>5, <2>1, InRange
  <2>3. toServer' \in [Client -> Seq(Requests)]
    BY <1>1, <1>2, <1>3, <1>4
  <2> QED
    BY <1>1, <1>4, <2>2, <2>3 DEF CountTypes
<1> QED
  BY <1>8, <1>9, <1>10 DEF CountInv

LEMMA DisconnectedStep ==
    ASSUME CountInv, NEW c \in Client, disconnected(c)
    PROVE  CountInv'
<1>1. /\ CountTypes /\ MaxInterest \in Nat /\ Server \notin Client
      /\ c \in Process /\ Process = Client \cup {Server} /\ 0 \in 0 .. MaxInterest
      /\ subscribers \in [Process -> [Path -> 0 .. MaxInterest]]
      /\ pathsOfInterest \in [Path -> [Process -> 0 .. MaxInterest]]
      /\ toServer \in [Client -> Seq(Requests)]
      /\ connections \subseteq Client
  <2>1. MaxInterest \in Nat /\ Server \notin Client
    BY InterestAssumption
  <2>2. 0 \in 0 .. MaxInterest
    BY <2>1
  <2> QED
    BY <2>1, <2>2 DEF CountInv, CountTypes, Process
<1>2. /\ connections' = connections \ {c}
      /\ pathsOfInterest' = [p \in Path |-> [pathsOfInterest[p] EXCEPT ![c] = 0]]
      /\ toServer' = [toServer EXCEPT ![c] = <<>>]
      /\ subscribers' = [subscribers EXCEPT ![c] = [p \in Path |-> 0]]
  BY DEF disconnected
<1>3. CountTypes'
  <2>1. [p \in Path |-> 0] \in [Path -> 0 .. MaxInterest]
    BY <1>1
  <2>2. subscribers' \in [Process -> [Path -> 0 .. MaxInterest]]
    BY <1>1, <1>2, <2>1
  <2>3. ASSUME NEW p \in Path
        PROVE  [pathsOfInterest[p] EXCEPT ![c] = 0] \in [Process -> 0 .. MaxInterest]
    BY <1>1
  <2>4. pathsOfInterest' \in [Path -> [Process -> 0 .. MaxInterest]]
    BY <1>2, <2>3
  <2>5. <<>> \in Seq(Requests)
    OBVIOUS
  <2>6. toServer' \in [Client -> Seq(Requests)]
    BY <1>1, <1>2, <2>5
  <2> QED
    BY <1>1, <1>2, <2>2, <2>4, <2>6 DEF CountTypes
<1>4. ASSUME NEW d \in Client, NEW p \in Path
      PROVE  Agrees(pathsOfInterest'[p][d], toServer'[d], p, subscribers'[d][p])
  <2>1. CASE d = c
    <3>1. pathsOfInterest'[p][d] = 0 /\ toServer'[d] = <<>> /\ subscribers'[d][p] = 0
      BY <1>1, <1>2, <2>1
    <3> QED
      BY <3>1, AgreesEmpty
  <2>2. CASE d # c
    <3>1. /\ pathsOfInterest'[p][d] = pathsOfInterest[p][d]
          /\ toServer'[d] = toServer[d] /\ subscribers'[d][p] = subscribers[d][p]
      BY <1>1, <1>2, <2>2
    <3>2. Agrees(pathsOfInterest[p][d], toServer[d], p, subscribers[d][p])
      BY DEF CountInv, LevelInv
    <3> QED
      BY <3>1, <3>2
  <2> QED
    BY <2>1, <2>2
<1>5. ServerInv'
  <2>1. \A p \in Path : /\ pathsOfInterest'[p][Server] = pathsOfInterest[p][Server]
                        /\ subscribers'[Server][p] = subscribers[Server][p]
    BY <1>1, <1>2
  <2> QED
    BY <2>1 DEF CountInv, ServerInv
<1> QED
  BY <1>3, <1>4, <1>5 DEF CountInv, LevelInv

LEMMA CountStart == InterestInit => CountInv
<1> SUFFICES ASSUME InterestInit PROVE CountInv
  OBVIOUS
<1>1. /\ subscribers = [a \in Process |-> [p \in Path |-> 0]]
      /\ pathsOfInterest = [p \in Path |-> [a \in Process |-> 0]]
      /\ toServer = [c \in Client |-> <<>>] /\ connections = Client
      /\ 0 \in 0 .. MaxInterest /\ Client \subseteq Process /\ Server \in Process
  BY InterestAssumption DEF InterestInit, Process
<1>2. <<>> \in Seq(Requests)
  OBVIOUS
<1>3. CountTypes
  BY <1>1, <1>2 DEF CountTypes
<1>4. ServerInv
  BY <1>1 DEF ServerInv
<1>5. ASSUME NEW c \in Client, NEW p \in Path
      PROVE  Agrees(pathsOfInterest[p][c], toServer[c], p, subscribers[c][p])
  <2>1. pathsOfInterest[p][c] = 0 /\ toServer[c] = <<>> /\ subscribers[c][p] = 0
    BY <1>1
  <2> QED
    BY <2>1, AgreesEmpty
<1> QED
  BY <1>3, <1>4, <1>5 DEF CountInv, LevelInv

LEMMA CountStays == CountInv /\ [InterestNext]_ivars => CountInv'
<1> SUFFICES ASSUME CountInv, [InterestNext]_ivars PROVE CountInv'
  OBVIOUS
<1>1. ASSUME NEW a \in Process, NEW p \in Path, subscribe(a, p) \/ unsubscribe(a, p)
      PROVE  CountInv'
  BY <1>1, SubscribeStep
<1>2. ASSUME NEW w \in Publisher, addWatch(w) \/ removeWatches(w) PROVE CountInv'
  BY <1>2, WatchStep
<1>3. ASSUME NEW c \in Client, ServerReadyRead(c) PROVE CountInv'
  BY <1>3, ServedStep
<1>4. ASSUME UNCHANGED <<subscribers, pathsOfInterest, toServer, connections>>
      PROVE  CountInv'
  BY <1>4 DEF CountInv, CountTypes, LevelInv, ServerInv
<1>5. ASSUME NEW c \in Client, ClientReadyRead(c) PROVE CountInv'
  BY <1>4, <1>5 DEF ClientReadyRead
<1>6. ASSUME NEW c \in Client, disconnected(c) PROVE CountInv'
  BY <1>6, DisconnectedStep
<1>7. ASSUME UNCHANGED ivars PROVE CountInv'
  BY <1>4, <1>7 DEF ivars
<1> QED
  BY <1>1, <1>2, <1>3, <1>5, <1>6, <1>7 DEF InterestNext

\* No counter is negative or above the number of subscribers there can be.
CountsInRange ==
    \A p \in Path, a \in Process : pathsOfInterest[p][a] \in 0 .. MaxInterest

\* At rest each counter is the number of subscribers of its process.
ExactAtRest ==
    Settled => \A p \in Path, a \in connections \cup {Server} :
                   pathsOfInterest[p][a] = subscribers[a][p]

-----------------------------------------------------------------------------
\* Whatever notifications, registrations and disconnections cross, the counters of
\* the server and the requests under way add up to the subscribers that exist.
THEOREM InterestCountedHolds == InterestSpec => []InterestCounted
<1>1. CountInv => InterestCounted
  <2> SUFFICES ASSUME CountInv, NEW p \in Path
               PROVE  /\ pathsOfInterest[p][Server] = subscribers[Server][p]
                      /\ \A c \in Client : pathsOfInterest[p][c] + Pending(c, p, TRUE)
                                               = subscribers[c][p] + Pending(c, p, FALSE)
    BY DEF InterestCounted
  <2>1. pathsOfInterest[p][Server] = subscribers[Server][p]
    BY DEF CountInv, ServerInv
  <2>2. ASSUME NEW c \in Client
        PROVE  pathsOfInterest[p][c] + Pending(c, p, TRUE)
                   = subscribers[c][p] + Pending(c, p, FALSE)
    <3>1. PICK q \in Seq(Requests) : q = toServer[c]
      BY DEF CountInv, CountTypes
    <3>2. /\ Pending(c, p, TRUE) = Times(q, Len(q), Comes(p))
          /\ Pending(c, p, FALSE) = Times(q, Len(q), Goes(p))
      BY <3>1 DEF Pending, Times, Places, Comes, Goes
    <3>3. PICK m \in Nat : m = Len(q)
      OBVIOUS
    <3>4. PICK y \in Nat, z \in Nat : y = Times(q, m, Comes(p)) /\ z = Times(q, m, Goes(p))
      BY TimesFacts
    <3>5. PICK count \in Int : count = pathsOfInterest[p][c]
      BY DEF CountInv, CountTypes, Process
    <3>6. subscribers[c][p] = count + y - z
      BY <3>1, <3>3, <3>4, <3>5 DEF CountInv, LevelInv, Agrees, Level
    <3>7. Pending(c, p, TRUE) = y /\ Pending(c, p, FALSE) = z
      BY <3>2, <3>3, <3>4
    <3>8. count + y = (count + y - z) + z
      OBVIOUS
    <3> QED
      BY <3>5, <3>6, <3>7, <3>8
  <2> QED
    BY <2>1, <2>2
<1> QED
  BY <1>1, CountStart, CountStays, PTL DEF InterestSpec

\* The server decrements a counter only for a subscriber that it has counted, in
\* whatever order the requests of several processes arrive.
THEOREM CountersStayInRange == InterestSpec => []CountsInRange
<1>1. CountInv => CountsInRange
  BY DEF CountInv, CountTypes, CountsInRange
<1> QED
  BY <1>1, CountStart, CountStays, PTL DEF InterestSpec

\* When nothing is under way the server has counted every connected process right.
THEOREM CountersExactAtRest == InterestSpec => []ExactAtRest
<1>1. CountInv => ExactAtRest
  <2> SUFFICES ASSUME CountInv, Settled, NEW p \in Path, NEW a \in connections \cup {Server}
               PROVE  pathsOfInterest[p][a] = subscribers[a][p]
    BY DEF ExactAtRest
  <2>1. CASE a = Server
    BY <2>1 DEF CountInv, ServerInv
  <2>2. CASE a \in connections
    <3>1. a \in Client /\ toServer[a] = <<>>
      BY <2>2 DEF CountInv, CountTypes, Settled
    <3>2. PICK count \in Int : count = pathsOfInterest[p][a]
      BY <3>1 DEF CountInv, CountTypes, Process
    <3>3. Level(count, <<>>, p, 0) = count
      BY TimesNone DEF Level
    <3>4. Agrees(count, <<>>, p, subscribers[a][p])
      BY <3>1, <3>2 DEF CountInv, LevelInv
    <3> QED
      BY <3>2, <3>3, <3>4 DEF Agrees
  <2> QED
    BY <2>1, <2>2
<1> QED
  BY <1>1, CountStart, CountStays, PTL DEF InterestSpec
-----------------------------------------------------------------------------
(* What publishers know.                                                   *)

Notices == {Told(w, p, yes) : w \in Publisher, p \in Path, yes \in BOOLEAN}

About(n, w, p) == n.watch = w /\ n.path = p

\* Who believes b, and takes the notices of q, will at last have heard v of p.
HearsLast(b, q, w, p, v) ==
    \/ /\ b = v
       /\ \A k \in 1 .. Len(q) : ~About(q[k], w, p)
    \/ \E k \in 1 .. Len(q) :
          /\ About(q[k], w, p) /\ q[k].interested = v
          /\ \A j \in k + 1 .. Len(q) : ~About(q[j], w, p)

\* The notices under way to the process of a publisher.
Post(queues, w) == IF ProcessOf[w] = Server THEN <<>> ELSE queues[ProcessOf[w]]

WillHear(w, p, v) == HearsLast(belief[w][p], Post(toClient, w), w, p, v)

Wanted(p) == \E a \in Process : pathsOfInterest[p][a] > 0

NoticeTypes ==
    /\ watches \subseteq Publisher
    /\ watchObjects \subseteq Publisher
    /\ toClient \in [Client -> Seq(Notices)]
    /\ belief \in [Publisher -> [Path -> BOOLEAN]]

\* Publishers hear of their own paths only, by the queue of their process.
Addressed(queues) ==
    \A c \in Client : \A k \in 1 .. Len(queues[c]) :
        /\ ProcessOf[queues[c][k].watch] = c
        /\ IsPrefix(PathOf[queues[c][k].watch], queues[c][k].path)

OwnPaths ==
    /\ Addressed(toClient)
    /\ \A w \in Publisher, p \in Path : belief[w][p] => IsPrefix(PathOf[w], p)

\* Interest comes from who may be interested, and stays with who is connected.
OwnInterest ==
    /\ \A a \in Process, p \in Path :
          pathsOfInterest[p][a] > 0 \/ subscribers[a][p] > 0 => <<a, p>> \in Subscribe
    /\ \A c \in Client : \A k \in 1 .. Len(toServer[c]) :
          toServer[c][k].op = "NOTIFY" => <<c, toServer[c][k].path>> \in Subscribe
    /\ \A c \in Client \ connections : toServer[c] = <<>>

Asked(op, w) ==
    \E c \in Client : \E k \in 1 .. Len(toServer[c]) : toServer[c][k] = WatchOp(op, w)

Untold(w) ==
    /\ \A p \in Path : ~belief[w][p]
    /\ \A k \in 1 .. Len(Post(toClient, w)) : Post(toClient, w)[k].watch # w

\* The life of a watch: it is asked for, and there, as long as its publisher is.
Registered(w) ==
    /\ w \notin watchObjects \cup retired =>
          w \notin watches /\ ~Asked("ADDWATCH", w) /\ ~Asked("REMWATCH", w)
    /\ w \in watchObjects =>
          /\ ~Asked("REMWATCH", w) /\ w \notin retired
          /\ ProcessOf[w] \in connections \cup {Server}
          /\ w \in watches \/
                /\ ProcessOf[w] # Server
                /\ \E k \in 1 .. Len(toServer[ProcessOf[w]]) :
                      toServer[ProcessOf[w]][k] = WatchOp("ADDWATCH", w)
    /\ w \notin watches \cup retired => Untold(w)

\* A publisher with a watch will at last have heard what the server counts.
WillKnow ==
    \A w \in watches \cap watchObjects, p \in Path :
        IsPrefix(PathOf[w], p) => IF Wanted(p) THEN WillHear(w, p, TRUE)
                                              ELSE WillHear(w, p, FALSE)

KnowInv ==
    /\ NoticeTypes /\ OwnPaths /\ OwnInterest
    /\ \A w \in Publisher : Registered(w)
    /\ WillKnow

-----------------------------------------------------------------------------
(* What is assumed of who lives where.                                     *)

\* Paths are sequences of names.
FinitePaths ==
    /\ IsFiniteSet(Path) /\ IsFiniteSet(Publisher)
    /\ \A p \in Path : Len(p) \in Nat

\* The subscribers of a path are in one process.
OneSubscriber == \A s, t \in Subscribe : s[2] = t[2] => s[1] = t[1]

\* A process that may go away has none on the paths others watch.
LeavesNoInterest ==
    \A s \in Subscribe, w \in Publisher :
        s[1] \in Mortal /\ IsPrefix(PathOf[w], s[2]) => ProcessOf[w] = s[1]

\* A client has one watch at most at a path or above it.
OneWatch ==
    \A w, x \in Publisher, p \in Path :
        /\ ProcessOf[w] = ProcessOf[x] /\ ProcessOf[w] # Server
        /\ IsPrefix(PathOf[w], p) /\ IsPrefix(PathOf[x], p)
        => w = x

LEMMA NoticeFacts ==
    /\ \A w \in Publisher, p \in Path, yes \in BOOLEAN : Told(w, p, yes) \in Notices
    /\ \A w, p, yes : /\ Told(w, p, yes).watch = w /\ Told(w, p, yes).path = p
                      /\ Told(w, p, yes).interested = yes
    /\ \A n \in Notices : /\ n.watch \in Publisher /\ n.path \in Path
                          /\ n.interested \in BOOLEAN
                          /\ n = Told(n.watch, n.path, n.interested)
<1>1. \A w \in Publisher, p \in Path, yes \in BOOLEAN : Told(w, p, yes) \in Notices
  BY DEF Notices
<1>2. \A w, p, yes : /\ Told(w, p, yes).watch = w /\ Told(w, p, yes).path = p
                     /\ Told(w, p, yes).interested = yes
  BY DEF Told
<1>3. ASSUME NEW n \in Notices
      PROVE  /\ n.watch \in Publisher /\ n.path \in Path
             /\ n.interested \in BOOLEAN
             /\ n = Told(n.watch, n.path, n.interested)
  <2>1. PICK w \in Publisher, p \in Path, yes \in BOOLEAN : n = Told(w, p, yes)
    BY DEF Notices
  <2> QED
    BY <1>2, <2>1
<1> QED
  BY <1>1, <1>2, <1>3

\* A finite set is put into a sequence, each member at one place.
LEMMA SetToSeqFacts ==
    ASSUME NEW S, IsFiniteSet(S)
    PROVE  /\ SetToSeq(S) \in Seq(S)
           /\ \A x \in S : \E k \in 1 .. Len(SetToSeq(S)) : SetToSeq(S)[k] = x
           /\ \A j, k \in 1 .. Len(SetToSeq(S)) :
                 SetToSeq(S)[j] = SetToSeq(S)[k] => j = k
<1> DEFINE n == Cardinality(S)
           f == SetToSeq(S)
<1>1. n \in Nat /\ ExistsBijection(1 .. n, S)
  BY FS_CardinalityType
<1>2. PICK g : g \in Bijection(1 .. n, S)
  BY <1>1 DEF ExistsBijection
<1>3. g \in [1 .. n -> S] /\ IsInjective(g)
  BY <1>2 DEF Bijection, Injection
<1>4. f \in [1 .. n -> S] /\ IsInjective(f)
  BY <1>3 DEF SetToSeq
<1>5. f \in Injection(1 .. n, S)
  BY <1>4 DEF Injection
<1>6. IsFiniteSet(1 .. n) /\ Cardinality(1 .. n) = n
  BY <1>1, FS_Interval
<1> HIDE DEF f
<1>7. f \in Surjection(1 .. n, S)
  BY <1>5, <1>6, FS_Injection
<1>8. f \in Seq(S) /\ Len(f) = n
  BY <1>1, <1>4
<1>9. \A x \in S : \E k \in 1 .. Len(f) : f[k] = x
  BY <1>7, <1>8 DEF Surjection
<1>10. \A j, k \in 1 .. Len(f) : f[j] = f[k] => j = k
  BY <1>4, <1>8 DEF IsInjective
<1> QED
  BY <1>8, <1>9, <1>10 DEF f

\* What is said of finitely many publishers, or paths, are finitely many notices.
LEMMA NewsFinite ==
    ASSUME NEW S, IsFiniteSet(S), NEW f \in [S -> Notices], NEW news,
           news \subseteq {f[x] : x \in S}
    PROVE  IsFiniteSet(news)
<1> DEFINE T == {f[x] : x \in S}
           g == [x \in S |-> f[x]]
<1>1. g \in Surjection(S, T)
  BY DEF Surjection
<1>2. IsFiniteSet(T)
  BY <1>1, FS_Surjection
<1>3. news \in SUBSET T
  OBVIOUS
<1> QED
  BY <1>2, <1>3, FS_Subset

LEMMA HearsNothingNew ==
    ASSUME NEW b, NEW q \in Seq(Notices), NEW s \in Seq(Notices), NEW w, NEW p, NEW v,
           HearsLast(b, q, w, p, v), \A k \in 1 .. Len(s) : ~About(s[k], w, p)
    PROVE  HearsLast(b, q \o s, w, p, v)
<1> DEFINE t == q \o s
<1>1. /\ Len(q) \in Nat /\ Len(s) \in Nat /\ Len(t) = Len(q) + Len(s)
      /\ \A k \in 1 .. Len(q) : t[k] = q[k]
      /\ \A k \in Len(q) + 1 .. Len(t) : t[k] = s[k - Len(q)] /\ k - Len(q) \in 1 .. Len(s)
  OBVIOUS
<1> HIDE DEF t
<1>2. \A k \in Len(q) + 1 .. Len(t) : ~About(t[k], w, p)
  BY <1>1
<1>3. CASE b = v /\ \A k \in 1 .. Len(q) : ~About(q[k], w, p)
  <2>1. \A k \in 1 .. Len(t) : k \in 1 .. Len(q) \/ k \in Len(q) + 1 .. Len(t)
    BY <1>1
  <2>2. \A k \in 1 .. Len(t) : ~About(t[k], w, p)
    BY <1>1, <1>2, <1>3, <2>1
  <2> QED
    BY <1>3, <2>2 DEF HearsLast, t
<1>4. ASSUME NEW k \in 1 .. Len(q), About(q[k], w, p), q[k].interested = v,
             \A j \in k + 1 .. Len(q) : ~About(q[j], w, p)
      PROVE  HearsLast(b, t, w, p, v)
  <2>1. /\ k \in 1 .. Len(t) /\ t[k] = q[k]
        /\ \A j \in k + 1 .. Len(t) : j \in k + 1 .. Len(q) \/ j \in Len(q) + 1 .. Len(t)
        /\ \A j \in k + 1 .. Len(q) : t[j] = q[j]
    BY <1>1
  <2>2. \A j \in k + 1 .. Len(t) : ~About(t[j], w, p)
    BY <1>2, <1>4, <2>1
  <2> QED
    BY <1>4, <2>1, <2>2 DEF HearsLast
<1> QED
  BY <1>3, <1>4 DEF HearsLast, t

LEMMA HearsNews ==
    ASSUME NEW b, NEW q \in Seq(Notices), NEW s \in Seq(Notices), NEW w, NEW p, NEW v,
           NEW k \in 1 .. Len(s), About(s[k], w, p), s[k].interested = v,
           \A j \in 1 .. Len(s) : About(s[j], w, p) => j = k
    PROVE  HearsLast(b, q \o s, w, p, v)
<1> DEFINE t == q \o s
           m == Len(q) + k
<1>1. /\ Len(q) \in Nat /\ Len(s) \in Nat /\ Len(t) = Len(q) + Len(s)
      /\ m \in 1 .. Len(t) /\ t[m] = s[k]
      /\ \A j \in m + 1 .. Len(t) : /\ t[j] = s[j - Len(q)]
                                    /\ j - Len(q) \in 1 .. Len(s) /\ j - Len(q) # k
  OBVIOUS
<1> HIDE DEF t, m
<1>2. \A j \in m + 1 .. Len(t) : ~About(t[j], w, p)
  BY <1>1
<1> QED
  BY <1>1, <1>2 DEF HearsLast, t

LEMMA HearsHead ==
    ASSUME NEW b, NEW q \in Seq(Notices), q # <<>>, NEW w, NEW p, NEW v, NEW c,
           HearsLast(b, q, w, p, v),
           c = IF About(Head(q), w, p) THEN Head(q).interested ELSE b
    PROVE  HearsLast(c, Tail(q), w, p, v)
<1> DEFINE t == Tail(q)
<1>1. /\ Len(q) \in Nat /\ Len(q) >= 1 /\ Len(t) = Len(q) - 1 /\ Head(q) = q[1]
      /\ \A k \in 1 .. Len(t) : t[k] = q[k + 1] /\ k + 1 \in 2 .. Len(q)
      /\ \A k \in 2 .. Len(q) : t[k - 1] = q[k] /\ k - 1 \in 1 .. Len(t)
  OBVIOUS
<1> HIDE DEF t
<1>2. CASE b = v /\ \A k \in 1 .. Len(q) : ~About(q[k], w, p)
  BY <1>1, <1>2 DEF HearsLast, t
<1>3. ASSUME NEW k \in 1 .. Len(q), About(q[k], w, p), q[k].interested = v,
             \A j \in k + 1 .. Len(q) : ~About(q[j], w, p)
      PROVE  HearsLast(c, t, w, p, v)
  <2>1. CASE k = 1
    <3>1. c = v
      BY <1>1, <1>3, <2>1
    <3>2. \A j \in 1 .. Len(t) : ~About(t[j], w, p)
      BY <1>1, <1>3, <2>1
    <3> QED
      BY <3>1, <3>2 DEF HearsLast
  <2>2. CASE k # 1
    <3>1. PICK m \in 1 .. Len(t) : m = k - 1 /\ t[m] = q[k]
      BY <1>1, <2>2
    <3>2. \A j \in m + 1 .. Len(t) : t[j] = q[j + 1] /\ j + 1 \in k + 1 .. Len(q)
      BY <1>1, <3>1
    <3>3. \A j \in m + 1 .. Len(t) : ~About(t[j], w, p)
      BY <1>3, <3>2
    <3> QED
      BY <1>3, <3>1, <3>3 DEF HearsLast
  <2> QED
    BY <2>1, <2>2
<1> QED
  BY <1>2, <1>3 DEF HearsLast, t

-----------------------------------------------------------------------------
(* Notices are sent and heard.                                             *)

\* Of each publisher and path there is one notice at most.
Coherent(news) ==
    \A m, n \in news : m.watch = n.watch /\ m.path = n.path => m = n

LEMMA HearsFacts ==
    ASSUME NEW what \in SUBSET Notices, Coherent(what), NoticeTypes, Hears(what)
    PROVE  /\ belief' \in [Publisher -> [Path -> BOOLEAN]]
           /\ \A w \in Publisher, p \in Path :
                 /\ w \notin watchObjects' \/ (\A n \in what : ~About(n, w, p)) =>
                       belief'[w][p] = belief[w][p]
                 /\ \A n \in what : w \in watchObjects' /\ About(n, w, p) =>
                       belief'[w][p] = n.interested
<1> DEFINE Of(w, p) == {n \in what : n.watch = w /\ n.path = p}
<1>1. ASSUME NEW w \in Publisher, NEW p \in Path
      PROVE  belief'[w][p] = IF w \in watchObjects' /\ \E n \in what : n.watch = w /\ n.path = p
                             THEN (CHOOSE n \in what : n.watch = w /\ n.path = p).interested
                             ELSE belief[w][p]
  BY DEF Hears
<1>2. ASSUME NEW w \in Publisher, NEW p \in Path, NEW n \in what, About(n, w, p)
      PROVE  (CHOOSE m \in what : m.watch = w /\ m.path = p) = n
  <2> DEFINE c == CHOOSE m \in what : m.watch = w /\ m.path = p
  <2>1. c \in what /\ c.watch = w /\ c.path = p
    BY <1>2 DEF About
  <2> QED
    BY <1>2, <2>1 DEF About, Coherent
<1>3. ASSUME NEW w \in Publisher, NEW p \in Path,
             w \notin watchObjects' \/ \A n \in what : ~About(n, w, p)
      PROVE  belief'[w][p] = belief[w][p]
  BY <1>1, <1>3 DEF About
<1>4. ASSUME NEW w \in Publisher, NEW p \in Path, NEW n \in what,
             w \in watchObjects', About(n, w, p)
      PROVE  belief'[w][p] = n.interested
  BY <1>1, <1>2, <1>4 DEF About
<1>5. ASSUME NEW w \in Publisher, NEW p \in Path
      PROVE  belief'[w][p] \in BOOLEAN
  <2>1. belief[w][p] \in BOOLEAN
    BY DEF NoticeTypes
  <2>2. \A n \in what : n.interested \in BOOLEAN
    BY NoticeFacts
  <2> QED
    BY <1>3, <1>4, <2>1, <2>2
<1>6. \E g : belief' = [w \in Publisher |-> [p \in Path |-> g[w][p]]]
  <2> DEFINE g == [w \in Publisher |-> [p \in Path |->
                  IF w \in watchObjects' /\ \E n \in what : n.watch = w /\ n.path = p
                  THEN (CHOOSE n \in what : n.watch = w /\ n.path = p).interested
                  ELSE belief[w][p]]]
  <2>1. belief' = g
    BY DEF Hears
  <2>2. g = [w \in Publisher |-> [p \in Path |-> g[w][p]]]
    OBVIOUS
  <2> HIDE DEF g
  <2> QED
    BY <2>1, <2>2
<1>7. belief' \in [Publisher -> [Path -> BOOLEAN]]
  BY <1>5, <1>6
<1> QED
  BY <1>3, <1>4, <1>7

LEMMA PostFacts ==
    ASSUME NEW queues \in [Client -> Seq(Notices)], NEW w \in Publisher
    PROVE  /\ ProcessOf[w] \in Client \cup {Server}
           /\ Post(queues, w) \in Seq(Notices)
           /\ ProcessOf[w] = Server => Post(queues, w) = <<>>
           /\ ProcessOf[w] # Server =>
                 ProcessOf[w] \in Client /\ Post(queues, w) = queues[ProcessOf[w]]
<1>1. ProcessOf[w] \in Client \cup {Server}
  BY InterestAssumption DEF Process
<1>2. <<>> \in Seq(Notices)
  OBVIOUS
<1> QED
  BY <1>1, <1>2 DEF Post

\* What an announcement does to what publishers will hear.
LEMMA AnnouncedFacts ==
    ASSUME NEW queues \in [Client -> Seq(Notices)],
           NEW news \in SUBSET Notices, IsFiniteSet(news), Coherent(news),
           NoticeTypes, Announce(queues, news)
    PROVE  /\ toClient' \in [Client -> Seq(Notices)]
           /\ belief' \in [Publisher -> [Path -> BOOLEAN]]
           /\ \A c \in Client : \A n \in Notices :
                 \A k \in 1 .. Len(toClient'[c]) : toClient'[c][k] = n =>
                    \/ \E j \in 1 .. Len(queues[c]) : queues[c][j] = n
                    \/ n \in news /\ ProcessOf[n.watch] = c
           /\ \A w \in Publisher, p \in Path :
                 \/ belief'[w][p] = belief[w][p]
                 \/ \E n \in news : About(n, w, p)
           /\ \A w \in Publisher, p \in Path : \A v \in BOOLEAN :
                 \/ w \in watchObjects' /\ Told(w, p, v) \in news
                 \/ /\ \A n \in news : ~About(n, w, p)
                    /\ HearsLast(belief[w][p], Post(queues, w), w, p, v)
                 => HearsLast(belief'[w][p], Post(toClient', w), w, p, v)
<1> DEFINE To(a) == {n \in news : ProcessOf[n.watch] = a}
<1>1. ASSUME NEW a PROVE To(a) \in SUBSET Notices /\ IsFiniteSet(To(a)) /\ Coherent(To(a))
  <2>1. To(a) \in SUBSET news
    OBVIOUS
  <2>2. IsFiniteSet(To(a))
    BY <2>1, FS_Subset
  <2> QED
    BY <2>1, <2>2 DEF Coherent
<1>2. Hears(To(Server)) /\ toClient' = [c \in Client |-> queues[c] \o SetToSeq(To(c))]
  BY DEF Announce
<1> HIDE DEF To
<1>3. /\ belief' \in [Publisher -> [Path -> BOOLEAN]]
      /\ \A w \in Publisher, p \in Path :
            /\ w \notin watchObjects' \/ (\A n \in To(Server) : ~About(n, w, p)) =>
                  belief'[w][p] = belief[w][p]
            /\ \A n \in To(Server) : w \in watchObjects' /\ About(n, w, p) =>
                  belief'[w][p] = n.interested
  BY <1>1, <1>2, HearsFacts
<1>4. ASSUME NEW c \in Client
      PROVE  \E q \in Seq(Notices), s \in Seq(Notices) :
                /\ q = queues[c] /\ toClient'[c] = q \o s
                /\ \A k \in 1 .. Len(s) : s[k] \in To(c)
                /\ \A n \in To(c) : \E k \in 1 .. Len(s) : s[k] = n
                /\ \A j, k \in 1 .. Len(s) : s[j] = s[k] => j = k
  <2>1. PICK s : s = SetToSeq(To(c))
    OBVIOUS
  <2>2. PICK q \in Seq(Notices) : q = queues[c]
    OBVIOUS
  <2>3. /\ s \in Seq(To(c)) /\ \A n \in To(c) : \E k \in 1 .. Len(s) : s[k] = n
        /\ \A j, k \in 1 .. Len(s) : s[j] = s[k] => j = k
    BY <1>1, <2>1, SetToSeqFacts
  <2>4. s \in Seq(Notices)
    BY <1>1, <2>3
  <2>5. toClient'[c] = q \o s
    BY <1>2, <2>1, <2>2
  <2>6. \A k \in 1 .. Len(s) : s[k] \in To(c)
    BY <2>3
  <2> QED
    BY <2>2, <2>3, <2>4, <2>5, <2>6
<1>5. toClient' \in [Client -> Seq(Notices)]
  <2>1. ASSUME NEW c \in Client PROVE toClient'[c] \in Seq(Notices)
    <3>1. PICK q \in Seq(Notices), s \in Seq(Notices) : toClient'[c] = q \o s
      BY <1>4
    <3>2. q \o s \in Seq(Notices)
      OBVIOUS
    <3> QED
      BY <3>1, <3>2
  <2>2. \E g : toClient' = [c \in Client |-> g[c]]
    <3> DEFINE g == [c \in Client |-> queues[c] \o SetToSeq(To(c))]
    <3>1. toClient' = g /\ g = [c \in Client |-> g[c]]
      BY <1>2
    <3> QED
      BY <3>1
  <2> QED
    BY <2>1, <2>2
<1>6. ASSUME NEW c \in Client, NEW n \in Notices, NEW k \in 1 .. Len(toClient'[c]),
             toClient'[c][k] = n
      PROVE  \/ \E j \in 1 .. Len(queues[c]) : queues[c][j] = n
             \/ n \in news /\ ProcessOf[n.watch] = c
  <2>1. PICK q \in Seq(Notices), s \in Seq(Notices) :
                /\ q = queues[c] /\ toClient'[c] = q \o s
                /\ \A j \in 1 .. Len(s) : s[j] \in To(c)
    BY <1>4
  <2>2. k \in 1 .. Len(q \o s) /\ (q \o s)[k] = n
    BY <1>6, <2>1
  <2>3. \/ k \in 1 .. Len(q) /\ q[k] = n
        \/ k - Len(q) \in 1 .. Len(s) /\ s[k - Len(q)] = n
    BY <2>2
  <2>4. n \in To(c) => n \in news /\ ProcessOf[n.watch] = c
    BY DEF To
  <2> QED
    BY <2>1, <2>3, <2>4
<1>7. ASSUME NEW w \in Publisher, NEW p \in Path
      PROVE  belief'[w][p] = belief[w][p] \/ \E n \in news : About(n, w, p)
  BY <1>3 DEF To
<1>8. ASSUME NEW w \in Publisher, NEW p \in Path, NEW v \in BOOLEAN,
             w \in watchObjects', Told(w, p, v) \in news
      PROVE  HearsLast(belief'[w][p], Post(toClient', w), w, p, v)
  <2> DEFINE n == Told(w, p, v)
  <2>1. About(n, w, p) /\ n.interested = v /\ n.watch = w
    BY NoticeFacts DEF About
  <2> HIDE DEF n
  <2>2. n \in To(ProcessOf[w])
    BY <1>8, <2>1 DEF To, n
  <2>3. CASE ProcessOf[w] = Server
    <3>1. belief'[w][p] = v
      BY <1>3, <1>8, <2>1, <2>2, <2>3
    <3>2. Post(toClient', w) = <<>>
      BY <2>3 DEF Post
    <3>3. \A k \in 1 .. Len(<<>>) : ~About(<<>>[k], w, p)
      OBVIOUS
    <3> QED
      BY <3>1, <3>2, <3>3 DEF HearsLast
  <2>4. CASE ProcessOf[w] # Server
    <3>1. ProcessOf[w] \in Client /\ Post(toClient', w) = toClient'[ProcessOf[w]]
      BY <1>5, <2>4, PostFacts
    <3>2. PICK q \in Seq(Notices), s \in Seq(Notices) :
                /\ toClient'[ProcessOf[w]] = q \o s
                /\ \A k \in 1 .. Len(s) : s[k] \in To(ProcessOf[w])
                /\ \A m \in To(ProcessOf[w]) : \E k \in 1 .. Len(s) : s[k] = m
                /\ \A j, k \in 1 .. Len(s) : s[j] = s[k] => j = k
      BY <1>4, <3>1
    <3>3. PICK k \in 1 .. Len(s) : s[k] = n
      BY <2>2, <3>2
    <3>4. ASSUME NEW j \in 1 .. Len(s), About(s[j], w, p) PROVE j = k
      <4>1. s[j] \in To(ProcessOf[w]) /\ s[k] \in To(ProcessOf[w])
        BY <3>2
      <4>2. s[j] = s[k]
        BY <1>1, <2>1, <3>3, <3>4, <4>1 DEF Coherent, About
      <4> QED
        BY <3>2, <4>2
    <3>5. HearsLast(belief'[w][p], q \o s, w, p, v)
      BY <2>1, <3>3, <3>4, HearsNews
    <3> QED
      BY <3>1, <3>2, <3>5
  <2> QED
    BY <2>3, <2>4
<1>9. ASSUME NEW w \in Publisher, NEW p \in Path, NEW v \in BOOLEAN,
             \A n \in news : ~About(n, w, p),
             HearsLast(belief[w][p], Post(queues, w), w, p, v)
      PROVE  HearsLast(belief'[w][p], Post(toClient', w), w, p, v)
  <2>1. belief'[w][p] = belief[w][p]
    BY <1>3, <1>9 DEF To
  <2>2. CASE ProcessOf[w] = Server
    <3>1. Post(toClient', w) = Post(queues, w)
      BY <2>2 DEF Post
    <3> QED
      BY <1>9, <2>1, <3>1
  <2>3. CASE ProcessOf[w] # Server
    <3>1. /\ ProcessOf[w] \in Client /\ Post(toClient', w) = toClient'[ProcessOf[w]]
          /\ Post(queues, w) = queues[ProcessOf[w]]
      BY <1>5, <2>3, PostFacts
    <3>2. PICK q \in Seq(Notices), s \in Seq(Notices) :
                /\ q = queues[ProcessOf[w]] /\ toClient'[ProcessOf[w]] = q \o s
                /\ \A k \in 1 .. Len(s) : s[k] \in To(ProcessOf[w])
      BY <1>4, <3>1
    <3>3. \A k \in 1 .. Len(s) : ~About(s[k], w, p)
      BY <1>9, <3>2 DEF To
    <3>4. HearsLast(belief[w][p], q, w, p, v)
      BY <1>9, <3>1, <3>2
    <3>5. HearsLast(belief[w][p], q \o s, w, p, v)
      BY <3>3, <3>4, HearsNothingNew
    <3> QED
      BY <2>1, <3>1, <3>2, <3>5
  <2> QED
    BY <2>2, <2>3
<1> QED
  BY <1>3, <1>5, <1>6, <1>7, <1>8, <1>9

-----------------------------------------------------------------------------
(* The server serves a request.                                            *)

LEMMA NewsKnow ==
    ASSUME NoticeTypes, OwnPaths, \A w \in Publisher : Registered(w),
           NEW news \in SUBSET Notices, IsFiniteSet(news), Coherent(news),
           \A n \in news : n.watch \in watches' /\ IsPrefix(PathOf[n.watch], n.path),
           Announce(toClient, news),
           watches' \subseteq Publisher, watchObjects' \subseteq Publisher,
           \A w \in watches' \cap watchObjects', p \in Path : IsPrefix(PathOf[w], p) =>
              \E v \in BOOLEAN :
                 /\ v <=> Wanted(p)'
                 /\ \/ Told(w, p, v) \in news
                    \/ (\A n \in news : ~About(n, w, p)) /\ WillHear(w, p, v)
    PROVE  /\ NoticeTypes' /\ OwnPaths' /\ WillKnow'
           /\ \A w \in Publisher : w \notin watches \cup watches' \cup retired => Untold(w)'
<1>1. toClient \in [Client -> Seq(Notices)]
  BY DEF NoticeTypes
<1>2. /\ toClient' \in [Client -> Seq(Notices)]
      /\ belief' \in [Publisher -> [Path -> BOOLEAN]]
      /\ \A c \in Client : \A n \in Notices :
            \A k \in 1 .. Len(toClient'[c]) : toClient'[c][k] = n =>
               \/ \E j \in 1 .. Len(toClient[c]) : toClient[c][j] = n
               \/ n \in news /\ ProcessOf[n.watch] = c
      /\ \A w \in Publisher, p \in Path :
            \/ belief'[w][p] = belief[w][p]
            \/ \E n \in news : About(n, w, p)
      /\ \A w \in Publisher, p \in Path : \A v \in BOOLEAN :
            \/ w \in watchObjects' /\ Told(w, p, v) \in news
            \/ /\ \A n \in news : ~About(n, w, p)
               /\ HearsLast(belief[w][p], Post(toClient, w), w, p, v)
            => HearsLast(belief'[w][p], Post(toClient', w), w, p, v)
  BY <1>1, AnnouncedFacts
<1>3. NoticeTypes'
  BY <1>2 DEF NoticeTypes
<1>4. ASSUME NEW c \in Client, NEW k \in 1 .. Len(toClient'[c])
      PROVE  /\ toClient'[c][k] \in Notices
             /\ \/ \E j \in 1 .. Len(toClient[c]) : toClient[c][j] = toClient'[c][k]
                \/ toClient'[c][k] \in news /\ ProcessOf[toClient'[c][k].watch] = c
  <2>1. toClient'[c][k] \in Notices
    BY <1>2
  <2> QED
    BY <1>2, <2>1
<1>5. Addressed(toClient')
  <2>1. ASSUME NEW c \in Client, NEW k \in 1 .. Len(toClient'[c])
        PROVE  /\ ProcessOf[toClient'[c][k].watch] = c
               /\ IsPrefix(PathOf[toClient'[c][k].watch], toClient'[c][k].path)
    <3>1. CASE toClient'[c][k] \in news /\ ProcessOf[toClient'[c][k].watch] = c
      BY <3>1
    <3>2. CASE \E j \in 1 .. Len(toClient[c]) : toClient[c][j] = toClient'[c][k]
      <4>1. PICK j \in 1 .. Len(toClient[c]) : toClient[c][j] = toClient'[c][k]
        BY <3>2
      <4>2. /\ ProcessOf[toClient[c][j].watch] = c
            /\ IsPrefix(PathOf[toClient[c][j].watch], toClient[c][j].path)
        BY DEF OwnPaths, Addressed
      <4> QED
        BY <4>1, <4>2
    <3> QED
      BY <1>4, <3>1, <3>2
  <2> QED
    BY <2>1 DEF Addressed
<1>6. ASSUME NEW w \in Publisher, NEW p \in Path, belief'[w][p]
      PROVE  IsPrefix(PathOf[w], p)
  BY <1>2, <1>6 DEF OwnPaths, About
<1>7. OwnPaths'
  BY <1>5, <1>6 DEF OwnPaths, Addressed
<1>8. WillKnow'
  <2>1. ASSUME NEW w \in watches' \cap watchObjects', NEW p \in Path,
               IsPrefix(PathOf[w], p)
        PROVE  IF Wanted(p)' THEN WillHear(w, p, TRUE)' ELSE WillHear(w, p, FALSE)'
    <3>1. PICK v \in BOOLEAN :
                /\ v <=> Wanted(p)'
                /\ \/ Told(w, p, v) \in news
                   \/ (\A n \in news : ~About(n, w, p)) /\ WillHear(w, p, v)
      BY <2>1
    <3>2. HearsLast(belief'[w][p], Post(toClient', w), w, p, v)
      BY <1>2, <3>1 DEF WillHear
    <3>3. v = TRUE \/ v = FALSE
      OBVIOUS
    <3>4. Post(toClient, w)' = Post(toClient', w)
      BY DEF Post
    <3>5. CASE v = TRUE
      <4>1. HearsLast(belief'[w][p], Post(toClient', w), w, p, TRUE)
        BY <3>2, <3>5
      <4>2. WillHear(w, p, TRUE)'
        BY <4>1 DEF WillHear, HearsLast, Post, About
      <4> QED
        BY <3>1, <3>5, <4>2
    <3>6. CASE v = FALSE
      <4>1. HearsLast(belief'[w][p], Post(toClient', w), w, p, FALSE)
        BY <3>2, <3>6
      <4>2. WillHear(w, p, FALSE)'
        BY <4>1 DEF WillHear, HearsLast, Post, About
      <4> QED
        BY <3>1, <3>6, <4>2
    <3> QED
      BY <3>3, <3>5, <3>6
  <2> QED
    BY <2>1 DEF WillKnow
<1>9. ASSUME NEW w \in Publisher, w \notin watches \cup watches' \cup retired
      PROVE  Untold(w)'
  <2>1. /\ \A p \in Path : ~belief[w][p]
        /\ \A k \in 1 .. Len(Post(toClient, w)) : Post(toClient, w)[k].watch # w
        /\ \A n \in news : n.watch # w
    BY <1>9 DEF Registered, Untold
  <2>2. \A p \in Path : ~belief'[w][p]
    <3>1. \A p \in Path : belief'[w][p] = belief[w][p]
      BY <1>2, <2>1 DEF About
    <3> QED
      BY <2>1, <3>1
  <2>3. \A k \in 1 .. Len(Post(toClient', w)) : Post(toClient', w)[k].watch # w
    <3>1. CASE ProcessOf[w] = Server
      <4>1. Post(toClient', w) = <<>>
        BY <3>1 DEF Post
      <4> QED
        BY <4>1
    <3>2. CASE ProcessOf[w] # Server
      <4>1. /\ ProcessOf[w] \in Client /\ Post(toClient', w) = toClient'[ProcessOf[w]]
            /\ Post(toClient, w) = toClient[ProcessOf[w]]
        BY <1>1, <1>2, <3>2, PostFacts
      <4> QED
        BY <1>4, <2>1, <4>1
    <3> QED
      BY <3>1, <3>2
  <2> QED
    BY <2>2, <2>3 DEF Untold, Post
<1> QED
  BY <1>3, <1>7, <1>8, <1>9

\* Everyone who watches a path is told, if no client has two watches on it.
LEMMA AllAreFirst ==
    ASSUME FinitePaths, OneWatch, NEW p \in Path, NEW present \in SUBSET Publisher
    PROVE  FirstOfEach(watchers(present, p)) = {w \in present : IsPrefix(PathOf[w], p)}
<1>1. \A w \in Publisher : Len(PathOf[w]) \in Nat /\ Len(PathOf[w]) <= Len(PathOf[w])
  BY InterestAssumption DEF FinitePaths
<1>2. ASSUME NEW w \in watchers(present, p), NEW x \in watchers(present, p),
             ProcessOf[w] # Server, ProcessOf[x] = ProcessOf[w]
      PROVE  Len(PathOf[x]) <= Len(PathOf[w])
  <2>1. x = w
    BY <1>2 DEF OneWatch, watchers
  <2> QED
    BY <1>1, <2>1 DEF watchers
<1> QED
  BY <1>2 DEF FirstOfEach, watchers

\* Where one process has subscribers, its counter says whether anybody has.
LEMMA WantedByOne ==
    ASSUME CountTypes, OwnInterest, OneSubscriber,
           NEW a \in Process, NEW p \in Path, <<a, p>> \in Subscribe
    PROVE  Wanted(p) <=> pathsOfInterest[p][a] > 0
<1>1. ASSUME NEW b \in Process, pathsOfInterest[p][b] > 0 PROVE b = a
  <2>1. <<b, p>> \in Subscribe
    BY <1>1 DEF OwnInterest
  <2> QED
    BY <2>1 DEF OneSubscriber
<1> QED
  BY <1>1 DEF Wanted

LEMMA NotifiedKnow ==
    ASSUME KnowInv, CountTypes, CountTypes', FinitePaths, OneSubscriber, OneWatch,
           NEW a \in Process, NEW p \in Path, NEW yes \in BOOLEAN, <<a, p>> \in Subscribe,
           doNotify(toClient, p, a, yes),
           watchObjects' \subseteq Publisher, watchObjects' \cap retired = {}
    PROVE  /\ NoticeTypes' /\ OwnPaths' /\ WillKnow' /\ watches' = watches
           /\ \A w \in Publisher : w \notin watches \cup retired => Untold(w)'
           /\ \A x \in Path, b \in Process :
                 pathsOfInterest'[x][b] > 0 => <<b, x>> \in Subscribe
<1>1. /\ NoticeTypes /\ OwnPaths /\ OwnInterest /\ WillKnow
      /\ \A w \in Publisher : Registered(w)
      /\ watches \in SUBSET Publisher /\ watches' = watches
  BY DEF KnowInv, NoticeTypes, doNotify
<1>2. PICK m \in Nat, n \in Nat :
          /\ m = pathsOfInterest[p][a] /\ n = pathsOfInterest'[p][a]
          /\ n = IF yes THEN m + 1 ELSE m - 1
  <2>1. /\ pathsOfInterest \in [Path -> [Process -> 0 .. MaxInterest]]
        /\ pathsOfInterest' \in [Path -> [Process -> 0 .. MaxInterest]]
        /\ MaxInterest \in Nat
    BY InterestAssumption DEF CountTypes
  <2>2. pathsOfInterest[p][a] \in Nat /\ pathsOfInterest'[p][a] \in Nat
    BY <2>1
  <2>3. pathsOfInterest' = [pathsOfInterest EXCEPT ![p][a] = IF yes THEN @ + 1 ELSE @ - 1]
    BY DEF doNotify, Recount
  <2>4. pathsOfInterest'[p][a]
            = IF yes THEN pathsOfInterest[p][a] + 1 ELSE pathsOfInterest[p][a] - 1
    BY <2>1, <2>3
  <2> QED
    BY <2>2, <2>4
<1>3. \A x \in Path, b \in Process :
          x # p \/ b # a => pathsOfInterest'[x][b] = pathsOfInterest[x][b]
  <2>1. pathsOfInterest \in [Path -> [Process -> 0 .. MaxInterest]]
    BY DEF CountTypes
  <2>2. pathsOfInterest' = [pathsOfInterest EXCEPT ![p][a] = IF yes THEN @ + 1 ELSE @ - 1]
    BY DEF doNotify, Recount
  <2> QED
    BY <2>1, <2>2
<1>4. \A x \in Path, b \in Process :
          pathsOfInterest'[x][b] > 0 => <<b, x>> \in Subscribe
  BY <1>1, <1>3 DEF OwnInterest
<1>5. \A x \in Path : x # p => (Wanted(x)' <=> Wanted(x))
  BY <1>3 DEF Wanted
<1>6. (Wanted(p) <=> m > 0) /\ (Wanted(p)' <=> n > 0)
  <2>1. Wanted(p) <=> m > 0
    BY <1>1, <1>2, WantedByOne
  <2>2. ASSUME NEW b \in Process, pathsOfInterest'[p][b] > 0 PROVE b = a
    BY <1>4, <2>2 DEF OneSubscriber
  <2>3. Wanted(p)' <=> n > 0
    BY <1>2, <2>2 DEF Wanted
  <2> QED
    BY <2>1, <2>3
<1> DEFINE Near == {w \in watches : IsPrefix(PathOf[w], p)}
           Turned == n = (IF yes THEN 1 ELSE 0)
<1>7. PICK news : /\ news = IF Turned THEN {Told(w, p, yes) : w \in Near} ELSE {}
                  /\ Announce(toClient, news)
  <2>1. FirstOfEach(watchers(watches, p)) = Near
    BY <1>1, AllAreFirst
  <2>2. Announce(toClient, IF Turned THEN {Told(w, p, yes) : w \in Near} ELSE {})
    BY <1>2, <2>1 DEF doNotify
  <2> QED
    BY <2>2
<1>8. /\ \A w \in Near : Turned => Told(w, p, yes) \in news
      /\ \A x \in news : Turned /\ x.watch \in Near /\ x.path = p /\ x = Told(x.watch, p, yes)
  BY <1>7, NoticeFacts
<1>9. news \in SUBSET Notices /\ Coherent(news) /\ IsFiniteSet(news)
  <2>1. ASSUME NEW x \in news PROVE x \in Notices
    BY <1>1, <1>8, NoticeFacts
  <2>2. Coherent(news)
    BY <1>8 DEF Coherent
  <2>3. IsFiniteSet(Near)
    BY <1>1, FS_Subset DEF FinitePaths
  <2>4. PICK f \in [Near -> Notices] : \A w \in Near : f[w] = Told(w, p, yes)
    <3>1. \A w \in Near : Told(w, p, yes) \in Notices
      BY <1>1, NoticeFacts
    <3>2. [w \in Near |-> Told(w, p, yes)] \in [Near -> Notices]
      BY <3>1
    <3> QED
      BY <3>2
  <2>5. news \subseteq {f[w] : w \in Near}
    BY <1>8, <2>4
  <2>6. IsFiniteSet(news)
    BY <2>3, <2>5, NewsFinite
  <2> QED
    BY <2>1, <2>2, <2>6
<1>10. \A x \in news : x.watch \in watches' /\ IsPrefix(PathOf[x.watch], x.path)
  BY <1>1, <1>8
<1>11. ASSUME NEW w \in watches' \cap watchObjects', NEW x \in Path, IsPrefix(PathOf[w], x)
       PROVE  \E v \in BOOLEAN :
                 /\ v <=> Wanted(x)'
                 /\ \/ Told(w, x, v) \in news
                    \/ (\A k \in news : ~About(k, w, x)) /\ WillHear(w, x, v)
  <2>1. w \in watches /\ w \in watchObjects /\ w \in Publisher
    BY <1>1 DEF Registered
  <2>2. IF Wanted(x) THEN WillHear(w, x, TRUE) ELSE WillHear(w, x, FALSE)
    BY <1>1, <1>11, <2>1 DEF WillKnow
  <2>3. PICK v \in BOOLEAN : (v <=> Wanted(x)) /\ WillHear(w, x, v)
    BY <2>2
  <2>4. CASE x = p /\ Turned
    <3>1. Told(w, x, yes) \in news
      BY <1>8, <1>11, <2>1, <2>4
    <3>2. yes <=> Wanted(x)'
      BY <1>6, <2>4
    <3> QED
      BY <3>1, <3>2
  <2>5. CASE x # p
    <3>1. \A k \in news : ~About(k, w, x)
      BY <1>8, <2>5 DEF About
    <3> QED
      BY <1>5, <2>3, <2>5, <3>1
  <2>6. CASE x = p /\ ~Turned
    <3>1. \A k \in news : ~About(k, w, x)
      BY <1>8, <2>6
    <3>2. Wanted(x)' <=> Wanted(x)
      BY <1>2, <1>6, <2>6
    <3> QED
      BY <2>3, <3>1, <3>2
  <2> QED
    BY <2>4, <2>5, <2>6
<1>12. watches' \subseteq Publisher
  BY <1>1
<1>13. /\ NoticeTypes' /\ OwnPaths' /\ WillKnow'
       /\ \A w \in Publisher : w \notin watches \cup watches' \cup retired => Untold(w)'
  BY <1>1, <1>7, <1>9, <1>10, <1>11, <1>12, NewsKnow
<1> QED
  BY <1>1, <1>4, <1>13

LEMMA WatchedKnow ==
    ASSUME KnowInv, FinitePaths, NEW w \in Publisher, doSetWatch(toClient, w),
           watchObjects' \subseteq Publisher, watchObjects' \cap retired = {}
    PROVE  /\ NoticeTypes' /\ OwnPaths' /\ WillKnow' /\ watches' = watches \cup {w}
           /\ \A x \in Publisher : x \notin watches' \cup retired => Untold(x)'
<1>1. /\ NoticeTypes /\ OwnPaths /\ WillKnow
      /\ \A x \in Publisher : Registered(x)
      /\ watches \in SUBSET Publisher /\ watches' = watches \cup {w}
      /\ watches' \subseteq Publisher /\ pathsOfInterest' = pathsOfInterest
  BY DEF KnowInv, NoticeTypes, doSetWatch
<1>2. \A p \in Path : Wanted(p)' <=> Wanted(p)
  BY <1>1 DEF Wanted
<1> DEFINE Below == {q \in Path : IsPrefix(PathOf[w], q) /\ Wanted(q)}
<1>3. PICK news : news = {Told(w, p, TRUE) : p \in Below} /\ Announce(toClient, news)
  BY DEF doSetWatch, doNotifyObject, Wanted
<1> HIDE DEF Below
<1>4. /\ \A p \in Below : Told(w, p, TRUE) \in news
      /\ \A n \in news : n.watch = w /\ n.path \in Below /\ n = Told(w, n.path, TRUE)
  <2>1. ASSUME NEW p \in Below PROVE Told(w, p, TRUE) \in news
    BY <1>3
  <2>2. ASSUME NEW n \in news
        PROVE  n.watch = w /\ n.path \in Below /\ n = Told(w, n.path, TRUE)
    <3>1. PICK p \in Below : n = Told(w, p, TRUE)
      BY <1>3
    <3>2. n.watch = w /\ n.path = p
      BY <3>1 DEF Told
    <3> QED
      BY <3>1, <3>2
  <2> QED
    BY <2>1, <2>2
<1>5. news \in SUBSET Notices /\ Coherent(news) /\ IsFiniteSet(news)
  <2>1. ASSUME NEW n \in news PROVE n \in Notices
    <3>1. n.path \in Path /\ n = Told(w, n.path, TRUE)
      BY <1>4 DEF Below
    <3> QED
      BY <3>1, NoticeFacts
  <2>2. Coherent(news)
    BY <1>4 DEF Coherent
  <2>3. IsFiniteSet(Below)
    <3>1. Below \in SUBSET Path
      BY DEF Below
    <3> QED
      BY <3>1, FS_Subset DEF FinitePaths
  <2>4. PICK f \in [Below -> Notices] : \A p \in Below : f[p] = Told(w, p, TRUE)
    <3>1. \A p \in Below : Told(w, p, TRUE) \in Notices
      BY NoticeFacts DEF Below
    <3>2. [p \in Below |-> Told(w, p, TRUE)] \in [Below -> Notices]
      BY <3>1
    <3> QED
      BY <3>2
  <2>5. news \subseteq {f[p] : p \in Below}
    <3>1. ASSUME NEW n \in news PROVE \E p \in Below : n = f[p]
      <4>1. n.path \in Below /\ n = Told(w, n.path, TRUE)
        BY <1>4
      <4>2. f[n.path] = Told(w, n.path, TRUE)
        BY <2>4, <4>1
      <4> QED
        BY <4>1, <4>2
    <3> QED
      BY <3>1
  <2>6. IsFiniteSet(news)
    BY <2>3, <2>5, NewsFinite
  <2> QED
    BY <2>1, <2>2, <2>6
<1>6. \A n \in news : n.watch \in watches' /\ IsPrefix(PathOf[n.watch], n.path)
  BY <1>1, <1>4 DEF Below
<1>7. ASSUME NEW x \in watches' \cap watchObjects', NEW p \in Path, IsPrefix(PathOf[x], p)
      PROVE  \E v \in BOOLEAN :
                /\ v <=> Wanted(p)'
                /\ \/ Told(x, p, v) \in news
                   \/ (\A n \in news : ~About(n, x, p)) /\ WillHear(x, p, v)
  <2>1. x \in Publisher /\ x \notin retired
    BY <1>1
  <2>2. CASE x = w /\ Wanted(p)
    <3>1. Told(x, p, TRUE) \in news
      BY <1>4, <1>7, <2>2 DEF Below
    <3> QED
      BY <1>2, <2>2, <3>1
  <2>3. CASE x # w \/ ~Wanted(p)
    <3>1. \A n \in news : ~About(n, x, p)
      BY <1>4, <2>3 DEF About, Below
    <3>2. \E v \in BOOLEAN : (v <=> Wanted(p)) /\ WillHear(x, p, v)
      <4>1. CASE x \in watches
        <5>1. x \in watchObjects
          BY <1>1, <2>1, <4>1 DEF Registered
        <5>2. IF Wanted(p) THEN WillHear(x, p, TRUE) ELSE WillHear(x, p, FALSE)
          BY <1>1, <1>7, <4>1, <5>1 DEF WillKnow
        <5> QED
          BY <5>2
      <4>2. CASE x \notin watches
        <5>1. Untold(x) /\ ~Wanted(p)
          BY <1>1, <2>1, <2>3, <4>2 DEF Registered
        <5>2. belief[x][p] = FALSE
          BY <1>1, <2>1, <5>1 DEF Untold, NoticeTypes
        <5>3. WillHear(x, p, FALSE)
          BY <5>1, <5>2 DEF WillHear, HearsLast, Untold, About
        <5> QED
          BY <5>1, <5>3
      <4> QED
        BY <4>1, <4>2
    <3> QED
      BY <1>2, <3>1, <3>2
  <2> QED
    BY <2>2, <2>3
<1>8. /\ NoticeTypes' /\ OwnPaths' /\ WillKnow'
      /\ \A x \in Publisher : x \notin watches \cup watches' \cup retired => Untold(x)'
  BY <1>1, <1>3, <1>5, <1>6, <1>7, NewsKnow
<1> QED
  BY <1>1, <1>8

LEMMA UnwatchedKnow ==
    ASSUME KnowInv, NEW w \in Publisher, doRemWatch(toClient, w),
           watchObjects' \subseteq Publisher, watchObjects' \cap retired = {}
    PROVE  /\ NoticeTypes' /\ OwnPaths' /\ WillKnow' /\ watches' = watches \ {w}
           /\ \A x \in Publisher : x \notin watches \cup retired => Untold(x)'
<1>1. /\ NoticeTypes /\ OwnPaths /\ WillKnow
      /\ \A x \in Publisher : Registered(x)
      /\ watches \in SUBSET Publisher /\ watches' = watches \ {w}
      /\ watches' \subseteq Publisher /\ pathsOfInterest' = pathsOfInterest
  BY DEF KnowInv, NoticeTypes, doRemWatch
<1>2. \A p \in Path : Wanted(p)' <=> Wanted(p)
  BY <1>1 DEF Wanted
<1>3. PICK news : news = {} /\ Announce(toClient, news)
  BY DEF doRemWatch
<1>4. news \in SUBSET Notices /\ Coherent(news) /\ IsFiniteSet(news)
  BY <1>3, FS_EmptySet DEF Coherent
<1>5. \A n \in news : n.watch \in watches' /\ IsPrefix(PathOf[n.watch], n.path)
  BY <1>3
<1>6. ASSUME NEW x \in watches' \cap watchObjects', NEW p \in Path, IsPrefix(PathOf[x], p)
      PROVE  \E v \in BOOLEAN :
                /\ v <=> Wanted(p)'
                /\ \/ Told(x, p, v) \in news
                   \/ (\A n \in news : ~About(n, x, p)) /\ WillHear(x, p, v)
  <2>1. x \in watches /\ x \in watchObjects
    BY <1>1 DEF Registered
  <2>2. IF Wanted(p) THEN WillHear(x, p, TRUE) ELSE WillHear(x, p, FALSE)
    BY <1>1, <1>6, <2>1 DEF WillKnow
  <2> QED
    BY <1>2, <1>3, <2>2
<1>7. /\ NoticeTypes' /\ OwnPaths' /\ WillKnow'
      /\ \A x \in Publisher : x \notin watches \cup watches' \cup retired => Untold(x)'
  BY <1>1, <1>3, <1>4, <1>5, <1>6, NewsKnow
<1> QED
  BY <1>1, <1>7

LEMMA WatchOpFacts ==
    /\ \A op, w : WatchOp(op, w).op = op /\ WatchOp(op, w).watch = w
    /\ \A op, w, oq, x : WatchOp(op, w) = WatchOp(oq, x) => op = oq /\ w = x
<1>1. \A op, w : WatchOp(op, w).op = op /\ WatchOp(op, w).watch = w
  BY DEF WatchOp
<1>2. ASSUME NEW op, NEW w, NEW oq, NEW x, WatchOp(op, w) = WatchOp(oq, x)
      PROVE  op = oq /\ w = x
  BY <1>1, <1>2
<1> QED
  BY <1>1, <1>2

LEMMA ServedKnow ==
    ASSUME KnowInv, CountTypes, CountTypes', FinitePaths, OneSubscriber, OneWatch,
           NEW a \in Process, NEW r \in Requests, Serve(toClient, a, r),
           r.op = "NOTIFY" => <<a, r.path>> \in Subscribe,
           watchObjects' \subseteq Publisher, watchObjects' \cap retired = {}
    PROVE  /\ NoticeTypes' /\ OwnPaths' /\ WillKnow'
           /\ \A x \in Path, b \in Process :
                 pathsOfInterest'[x][b] > 0 => <<b, x>> \in Subscribe
           /\ \A w \in Publisher :
                 w \in watches' <=> \/ w \in watches /\ r # WatchOp("REMWATCH", w)
                                    \/ r = WatchOp("ADDWATCH", w)
           /\ \A w \in Publisher : w \notin watches \cup watches' \cup retired => Untold(w)'
<1>1. OwnInterest /\ \A x \in Path, b \in Process :
                         pathsOfInterest[x][b] > 0 => <<b, x>> \in Subscribe
  BY DEF KnowInv, OwnInterest
<1>2. ASSUME NEW p \in Path, NEW yes \in BOOLEAN, r = InterestOp(p, yes)
      PROVE  /\ NoticeTypes' /\ OwnPaths' /\ WillKnow' /\ watches' = watches
             /\ \A w \in Publisher : w \notin watches \cup retired => Untold(w)'
             /\ \A x \in Path, b \in Process :
                   pathsOfInterest'[x][b] > 0 => <<b, x>> \in Subscribe
             /\ r.op = "NOTIFY"
  <2>1. r.op = "NOTIFY" /\ r.path = p /\ r.interested = yes
    BY <1>2 DEF InterestOp
  <2>2. doNotify(toClient, p, a, yes)
    BY <2>1 DEF Serve
  <2>3. <<a, p>> \in Subscribe
    BY <2>1
  <2> QED
    BY <2>1, <2>2, <2>3, NotifiedKnow
<1>3. ASSUME NEW w \in Publisher, r = WatchOp("ADDWATCH", w)
      PROVE  /\ NoticeTypes' /\ OwnPaths' /\ WillKnow' /\ watches' = watches \cup {w}
             /\ \A x \in Publisher : x \notin watches' \cup retired => Untold(x)'
             /\ pathsOfInterest' = pathsOfInterest
  <2>1. r.op = "ADDWATCH" /\ r.watch = w
    BY <1>3, WatchOpFacts
  <2>2. doSetWatch(toClient, w)
    BY <2>1 DEF Serve
  <2>3. pathsOfInterest' = pathsOfInterest
    BY <2>2 DEF doSetWatch
  <2> QED
    BY <2>2, <2>3, WatchedKnow
<1>4. ASSUME NEW w \in Publisher, r = WatchOp("REMWATCH", w)
      PROVE  /\ NoticeTypes' /\ OwnPaths' /\ WillKnow' /\ watches' = watches \ {w}
             /\ \A x \in Publisher : x \notin watches \cup retired => Untold(x)'
             /\ pathsOfInterest' = pathsOfInterest
  <2>1. r.op = "REMWATCH" /\ r.watch = w
    BY <1>4, WatchOpFacts
  <2>2. doRemWatch(toClient, w)
    BY <2>1 DEF Serve
  <2>3. pathsOfInterest' = pathsOfInterest
    BY <2>2 DEF doRemWatch
  <2> QED
    BY <2>2, <2>3, UnwatchedKnow
<1>5. ASSUME NEW p \in Path, NEW yes \in BOOLEAN, r = InterestOp(p, yes), NEW w, NEW op,
             op \in {"ADDWATCH", "REMWATCH"}
      PROVE  r # WatchOp(op, w)
  BY <1>2, <1>5, WatchOpFacts
<1>6. CASE \E p \in Path, yes \in BOOLEAN : r = InterestOp(p, yes)
  <2>1. PICK p \in Path, yes \in BOOLEAN : r = InterestOp(p, yes)
    BY <1>6
  <2>2. \A w \in Publisher : r # WatchOp("ADDWATCH", w) /\ r # WatchOp("REMWATCH", w)
    BY <1>5, <2>1
  <2> QED
    BY <1>2, <2>1, <2>2
<1>7. CASE \E w \in Publisher : r = WatchOp("ADDWATCH", w)
  <2>1. PICK w \in Publisher : r = WatchOp("ADDWATCH", w)
    BY <1>7
  <2>2. \A x \in Publisher : /\ r # WatchOp("REMWATCH", x)
                             /\ r = WatchOp("ADDWATCH", x) => x = w
    BY <2>1, WatchOpFacts
  <2>3. /\ NoticeTypes' /\ OwnPaths' /\ WillKnow' /\ watches' = watches \cup {w}
        /\ \A x \in Publisher : x \notin watches' \cup retired => Untold(x)'
        /\ pathsOfInterest' = pathsOfInterest
    BY <1>3, <2>1
  <2>4. \A x \in Publisher :
            x \in watches' <=> \/ x \in watches /\ r # WatchOp("REMWATCH", x)
                               \/ r = WatchOp("ADDWATCH", x)
    BY <2>1, <2>2, <2>3
  <2> QED
    BY <1>1, <2>3, <2>4
<1>8. CASE \E w \in Publisher : r = WatchOp("REMWATCH", w)
  <2>1. PICK w \in Publisher : r = WatchOp("REMWATCH", w)
    BY <1>8
  <2>2. \A x \in Publisher : /\ r # WatchOp("ADDWATCH", x)
                             /\ r = WatchOp("REMWATCH", x) => x = w
    BY <2>1, WatchOpFacts
  <2>3. /\ NoticeTypes' /\ OwnPaths' /\ WillKnow' /\ watches' = watches \ {w}
        /\ \A x \in Publisher : x \notin watches \cup retired => Untold(x)'
        /\ pathsOfInterest' = pathsOfInterest
    BY <1>4, <2>1
  <2>4. \A x \in Publisher :
            x \in watches' <=> \/ x \in watches /\ r # WatchOp("REMWATCH", x)
                               \/ r = WatchOp("ADDWATCH", x)
    BY <2>1, <2>2, <2>3
  <2> QED
    BY <1>1, <2>3, <2>4
<1>9. \/ \E p \in Path, yes \in BOOLEAN : r = InterestOp(p, yes)
      \/ \E w \in Publisher : r = WatchOp("ADDWATCH", w)
      \/ \E w \in Publisher : r = WatchOp("REMWATCH", w)
  <2>1. CASE r \in {InterestOp(p, yes) : p \in Path, yes \in BOOLEAN}
    BY <2>1
  <2>2. CASE r \in {WatchOp(op, w) : op \in {"ADDWATCH", "REMWATCH"}, w \in Publisher}
    BY <2>2
  <2> QED
    BY <2>1, <2>2 DEF Requests
<1> QED
  BY <1>6, <1>7, <1>8, <1>9

-----------------------------------------------------------------------------
(* Calls, and packets, keep what publishers will know.                     *)

(* What the request r of the process a leaves, once the server has handled it or *)
(* the socket has taken it: what RequestedKnow proves of it. *)
Requested(a, r) ==
    /\ NoticeTypes' /\ OwnPaths' /\ WillKnow'
    /\ \A x \in Path, b \in Process :
          pathsOfInterest'[x][b] > 0 => <<b, x>> \in Subscribe
    /\ \A c \in Client : \A k \in 1 .. Len(toServer'[c]) :
          toServer'[c][k].op = "NOTIFY" => <<c, toServer'[c][k].path>> \in Subscribe
    /\ \A c \in Client \ connections : toServer'[c] = <<>>
    /\ \A w \in Publisher :
          w \in watches' <=> \/ w \in watches
                                /\ (a # Server \/ r # WatchOp("REMWATCH", w))
                             \/ a = Server /\ r = WatchOp("ADDWATCH", w)
    /\ \A w \in Publisher : w \notin watches \cup watches' \cup retired => Untold(w)'
    /\ \A c \in Client : \A k \in 1 .. Len(toServer'[c]) :
          \/ \E j \in 1 .. Len(toServer[c]) : toServer[c][j] = toServer'[c][k]
          \/ c = a /\ toServer'[c][k] = r
    /\ \A c \in Client : \A k \in 1 .. Len(toServer[c]) :
          \E j \in 1 .. Len(toServer'[c]) : toServer'[c][j] = toServer[c][k]
    /\ a # Server => /\ a \in connections
                     /\ \E j \in 1 .. Len(toServer'[a]) : toServer'[a][j] = r

(* Every request of the protocol does so. *)
LEMMA RequestedKnow ==
    ASSUME KnowInv, CountTypes, CountTypes', FinitePaths, OneSubscriber, OneWatch,
           NEW a \in Process, NEW r \in Requests, Call(a, r),
           r.op = "NOTIFY" => <<a, r.path>> \in Subscribe,
           watchObjects' \subseteq Publisher, watchObjects' \cap retired = {}
    PROVE  Requested(a, r)
<1> SUFFICES /\ NoticeTypes' /\ OwnPaths' /\ WillKnow'
             /\ \A x \in Path, b \in Process :
                   pathsOfInterest'[x][b] > 0 => <<b, x>> \in Subscribe
             /\ \A c \in Client : \A k \in 1 .. Len(toServer'[c]) :
                   toServer'[c][k].op = "NOTIFY" => <<c, toServer'[c][k].path>> \in Subscribe
             /\ \A c \in Client \ connections : toServer'[c] = <<>>
             /\ \A w \in Publisher :
                   w \in watches' <=> \/ w \in watches
                                         /\ (a # Server \/ r # WatchOp("REMWATCH", w))
                                      \/ a = Server /\ r = WatchOp("ADDWATCH", w)
             /\ \A w \in Publisher : w \notin watches \cup watches' \cup retired => Untold(w)'
             /\ \A c \in Client : \A k \in 1 .. Len(toServer'[c]) :
                   \/ \E j \in 1 .. Len(toServer[c]) : toServer[c][j] = toServer'[c][k]
                   \/ c = a /\ toServer'[c][k] = r
             /\ \A c \in Client : \A k \in 1 .. Len(toServer[c]) :
                   \E j \in 1 .. Len(toServer'[c]) : toServer'[c][j] = toServer[c][k]
             /\ a # Server => /\ a \in connections
                              /\ \E j \in 1 .. Len(toServer'[a]) : toServer'[a][j] = r
  BY DEF Requested
<1>1. /\ NoticeTypes /\ OwnPaths /\ OwnInterest /\ WillKnow
      /\ \A w \in Publisher : Registered(w)
      /\ toServer \in [Client -> Seq(Requests)] /\ connections \subseteq Client
      /\ Server \notin Client /\ Process = Client \cup {Server}
  BY InterestAssumption DEF KnowInv, CountTypes, Process
<1>2. CASE a = Server
  <2>1. Serve(toClient, Server, r) /\ toServer' = toServer
    BY <1>2 DEF Call
  <2>2. Serve(toClient, a, r)
    BY <1>2, <2>1
  <2>3. /\ NoticeTypes' /\ OwnPaths' /\ WillKnow'
        /\ \A x \in Path, b \in Process :
              pathsOfInterest'[x][b] > 0 => <<b, x>> \in Subscribe
        /\ \A w \in Publisher :
              w \in watches' <=> \/ w \in watches /\ r # WatchOp("REMWATCH", w)
                                 \/ r = WatchOp("ADDWATCH", w)
        /\ \A w \in Publisher : w \notin watches \cup watches' \cup retired => Untold(w)'
    BY <2>2, ServedKnow
  <2>4. /\ \A c \in Client : \A k \in 1 .. Len(toServer'[c]) :
              toServer'[c][k].op = "NOTIFY" => <<c, toServer'[c][k].path>> \in Subscribe
        /\ \A c \in Client \ connections : toServer'[c] = <<>>
    BY <1>1, <2>1 DEF OwnInterest
  <2> QED
    BY <1>2, <2>1, <2>3, <2>4
<1>3. CASE a # Server
  <2>1. /\ a \in Client /\ a \in connections
        /\ toServer' = [toServer EXCEPT ![a] = Append(@, r)]
        /\ pathsOfInterest' = pathsOfInterest /\ watches' = watches
        /\ toClient' = toClient /\ belief' = belief
    BY <1>1, <1>3 DEF Call
  <2>2. NoticeTypes' /\ OwnPaths'
    BY <1>1, <2>1 DEF NoticeTypes, OwnPaths, Addressed
  <2>3. WillKnow'
    <3>1. ASSUME NEW w \in watches' \cap watchObjects', NEW p \in Path,
                 IsPrefix(PathOf[w], p)
          PROVE  IF Wanted(p)' THEN WillHear(w, p, TRUE)' ELSE WillHear(w, p, FALSE)'
      <4>1. w \in watches /\ w \in watchObjects
        BY <1>1, <2>1 DEF Registered
      <4>2. IF Wanted(p) THEN WillHear(w, p, TRUE) ELSE WillHear(w, p, FALSE)
        BY <1>1, <3>1, <4>1 DEF WillKnow
      <4>3. Wanted(p)' <=> Wanted(p)
        BY <2>1 DEF Wanted
      <4>4. ASSUME NEW v PROVE WillHear(w, p, v)' <=> WillHear(w, p, v)
        BY <2>1 DEF WillHear, HearsLast, Post, About
      <4> QED
        BY <4>2, <4>3, <4>4
    <3> QED
      BY <3>1 DEF WillKnow
  <2>4. \A x \in Path, b \in Process :
            pathsOfInterest'[x][b] > 0 => <<b, x>> \in Subscribe
    BY <1>1, <2>1 DEF OwnInterest
  <2>5. ASSUME NEW c \in Client, NEW k \in 1 .. Len(toServer'[c])
        PROVE  \/ \E j \in 1 .. Len(toServer[c]) : toServer[c][j] = toServer'[c][k]
               \/ c = a /\ toServer'[c][k] = r
    <3>1. CASE c # a
      BY <1>1, <2>1, <3>1
    <3>2. CASE c = a
      <4>1. PICK q \in Seq(Requests) : q = toServer[c]
        BY <1>1
      <4>2. toServer'[c] = Append(q, r)
        BY <1>1, <2>1, <3>2, <4>1
      <4>3. k \in 1 .. Len(Append(q, r))
        BY <4>2
      <4>4. \/ k \in 1 .. Len(q) /\ Append(q, r)[k] = q[k]
            \/ Append(q, r)[k] = r
        BY <4>3
      <4> QED
        BY <3>2, <4>1, <4>2, <4>4
    <3> QED
      BY <3>1, <3>2
  <2>6. ASSUME NEW c \in Client, NEW k \in 1 .. Len(toServer[c])
        PROVE  \E j \in 1 .. Len(toServer'[c]) : toServer'[c][j] = toServer[c][k]
    <3>1. CASE c # a
      BY <1>1, <2>1, <3>1
    <3>2. CASE c = a
      <4>1. PICK q \in Seq(Requests) : q = toServer[c]
        BY <1>1
      <4>2. toServer'[c] = Append(q, r)
        BY <1>1, <2>1, <3>2, <4>1
      <4>3. k \in 1 .. Len(Append(q, r)) /\ Append(q, r)[k] = q[k]
        BY <4>1
      <4> QED
        BY <4>1, <4>2, <4>3
    <3> QED
      BY <3>1, <3>2
  <2>7. \E j \in 1 .. Len(toServer'[a]) : toServer'[a][j] = r
    <3>1. PICK q \in Seq(Requests) : q = toServer[a]
      BY <1>1, <2>1
    <3>2. toServer'[a] = Append(q, r)
      BY <1>1, <2>1, <3>1
    <3>3. /\ Len(q) + 1 \in 1 .. Len(Append(q, r))
          /\ Append(q, r)[Len(q) + 1] = r
      OBVIOUS
    <3> QED
      BY <3>2, <3>3
  <2>8. ASSUME NEW c \in Client, NEW k \in 1 .. Len(toServer'[c]),
               toServer'[c][k].op = "NOTIFY"
        PROVE  <<c, toServer'[c][k].path>> \in Subscribe
    <3>1. CASE \E j \in 1 .. Len(toServer[c]) : toServer[c][j] = toServer'[c][k]
      <4>1. PICK j \in 1 .. Len(toServer[c]) : toServer[c][j] = toServer'[c][k]
        BY <3>1
      <4>2. toServer[c][j].op = "NOTIFY"
        BY <2>8, <4>1
      <4>3. <<c, toServer[c][j].path>> \in Subscribe
        BY <1>1, <4>2 DEF OwnInterest
      <4> QED
        BY <4>1, <4>3
    <3>2. CASE c = a /\ toServer'[c][k] = r
      BY <2>8, <3>2
    <3> QED
      BY <2>5, <3>1, <3>2
  <2>9. \A c \in Client \ connections : toServer'[c] = <<>>
    BY <1>1, <2>1 DEF OwnInterest
  <2>10. ASSUME NEW w \in Publisher, w \notin watches \cup watches' \cup retired
         PROVE  Untold(w)'
    BY <1>1, <2>1, <2>10 DEF Registered, Untold, Post
  <2> QED
    BY <1>3, <2>1, <2>2, <2>3, <2>4, <2>5, <2>6, <2>7, <2>8, <2>9, <2>10
<1> QED
  BY <1>2, <1>3

\* A publisher that a call is not about stays registered as it was.
LEMMA OthersRegistered ==
    ASSUME KnowInv, NEW w \in Publisher,
           w \in watchObjects' <=> w \in watchObjects, w \in retired' <=> w \in retired,
           w \in watches' <=> w \in watches,
           ProcessOf[w] \in connections => ProcessOf[w] \in connections',
           \A op \in {"ADDWATCH", "REMWATCH"} : Asked(op, w)' => Asked(op, w),
           \A c \in Client : \A k \in 1 .. Len(toServer[c]) :
              c = ProcessOf[w] /\ toServer[c][k] = WatchOp("ADDWATCH", w) =>
                 \E j \in 1 .. Len(toServer'[c]) : toServer'[c][j] = toServer[c][k],
           w \notin watches \cup retired => Untold(w)'
    PROVE  Registered(w)'
<1>1. Registered(w)
  BY DEF KnowInv
<1>2. w \notin watchObjects' \cup retired' =>
          w \notin watches' /\ ~Asked("ADDWATCH", w)' /\ ~Asked("REMWATCH", w)'
  BY <1>1 DEF Registered
<1>3. w \in watchObjects' =>
          /\ ~Asked("REMWATCH", w)' /\ w \notin retired'
          /\ ProcessOf[w] \in connections' \cup {Server}
  BY <1>1 DEF Registered
<1>4. ASSUME w \in watchObjects'
      PROVE  w \in watches' \/
                /\ ProcessOf[w] # Server
                /\ \E k \in 1 .. Len(toServer'[ProcessOf[w]]) :
                      toServer'[ProcessOf[w]][k] = WatchOp("ADDWATCH", w)
  <2>1. w \in watches \/
            /\ ProcessOf[w] # Server
            /\ \E k \in 1 .. Len(toServer[ProcessOf[w]]) :
                  toServer[ProcessOf[w]][k] = WatchOp("ADDWATCH", w)
    BY <1>1, <1>4 DEF Registered
  <2>2. ProcessOf[w] # Server => ProcessOf[w] \in Client
    BY InterestAssumption DEF Process
  <2> QED
    BY <2>1, <2>2
<1>5. w \notin watches' \cup retired' => Untold(w)'
  OBVIOUS
<1> QED
  BY <1>2, <1>3, <1>4, <1>5 DEF Registered

\* No request is under way that was not before, but this one.
Sends(a, r) ==
    \A c \in Client : \A k \in 1 .. Len(toServer'[c]) :
        \/ \E j \in 1 .. Len(toServer[c]) : toServer[c][j] = toServer'[c][k]
        \/ c = a /\ toServer'[c][k] = r

LEMMA AskedBefore ==
    ASSUME NEW a, NEW r, NEW op, NEW w, r # WatchOp(op, w), Sends(a, r)
    PROVE  Asked(op, w)' => Asked(op, w)
<1>1. ASSUME NEW c \in Client, NEW k \in 1 .. Len(toServer'[c]),
             toServer'[c][k] = WatchOp(op, w)
      PROVE  \E j \in 1 .. Len(toServer[c]) : toServer[c][j] = WatchOp(op, w)
  BY <1>1 DEF Sends
<1>2. Asked(op, w)' <=> \E c \in Client : \E k \in 1 .. Len(toServer'[c]) :
                            toServer'[c][k] = WatchOp(op, w)
  BY DEF Asked, WatchOp
<1> QED
  BY <1>1, <1>2 DEF Asked

LEMMA SubscribeKnow ==
    ASSUME KnowInv, CountTypes, CountTypes', FinitePaths, OneSubscriber, OneWatch,
           NEW a \in Process, NEW p \in Path, subscribe(a, p) \/ unsubscribe(a, p)
    PROVE  KnowInv'
<1>1. /\ OwnInterest /\ NoticeTypes /\ \A w \in Publisher : Registered(w)
      /\ subscribers \in [Process -> [Path -> 0 .. MaxInterest]] /\ MaxInterest \in Nat
  BY InterestAssumption DEF KnowInv, CountTypes
<1>2. PICK r \in Requests :
          /\ Call(a, r) /\ r.op = "NOTIFY" /\ r.path = p
          /\ UNCHANGED <<watchObjects, retired, connections>>
          /\ <<a, p>> \in Subscribe
          /\ \A b \in Process, x \in Path :
                b # a \/ x # p => subscribers'[b][x] = subscribers[b][x]
  <2>1. CASE subscribe(a, p)
    <3>1. /\ Call(a, Comes(p)) /\ UNCHANGED <<watchObjects, retired, connections>>
          /\ <<a, p>> \in Subscribe
          /\ subscribers' = [subscribers EXCEPT ![a][p] = @ + 1]
      BY <2>1 DEF subscribe, Comes
    <3>2. \A b \in Process, x \in Path :
              b # a \/ x # p => subscribers'[b][x] = subscribers[b][x]
      BY <1>1, <3>1
    <3>3. Comes(p) \in Requests /\ Comes(p).op = "NOTIFY" /\ Comes(p).path = p
      BY RequestTypes DEF Comes, InterestOp
    <3> QED
      BY <3>1, <3>2, <3>3
  <2>2. CASE unsubscribe(a, p)
    <3>1. /\ Call(a, Goes(p)) /\ UNCHANGED <<watchObjects, retired, connections>>
          /\ subscribers[a][p] > 0
          /\ subscribers' = [subscribers EXCEPT ![a][p] = @ - 1]
      BY <2>2 DEF unsubscribe, Goes
    <3>2. \A b \in Process, x \in Path :
              b # a \/ x # p => subscribers'[b][x] = subscribers[b][x]
      BY <1>1, <3>1
    <3>3. Goes(p) \in Requests /\ Goes(p).op = "NOTIFY" /\ Goes(p).path = p
      BY RequestTypes DEF Goes, InterestOp
    <3>4. <<a, p>> \in Subscribe
      BY <1>1, <3>1 DEF OwnInterest
    <3> QED
      BY <3>1, <3>2, <3>3, <3>4
  <2> QED
    BY <2>1, <2>2
<1>3. /\ \A w \in watchObjects : w \notin retired
      /\ watchObjects' \subseteq Publisher /\ watchObjects' \cap retired = {}
  BY <1>1, <1>2 DEF NoticeTypes, Registered
<1> Requested(a, r)
  BY <1>2, <1>3, RequestedKnow
<1>4. /\ NoticeTypes' /\ OwnPaths' /\ WillKnow'
      /\ \A x \in Path, b \in Process :
            pathsOfInterest'[x][b] > 0 => <<b, x>> \in Subscribe
      /\ \A c \in Client : \A k \in 1 .. Len(toServer'[c]) :
            toServer'[c][k].op = "NOTIFY" => <<c, toServer'[c][k].path>> \in Subscribe
      /\ \A c \in Client \ connections : toServer'[c] = <<>>
      /\ \A w \in Publisher :
            w \in watches' <=> \/ w \in watches
                                  /\ (a # Server \/ r # WatchOp("REMWATCH", w))
                               \/ a = Server /\ r = WatchOp("ADDWATCH", w)
      /\ \A w \in Publisher : w \notin watches \cup watches' \cup retired => Untold(w)'
      /\ \A c \in Client : \A k \in 1 .. Len(toServer'[c]) :
            \/ \E j \in 1 .. Len(toServer[c]) : toServer[c][j] = toServer'[c][k]
            \/ c = a /\ toServer'[c][k] = r
      /\ \A c \in Client : \A k \in 1 .. Len(toServer[c]) :
            \E j \in 1 .. Len(toServer'[c]) : toServer'[c][j] = toServer[c][k]
  BY DEF Requested
<1>5. \A op \in {"ADDWATCH", "REMWATCH"}, w \in Publisher : r # WatchOp(op, w)
  BY <1>2, WatchOpFacts
<1>6. ASSUME NEW w \in Publisher PROVE Registered(w)'
  <2>1. w \in watches' <=> w \in watches
    BY <1>4, <1>5
  <2>2. \A op \in {"ADDWATCH", "REMWATCH"} : Asked(op, w)' => Asked(op, w)
    <3>1. Sends(a, r)
      BY <1>4 DEF Sends
    <3>2. ASSUME NEW op \in {"ADDWATCH", "REMWATCH"} PROVE Asked(op, w)' => Asked(op, w)
      <4>1. r # WatchOp(op, w)
        BY <1>5
      <4> QED
        BY <3>1, <4>1, AskedBefore
    <3> QED
      BY <3>2
  <2>3. w \notin watches \cup retired => Untold(w)'
    BY <1>4, <2>1
  <2> QED
    BY <1>2, <1>4, <2>1, <2>2, <2>3, OthersRegistered
<1>7. OwnInterest'
  <2>1. ASSUME NEW b \in Process, NEW x \in Path, subscribers'[b][x] > 0
        PROVE  <<b, x>> \in Subscribe
    BY <1>1, <1>2, <2>1 DEF OwnInterest
  <2> QED
    BY <1>2, <1>4, <2>1 DEF OwnInterest
<1> QED
  BY <1>4, <1>6, <1>7 DEF KnowInv

LEMMA WatchKnow ==
    ASSUME KnowInv, CountTypes, CountTypes', FinitePaths, OneSubscriber, OneWatch,
           NEW w \in Publisher, addWatch(w) \/ removeWatches(w)
    PROVE  KnowInv'
<1>1. /\ OwnInterest /\ NoticeTypes /\ \A x \in Publisher : Registered(x)
      /\ ProcessOf[w] \in Process
  BY InterestAssumption DEF KnowInv
<1> DEFINE comes == w \in watchObjects'
           op == IF comes THEN "ADDWATCH" ELSE "REMWATCH"
           r == WatchOp(op, w)
           a == ProcessOf[w]
<1>2. /\ Call(a, r) /\ UNCHANGED <<subscribers, connections>>
      /\ IF comes
         THEN /\ w \notin watchObjects \cup retired
              /\ watchObjects' = watchObjects \cup {w} /\ retired' = retired
         ELSE /\ w \in watchObjects /\ w \in retired'
              /\ watchObjects' = watchObjects \ {w} /\ retired' = retired \cup {w}
  BY DEF addWatch, removeWatches
<1>3. /\ r \in Requests /\ r.op # "NOTIFY" /\ r.op = op /\ a \in Process
      /\ op \in {"ADDWATCH", "REMWATCH"} /\ (op = "ADDWATCH" <=> comes)
  BY <1>1, RequestTypes, WatchOpFacts
<1> HIDE DEF a
<1>4. \A x \in Publisher : \A oq : r = WatchOp(oq, x) => x = w /\ oq = op
  BY WatchOpFacts
<1>5. /\ \A x \in watchObjects : x \notin retired
      /\ watchObjects' \subseteq Publisher /\ watchObjects' \cap retired = {}
  BY <1>1, <1>2 DEF NoticeTypes, Registered
<1> HIDE DEF comes, op, r
<1>6. /\ NoticeTypes' /\ OwnPaths' /\ WillKnow'
      /\ \A x \in Path, b \in Process :
            pathsOfInterest'[x][b] > 0 => <<b, x>> \in Subscribe
      /\ \A c \in Client : \A k \in 1 .. Len(toServer'[c]) :
            toServer'[c][k].op = "NOTIFY" => <<c, toServer'[c][k].path>> \in Subscribe
      /\ \A c \in Client \ connections : toServer'[c] = <<>>
      /\ \A x \in Publisher :
            x \in watches' <=> \/ x \in watches
                                  /\ (a # Server \/ r # WatchOp("REMWATCH", x))
                               \/ a = Server /\ r = WatchOp("ADDWATCH", x)
      /\ \A x \in Publisher : x \notin watches \cup watches' \cup retired => Untold(x)'
      /\ \A c \in Client : \A k \in 1 .. Len(toServer'[c]) :
            \/ \E j \in 1 .. Len(toServer[c]) : toServer[c][j] = toServer'[c][k]
            \/ c = a /\ toServer'[c][k] = r
      /\ \A c \in Client : \A k \in 1 .. Len(toServer[c]) :
            \E j \in 1 .. Len(toServer'[c]) : toServer'[c][j] = toServer[c][k]
      /\ a # Server => /\ a \in connections
                       /\ \E j \in 1 .. Len(toServer'[a]) : toServer'[a][j] = r
  <2>1. /\ KnowInv /\ CountTypes /\ CountTypes' /\ FinitePaths /\ OneSubscriber /\ OneWatch
        /\ a \in Process /\ r \in Requests /\ Call(a, r) /\ r.op # "NOTIFY"
        /\ watchObjects' \subseteq Publisher /\ watchObjects' \cap retired = {}
    BY <1>1, <1>2, <1>3, <1>5
  <2>2. Requested(a, r)
    BY <2>1, RequestedKnow
  <2> QED
    BY <2>2 DEF Requested
<1>7. ASSUME NEW x \in Publisher, x # w PROVE Registered(x)'
  <2>1. /\ x \in watches' <=> x \in watches
        /\ x \in watchObjects' <=> x \in watchObjects
        /\ x \in retired' <=> x \in retired
    BY <1>2, <1>4, <1>6, <1>7
  <2>2. \A oq \in {"ADDWATCH", "REMWATCH"} : Asked(oq, x)' => Asked(oq, x)
    <3>1. Sends(a, r)
      BY <1>6 DEF Sends
    <3>2. ASSUME NEW oq \in {"ADDWATCH", "REMWATCH"} PROVE Asked(oq, x)' => Asked(oq, x)
      <4>1. r # WatchOp(oq, x)
        BY <1>4, <1>7
      <4> QED
        BY <3>1, <4>1, AskedBefore
    <3> QED
      BY <3>2
  <2>3. x \notin watches \cup retired => Untold(x)'
    BY <1>6, <2>1
  <2> QED
    BY <1>2, <1>6, <2>1, <2>2, <2>3, OthersRegistered
<1>8. Registered(w)'
  <2>1. CASE comes
    <3>1. /\ w \in watchObjects' /\ w \notin retired' /\ r = WatchOp("ADDWATCH", w)
          /\ w \notin watchObjects \cup retired
      BY <1>2, <1>3, <2>1 DEF comes, r
    <3>2. ~Asked("REMWATCH", w)'
      <4>1. ~Asked("REMWATCH", w)
        BY <1>1, <3>1 DEF Registered
      <4>2. r # WatchOp("REMWATCH", w)
        BY <1>3, <1>4, <2>1
      <4> QED
        <5>1. Sends(a, r)
          BY <1>6 DEF Sends
        <5>2. Asked("REMWATCH", w)' => Asked("REMWATCH", w)
          BY <4>2, <5>1, AskedBefore
        <5> QED
          BY <4>1, <5>2
    <3>3. ProcessOf[w] \in connections' \cup {Server}
      BY <1>2, <1>6 DEF a
    <3>4. ProcessOf[w] = Server => w \in watches'
      BY <1>6, <3>1 DEF a
    <3>5. ProcessOf[w] # Server =>
              \E k \in 1 .. Len(toServer'[ProcessOf[w]]) :
                  toServer'[ProcessOf[w]][k] = WatchOp("ADDWATCH", w)
      BY <1>6, <3>1 DEF a
    <3>6. w \notin watches' => Untold(w)'
      <4>1. w \notin watches
        BY <1>1, <3>1 DEF Registered
      <4> QED
        BY <1>6, <3>1, <4>1
    <3> QED
      BY <3>1, <3>2, <3>3, <3>4, <3>5, <3>6 DEF Registered
  <2>2. CASE ~comes
    <3>1. w \in retired' /\ w \notin watchObjects'
      BY <1>2, <2>2 DEF comes
    <3> QED
      BY <3>1 DEF Registered
  <2> QED
    BY <2>1, <2>2
<1>9. OwnInterest'
  BY <1>1, <1>2, <1>6 DEF OwnInterest
<1> QED
  BY <1>6, <1>7, <1>8, <1>9 DEF KnowInv

LEMMA ReadKnow ==
    ASSUME KnowInv, CountTypes, CountTypes', FinitePaths, OneSubscriber, OneWatch,
           NEW c \in Client, ServerReadyRead(c)
    PROVE  KnowInv'
<1>1. /\ OwnInterest /\ NoticeTypes /\ \A w \in Publisher : Registered(w)
      /\ toServer \in [Client -> Seq(Requests)]
      /\ c \in Process
      /\ \A w \in Publisher : ProcessOf[w] # Server => ProcessOf[w] \in Client
  BY InterestAssumption DEF KnowInv, CountTypes, Process
<1>2. PICK q \in Seq(Requests) : q = toServer[c] /\ q # <<>>
  BY <1>1 DEF ServerReadyRead
<1>3. PICK r \in Requests : r = q[1] /\ r = Head(q)
  BY <1>2
<1>4. /\ toServer' = [toServer EXCEPT ![c] = Tail(@)]
      /\ UNCHANGED <<subscribers, watchObjects, retired, connections>>
      /\ Serve(toClient, c, r)
  BY <1>2, <1>3 DEF ServerReadyRead
<1>5. /\ Len(q) \in Nat /\ 1 \in 1 .. Len(q) /\ Len(Tail(q)) = Len(q) - 1
      /\ \A k \in 1 .. Len(Tail(q)) : Tail(q)[k] = q[k + 1] /\ k + 1 \in 1 .. Len(q)
      /\ \A k \in 2 .. Len(q) : k - 1 \in 1 .. Len(Tail(q)) /\ Tail(q)[k - 1] = q[k]
      /\ \A k \in 1 .. Len(q) : k = 1 \/ k \in 2 .. Len(q)
  BY <1>2
<1>6. toServer'[c] = Tail(q) /\ \A d \in Client : d # c => toServer'[d] = toServer[d]
  BY <1>1, <1>2, <1>4
<1>7. ASSUME NEW d \in Client, NEW k \in 1 .. Len(toServer'[d])
      PROVE  \E j \in 1 .. Len(toServer[d]) : toServer[d][j] = toServer'[d][k]
  <2>1. CASE d = c
    <3>1. k \in 1 .. Len(Tail(q)) /\ toServer'[d][k] = Tail(q)[k]
      BY <1>6, <2>1
    <3>2. k + 1 \in 1 .. Len(q) /\ q[k + 1] = toServer'[d][k]
      BY <1>5, <3>1
    <3> QED
      BY <1>2, <2>1, <3>2
  <2>2. CASE d # c
    BY <1>6, <2>2
  <2> QED
    BY <2>1, <2>2
<1>8. ASSUME NEW d \in Client, NEW k \in 1 .. Len(toServer[d])
      PROVE  \/ d = c /\ toServer[d][k] = r
             \/ \E j \in 1 .. Len(toServer'[d]) : toServer'[d][j] = toServer[d][k]
  <2>1. CASE d = c
    <3>1. k \in 1 .. Len(q) /\ toServer[d][k] = q[k]
      BY <1>2, <2>1
    <3>2. CASE k = 1
      BY <1>3, <2>1, <3>1, <3>2
    <3>3. CASE k \in 2 .. Len(q)
      <4>1. k - 1 \in 1 .. Len(Tail(q)) /\ Tail(q)[k - 1] = q[k]
        BY <1>5, <3>3
      <4> QED
        BY <1>6, <2>1, <3>1, <4>1
    <3> QED
      BY <1>5, <3>1, <3>2, <3>3
  <2>2. CASE d # c
    BY <1>6, <2>2
  <2> QED
    BY <2>1, <2>2
<1>9. r.op = "NOTIFY" => <<c, r.path>> \in Subscribe
  <2>1. toServer[c][1] = r /\ 1 \in 1 .. Len(toServer[c])
    BY <1>2, <1>3, <1>5
  <2> QED
    BY <1>1, <2>1 DEF OwnInterest
<1>10. /\ watchObjects' \subseteq Publisher /\ watchObjects' \cap retired = {}
  BY <1>1, <1>4 DEF NoticeTypes, Registered
<1>11. /\ NoticeTypes' /\ OwnPaths' /\ WillKnow'
       /\ \A x \in Path, b \in Process :
             pathsOfInterest'[x][b] > 0 => <<b, x>> \in Subscribe
       /\ \A w \in Publisher :
             w \in watches' <=> \/ w \in watches /\ r # WatchOp("REMWATCH", w)
                                \/ r = WatchOp("ADDWATCH", w)
       /\ \A w \in Publisher : w \notin watches \cup watches' \cup retired => Untold(w)'
  BY <1>1, <1>4, <1>9, <1>10, ServedKnow
<1>12. \A op, w : r = WatchOp(op, w) => Asked(op, w)
  BY <1>2, <1>3, <1>5 DEF Asked
<1>13. \A op, w : Asked(op, w)' => Asked(op, w)
  <2>1. ASSUME NEW op, NEW w,
               \E d \in Client : \E k \in 1 .. Len(toServer'[d]) :
                  toServer'[d][k] = WatchOp(op, w)
        PROVE  Asked(op, w)
    BY <1>7, <2>1 DEF Asked
  <2> QED
    BY <2>1 DEF Asked, WatchOp
<1>14. ASSUME NEW w \in Publisher PROVE Registered(w)'
  <2>1. Registered(w)
    BY <1>1
  <2>2. w \notin watchObjects' \cup retired' =>
            w \notin watches' /\ ~Asked("ADDWATCH", w)' /\ ~Asked("REMWATCH", w)'
    BY <1>4, <1>11, <1>12, <1>13, <2>1 DEF Registered
  <2>3. w \in watchObjects' =>
            /\ ~Asked("REMWATCH", w)' /\ w \notin retired'
            /\ ProcessOf[w] \in connections' \cup {Server}
    BY <1>4, <1>13, <2>1 DEF Registered
  <2>4. ASSUME w \in watchObjects'
        PROVE  w \in watches' \/
                  /\ ProcessOf[w] # Server
                  /\ \E k \in 1 .. Len(toServer'[ProcessOf[w]]) :
                        toServer'[ProcessOf[w]][k] = WatchOp("ADDWATCH", w)
    <3>1. w \in watchObjects /\ ~Asked("REMWATCH", w)
      BY <1>4, <2>1, <2>4 DEF Registered
    <3>2. CASE w \in watches
      BY <1>11, <1>12, <3>1, <3>2
    <3>3. CASE w \notin watches
      <4>1. PICK k \in 1 .. Len(toServer[ProcessOf[w]]) :
                /\ ProcessOf[w] # Server
                /\ toServer[ProcessOf[w]][k] = WatchOp("ADDWATCH", w)
        BY <2>1, <3>1, <3>3 DEF Registered
      <4>2. CASE r = WatchOp("ADDWATCH", w)
        BY <1>11, <4>2
      <4>3. CASE r # WatchOp("ADDWATCH", w)
        <5>1. ProcessOf[w] \in Client
          BY <1>1, <4>1
        <5>2. toServer[ProcessOf[w]][k] # r
          BY <4>1, <4>3
        <5>3. \E j \in 1 .. Len(toServer'[ProcessOf[w]]) :
                  toServer'[ProcessOf[w]][j] = toServer[ProcessOf[w]][k]
          BY <1>8, <5>1, <5>2
        <5> QED
          BY <4>1, <5>3
      <4> QED
        BY <4>2, <4>3
    <3> QED
      BY <3>2, <3>3
  <2>5. ASSUME w \notin watches' \cup retired' PROVE Untold(w)'
    <3>1. w \notin watches
      BY <1>4, <1>11, <1>12, <2>1, <2>5 DEF Registered
    <3> QED
      BY <1>4, <1>11, <2>5, <3>1
  <2> QED
    BY <2>2, <2>3, <2>4, <2>5 DEF Registered
<1>15. OwnInterest'
  <2>1. ASSUME NEW d \in Client, NEW k \in 1 .. Len(toServer'[d]),
               toServer'[d][k].op = "NOTIFY"
        PROVE  <<d, toServer'[d][k].path>> \in Subscribe
    <3>1. PICK j \in 1 .. Len(toServer[d]) : toServer[d][j] = toServer'[d][k]
      BY <1>7
    <3>2. toServer[d][j].op = "NOTIFY"
      BY <2>1, <3>1
    <3>3. <<d, toServer[d][j].path>> \in Subscribe
      BY <1>1, <3>2 DEF OwnInterest
    <3> QED
      BY <3>1, <3>3
  <2>2. ASSUME NEW d \in Client, d \notin connections' PROVE toServer'[d] = <<>>
    <3>1. toServer[d] = <<>>
      BY <1>1, <1>4, <2>2 DEF OwnInterest
    <3> QED
      BY <1>2, <1>6, <3>1
  <2>3. \A b \in Process, x \in Path : subscribers'[b][x] > 0 => <<b, x>> \in Subscribe
    BY <1>1, <1>4 DEF OwnInterest
  <2> QED
    BY <1>11, <2>1, <2>2, <2>3 DEF OwnInterest
<1> QED
  BY <1>11, <1>14, <1>15 DEF KnowInv

LEMMA HeardKnow ==
    ASSUME KnowInv, NEW c \in Client, ClientReadyRead(c)
    PROVE  KnowInv'
<1>1. /\ OwnInterest /\ NoticeTypes /\ OwnPaths /\ WillKnow
      /\ \A w \in Publisher : Registered(w)
      /\ toClient \in [Client -> Seq(Notices)]
  BY DEF KnowInv, NoticeTypes
<1>2. PICK q \in Seq(Notices) : q = toClient[c] /\ q # <<>>
  BY <1>1 DEF ClientReadyRead
<1>3. PICK n \in Notices : n = q[1] /\ n = Head(q)
  BY <1>2
<1>4. /\ toClient' = [toClient EXCEPT ![c] = Tail(@)]
      /\ Hears({n})
      /\ UNCHANGED <<subscribers, pathsOfInterest, watches, watchObjects, retired,
                     connections, toServer>>
  BY <1>2, <1>3 DEF ClientReadyRead
<1>5. /\ Len(q) \in Nat /\ 1 \in 1 .. Len(q) /\ Tail(q) \in Seq(Notices)
      /\ \A k \in 1 .. Len(Tail(q)) : Tail(q)[k] = q[k + 1] /\ k + 1 \in 1 .. Len(q)
  BY <1>2
<1>6. toClient'[c] = Tail(q) /\ \A d \in Client : d # c => toClient'[d] = toClient[d]
  BY <1>1, <1>2, <1>4
<1>7. /\ belief' \in [Publisher -> [Path -> BOOLEAN]]
      /\ \A w \in Publisher, p \in Path :
            /\ w \notin watchObjects' \/ ~About(n, w, p) => belief'[w][p] = belief[w][p]
            /\ w \in watchObjects' /\ About(n, w, p) => belief'[w][p] = n.interested
  <2>1. {n} \in SUBSET Notices /\ Coherent({n})
    BY DEF Coherent
  <2> QED
    BY <1>1, <1>4, <2>1, HearsFacts
<1>8. /\ ProcessOf[n.watch] = c /\ IsPrefix(PathOf[n.watch], n.path)
      /\ n.watch \in Publisher
  BY <1>1, <1>2, <1>3, <1>5, NoticeFacts DEF OwnPaths, Addressed
<1>9. NoticeTypes'
  BY <1>1, <1>4, <1>5, <1>6, <1>7 DEF NoticeTypes
<1>10. ASSUME NEW d \in Client, NEW k \in 1 .. Len(toClient'[d])
       PROVE  \E j \in 1 .. Len(toClient[d]) : toClient[d][j] = toClient'[d][k]
  <2>1. CASE d = c
    <3>1. k \in 1 .. Len(Tail(q)) /\ toClient'[d][k] = Tail(q)[k]
      BY <1>6, <2>1
    <3>2. k + 1 \in 1 .. Len(q) /\ q[k + 1] = toClient'[d][k]
      BY <1>5, <3>1
    <3> QED
      BY <1>2, <2>1, <3>2
  <2>2. CASE d # c
    BY <1>6, <2>2
  <2> QED
    BY <2>1, <2>2
<1>11. OwnPaths'
  <2>1. ASSUME NEW d \in Client, NEW k \in 1 .. Len(toClient'[d])
        PROVE  /\ ProcessOf[toClient'[d][k].watch] = d
               /\ IsPrefix(PathOf[toClient'[d][k].watch], toClient'[d][k].path)
    <3>1. PICK j \in 1 .. Len(toClient[d]) : toClient[d][j] = toClient'[d][k]
      BY <1>10
    <3>2. /\ ProcessOf[toClient[d][j].watch] = d
          /\ IsPrefix(PathOf[toClient[d][j].watch], toClient[d][j].path)
      BY <1>1 DEF OwnPaths, Addressed
    <3> QED
      BY <3>1, <3>2
  <2>2. ASSUME NEW w \in Publisher, NEW p \in Path, belief'[w][p]
        PROVE  IsPrefix(PathOf[w], p)
    BY <1>1, <1>7, <1>8, <2>2 DEF OwnPaths, About
  <2> QED
    BY <2>1, <2>2 DEF OwnPaths, Addressed
<1>12. ASSUME NEW w \in Publisher, NEW p \in Path, NEW v, w \in watchObjects,
              WillHear(w, p, v)
       PROVE  WillHear(w, p, v)'
  <2>1. w \in watchObjects'
    BY <1>4, <1>12
  <2>2. HearsLast(belief'[w][p], Post(toClient', w), w, p, v)
    <3>1. CASE ProcessOf[w] = c
      <4>1. ProcessOf[w] # Server
        BY <3>1, InterestAssumption
      <4>2. Post(toClient, w) = q /\ Post(toClient', w) = Tail(q)
        BY <1>2, <1>6, <3>1, <4>1 DEF Post
      <4>3. HearsLast(belief[w][p], q, w, p, v)
        BY <1>12, <4>2 DEF WillHear
      <4>4. belief'[w][p] = IF About(Head(q), w, p) THEN Head(q).interested
                                                    ELSE belief[w][p]
        BY <1>3, <1>7, <2>1
      <4>5. HearsLast(belief'[w][p], Tail(q), w, p, v)
        BY <1>2, <4>3, <4>4, HearsHead
      <4> QED
        BY <4>2, <4>5
    <3>2. CASE ProcessOf[w] # c
      <4>1. belief'[w][p] = belief[w][p]
        BY <1>7, <1>8, <3>2 DEF About
      <4>2. Post(toClient', w) = Post(toClient, w)
        <5>1. ProcessOf[w] \in Client \cup {Server}
          BY InterestAssumption DEF Process
        <5> QED
          BY <1>6, <3>2, <5>1 DEF Post
      <4> QED
        BY <1>12, <4>1, <4>2 DEF WillHear
    <3> QED
      BY <3>1, <3>2
  <2> QED
    BY <2>2 DEF WillHear, HearsLast, Post, About
<1>13. WillKnow'
  <2>1. ASSUME NEW w \in watches' \cap watchObjects', NEW p \in Path, IsPrefix(PathOf[w], p)
        PROVE  IF Wanted(p)' THEN WillHear(w, p, TRUE)' ELSE WillHear(w, p, FALSE)'
    <3>1. w \in watches /\ w \in watchObjects /\ w \in Publisher
      BY <1>1, <1>4 DEF NoticeTypes
    <3>2. IF Wanted(p) THEN WillHear(w, p, TRUE) ELSE WillHear(w, p, FALSE)
      BY <1>1, <2>1, <3>1 DEF WillKnow
    <3>3. Wanted(p)' <=> Wanted(p)
      BY <1>4 DEF Wanted
    <3>4. CASE Wanted(p)
      BY <1>12, <3>1, <3>2, <3>3, <3>4
    <3>5. CASE ~Wanted(p)
      BY <1>12, <3>1, <3>2, <3>3, <3>5
    <3> QED
      BY <3>4, <3>5
  <2> QED
    BY <2>1 DEF WillKnow
<1>14. ASSUME NEW w \in Publisher PROVE Registered(w)'
  <2>1. \A op \in {"ADDWATCH", "REMWATCH"} : Asked(op, w)' => Asked(op, w)
    BY <1>4 DEF Asked
  <2>2. ASSUME w \notin watches \cup retired PROVE Untold(w)'
    <3>1. /\ \A p \in Path : ~belief[w][p]
          /\ \A k \in 1 .. Len(Post(toClient, w)) : Post(toClient, w)[k].watch # w
      BY <1>1, <2>2 DEF Registered, Untold
    <3>2. n.watch # w
      <4>1. CASE ProcessOf[w] = c
        <5>1. Post(toClient, w) = q
          BY <1>2, <4>1, InterestAssumption DEF Post
        <5> QED
          BY <1>3, <1>5, <3>1, <5>1
      <4>2. CASE ProcessOf[w] # c
        BY <1>8, <4>2
      <4> QED
        BY <4>1, <4>2
    <3>3. \A p \in Path : ~belief'[w][p]
      BY <1>7, <3>1, <3>2 DEF About
    <3>4. \A k \in 1 .. Len(Post(toClient', w)) : Post(toClient', w)[k].watch # w
      <4>1. CASE ProcessOf[w] = Server
        <5>1. Post(toClient', w) = <<>>
          BY <4>1 DEF Post
        <5> QED
          BY <5>1
      <4>2. CASE ProcessOf[w] # Server
        <5>1. /\ ProcessOf[w] \in Client /\ Post(toClient', w) = toClient'[ProcessOf[w]]
              /\ Post(toClient, w) = toClient[ProcessOf[w]]
          BY <4>2, InterestAssumption DEF Post, Process
        <5> QED
          BY <1>10, <3>1, <5>1
      <4> QED
        BY <4>1, <4>2
    <3> QED
      BY <3>3, <3>4 DEF Untold, Post
  <2> QED
    BY <1>4, <2>1, <2>2, OthersRegistered
<1>15. OwnInterest'
  BY <1>1, <1>4 DEF OwnInterest
<1> QED
  BY <1>9, <1>11, <1>13, <1>14, <1>15 DEF KnowInv

LEMMA GoneKnow ==
    ASSUME KnowInv, CountTypes, LeavesNoInterest, NEW c \in Client, disconnected(c)
    PROVE  KnowInv'
<1>1. /\ OwnInterest /\ NoticeTypes /\ OwnPaths /\ WillKnow
      /\ \A w \in Publisher : Registered(w)
      /\ toClient \in [Client -> Seq(Notices)]
      /\ toServer \in [Client -> Seq(Requests)]
      /\ c \in Process /\ c # Server
      /\ \A w \in Publisher : ProcessOf[w] \in Client \cup {Server}
      /\ subscribers \in [Process -> [Path -> 0 .. MaxInterest]]
      /\ pathsOfInterest \in [Path -> [Process -> 0 .. MaxInterest]]
  BY InterestAssumption DEF KnowInv, NoticeTypes, CountTypes, Process
<1>2. /\ c \in Mortal /\ connections' = connections \ {c}
      /\ watches' = {w \in watches : ProcessOf[w] # c}
      /\ pathsOfInterest' = [p \in Path |-> [pathsOfInterest[p] EXCEPT ![c] = 0]]
      /\ toServer' = [toServer EXCEPT ![c] = <<>>]
      /\ subscribers' = [subscribers EXCEPT ![c] = [p \in Path |-> 0]]
      /\ watchObjects' = {w \in watchObjects : ProcessOf[w] # c}
      /\ retired' = retired \cup {w \in Publisher : ProcessOf[w] = c}
  BY DEF disconnected
<1>3. PICK queues : queues = [toClient EXCEPT ![c] = <<>>]
  OBVIOUS
<1>4. PICK news : news = {} /\ Announce(queues, news)
  <2> DEFINE left == {w \in watches : ProcessOf[w] # c}
             ended == {p \in Path : /\ pathsOfInterest[p][c] > 0
                                    /\ \A a \in Process \ {c} : pathsOfInterest[p][a] = 0}
             all == {Told(w, p, FALSE) : w \in left, p \in ended}
             told == {n \in all :
                         /\ IsPrefix(PathOf[n.watch], n.path)
                         /\ ProcessOf[n.watch] = c}
  <2>1. Announce(queues, told)
    BY <1>3 DEF disconnected
  <2> HIDE DEF left, ended, all
  <2>2. ASSUME NEW n \in told PROVE FALSE
    <3>1. n \in all /\ ProcessOf[n.watch] = c
      OBVIOUS
    <3>2. PICK w \in left, p \in ended : n = Told(w, p, FALSE)
      BY <3>1 DEF all, Told
    <3>3. n.watch = w
      BY <3>2 DEF Told
    <3> QED
      BY <3>1, <3>3 DEF left
  <2> HIDE DEF told
  <2>3. told = {}
    BY <2>2
  <2> QED
    BY <2>1, <2>3
<1>5. /\ queues \in [Client -> Seq(Notices)] /\ queues[c] = <<>>
      /\ \A d \in Client : d # c => queues[d] = toClient[d]
  <2>1. <<>> \in Seq(Notices)
    OBVIOUS
  <2> QED
    BY <1>1, <1>3, <2>1
<1>6. /\ toClient' \in [Client -> Seq(Notices)]
      /\ belief' \in [Publisher -> [Path -> BOOLEAN]]
      /\ \A d \in Client : \A n \in Notices :
            \A k \in 1 .. Len(toClient'[d]) : toClient'[d][k] = n =>
               \/ \E j \in 1 .. Len(queues[d]) : queues[d][j] = n
               \/ n \in news /\ ProcessOf[n.watch] = d
      /\ \A w \in Publisher, p \in Path :
            belief'[w][p] = belief[w][p] \/ \E n \in news : About(n, w, p)
      /\ \A w \in Publisher, p \in Path : \A v \in BOOLEAN :
            \/ w \in watchObjects' /\ Told(w, p, v) \in news
            \/ /\ \A n \in news : ~About(n, w, p)
               /\ HearsLast(belief[w][p], Post(queues, w), w, p, v)
            => HearsLast(belief'[w][p], Post(toClient', w), w, p, v)
  <2>1. news \in SUBSET Notices /\ Coherent(news) /\ IsFiniteSet(news)
    BY <1>4, FS_EmptySet DEF Coherent
  <2> QED
    BY <1>1, <1>4, <1>5, <2>1, AnnouncedFacts
<1>7. NoticeTypes'
  BY <1>1, <1>2, <1>6 DEF NoticeTypes
<1>8. \A w \in Publisher, p \in Path : belief'[w][p] = belief[w][p]
  BY <1>4, <1>6
<1>9. ASSUME NEW d \in Client, NEW k \in 1 .. Len(toClient'[d])
      PROVE  \E j \in 1 .. Len(toClient[d]) : toClient[d][j] = toClient'[d][k]
  <2>1. toClient'[d][k] \in Notices
    BY <1>6
  <2>2. PICK j \in 1 .. Len(queues[d]) : queues[d][j] = toClient'[d][k]
    BY <1>4, <1>6, <2>1
  <2>3. d # c
    BY <1>5, <2>2
  <2> QED
    BY <1>5, <2>2, <2>3
<1>10. OwnPaths'
  <2>1. ASSUME NEW d \in Client, NEW k \in 1 .. Len(toClient'[d])
        PROVE  /\ ProcessOf[toClient'[d][k].watch] = d
               /\ IsPrefix(PathOf[toClient'[d][k].watch], toClient'[d][k].path)
    <3>1. PICK j \in 1 .. Len(toClient[d]) : toClient[d][j] = toClient'[d][k]
      BY <1>9
    <3>2. /\ ProcessOf[toClient[d][j].watch] = d
          /\ IsPrefix(PathOf[toClient[d][j].watch], toClient[d][j].path)
      BY <1>1 DEF OwnPaths, Addressed
    <3> QED
      BY <3>1, <3>2
  <2>2. ASSUME NEW w \in Publisher, NEW p \in Path, belief'[w][p]
        PROVE  IsPrefix(PathOf[w], p)
    BY <1>1, <1>8, <2>2 DEF OwnPaths
  <2> QED
    BY <2>1, <2>2 DEF OwnPaths, Addressed
<1>11. \A p \in Path, b \in Process :
           pathsOfInterest'[p][b] = IF b = c THEN 0 ELSE pathsOfInterest[p][b]
  BY <1>1, <1>2
<1>12. ASSUME NEW w \in Publisher, NEW p \in Path, ProcessOf[w] # c, IsPrefix(PathOf[w], p)
       PROVE  Wanted(p)' <=> Wanted(p)
  <2>1. ~(pathsOfInterest[p][c] > 0)
    <3>1. <<c, p>> \notin Subscribe
      <4>1. ASSUME <<c, p>> \in Subscribe PROVE FALSE
        <5>1. PICK s \in Subscribe : s = <<c, p>>
          BY <4>1
        <5>2. s[1] = c /\ s[2] = p
          BY <5>1
        <5> QED
          BY <1>2, <1>12, <5>2 DEF LeavesNoInterest
      <4> QED
        BY <4>1
    <3> QED
      BY <1>1, <3>1 DEF OwnInterest
  <2>2. \A b \in Process : pathsOfInterest'[p][b] > 0 <=> pathsOfInterest[p][b] > 0
    BY <1>11, <2>1
  <2> QED
    BY <2>2 DEF Wanted
<1>13. ASSUME NEW w \in Publisher, NEW p \in Path, NEW v \in BOOLEAN, ProcessOf[w] # c,
              WillHear(w, p, v)
       PROVE  WillHear(w, p, v)'
  <2>1. Post(queues, w) = Post(toClient, w)
    BY <1>1, <1>5, <1>13 DEF Post
  <2>2. HearsLast(belief[w][p], Post(queues, w), w, p, v)
    BY <1>13, <2>1 DEF WillHear
  <2>3. HearsLast(belief'[w][p], Post(toClient', w), w, p, v)
    BY <1>4, <1>6, <2>2
  <2> QED
    BY <2>3 DEF WillHear, HearsLast, Post, About
<1>14. WillKnow'
  <2>1. ASSUME NEW w \in watches' \cap watchObjects', NEW p \in Path, IsPrefix(PathOf[w], p)
        PROVE  IF Wanted(p)' THEN WillHear(w, p, TRUE)' ELSE WillHear(w, p, FALSE)'
    <3>1. w \in watches /\ w \in watchObjects /\ w \in Publisher /\ ProcessOf[w] # c
      BY <1>1, <1>2 DEF NoticeTypes
    <3>2. IF Wanted(p) THEN WillHear(w, p, TRUE) ELSE WillHear(w, p, FALSE)
      BY <1>1, <2>1, <3>1 DEF WillKnow
    <3>3. Wanted(p)' <=> Wanted(p)
      BY <1>12, <2>1, <3>1
    <3>4. CASE Wanted(p)
      BY <1>13, <3>1, <3>2, <3>3, <3>4
    <3>5. CASE ~Wanted(p)
      BY <1>13, <3>1, <3>2, <3>3, <3>5
    <3> QED
      BY <3>4, <3>5
  <2> QED
    BY <2>1 DEF WillKnow
<1>15. toServer'[c] = <<>> /\ \A d \in Client : d # c => toServer'[d] = toServer[d]
  BY <1>1, <1>2
<1>16. ASSUME NEW w \in Publisher PROVE Registered(w)'
  <2>1. CASE ProcessOf[w] = c
    <3>1. w \in retired' /\ w \notin watchObjects'
      BY <1>2, <2>1
    <3> QED
      BY <3>1 DEF Registered
  <2>2. CASE ProcessOf[w] # c
    <3>1. /\ w \in watchObjects' <=> w \in watchObjects
          /\ w \in retired' <=> w \in retired
          /\ w \in watches' <=> w \in watches
          /\ ProcessOf[w] \in connections => ProcessOf[w] \in connections'
      BY <1>2, <2>2
    <3>2. \A op \in {"ADDWATCH", "REMWATCH"} : Asked(op, w)' => Asked(op, w)
      \* No request is added.
      <4>1. Sends(Server, WatchOp("NONE", w))
        BY <1>15 DEF Sends
      <4>2. ASSUME NEW op \in {"ADDWATCH", "REMWATCH"} PROVE Asked(op, w)' => Asked(op, w)
        <5>1. WatchOp("NONE", w) # WatchOp(op, w)
          BY WatchOpFacts
        <5> QED
          BY <4>1, <5>1, AskedBefore
      <4> QED
        BY <4>2
    <3>3. \A d \in Client : \A k \in 1 .. Len(toServer[d]) :
              d = ProcessOf[w] /\ toServer[d][k] = WatchOp("ADDWATCH", w) =>
                 \E j \in 1 .. Len(toServer'[d]) : toServer'[d][j] = toServer[d][k]
      BY <1>15, <2>2
    <3>4. ASSUME w \notin watches \cup retired PROVE Untold(w)'
      <4>1. Untold(w)
        BY <1>1, <3>4 DEF Registered
      <4>2. \A p \in Path : ~belief'[w][p]
        BY <1>8, <4>1 DEF Untold
      <4>3. \A k \in 1 .. Len(Post(toClient', w)) : Post(toClient', w)[k].watch # w
        <5>1. CASE ProcessOf[w] = Server
          <6>1. Post(toClient', w) = <<>>
            BY <5>1 DEF Post
          <6> QED
            BY <6>1
        <5>2. CASE ProcessOf[w] # Server
          <6>1. /\ ProcessOf[w] \in Client /\ Post(toClient', w) = toClient'[ProcessOf[w]]
                /\ Post(toClient, w) = toClient[ProcessOf[w]]
            BY <1>1, <5>2 DEF Post
          <6> QED
            BY <1>9, <4>1, <6>1 DEF Untold
        <5> QED
          BY <5>1, <5>2
      <4> QED
        BY <4>2, <4>3 DEF Untold, Post
    <3> QED
      BY <3>1, <3>2, <3>3, <3>4, OthersRegistered
  <2> QED
    BY <2>1, <2>2
<1>17. OwnInterest'
  <2>1. \A b \in Process, p \in Path :
            subscribers'[b][p] = IF b = c THEN 0 ELSE subscribers[b][p]
    BY <1>1, <1>2
  <2>2. \A b \in Process, p \in Path :
            pathsOfInterest'[p][b] > 0 \/ subscribers'[b][p] > 0 => <<b, p>> \in Subscribe
    <3>1. ASSUME NEW b \in Process, NEW p \in Path,
                 pathsOfInterest'[p][b] > 0 \/ subscribers'[b][p] > 0
          PROVE  <<b, p>> \in Subscribe
      <4>1. CASE b = c
        <5>1. pathsOfInterest'[p][b] = 0 /\ subscribers'[b][p] = 0
          BY <1>11, <2>1, <4>1
        <5> QED
          BY <3>1, <5>1
      <4>2. CASE b # c
        <5>1. pathsOfInterest[p][b] > 0 \/ subscribers[b][p] > 0
          BY <1>11, <2>1, <3>1, <4>2
        <5> QED
          BY <1>1, <5>1 DEF OwnInterest
      <4> QED
        BY <4>1, <4>2
    <3> QED
      BY <3>1
  <2>3. \A d \in Client : \A k \in 1 .. Len(toServer'[d]) :
            toServer'[d][k].op = "NOTIFY" => <<d, toServer'[d][k].path>> \in Subscribe
    <3>1. ASSUME NEW d \in Client, NEW k \in 1 .. Len(toServer'[d])
          PROVE  d # c /\ toServer'[d] = toServer[d] /\ k \in 1 .. Len(toServer[d])
      BY <1>15
    <3>2. \A d \in Client : \A k \in 1 .. Len(toServer[d]) :
              toServer[d][k].op = "NOTIFY" => <<d, toServer[d][k].path>> \in Subscribe
      BY <1>1 DEF OwnInterest
    <3> QED
      BY <3>1, <3>2
  <2>4. \A d \in Client \ connections' : toServer'[d] = <<>>
    BY <1>1, <1>2, <1>15 DEF OwnInterest
  <2> QED
    BY <2>2, <2>3, <2>4 DEF OwnInterest
<1> QED
  BY <1>7, <1>10, <1>14, <1>16, <1>17 DEF KnowInv

LEMMA KnowStart == InterestInit => KnowInv
<1> SUFFICES ASSUME InterestInit PROVE KnowInv
  OBVIOUS
<1>1. /\ subscribers = [a \in Process |-> [p \in Path |-> 0]]
      /\ pathsOfInterest = [p \in Path |-> [a \in Process |-> 0]]
      /\ watches = {} /\ watchObjects = {} /\ retired = {} /\ connections = Client
      /\ toServer = [c \in Client |-> <<>>] /\ toClient = [c \in Client |-> <<>>]
      /\ belief = [w \in Publisher |-> [p \in Path |-> FALSE]]
  BY DEF InterestInit
<1>2. <<>> \in Seq(Notices) /\ Len(<<>>) = 0
  OBVIOUS
<1>3. NoticeTypes
  BY <1>1, <1>2 DEF NoticeTypes
<1>4. OwnPaths
  BY <1>1, <1>2 DEF OwnPaths, Addressed
<1>5. OwnInterest
  BY <1>1, <1>2 DEF OwnInterest
<1>6. ASSUME NEW w \in Publisher PROVE Registered(w)
  <2>1. \A op : ~Asked(op, w)
    BY <1>1, <1>2 DEF Asked
  <2>2. Post(toClient, w) = <<>>
    <3>1. ProcessOf[w] \in Client \cup {Server}
      BY InterestAssumption DEF Process
    <3> QED
      BY <1>1, <3>1 DEF Post
  <2>3. Untold(w)
    BY <1>1, <1>2, <2>2 DEF Untold
  <2> QED
    BY <1>1, <2>1, <2>3 DEF Registered
<1>7. WillKnow
  BY <1>1 DEF WillKnow
<1> QED
  BY <1>3, <1>4, <1>5, <1>6, <1>7 DEF KnowInv

LEMMA KnowStays ==
    ASSUME FinitePaths, OneSubscriber, OneWatch, LeavesNoInterest,
           CountInv, KnowInv, [InterestNext]_ivars
    PROVE  CountInv' /\ KnowInv'
<1>1. CountInv' /\ CountTypes /\ CountTypes'
  BY CountStays DEF CountInv
<1>2. ASSUME NEW a \in Process, NEW p \in Path, subscribe(a, p) \/ unsubscribe(a, p)
      PROVE  KnowInv'
  BY <1>1, <1>2, SubscribeKnow
<1>3. ASSUME NEW w \in Publisher, addWatch(w) \/ removeWatches(w) PROVE KnowInv'
  BY <1>1, <1>3, WatchKnow
<1>4. ASSUME NEW c \in Client, ServerReadyRead(c) PROVE KnowInv'
  BY <1>1, <1>4, ReadKnow
<1>5. ASSUME NEW c \in Client, ClientReadyRead(c) PROVE KnowInv'
  BY <1>5, HeardKnow
<1>6. ASSUME NEW c \in Client, disconnected(c) PROVE KnowInv'
  BY <1>1, <1>6, GoneKnow
<1>7. ASSUME UNCHANGED ivars PROVE KnowInv'
  BY <1>7 DEF ivars, KnowInv, NoticeTypes, OwnPaths, Addressed, OwnInterest, Registered, Asked,
              Untold, WillKnow, WillHear, HearsLast, Post, About, Wanted
<1> QED
  BY <1>1, <1>2, <1>3, <1>4, <1>5, <1>6, <1>7 DEF InterestNext

\* Where each path has its subscribers in one process, a client one watch at most
\* on a path, and none that may go away subscribers on the paths others watch: at
\* rest every publisher knows just whether anybody is interested, whatever
\* notifications, registrations and disconnections have crossed.
THEOREM InterestKnownHolds ==
    ASSUME FinitePaths, OneSubscriber, OneWatch, LeavesNoInterest
    PROVE  InterestSpec => []InterestKnown
<1>1. InterestInit => CountInv /\ KnowInv
  BY CountStart, KnowStart
<1>2. CountInv /\ KnowInv /\ [InterestNext]_ivars => CountInv' /\ KnowInv'
  BY KnowStays
<1>3. CountInv /\ KnowInv => InterestKnown
  <2> SUFFICES ASSUME CountInv, KnowInv, Settled, NEW w \in watchObjects, NEW p \in Path
               PROVE  /\ belief[w][p] => Interested(p)
                      /\ Interested(p) /\ IsPrefix(PathOf[w], p) => belief[w][p]
    BY DEF InterestKnown, TrueMeansSomebody, SomebodyIsKnown
  <2>1. /\ w \in Publisher /\ Registered(w) /\ WillKnow /\ OwnPaths /\ OwnInterest
        /\ NoticeTypes /\ belief[w][p] \in BOOLEAN
    BY DEF KnowInv, NoticeTypes
  <2>2. \A c \in Client : toServer[c] = <<>>
    BY <2>1 DEF OwnInterest, Settled
  <2>3. ASSUME NEW a \in Process PROVE pathsOfInterest[p][a] = subscribers[a][p]
    <3>1. CASE a = Server
      BY <3>1 DEF CountInv, ServerInv
    <3>2. CASE a \in Client
      <4>1. PICK count \in Int : count = pathsOfInterest[p][a]
        BY DEF CountInv, CountTypes
      <4>2. Level(count, <<>>, p, 0) = count
        BY TimesNone DEF Level
      <4>3. Agrees(count, <<>>, p, subscribers[a][p])
        BY <2>2, <3>2, <4>1 DEF CountInv, LevelInv
      <4> QED
        BY <4>1, <4>2, <4>3 DEF Agrees
    <3> QED
      BY <3>1, <3>2 DEF Process
  <2>4. Wanted(p) <=> Interested(p)
    BY <2>3 DEF Wanted, Interested
  <2>5. w \in watches
    <3>1. ProcessOf[w] # Server => toServer[ProcessOf[w]] = <<>>
      BY <2>1, <2>2, InterestAssumption DEF Process
    <3> QED
      BY <2>1, <3>1 DEF Registered
  <2>6. Post(toClient, w) = <<>>
    BY <2>1 DEF Post, Registered, Settled
  <2>7. ASSUME NEW v, WillHear(w, p, v) PROVE belief[w][p] = v
    BY <2>6, <2>7 DEF WillHear, HearsLast
  <2>8. CASE IsPrefix(PathOf[w], p)
    <3>1. IF Wanted(p) THEN WillHear(w, p, TRUE) ELSE WillHear(w, p, FALSE)
      BY <2>1, <2>5, <2>8 DEF WillKnow
    <3>2. CASE Wanted(p)
      <4>1. belief[w][p] = TRUE
        BY <2>7, <3>1, <3>2
      <4> QED
        BY <2>4, <3>2, <4>1
    <3>3. CASE ~Wanted(p)
      <4>1. belief[w][p] = FALSE
        BY <2>7, <3>1, <3>3
      <4> QED
        BY <2>4, <3>3, <4>1
    <3> QED
      BY <3>2, <3>3
  <2>9. CASE ~IsPrefix(PathOf[w], p)
    BY <2>1, <2>9 DEF OwnPaths
  <2> QED
    BY <2>8, <2>9
<1> QED
  BY <1>1, <1>2, <1>3, PTL DEF InterestSpec
=============================================================================
