--------------------- MODULE SharedMemoryLayerLock_proof ---------------------
(***************************************************************************)
(* Proofs about SharedMemoryLayerLock for every number of clients, inodes  *)
(* and semaphore sets: the server and the clients connected to it use one  *)
(* set, and NumInstances counts no process that is not there.              *)
(*                                                                         *)
(* The first rests on the key file: while a server runs, it is not removed *)
(* (nobody but a server's destructor does, or a constructor whose set has  *)
(* been removed by one), so that everyone who has connected since arrives  *)
(* at the same key, and at whatever set was made under it first.           *)
(***************************************************************************)
EXTENDS SharedMemoryLayerLock, FiniteSetTheorems, TLAPS

Running == pc[Server] \in Constructing \cup {"in"}

Follows(p) ==
    /\ pc[p] \in {"semget", "attach"} => id[p] = file
    /\ pc[p] \in {"attach", "reset", "zero", "count", "in"} => sets[file] # 0
    /\ pc[p] \in {"reset", "zero", "count", "in"} => semId[p] = sets[file]

Agreed ==
    /\ file \in Inode
    /\ \A c \in Client \ connected : pc[c] \notin Constructing
    /\ Follows(Server)
    /\ \A c \in connected : Follows(c)

Shape ==
    /\ connected \subseteq Client
    /\ \A c \in Client : pc[c] \notin {"uncount", "rmid", "unlink"}
    /\ pc[Server] \in {"zero", "count", "in"} => semId[Server] \in ready

LockInv ==
    /\ InstancesTypeOK
    /\ Shape
    /\ Running => Agreed

\* Every step of the layer is one of the lock, and the lock's state is typed.
LEMMA TypeStep ==
    ASSUME InstancesTypeOK, NEW p \in Proc, Construct(p) \/ Destruct(p) \/ End(p) \/ Start(p)
    PROVE  InstancesTypeOK'
<1> USE InstancesAssumption DEF InstancesTypeOK, InstanceLabel, HasSet, SetId
<1>0. pc[p] \in HasSet => semId[p] \in SetId
  OBVIOUS
<1>1. CASE createUnixKeyFile(p)
  BY <1>1 DEF createUnixKeyFile, Goes
<1>2. CASE ftok(p)
  BY <1>2 DEF ftok, Goes, kernel
<1>3. ASSUME NEW l \in {"reset"}, NewSet(p, l), pc[p] \in {"semget", "attach"}
      PROVE  InstancesTypeOK'
  BY <1>3 DEF NewSet, Goes
<1>4. CASE semget(p)
  BY <1>3, <1>4 DEF semget, Goes, kernel
<1>5. CASE Attach(p)
  <2> DEFINE s == sets[id[p]]
             l == IF s = 0 THEN "failed" ELSE IF p \in Creating THEN "reset" ELSE "count"
  <2>1. s \in 0 .. MaxSets
    BY <1>5 DEF Attach
  <2>2. CASE NewSet(p, "reset")
    BY <1>3, <1>5, <2>2 DEF Attach
  <2>3. CASE /\ semId' = [semId EXCEPT ![p] = s]
             /\ pc' = [pc EXCEPT ![p] = l]
             /\ UNCHANGED <<kernel, id>>
    BY <2>1, <2>3 DEF kernel
  <2> QED
    BY <1>5, <2>2, <2>3 DEF Attach, Goes
<1>6. CASE ResetLock(p)
  <2>1. ready' \subseteq SetId
    BY <1>0, <1>6 DEF ResetLock
  <2> QED
    BY <1>6, <2>1 DEF ResetLock, Goes
<1>7. CASE ResetCount(p)
  BY <1>7 DEF ResetCount, Goes
<1>8. CASE ResetFails(p)
  BY <1>8 DEF ResetFails, Goes
<1>9. CASE Count(p)
  BY <1>9 DEF Count, Goes
<1>10. CASE CountFails(p)
  BY <1>10 DEF CountFails, Goes, kernel
<1>11. CASE CountDown(p)
  <2> DEFINE s == semId[p]
  <2>1. s \in SetId
    BY <1>0, <1>11 DEF CountDown
  <2>2. num' \in [SetId -> Nat] /\ adj' \in [Proc -> [SetId -> Int]]
    <3>1. CASE Exists(s) /\ num[s] = 1
      <4> DEFINE a == [adj[p] EXCEPT ![s] = @ + 1]
      <4>1. a \in [SetId -> Int]
        BY <2>1
      <4>2. num' = [num EXCEPT ![s] = 0] /\ adj' = [adj EXCEPT ![p] = a]
        BY <1>11, <3>1 DEF CountDown
      <4> QED
        BY <4>1, <4>2
    <3>2. CASE ~(Exists(s) /\ num[s] = 1)
      BY <1>11, <3>2 DEF CountDown
    <3> QED
      BY <3>1, <3>2
  <2>3. pc' \in [Proc -> InstanceLabel] /\ (pc'[p] \in {"rmid", "uncount"})
        /\ \A q \in Proc \ {p} : pc'[q] = pc[q]
    BY <1>11 DEF CountDown, Goes
  <2> QED
    BY <1>11, <2>1, <2>2, <2>3 DEF CountDown
<1>12. CASE Uncount(p)
  <2> DEFINE s == semId[p]
  <2>1. s \in SetId
    BY <1>0, <1>12 DEF Uncount
  <2>2. num' \in [SetId -> Nat] /\ adj' \in [Proc -> [SetId -> Int]]
    <3>1. CASE Exists(s) /\ num[s] > 0
      <4> DEFINE a == [adj[p] EXCEPT ![s] = @ + 1]
                 n == num[s] - 1
      <4>1. a \in [SetId -> Int] /\ n \in Nat
        BY <2>1, <3>1
      <4>2. num' = [num EXCEPT ![s] = n] /\ adj' = [adj EXCEPT ![p] = a]
        BY <1>12, <3>1 DEF Uncount
      <4> QED
        BY <4>1, <4>2
    <3>2. CASE ~(Exists(s) /\ num[s] > 0)
      BY <1>12, <3>2 DEF Uncount
    <3> QED
      BY <3>1, <3>2
  <2>3. semId' \in [Proc -> 0 .. MaxSets] /\ \A q \in Proc \ {p} : semId'[q] = semId[q]
    BY <1>12 DEF Uncount
  <2>4. pc' \in [Proc -> InstanceLabel] /\ pc'[p] = "out"
        /\ \A q \in Proc \ {p} : pc'[q] = pc[q]
    BY <1>12 DEF Uncount, Goes
  <2> QED
    BY <1>12, <2>2, <2>3, <2>4 DEF Uncount
<1>13. CASE RemoveSet(p)
  BY <1>13 DEF RemoveSet, Goes
<1>14. CASE RemoveFile(p)
  BY <1>14 DEF RemoveFile, Goes
<1>15. CASE End(p)
  BY <1>15 DEF End, Goes, Adjusted
<1>16. CASE Start(p)
  BY <1>16 DEF Start, Goes, kernel
<1> QED
  BY <1>1, <1>2, <1>4, <1>5, <1>6, <1>7, <1>8, <1>9, <1>10, <1>11, <1>12,
     <1>13, <1>14, <1>15, <1>16 DEF Construct, Destruct

-----------------------------------------------------------------------------
(* The inductive invariant, action by action.                              *)

\* A constructor step of somebody who counts: the server while it runs, or a
\* client that is connected to it.
LEMMA ConstructAgrees ==
    ASSUME LockInv, NEW p \in Proc, Construct(p), UNCHANGED connected,
           p = Server \/ pc[p] \notin {"out", "failed"},
           p = Server => Running
    PROVE  Shape' /\ (Running' => Agreed')
<1> USE LayerLockAssumption, InstancesAssumption
    DEF LockInv, Shape, Running, Agreed, Follows, InstancesTypeOK, Constructing, HasSet
<1>0. Running' => Running
  BY DEF Construct, createUnixKeyFile, ftok, semget, Attach, NewSet, ResetLock,
         ResetCount, ResetFails, Count, CountFails, Goes, InstanceLabel
<1>1. CASE createUnixKeyFile(p)
  BY <1>1 DEF createUnixKeyFile, Goes
<1>2. CASE ftok(p)
  BY <1>0, <1>2 DEF ftok, Goes, kernel
<1>3. CASE semget(p)
  BY <1>0, <1>3 DEF semget, NewSet, Goes, kernel
<1>4. CASE Attach(p)
  BY <1>0, <1>4 DEF Attach, NewSet, Goes, kernel
<1>5. CASE ResetLock(p)
  BY <1>0, <1>5 DEF ResetLock, Goes
<1>6. CASE ResetCount(p)
  BY <1>0, <1>6 DEF ResetCount, Goes
<1>7. CASE ResetFails(p)
  BY <1>0, <1>7 DEF ResetFails, Exists, Goes
<1>8. CASE Count(p)
  BY <1>0, <1>8 DEF Count, Goes
<1>9. CASE CountFails(p)
  BY <1>0, <1>9 DEF CountFails, Goes, kernel
<1> QED
  BY <1>1, <1>2, <1>3, <1>4, <1>5, <1>6, <1>7, <1>8, <1>9 DEF Construct

LEMMA LockStep == LockInv /\ [LayerLockNext]_lvars => LockInv'
<1> SUFFICES ASSUME LockInv, [LayerLockNext]_lvars PROVE LockInv'
  OBVIOUS
<1> USE LayerLockAssumption, InstancesAssumption
<1>1. CASE ServerStarts
  <2>1. InstancesTypeOK'
    BY <1>1, TypeStep DEF ServerStarts, Construct, LockInv
  <2> QED
    BY <1>1, <2>1 DEF ServerStarts, createUnixKeyFile, Goes, LockInv, Shape, Running,
       Agreed, Follows, InstancesTypeOK, Constructing
<1>2. ASSUME NEW c \in Client, ClientStarts(c) PROVE LockInv'
  <2>1. InstancesTypeOK'
    BY <1>2, TypeStep DEF ClientStarts, Construct, LockInv
  <2> QED
    BY <1>2, <2>1 DEF ClientStarts, createUnixKeyFile, Goes, LockInv, Shape, Running,
       Agreed, Follows, InstancesTypeOK, Constructing
<1>3. ASSUME NEW p \in Proc, Constructs(p) PROVE LockInv'
  <2>1. InstancesTypeOK'
    BY <1>3, TypeStep DEF Constructs, LockInv
  <2>2. p = Server => Running
    BY <1>3 DEF Constructs, Construct, createUnixKeyFile, ftok, semget, Attach, ResetLock,
       ResetCount, ResetFails, Count, CountFails, Running, Constructing
  <2> QED
    BY <1>3, <2>1, <2>2, ConstructAgrees DEF Constructs, LockInv
<1>4. CASE ServerDestroys
  <2>1. InstancesTypeOK'
    BY <1>4, TypeStep DEF ServerDestroys, LockInv
  <2>2. ~Running'
    BY <1>4 DEF ServerDestroys, Destruct, CountDown, Uncount, RemoveSet, RemoveFile, Goes,
       Running, Constructing, LockInv, InstancesTypeOK
  <2>3. pc'[Server] \in {"rmid", "uncount", "unlink", "out"}
        /\ \A c \in Client : pc'[c] = pc[c]
    BY <1>4 DEF ServerDestroys, Destruct, CountDown, Uncount, RemoveSet, RemoveFile, Goes,
       LockInv, InstancesTypeOK
  <2> QED
    BY <1>4, <2>1, <2>2, <2>3 DEF ServerDestroys, LockInv, Shape
<1>5. ASSUME NEW p \in Proc, Ends(p) PROVE LockInv'
  <2>1. InstancesTypeOK'
    BY <1>5, TypeStep DEF Ends, LockInv
  <2> QED
    BY <1>5, <2>1 DEF Ends, End, Goes, LockInv, Shape, Running, Agreed, Follows,
       InstancesTypeOK, Constructing
<1>6. ASSUME NEW p \in Proc, Starts(p) PROVE LockInv'
  <2>1. InstancesTypeOK'
    BY <1>6, TypeStep DEF Starts, LockInv
  <2> QED
    BY <1>6, <2>1 DEF Starts, Start, Goes, kernel, LockInv, Shape, Running, Agreed, Follows,
       InstancesTypeOK, Constructing
<1>7. CASE UNCHANGED lvars
  BY <1>7 DEF lvars, ivars, LockInv, Shape, Running, Agreed, Follows, InstancesTypeOK
<1> QED
  BY <1>1, <1>2, <1>3, <1>4, <1>5, <1>6, <1>7 DEF LayerLockNext

LEMMA LockInit == LayerLockInit => LockInv
  BY LayerLockAssumption, InstancesAssumption
  DEF LayerLockInit, InstancesInit, LockInv, Shape, Running, Constructing, Agreed,
      InstancesTypeOK, InstanceLabel, HasSet, SetId

LEMMA LockInvariant == LayerLockSpec => []LockInv
  BY LockInit, LockStep, PTL DEF LayerLockSpec

\* The variables keep their types: in particular ftok's failure never becomes
\* the key of a set, and no process goes on with a set it does not have.
THEOREM InstancesTypeCorrect == LayerLockSpec => []InstancesTypeOK
  BY LockInvariant, PTL DEF LockInv

\* The server and the clients connected to it use one set, which exists and has
\* been initialised, for any number of clients and in every order of the calls
\* of their constructors.
THEOREM OneSetForAll == LayerLockSpec => []ConnectedShareOneSet
<1>1. LockInv => ConnectedShareOneSet
  BY DEF LockInv, Shape, Running, Agreed, Follows, ConnectedShareOneSet, Exists
<1> QED
  BY <1>1, LockInvariant, PTL

-----------------------------------------------------------------------------
(* NumInstances.  From the moment the server has reset it, it is the       *)
(* number of processes whose undo entry would take one off; only locks     *)
(* that are constructed have such an entry.                                *)

Entries(s) == {p \in Proc : adj[p][s] = -1}

Tallied(s) ==
    /\ num[s] = Cardinality(Entries(s))
    /\ \A p \in Proc : adj[p][s] \in {-1, 0}
    /\ \A p \in Entries(s) : pc[p] = "in" /\ semId[p] = s

Counting == pc[Server] \in {"count", "in"}

CountInv == Counting => Tallied(semId[Server])

\* A step that leaves the counter and the undo entries alone, and every lock
\* that is constructed.
LEMMA TallyKept ==
    ASSUME NEW s, Tallied(s), UNCHANGED <<num, adj>>,
           \A p \in Proc : pc[p] = "in" => pc'[p] = "in" /\ semId'[p] = semId[p]
    PROVE  Tallied(s)'
  BY DEF Tallied, Entries

LEMMA TallyReset ==
    ASSUME InstancesTypeOK, NEW p \in Proc, ResetCount(p)
    PROVE  Tallied(semId[p])'
<1> DEFINE s == semId[p]
<1>1. s \in SetId
  BY DEF ResetCount, InstancesTypeOK, HasSet, SetId
<1>2. num'[s] = 0 /\ \A q \in Proc : adj'[q][s] = 0
  BY <1>1 DEF ResetCount, InstancesTypeOK
<1>3. Entries(s)' = {} /\ semId' = semId
  BY <1>2 DEF Entries, ResetCount
<1> QED
  BY <1>2, <1>3, FS_EmptySet DEF Tallied, Entries, ResetCount

LEMMA TallyCount ==
    ASSUME InstancesTypeOK, NEW p \in Proc, Count(p), Tallied(semId[p])
    PROVE  Tallied(semId[p])'
<1> DEFINE s == semId[p]
<1>1. s \in SetId /\ p \notin Entries(s) /\ semId' = semId
  BY DEF Count, InstancesTypeOK, HasSet, SetId, Tallied
<1>2. adj[p][s] = 0
  BY <1>1 DEF Tallied, Entries
<1>3. num'[s] = num[s] + 1
      /\ adj'[p][s] = -1
      /\ \A q \in Proc \ {p} : adj'[q] = adj[q]
  <2> DEFINE a == [adj[p] EXCEPT ![s] = @ - 1]
  <2>1. a[s] = -1
    BY <1>1, <1>2 DEF InstancesTypeOK
  <2>2. adj' = [adj EXCEPT ![p] = a] /\ num' = [num EXCEPT ![s] = @ + 1]
    BY DEF Count
  <2> QED
    BY <1>1, <2>1, <2>2 DEF InstancesTypeOK
<1>4. Entries(s)' = Entries(s) \cup {p}
  BY <1>1, <1>3 DEF Entries
<1>5. IsFiniteSet(Entries(s))
  BY FS_Subset, InstancesAssumption DEF Entries
<1>6. Cardinality(Entries(s)') = num'[s]
  BY <1>1, <1>3, <1>4, <1>5, FS_AddElement DEF Tallied
<1>7. pc'[p] = "in" /\ \A q \in Proc \ {p} : pc'[q] = pc[q]
  BY DEF Count, Goes, InstancesTypeOK
<1> QED
  BY <1>1, <1>3, <1>4, <1>6, <1>7 DEF Tallied, Entries

LEMMA TallyEnd ==
    ASSUME InstancesTypeOK, NEW p \in Proc, End(p), NEW s \in SetId, Tallied(s)
    PROVE  Tallied(s)'
<1>1. num'[s] = Adjusted(num[s], adj[p][s])
      /\ adj'[p][s] = 0
      /\ \A q \in Proc \ {p} : adj'[q] = adj[q] /\ pc'[q] = pc[q] /\ semId'[q] = semId[q]
  BY DEF End, Goes, InstancesTypeOK
<1>2. Entries(s)' = Entries(s) \ {p}
  BY <1>1 DEF Entries
<1>3. IsFiniteSet(Entries(s))
  BY FS_Subset, InstancesAssumption DEF Entries
<1>4. Cardinality(Entries(s)') = num'[s]
  <2>1. CASE p \in Entries(s)
    <3>1. Cardinality(Entries(s) \ {p}) = num[s] - 1
      BY <1>3, <2>1, FS_RemoveElement DEF Tallied
    <3>2. Cardinality(Entries(s) \ {p}) \in Nat
      BY <1>3, FS_RemoveElement, FS_CardinalityType
    <3>3. num[s] \in Nat /\ adj[p][s] = -1
      BY <2>1 DEF InstancesTypeOK, Entries
    <3>4. num'[s] = Adjusted(num[s], -1)
      BY <1>1, <3>3
    <3>5. num[s] - 1 = num[s] + -1 /\ ~(num[s] + -1 < 0)
      BY <3>1, <3>2, <3>3
    <3> QED
      BY <1>2, <3>1, <3>4, <3>5 DEF Adjusted
  <2>2. CASE p \notin Entries(s)
    <3>1. Entries(s) \ {p} = Entries(s)
      BY <2>2
    <3>2. adj[p][s] = 0 /\ num[s] \in Nat
      BY <2>2 DEF Tallied, Entries, InstancesTypeOK
    <3>3. num'[s] = Adjusted(num[s], 0)
      BY <1>1, <3>2
    <3>4. num[s] + 0 = num[s] /\ ~(num[s] + 0 < 0)
      BY <3>2
    <3> QED
      BY <1>2, <3>1, <3>3, <3>4 DEF Adjusted, Tallied
  <2> QED
    BY <2>1, <2>2
<1> QED
  BY <1>1, <1>2, <1>4 DEF Tallied, Entries

LEMMA CountStep == LockInv /\ CountInv /\ [LayerLockNext]_lvars => CountInv'
<1> SUFFICES ASSUME LockInv, CountInv, [LayerLockNext]_lvars, Counting'
             PROVE  Tallied(semId[Server])'
  BY DEF CountInv
<1> USE LayerLockAssumption, InstancesAssumption
<1> DEFINE s == semId[Server]
<1>0. InstancesTypeOK
  BY DEF LockInv
<1>1. CASE ServerStarts
  BY <1>0, <1>1 DEF ServerStarts, createUnixKeyFile, Goes, Counting, InstancesTypeOK
<1>2. ASSUME NEW c \in Client, ClientStarts(c) PROVE Tallied(s)'
  BY <1>0, <1>2, TallyKept DEF ClientStarts, createUnixKeyFile, Goes, Counting, CountInv,
     InstancesTypeOK
<1>3. ASSUME NEW p \in Proc, Constructs(p) PROVE Tallied(s)'
  <2>0. Construct(p) /\ pc[p] \notin {"out", "failed", "in"} /\ connected' = connected
    BY <1>3 DEF Constructs, Construct, createUnixKeyFile, ftok, semget, Attach, ResetLock,
       ResetCount, ResetFails, Count, CountFails
  <2>1. CASE ResetCount(p)
    <3>1. semId' = semId /\ pc' = [pc EXCEPT ![p] = "count"] /\ pc[p] = "zero"
      BY <2>1 DEF ResetCount, Goes
    <3>2. Running
      BY <1>0, <3>1 DEF Counting, Running, Constructing, InstancesTypeOK
    <3>3. p # Server => p \in connected
      BY <3>1, <3>2 DEF LockInv, Agreed, Constructing
    <3>4. pc[Server] \in {"zero", "count", "in"}
      BY <1>0, <3>1 DEF Counting, InstancesTypeOK
    <3>5. semId[p] = s
      BY <3>1, <3>2, <3>3, <3>4 DEF LockInv, Agreed, Follows
    <3> QED
      BY <1>0, <2>1, <3>1, <3>5, TallyReset
  <2>2. CASE Count(p)
    <3>1. semId' = semId /\ pc' = [pc EXCEPT ![p] = "in"] /\ pc[p] = "count"
      BY <2>2 DEF Count, Goes
    <3>2. Counting /\ Running
      BY <1>0, <3>1 DEF Counting, Running, Constructing, InstancesTypeOK
    <3>3. p # Server => p \in connected
      BY <3>1, <3>2 DEF LockInv, Agreed, Constructing
    <3>4. semId[p] = s
      BY <3>1, <3>2, <3>3 DEF LockInv, Agreed, Follows, Counting
    <3> QED
      BY <1>0, <2>2, <3>1, <3>2, <3>4, TallyCount DEF CountInv
  <2>3. CASE ~ResetCount(p) /\ ~Count(p)
    <3>1. /\ UNCHANGED <<num, adj>>
          /\ pc'[p] \notin {"count", "in"} \/ semId'[p] = sets[id[p]]
          /\ \A q \in Proc \ {p} : pc'[q] = pc[q] /\ semId'[q] = semId[q]
      BY <1>0, <2>0, <2>3 DEF Construct, createUnixKeyFile, ftok, semget, Attach, NewSet,
         ResetLock, ResetFails, CountFails, Goes, kernel, InstancesTypeOK
    <3>2. p # Server
      BY <1>0, <2>0, <2>3 DEF Construct, createUnixKeyFile, ftok, semget, Attach, NewSet,
         ResetLock, ResetFails, CountFails, Goes, Counting, InstancesTypeOK
    <3>3. Counting /\ semId'[Server] = s
      BY <3>1, <3>2 DEF Counting
    <3> QED
      BY <2>0, <3>1, <3>3, TallyKept DEF CountInv
  <2> QED
    BY <2>1, <2>2, <2>3
<1>4. CASE ServerDestroys
  BY <1>0, <1>4 DEF ServerDestroys, Destruct, CountDown, Uncount, RemoveSet, RemoveFile, Goes,
     Counting, InstancesTypeOK
<1>5. ASSUME NEW p \in Proc, Ends(p) PROVE Tallied(s)'
  <2>1. p # Server /\ Counting /\ semId'[Server] = s
    BY <1>0, <1>5 DEF Ends, End, Goes, Counting, InstancesTypeOK
  <2>2. s \in SetId
    BY <1>0, <2>1 DEF Counting, InstancesTypeOK, HasSet, SetId
  <2> QED
    BY <1>0, <1>5, <2>1, <2>2, TallyEnd DEF Ends, CountInv
<1>6. ASSUME NEW p \in Proc, Starts(p) PROVE Tallied(s)'
  BY <1>0, <1>6, TallyKept DEF Starts, Start, Goes, kernel, Counting, CountInv, InstancesTypeOK
<1>7. CASE UNCHANGED lvars
  BY <1>7, TallyKept DEF lvars, ivars, Counting, CountInv
<1> QED
  BY <1>1, <1>2, <1>3, <1>4, <1>5, <1>6, <1>7 DEF LayerLockNext

\* While the server has its lock, NumInstances is at most the number of locks
\* constructed on its set, through every crash, undo and late reset.
THEOREM NoGhosts == LayerLockSpec => []CountsNoGhosts
<1>1. LayerLockInit => CountInv
  BY LayerLockAssumption DEF LayerLockInit, InstancesInit, CountInv, Counting
<1>2. LockInv /\ CountInv => CountsNoGhosts
  <2> SUFFICES ASSUME LockInv, CountInv, pc[Server] = "in" PROVE CountsNoGhosts
    BY DEF CountsNoGhosts
  <2> DEFINE s == semId[Server]
             Locks == {p \in Proc : pc[p] = "in" /\ semId[p] = s}
  <2>1. Tallied(s)
    BY DEF CountInv, Counting
  <2>2. Entries(s) \subseteq Locks
    BY <2>1 DEF Tallied, Entries
  <2>3. IsFiniteSet(Locks)
    BY FS_Subset, InstancesAssumption
  <2>4. Cardinality(Entries(s)) <= Cardinality(Locks)
    BY <2>2, <2>3, FS_Subset
  <2> QED
    BY <2>1, <2>4 DEF CountsNoGhosts, Tallied
<1> QED
  BY <1>1, <1>2, LockInvariant, CountStep, PTL DEF LayerLockSpec
==============================================================================
