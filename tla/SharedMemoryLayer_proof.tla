----------------------- MODULE SharedMemoryLayer_proof -----------------------
(***************************************************************************)
(* Proofs about the value space in shared memory, for every set of paths,  *)
(* owners, clients, values and requests and every size of the version      *)
(* table.                                                                  *)
(*                                                                         *)
(* First about FixedMemoryTree, the tree of the server: whatever is linked *)
(* stays linked to the root, the table is never overdrawn, no node appears *)
(* or disappears without a new version of all the nodes above it, nobody   *)
(* changes the value of another owner at a path, and nothing is left of    *)
(* an owner that is disconnected.                                          *)
(*                                                                         *)
(* Then about SharedMemoryLayer, the server and the clients around that    *)
(* tree: what a client was told is applied is in the tree, although the    *)
(* requests of all the clients meet there and each arrives a packet at a   *)
(* time; and a client that has gone owns nothing.                          *)
(*                                                                         *)
(* Then about its subscribers: when all has come to rest each of them has  *)
(* been notified since the last change below its path, whatever refreshes, *)
(* packets and bitmaps came in between.                                    *)
(*                                                                         *)
(* The actions of the layer use the operators of the tree, so the second   *)
(* and the third part rest on the lemmas of the first.                     *)
(***************************************************************************)
EXTENDS SharedMemoryLayer, FiniteSetTheorems, WellFoundedInduction, TLAPS

(***************************************************************************)
(* I.  The tree.                                                           *)
(***************************************************************************)

-----------------------------------------------------------------------------
(* Prefixes.                                                               *)

LEMMA PrefixDef ==
    ASSUME NEW S, NEW p \in Seq(S), NEW q
    PROVE  q \in Prefixes(p) <=>
              /\ q \in Seq(S)
              /\ Len(q) <= Len(p)
              /\ \A i \in 1 .. Len(q) : q[i] = p[i]
<1>1. ASSUME NEW l \in 0 .. Len(p)
      PROVE  /\ SubSeq(p, 1, l) \in Seq(S)
             /\ Len(SubSeq(p, 1, l)) = l
             /\ \A i \in 1 .. l : SubSeq(p, 1, l)[i] = p[i]
  OBVIOUS
<1>2. ASSUME q \in Prefixes(p)
      PROVE  q \in Seq(S) /\ Len(q) <= Len(p) /\ \A i \in 1 .. Len(q) : q[i] = p[i]
  BY <1>1, <1>2 DEF Prefixes
<1>3. ASSUME q \in Seq(S), Len(q) <= Len(p), \A i \in 1 .. Len(q) : q[i] = p[i]
      PROVE  q \in Prefixes(p)
  <2>1. Len(q) \in 0 .. Len(p)
    BY <1>3
  <2>2. q = SubSeq(p, 1, Len(q))
    BY <1>1, <1>3, <2>1
  <2> QED
    BY <2>1, <2>2 DEF Prefixes
<1> QED
  BY <1>2, <1>3

\* The nodes are sequences of names.
Names == UNION {ToSet(p) : p \in Path}

LEMMA NodeIsSeq == \A p \in Node : p \in Seq(Names)
<1>1. ASSUME NEW p \in Path PROVE p \in Seq(Names)
  <2>1. ToSet(p) \subseteq Names
    BY DEF Names
  <2> QED
    BY <2>1, TreeAssumption
<1>2. Root \in Seq(Names)
  BY DEF Root
<1> QED
  BY <1>1, <1>2 DEF Node

LEMMA PrefixFacts ==
    ASSUME NEW p \in Node
    PROVE  /\ p \in Prefixes(p) /\ Root \in Prefixes(p)
           /\ Prefixes(p) \subseteq Node
           /\ Len(p) \in Nat
           /\ \A q \in Prefixes(p) : Prefixes(q) \subseteq Prefixes(p)
           /\ \A q \in Prefixes(p) : Len(q) <= Len(p) /\ (Len(q) = Len(p) => q = p)
           /\ \A q, r \in Prefixes(p) : Len(q) <= Len(r) => q \in Prefixes(r)
<1>1. p \in Seq(Names)
  BY NodeIsSeq
<1>2. p \in Prefixes(p) /\ Root \in Prefixes(p) /\ Len(p) \in Nat
  <2>1. Len(p) \in Nat
    BY <1>1
  <2>2. p \in Prefixes(p)
    <3>1. Len(p) <= Len(p)
      BY <2>1
    <3> QED
      BY <1>1, <3>1, PrefixDef
  <2>3. Root \in Seq(Names) /\ Len(Root) = 0
    BY DEF Root
  <2>4. Len(Root) <= Len(p) /\ \A i \in 1 .. Len(Root) : Root[i] = p[i]
    BY <2>1, <2>3
  <2> QED
    BY <1>1, <2>1, <2>2, <2>3, <2>4, PrefixDef
<1>3. Prefixes(p) \subseteq Node
  <2>1. CASE p \in Path
    BY <2>1, TreeAssumption
  <2>2. CASE p = Root
    <3>1. ASSUME NEW q \in Prefixes(p) PROVE q = Root
      <4>1. q \in Seq(Names) /\ Len(q) <= Len(p)
        BY <1>1, PrefixDef
      <4> QED
        BY <2>2, <4>1 DEF Root
    <3> QED
      BY <3>1 DEF Node
  <2> QED
    BY <2>1, <2>2 DEF Node
<1>4. ASSUME NEW q \in Prefixes(p) PROVE Prefixes(q) \subseteq Prefixes(p)
  <2>1. q \in Seq(Names) /\ Len(q) <= Len(p) /\ \A i \in 1 .. Len(q) : q[i] = p[i]
    BY <1>1, PrefixDef
  <2>2. ASSUME NEW r \in Prefixes(q) PROVE r \in Prefixes(p)
    <3>1. r \in Seq(Names) /\ Len(r) <= Len(q) /\ \A i \in 1 .. Len(r) : r[i] = q[i]
      BY <2>1, PrefixDef
    <3>2. Len(r) <= Len(p) /\ \A i \in 1 .. Len(r) : r[i] = p[i]
      BY <1>1, <2>1, <3>1
    <3> QED
      BY <1>1, <3>1, <3>2, PrefixDef
  <2> QED
    BY <2>2
<1>5. ASSUME NEW q \in Prefixes(p)
      PROVE  Len(q) <= Len(p) /\ (Len(q) = Len(p) => q = p)
  <2>1. q \in Seq(Names) /\ Len(q) <= Len(p) /\ \A i \in 1 .. Len(q) : q[i] = p[i]
    BY <1>1, PrefixDef
  <2> QED
    BY <1>1, <2>1
<1>6. ASSUME NEW q \in Prefixes(p), NEW r \in Prefixes(p), Len(q) <= Len(r)
      PROVE  q \in Prefixes(r)
  <2>1. q \in Seq(Names) /\ \A i \in 1 .. Len(q) : q[i] = p[i]
    BY <1>1, PrefixDef
  <2>2. r \in Seq(Names) /\ \A i \in 1 .. Len(r) : r[i] = p[i]
    BY <1>1, PrefixDef
  <2>3. \A i \in 1 .. Len(q) : q[i] = r[i]
    BY <1>6, <2>1, <2>2
  <2> QED
    BY <1>6, <2>1, <2>2, <2>3, PrefixDef
<1> QED
  BY <1>2, <1>3, <1>4, <1>5, <1>6

-----------------------------------------------------------------------------
(* Kept: the places that are kept are passed in order, each of them once.  *)

Enumerates(e, n, K) ==
    /\ e \in [1 .. n -> K]
    /\ \A j, l \in 1 .. n : j < l => e[j] < e[l]
    /\ \A i \in K : \E j \in 1 .. n : e[j] = i

rank(K, i) == Cardinality({k \in K : k <= i})

LEMMA RankFacts ==
    ASSUME NEW K \in SUBSET Nat, IsFiniteSet(K)
    PROVE  /\ Cardinality(K) \in Nat
           /\ \A i \in K : rank(K, i) \in 1 .. Cardinality(K)
           /\ \A i, k \in K : i < k => rank(K, i) < rank(K, k)
           /\ \A j \in 1 .. Cardinality(K) : \E i \in K : rank(K, i) = j
<1> DEFINE upto(i) == {k \in K : k <= i}
<1>1. Cardinality(K) \in Nat
  BY FS_CardinalityType
<1>2. ASSUME NEW i \in K
      PROVE  /\ IsFiniteSet(upto(i))
             /\ rank(K, i) \in 1 .. Cardinality(K)
  <2>1. upto(i) \in SUBSET K /\ i \in upto(i)
    OBVIOUS
  <2>2. /\ IsFiniteSet(upto(i))
        /\ Cardinality(upto(i)) <= Cardinality(K)
    BY <2>1, FS_Subset
  <2>3. Cardinality(upto(i)) \in Nat /\ Cardinality(upto(i)) # 0
    BY <2>1, <2>2, FS_CardinalityType, FS_EmptySet
  <2> QED
    BY <1>1, <2>2, <2>3 DEF rank
<1>3. ASSUME NEW i \in K, NEW k \in K, i < k
      PROVE  rank(K, i) < rank(K, k)
  <2>0. i \in Nat /\ k \in Nat /\ \A j \in K : j \in Nat
    OBVIOUS
  <2>1. upto(i) \in SUBSET upto(k) /\ k \in upto(k) /\ k \notin upto(i)
    <3>1. \A j \in K : j <= i => j <= k
      BY <1>3, <2>0
    <3>2. k <= k /\ ~(k <= i)
      BY <1>3, <2>0
    <3> QED
      BY <3>1, <3>2
  <2>2. /\ Cardinality(upto(i)) <= Cardinality(upto(k))
        /\ Cardinality(upto(i)) # Cardinality(upto(k))
    <3> HIDE DEF upto
    <3> QED
      BY <1>2, <2>1, FS_Subset
  <2> QED
    BY <1>1, <1>2, <2>2 DEF rank
<1>4. ASSUME NEW j \in 1 .. Cardinality(K) PROVE \E i \in K : rank(K, i) = j
  <2> DEFINE f == [i \in K |-> rank(K, i)]
             T == 1 .. Cardinality(K)
  <2>1. f \in Injection(K, T)
    <3>1. \A i, k \in K : i # k => i < k \/ k < i
      OBVIOUS
    <3>2. f \in [K -> T]
      BY <1>2
    <3>3. \A i, k \in K : f[i] = f[k] => i = k
      <4>1. SUFFICES ASSUME NEW i \in K, NEW k \in K, f[i] = f[k], i # k PROVE FALSE
        OBVIOUS
      <4>2. f[i] \in Nat /\ f[k] \in Nat
        <5>1. f[i] \in T /\ f[k] \in T
          BY <3>2
        <5> QED
          BY <1>1, <5>1
      <4>3. f[i] < f[k] \/ f[k] < f[i]
        BY <1>3, <3>1, <4>1
      <4> QED
        BY <4>1, <4>2, <4>3
    <3> QED
      BY <3>2, <3>3 DEF Injection, IsInjective
  <2>2. IsFiniteSet(T) /\ Cardinality(T) = Cardinality(K)
    BY <1>1, FS_Interval
  <2>3. f \in Surjection(K, T)
    BY <2>1, <2>2, FS_Injection
  <2> QED
    BY <2>3 DEF Surjection
<1> QED
  BY <1>1, <1>2, <1>3, <1>4

LEMMA KeptFacts ==
    ASSUME NEW s, NEW K \in SUBSET Nat, IsFiniteSet(K)
    PROVE  /\ Cardinality(K) \in Nat
           /\ \E e : /\ Enumerates(e, Cardinality(K), K)
                     /\ Kept(s, K) = [j \in 1 .. Cardinality(K) |-> s[e[j]]]
<1> DEFINE n == Cardinality(K)
           e == [j \in 1 .. n |-> CHOOSE i \in K : rank(K, i) = j]
<1>1. n \in Nat
  BY RankFacts
<1>2. ASSUME NEW j \in 1 .. n PROVE e[j] \in K /\ rank(K, e[j]) = j
  BY RankFacts
<1>3. Kept(s, K) = [j \in 1 .. n |-> s[e[j]]]
  BY DEF Kept, rank
<1>4. e \in [1 .. n -> K]
  BY <1>2
<1> HIDE DEF e
<1>5. ASSUME NEW j \in 1 .. n, NEW l \in 1 .. n, j < l PROVE e[j] < e[l]
  <2>1. /\ e[j] \in K /\ e[l] \in K /\ e[j] \in Nat /\ e[l] \in Nat
        /\ rank(K, e[j]) = j /\ rank(K, e[l]) = l
    BY <1>2
  <2>2. e[l] < e[j] => l < j
    BY <2>1, RankFacts
  <2>3. e[l] = e[j] => l = j
    BY <2>1
  <2> QED
    BY <1>1, <1>5, <2>1, <2>2, <2>3
<1>6. ASSUME NEW i \in K PROVE \E j \in 1 .. n : e[j] = i
  <2>1. rank(K, i) \in 1 .. n
    BY RankFacts
  <2>2. PICK j \in 1 .. n : j = rank(K, i)
    BY <2>1
  <2>3. e[j] \in K /\ rank(K, e[j]) = rank(K, i) /\ i \in Nat /\ e[j] \in Nat
    BY <1>2, <2>2
  <2>4. ~(i < e[j]) /\ ~(e[j] < i)
    <3>1. rank(K, i) \in Nat
      BY <1>1, <2>1
    <3>2. i < e[j] => rank(K, i) < rank(K, e[j])
      BY <2>3, RankFacts
    <3>3. e[j] < i => rank(K, e[j]) < rank(K, i)
      BY <2>3, RankFacts
    <3> QED
      BY <2>3, <3>1, <3>2, <3>3
  <2> QED
    BY <2>3, <2>4
<1>7. Enumerates(e, n, K)
  BY <1>4, <1>5, <1>6 DEF Enumerates
<1> QED
  BY <1>1, <1>3, <1>7

\* There is one way to pass them.
LEMMA KeptIs ==
    ASSUME NEW s, NEW K \in SUBSET Nat, NEW n \in Nat, NEW e, Enumerates(e, n, K)
    PROVE  /\ IsFiniteSet(K) /\ Cardinality(K) = n
           /\ Kept(s, K) = [j \in 1 .. n |-> s[e[j]]]
<1>1. /\ e \in [1 .. n -> K]
      /\ \A j, l \in 1 .. n : j < l => e[j] < e[l]
      /\ \A i \in K : \E j \in 1 .. n : e[j] = i
  BY DEF Enumerates
<1>2. \A j, l \in 1 .. n : e[j] = e[l] => j = l
  <2>1. SUFFICES ASSUME NEW j \in 1 .. n, NEW l \in 1 .. n, e[j] = e[l], j # l
                 PROVE  FALSE
    OBVIOUS
  <2>2. e[j] \in Nat /\ e[l] \in Nat
    BY <1>1
  <2>3. j < l \/ l < j
    BY <2>1
  <2> QED
    BY <1>1, <2>1, <2>2, <2>3
<1>3. e \in Bijection(1 .. n, K)
  BY <1>1, <1>2 DEF Bijection, Injection, Surjection, IsInjective
<1>4. IsFiniteSet(1 .. n) /\ Cardinality(1 .. n) = n
  BY FS_Interval
<1>5. IsFiniteSet(K) /\ Cardinality(K) = n
  BY <1>3, <1>4, FS_Bijection DEF ExistsBijection
<1>6. ASSUME NEW j \in 1 .. n PROVE rank(K, e[j]) = j
  <2> DEFINE f == [l \in 1 .. j |-> e[l]]
             U == {k \in K : k <= e[j]}
  <2>0. e[j] \in Nat
    BY <1>1
  <2>1. ASSUME NEW l \in 1 .. n PROVE e[l] <= e[j] <=> l <= j
    <3>1. l < j => e[l] < e[j]
      BY <1>1
    <3>2. j < l => e[j] < e[l]
      BY <1>1
    <3>3. e[l] \in Nat
      BY <1>1
    <3> QED
      BY <2>0, <3>1, <3>2, <3>3
  <2>2. f \in Bijection(1 .. j, U)
    <3>1. f \in [1 .. j -> U]
      BY <1>1, <2>1
    <3>2. \A l, m \in 1 .. j : f[l] = f[m] => l = m
      BY <1>2
    <3>3. \A u \in U : \E l \in 1 .. j : f[l] = u
      BY <1>1, <2>1
    <3> HIDE DEF f, U
    <3> QED
      BY <3>1, <3>2, <3>3 DEF Bijection, Injection, Surjection, IsInjective
  <2>3. IsFiniteSet(1 .. j) /\ Cardinality(1 .. j) = j
    BY FS_Interval
  <2>4. Cardinality(U) = j
    BY <2>2, <2>3, FS_Bijection DEF ExistsBijection
  <2> QED
    BY <2>4 DEF rank
<1>7. ASSUME NEW j \in 1 .. n PROVE (CHOOSE i \in K : rank(K, i) = j) = e[j]
  <2>1. e[j] \in K /\ rank(K, e[j]) = j
    BY <1>1, <1>6
  <2>2. ASSUME NEW i \in K, rank(K, i) = j PROVE i = e[j]
    BY <1>1, <1>6, <2>2
  <2> QED
    BY <2>1, <2>2
<1>8. Kept(s, K) = [j \in 1 .. n |-> s[CHOOSE i \in K : rank(K, i) = j]]
  BY <1>5 DEF Kept, rank
<1> QED
  BY <1>5, <1>7, <1>8

LEMMA KeptIsSeq ==
    ASSUME NEW S, NEW s \in Seq(S), NEW K \in SUBSET DOMAIN s
    PROVE  /\ IsFiniteSet(K) /\ K \in SUBSET Nat
           /\ Kept(s, K) \in Seq(S)
           /\ \A j \in DOMAIN Kept(s, K) : \E i \in K : Kept(s, K)[j] = s[i]
           /\ K = {} => Kept(s, K) = <<>>
<1>1. DOMAIN s = 1 .. Len(s) /\ Len(s) \in Nat
  OBVIOUS
<1>2. IsFiniteSet(K) /\ K \in SUBSET Nat
  <2>1. IsFiniteSet(1 .. Len(s))
    BY <1>1, FS_Interval
  <2> QED
    BY <1>1, <2>1, FS_Subset
<1>3. PICK e : /\ Enumerates(e, Cardinality(K), K)
               /\ Kept(s, K) = [j \in 1 .. Cardinality(K) |-> s[e[j]]]
  BY <1>2, KeptFacts
<1>4. Cardinality(K) \in Nat /\ e \in [1 .. Cardinality(K) -> K]
  BY <1>2, <1>3, KeptFacts DEF Enumerates
<1>5. Kept(s, K) \in Seq(S)
  <2>1. \A j \in 1 .. Cardinality(K) : s[e[j]] \in S
    BY <1>4
  <2> QED
    BY <1>3, <1>4, <2>1
<1>6. K = {} => Kept(s, K) = <<>>
  <2>1. K = {} => Cardinality(K) = 0
    BY FS_EmptySet
  <2> QED
    BY <1>3, <2>1
<1> QED
  BY <1>2, <1>3, <1>4, <1>5, <1>6

LEMMA SameKept ==
    ASSUME NEW s, NEW r, NEW K \in SUBSET Nat, IsFiniteSet(K),
           \A i \in K : s[i] = r[i]
    PROVE  Kept(s, K) = Kept(r, K)
<1>1. PICK e : /\ Enumerates(e, Cardinality(K), K)
               /\ Kept(s, K) = [j \in 1 .. Cardinality(K) |-> s[e[j]]]
  BY KeptFacts
<1>2. Kept(r, K) = [j \in 1 .. Cardinality(K) |-> r[e[j]]]
  BY <1>1, KeptFacts, KeptIs
<1>3. e \in [1 .. Cardinality(K) -> K]
  BY <1>1 DEF Enumerates
<1> QED
  BY <1>1, <1>2, <1>3

\* The items of a list that are in a set.
Among(s, G) == Kept(s, {i \in DOMAIN s : s[i] \in G})

\* What is not marked for removal is found again afterwards, in its order.
LEMMA AmongKept ==
    ASSUME NEW S, NEW s \in Seq(S), NEW K \in SUBSET DOMAIN s, NEW G,
           \A i \in DOMAIN s : s[i] \in G => i \in K
    PROVE  Among(Kept(s, K), G) = Among(s, G)
<1> DEFINE n == Cardinality(K)
           r == Kept(s, K)
           L == {i \in DOMAIN s : s[i] \in G}
           M == {j \in DOMAIN r : r[j] \in G}
<1>1. IsFiniteSet(K) /\ K \in SUBSET Nat /\ n \in Nat
  BY KeptIsSeq, KeptFacts
<1>2. PICK e : Enumerates(e, n, K) /\ r = [j \in 1 .. n |-> s[e[j]]]
  BY <1>1, KeptFacts
<1>3. /\ e \in [1 .. n -> K]
      /\ \A j, l \in 1 .. n : j < l => e[j] < e[l]
      /\ \A i \in K : \E j \in 1 .. n : e[j] = i
  BY <1>2 DEF Enumerates
<1>4. M = {j \in 1 .. n : s[e[j]] \in G}
  BY <1>2
<1>5. L \subseteq K /\ L \in SUBSET Nat
  BY <1>1
<1>6. M \in SUBSET Nat /\ M \subseteq 1 .. n
  BY <1>4
<1>7. IsFiniteSet(M)
  <2>1. IsFiniteSet(1 .. n)
    BY <1>1, FS_Interval
  <2> QED
    BY <1>6, <2>1, FS_Subset
<1> HIDE DEF n, r, L, M
<1>8. PICK g : /\ Enumerates(g, Cardinality(M), M)
               /\ Kept(r, M) = [j \in 1 .. Cardinality(M) |-> r[g[j]]]
  BY <1>6, <1>7, KeptFacts
<1>9. PICK m : m = Cardinality(M)
  OBVIOUS
<1>10. /\ m \in Nat
       /\ g \in [1 .. m -> M]
       /\ \A j, l \in 1 .. m : j < l => g[j] < g[l]
       /\ \A i \in M : \E j \in 1 .. m : g[j] = i
  BY <1>6, <1>7, <1>8, <1>9, KeptFacts DEF Enumerates
<1> DEFINE h == [j \in 1 .. m |-> e[g[j]]]
<1>11. ASSUME NEW j \in 1 .. m
       PROVE  g[j] \in 1 .. n /\ h[j] = e[g[j]] /\ h[j] \in L
  <2>1. g[j] \in M
    BY <1>10
  <2>2. e[g[j]] \in K /\ s[e[g[j]]] \in G
    BY <1>3, <1>4, <2>1
  <2> QED
    BY <1>4, <2>1, <2>2 DEF L
<1>12. Enumerates(h, m, L)
  <2>1. h \in [1 .. m -> L]
    BY <1>11
  <2>2. ASSUME NEW j \in 1 .. m, NEW l \in 1 .. m, j < l PROVE h[j] < h[l]
    <3>1. g[j] < g[l] /\ g[j] \in 1 .. n /\ g[l] \in 1 .. n
      BY <1>10, <1>11, <2>2
    <3> QED
      BY <1>3, <1>11, <3>1
  <2>3. ASSUME NEW i \in L PROVE \E j \in 1 .. m : h[j] = i
    <3>1. PICK k \in 1 .. n : e[k] = i
      BY <1>3, <1>5
    <3>2. s[i] \in G
      BY DEF L
    <3>3. k \in M
      BY <1>4, <3>1, <3>2
    <3>4. PICK j \in 1 .. m : g[j] = k
      BY <1>10, <3>3
    <3> QED
      BY <1>11, <3>1, <3>4
  <2> QED
    BY <2>1, <2>2, <2>3 DEF Enumerates
<1>13. Kept(s, L) = [j \in 1 .. m |-> s[h[j]]]
  BY <1>5, <1>10, <1>12, KeptIs
<1>14. \A j \in 1 .. m : r[g[j]] = s[h[j]]
  BY <1>2, <1>11
<1>15. Kept(r, M) = [j \in 1 .. m |-> s[h[j]]]
  BY <1>8, <1>9, <1>14
<1> QED
  BY <1>13, <1>15 DEF Among, L, M, r

\* Neither a new item outside the set nor a change of such items is noticed.
LEMMA AmongChanged ==
    ASSUME NEW S, NEW s \in Seq(S), NEW r \in Seq(S), NEW G,
           Len(s) <= Len(r),
           \A i \in 1 .. Len(s) : (s[i] \in G \/ r[i] \in G) => s[i] = r[i],
           \A i \in 1 .. Len(r) : r[i] \in G => i <= Len(s)
    PROVE  Among(r, G) = Among(s, G)
<1> DEFINE K == {i \in DOMAIN s : s[i] \in G}
<1>1. /\ DOMAIN s = 1 .. Len(s) /\ DOMAIN r = 1 .. Len(r)
      /\ Len(s) \in Nat /\ Len(r) \in Nat
  OBVIOUS
<1>2. {i \in DOMAIN r : r[i] \in G} = K
  BY <1>1
<1>3. IsFiniteSet(K) /\ K \in SUBSET Nat
  BY KeptIsSeq
<1>4. \A i \in K : s[i] = r[i]
  BY <1>1
<1>5. Kept(s, K) = Kept(r, K)
  <2> HIDE DEF K
  <2> QED
    BY <1>3, <1>4, SameKept
<1> QED
  BY <1>2, <1>5 DEF Among

-----------------------------------------------------------------------------
(* The inductive invariant, of any tree.                                   *)

IsTree(t) ==
    /\ t = [live |-> t.live, data |-> t.data, watches |-> t.watches,
            room |-> t.room, free |-> t.free, bumped |-> t.bumped, rv |-> t.rv]
    /\ t.live \in SUBSET Node
    /\ t.data = [p \in Node |-> t.data[p]]
    /\ t.watches = [p \in Node |-> t.watches[p]]
    /\ t.free \in Nat

Closed(live) ==
    /\ Root \in live
    /\ \A p \in live : Prefixes(p) \subseteq live

Carried(t) == \A p \in Node : ~Bare(t, p) => p \in t.live

Within(t) ==
    /\ IsFiniteSet(t.live)
    /\ Cardinality(t.live) - 1 + t.free <= MaxEntries

Linked(t) == IsTree(t) /\ Closed(t.live) /\ Carried(t) /\ Within(t)

\* What ChildrenVersioned says of the step from t to s.
Versioned(t, s) ==
    \A p \in t.live \cap s.live : Subtree(t, p) # Subtree(s, p) => p \in s.bumped

LEMMA EmptyIsLinked == Linked(EmptyTree)
<1>1. Prefixes(Root) = {Root}
  BY PrefixFacts DEF Root, Node, Prefixes
<1>2. IsFiniteSet({Root}) /\ Cardinality({Root}) = 1
  BY FS_Singleton
<1> QED
  BY <1>1, <1>2, TreeAssumption
     DEF EmptyTree, Linked, IsTree, Closed, Carried, Within, Bare, Node

-----------------------------------------------------------------------------
(* Grow: of the missing nodes the upper ones are created, as many as there *)
(* are entries.                                                            *)

\* The missing nodes are the last ones on the way to the path, so that no more
\* are created than entries are given.
LEMMA CreatedFit ==
    ASSUME NEW p \in Node, NEW live, Closed(live), NEW given \in Nat,
           NEW missing, missing = Prefixes(p) \ live,
           NEW created,
           created = {q \in missing : Len(q) <= Len(p) - Cardinality(missing) + given}
    PROVE  /\ IsFiniteSet(missing)
           /\ IsFiniteSet(created)
           /\ Cardinality(created) <= given
<1>1. /\ Len(p) \in Nat
      /\ \A q \in Prefixes(p) : q \in Node /\ Len(q) \in 0 .. Len(p)
  BY PrefixFacts
<1>2. \A q, r \in Prefixes(p) : Len(q) = Len(r) => q = r
  <2>1. SUFFICES ASSUME NEW q \in Prefixes(p), NEW r \in Prefixes(p), Len(q) = Len(r)
                 PROVE  q = r
    OBVIOUS
  <2>2. q \in Prefixes(r) /\ r \in Node
    BY <1>1, <2>1, PrefixFacts
  <2> QED
    BY <2>1, <2>2, PrefixFacts
<1>3. ASSUME NEW X, X \subseteq Prefixes(p), NEW a \in Int, NEW b \in Int,
             \A q \in X : Len(q) \in a .. b
      PROVE  IsFiniteSet(X) /\ Cardinality(X) <= Cardinality(a .. b)
  <2> DEFINE f == [q \in X |-> Len(q)]
  <2>1. f \in Injection(X, a .. b)
    BY <1>2, <1>3 DEF Injection, IsInjective
  <2>2. IsFiniteSet(a .. b)
    BY FS_Interval
  <2> QED
    BY <2>1, <2>2, FS_Injection
<1>4. IsFiniteSet(missing) /\ Cardinality(missing) \in Nat
  BY <1>1, <1>3, FS_CardinalityType
<1>5. ASSUME NEW q \in missing PROVE Len(q) > Len(p) - Cardinality(missing)
  <2> DEFINE I == Len(q) .. Len(p)
             g == [l \in I |-> SubSeq(p, 1, l)]
  <2>1. Len(q) \in 0 .. Len(p)
    BY <1>1
  <2>2. p \in Seq(Names)
    BY NodeIsSeq
  <2>3. ASSUME NEW l \in I
        PROVE  SubSeq(p, 1, l) \in Prefixes(p) /\ Len(SubSeq(p, 1, l)) = l
    BY <2>1, <2>2 DEF Prefixes
  <2>4. ASSUME NEW l \in I PROVE SubSeq(p, 1, l) \in missing
    <3> DEFINE r == SubSeq(p, 1, l)
    <3>1. r \in Prefixes(p) /\ Len(q) <= Len(r)
      BY <2>1, <2>3
    <3>2. q \in Prefixes(r)
      <4>1. q \in Prefixes(p)
        OBVIOUS
      <4> HIDE DEF r
      <4> QED
        BY <3>1, <4>1, PrefixFacts
    <3> QED
      BY <3>1, <3>2 DEF Closed
  <2>5. g \in Injection(I, missing)
    <3>1. \A l \in I : g[l] \in missing /\ Len(g[l]) = l
      BY <2>3, <2>4
    <3> QED
      BY <3>1 DEF Injection, IsInjective
  <2>6. Cardinality(I) <= Cardinality(missing)
    BY <2>5, <1>4, FS_Injection
  <2>7. Cardinality(I) = Len(p) - Len(q) + 1
    BY <2>1, <1>1, FS_Interval
  <2> QED
    BY <1>1, <1>4, <2>1, <2>6, <2>7
<1> DEFINE a == Len(p) - Cardinality(missing) + 1
           b == Len(p) - Cardinality(missing) + given
<1>6. a \in Int /\ b \in Int
  BY <1>1, <1>4
<1>7. created \subseteq Prefixes(p) /\ \A q \in created : Len(q) \in a .. b
  <2>1. ASSUME NEW q \in created PROVE Len(q) \in a .. b
    <3>1. q \in missing /\ Len(q) \in Int /\ Len(q) <= b
      BY <1>1
    <3>2. Len(q) > Len(p) - Cardinality(missing)
      BY <3>1, <1>5
    <3> QED
      BY <1>1, <1>4, <3>1, <3>2
  <2> QED
    BY <2>1
<1>8. IsFiniteSet(created) /\ Cardinality(created) <= Cardinality(a .. b)
  BY <1>3, <1>6, <1>7
<1>9. Cardinality(a .. b) = given
  <2>1. b - a + 1 = given /\ (a > b <=> given = 0)
    BY <1>1, <1>4
  <2>2. Cardinality(a .. b) = IF a > b THEN 0 ELSE b - a + 1
    BY <1>6, FS_Interval
  <2> HIDE DEF a, b
  <2> QED
    BY <2>1, <2>2
<1> QED
  BY <1>4, <1>8, <1>9

LEMMA GrowStep ==
    ASSUME NEW t, Linked(t), NEW p \in Node
    PROVE  LET s == Grow(t, p)
           IN  /\ Linked(s)
               /\ Versioned(t, s)
               /\ s.live \subseteq t.live \cup Prefixes(p)
               /\ t.live \subseteq s.live /\ s.live \ t.live \subseteq s.bumped
               /\ s.bumped # {} => s.rv
               /\ p \in s.live \ t.live => Prefixes(p) \cap t.live \subseteq s.bumped
               /\ s.watches = t.watches
<1> DEFINE missing == Prefixes(p) \ t.live
           given == IF Cardinality(missing) <= t.free
                    THEN Cardinality(missing) ELSE t.free
           created == {q \in missing : Len(q) <= Len(p) - Cardinality(missing) + given}
           s == Grow(t, p)
<1>1. t.live \subseteq Node /\ t.free \in Nat /\ Closed(t.live) /\ IsFiniteSet(t.live)
  BY DEF Linked, IsTree, Within
<1>2. IsFiniteSet(missing)
  BY <1>1, CreatedFit, 0 \in Nat
<1>3. given \in Nat /\ given <= t.free
  BY <1>1, <1>2, FS_CardinalityType
<1>4. IsFiniteSet(created) /\ Cardinality(created) <= given
  BY <1>1, <1>3, CreatedFit
<1>5. /\ s.live = t.live \cup created
      /\ s.data = t.data /\ s.watches = t.watches
      /\ s.free = t.free - given
      /\ s.bumped = IF created = {} THEN {} ELSE Prefixes(p) \cap (t.live \cup created)
      /\ s = [live |-> s.live, data |-> s.data, watches |-> s.watches,
              room |-> s.room, free |-> s.free, bumped |-> s.bumped, rv |-> s.rv]
  <2> DEFINE b == IF created = {} THEN {} ELSE Prefixes(p) \cap (t.live \cup created)
             v == created # {}
  <2>1. s = [t EXCEPT !.live = @ \cup created, !.free = @ - given, !.bumped = b, !.rv = v]
    BY Zenon DEF Grow
  <2> HIDE DEF missing, given, created, b, v, s
  <2>2. t = [live |-> t.live, data |-> t.data, watches |-> t.watches,
             room |-> t.room, free |-> t.free, bumped |-> t.bumped, rv |-> t.rv]
    BY DEF Linked, IsTree
  <2>3. s = [live |-> t.live \cup created, data |-> t.data, watches |-> t.watches,
             room |-> t.room, free |-> t.free - given, bumped |-> b, rv |-> v]
    BY <2>1, <2>2
  <2> QED
    BY <2>3 DEF b
<1>6. created \subseteq Prefixes(p) /\ created \cap t.live = {} /\ created \subseteq Node
  BY PrefixFacts
<1> HIDE DEF s
<1>7. IsTree(s)
  <2>1. t.data = [q \in Node |-> t.data[q]] /\ t.watches = [q \in Node |-> t.watches[q]]
    BY DEF Linked, IsTree
  <2>2. s.live \subseteq Node /\ s.free \in Nat
    <3> HIDE DEF given, created
    <3> QED
      BY <1>1, <1>3, <1>5, <1>6
  <2> QED
    BY <1>5, <2>1, <2>2 DEF IsTree
<1>8. Closed(s.live)
  <2>1. ASSUME NEW q \in created, NEW r \in Prefixes(q) PROVE r \in s.live
    <3>1. q \in Prefixes(p) /\ q \in Node
      BY <1>6
    <3>2. r \in Prefixes(p) /\ Len(r) <= Len(q) /\ Len(q) \in Nat /\ Len(r) \in Nat
      BY <3>1, PrefixFacts
    <3>3. Len(p) \in Nat /\ Cardinality(missing) \in Nat
      BY <1>2, PrefixFacts, FS_CardinalityType
    <3>4. Len(q) <= Len(p) - Cardinality(missing) + given
      OBVIOUS
    <3>5. r \in t.live \/ r \in created
      <4> HIDE DEF given
      <4> QED
        BY <1>3, <3>2, <3>3, <3>4
    <3> QED
      BY <1>5, <3>5
  <2> QED
    BY <1>1, <1>5, <2>1 DEF Closed
<1>9. Carried(s)
  BY <1>5 DEF Linked, Carried, Bare
<1>10. Within(s)
  <2>1. /\ IsFiniteSet(s.live)
        /\ Cardinality(s.live) = Cardinality(t.live) + Cardinality(created)
    <3> HIDE DEF created
    <3>1. Cardinality(t.live \cap created) = 0
      BY <1>6, FS_EmptySet
    <3>2. Cardinality(t.live) \in Nat /\ Cardinality(created) \in Nat
      BY <1>1, <1>4, FS_CardinalityType
    <3>3. /\ IsFiniteSet(t.live \cup created)
          /\ Cardinality(t.live \cup created)
                = Cardinality(t.live) + Cardinality(created)
                  - Cardinality(t.live \cap created)
      BY <1>1, <1>4, FS_Union
    <3> QED
      BY <1>5, <3>1, <3>2, <3>3
  <2>2. Cardinality(t.live) \in Nat /\ Cardinality(created) \in Nat
    BY <1>1, <1>4, FS_CardinalityType
  <2>3. Cardinality(t.live) - 1 + t.free <= MaxEntries
    BY DEF Linked, Within
  <2> HIDE DEF given, created
  <2> QED
    BY <1>1, <1>3, <1>4, <1>5, <2>1, <2>2, <2>3, TreeAssumption DEF Within
<1>11. Versioned(t, s)
  <2>1. ASSUME NEW n \in t.live, Subtree(t, n) # Subtree(s, n) PROVE n \in s.bumped
    <3>1. PICK q \in created : n \in Prefixes(q)
      BY <1>5, <2>1 DEF Subtree
    <3>2. n \in Prefixes(p)
      BY <1>6, <3>1, PrefixFacts
    <3> QED
      BY <1>5, <3>1, <3>2
  <2> QED
    BY <2>1 DEF Versioned
<1>12. created # {} => s.rv
  <2> DEFINE b == IF created = {} THEN {} ELSE Prefixes(p) \cap (t.live \cup created)
  <2>1. s = [t EXCEPT !.live = @ \cup created, !.free = @ - given, !.bumped = b,
                      !.rv = created # {}]
    BY Zenon DEF Grow, s
  <2>2. t = [live |-> t.live, data |-> t.data, watches |-> t.watches,
             room |-> t.room, free |-> t.free, bumped |-> t.bumped, rv |-> t.rv]
    BY DEF Linked, IsTree
  <2> HIDE DEF missing, given, created, b
  <2> QED
    BY <2>1, <2>2
<1> QED
  BY <1>5, <1>6, <1>7, <1>8, <1>9, <1>10, <1>11, <1>12 DEF Linked, s

-----------------------------------------------------------------------------
(* insert and addWatch: what they write is at a node that is linked.       *)

\* A call that changes what nodes carry, but links and unlinks none.
LEMMA CarryStep ==
    ASSUME NEW t, Linked(t), NEW p \in t.live, NEW s, IsTree(s),
           s.live = t.live, s.free = t.free,
           \A q \in Node \ {p} : s.data[q] = t.data[q] /\ s.watches[q] = t.watches[q]
    PROVE  Linked(s) /\ \A q : Subtree(s, q) = Subtree(t, q)
  BY DEF Linked, Carried, Within, Bare, Subtree

LEMMA setDataStep ==
    ASSUME NEW t, Linked(t), NEW p \in t.live, NEW d
    PROVE  Linked(setData(t, p, d)) /\ setData(t, p, d).live = t.live
<1> DEFINE s == setData(t, p, d)
<1>1. p \in Node
  BY DEF Linked, IsTree
<1>2. /\ s.live = t.live /\ s.free = t.free /\ s.watches = t.watches
      /\ \E list : s.data = [t.data EXCEPT ![p] = list]
      /\ s = [live |-> s.live, data |-> s.data, watches |-> s.watches,
              room |-> s.room, free |-> s.free, bumped |-> s.bumped, rv |-> s.rv]
  <2>1. s = SetOnly(t, p, d) \/ s = SetInList(t, p, d)
    BY DEF setData
  <2>2. CASE s = SetOnly(t, p, d)
    BY <2>2 DEF SetOnly, Linked, IsTree
  <2>3. CASE s = SetInList(t, p, d)
    BY <2>3 DEF SetInList, Linked, IsTree
  <2> QED
    BY <2>1, <2>2, <2>3
<1> HIDE DEF s
<1>3. PICK list : s.data = [t.data EXCEPT ![p] = list]
  BY <1>2
<1>4. /\ s.data = [q \in Node |-> s.data[q]]
      /\ \A q \in Node \ {p} : s.data[q] = t.data[q]
  <2>1. t.data = [q \in Node |-> t.data[q]]
    BY DEF Linked, IsTree
  <2> QED
    BY <1>3, <2>1
<1>5. IsTree(s)
  BY <1>2, <1>4 DEF IsTree, Linked
<1> QED
  BY <1>2, <1>4, <1>5, CarryStep DEF s

LEMMA InsertedStep ==
    ASSUME NEW t, Linked(t), NEW p \in Node, NEW d
    PROVE  Linked(Inserted(t, p, d)) /\ Versioned(t, Inserted(t, p, d))
<1>1. CASE p \in t.live
  <2> DEFINE s == setData(t, p, d)
  <2>1. Linked(s) /\ s.live = t.live
    BY <1>1, setDataStep
  <2>2. \/ Inserted(t, p, d) = s
        \/ Inserted(t, p, d) = [s EXCEPT !.bumped = @ \cup Ancestors(p)]
    BY <1>1 DEF Inserted
  <2> HIDE DEF s
  <2>3. Linked(Inserted(t, p, d)) /\ Inserted(t, p, d).live = t.live
    BY <2>1, <2>2 DEF Linked, IsTree, Closed, Carried, Within, Bare
  <2> QED
    BY <2>3 DEF Versioned, Subtree
<1>2. CASE p \notin t.live
  <2> DEFINE s == Grow(t, p)
             r == [s EXCEPT !.data[p] = <<d>>, !.room = @ \cup {p}]
  <2>1. Linked(s) /\ Versioned(t, s)
    BY GrowStep
  <2>2. Inserted(t, p, d) = IF p \in s.live THEN r ELSE s
    BY <1>2 DEF Inserted
  <2> HIDE DEF s
  <2>3. ASSUME p \in s.live PROVE Linked(r) /\ Versioned(t, r)
    <3>1. /\ r.live = s.live /\ r.free = s.free /\ r.watches = s.watches
          /\ r.bumped = s.bumped
          /\ r.data = [s.data EXCEPT ![p] = <<d>>]
          /\ r = [live |-> r.live, data |-> r.data, watches |-> r.watches,
                  room |-> r.room, free |-> r.free, bumped |-> r.bumped, rv |-> r.rv]
      <4>1. s = [live |-> s.live, data |-> s.data, watches |-> s.watches,
                 room |-> s.room, free |-> s.free, bumped |-> s.bumped, rv |-> s.rv]
        BY <2>1 DEF Linked, IsTree
      <4>2. r = [live |-> s.live, data |-> [s.data EXCEPT ![p] = <<d>>],
                 watches |-> s.watches, room |-> s.room \cup {p},
                 free |-> s.free, bumped |-> s.bumped, rv |-> s.rv]
        <5> DEFINE s1 == [s EXCEPT !.data[p] = <<d>>]
        <5>1. s1 = [live |-> s.live, data |-> [s.data EXCEPT ![p] = <<d>>],
                    watches |-> s.watches, room |-> s.room,
                    free |-> s.free, bumped |-> s.bumped, rv |-> s.rv]
          BY <4>1
        <5>2. r = [s1 EXCEPT !.room = @ \cup {p}]
          OBVIOUS
        <5> HIDE DEF s1, r
        <5> QED
          BY <5>1, <5>2
      <4> QED
        BY <4>2
    <3>2. s.data = [q \in Node |-> s.data[q]]
      BY <2>1 DEF Linked, IsTree
    <3> HIDE DEF r
    <3>3. /\ r.data = [q \in Node |-> r.data[q]]
          /\ \A q \in Node \ {p} : r.data[q] = s.data[q]
      BY <3>1, <3>2
    <3>4. IsTree(r)
      BY <2>1, <3>1, <3>3 DEF IsTree, Linked
    <3>5. Linked(r) /\ \A q : Subtree(r, q) = Subtree(s, q)
      BY <2>1, <2>3, <3>1, <3>3, <3>4, CarryStep
    <3> QED
      BY <2>1, <3>1, <3>5 DEF Versioned
  <2> QED
    BY <2>1, <2>2, <2>3
<1> QED
  BY <1>1, <1>2

LEMMA WatchedStep ==
    ASSUME NEW t, Linked(t), NEW p \in Node, NEW w
    PROVE  Linked(Watched(t, p, w)) /\ Versioned(t, Watched(t, p, w))
<1> DEFINE s == IF p \in t.live
                THEN [t EXCEPT !.bumped = Ancestors(p), !.rv = TRUE]
                ELSE Grow(t, p)
           r == [s EXCEPT !.watches[p] = Append(@, w)]
<1>1. Linked(s) /\ Versioned(t, s)
  <2>1. CASE p \in t.live
    <3>1. Linked(s) /\ s.live = t.live
      BY <2>1 DEF Linked, IsTree, Closed, Carried, Within, Bare
    <3> QED
      BY <3>1 DEF Versioned, Subtree
  <2>2. CASE p \notin t.live
    BY <2>2, GrowStep
  <2> QED
    BY <2>1, <2>2
<1>2. Watched(t, p, w) = IF p \in s.live THEN r ELSE s
  BY DEF Watched
<1> HIDE DEF s
<1>3. ASSUME p \in s.live PROVE Linked(r) /\ Versioned(t, r)
  <2>1. /\ r.live = s.live /\ r.free = s.free /\ r.data = s.data
        /\ r.bumped = s.bumped
        /\ \E list : r.watches = [s.watches EXCEPT ![p] = list]
        /\ r = [live |-> r.live, data |-> r.data, watches |-> r.watches,
                room |-> r.room, free |-> r.free, bumped |-> r.bumped, rv |-> r.rv]
    <3>1. s = [live |-> s.live, data |-> s.data, watches |-> s.watches,
               room |-> s.room, free |-> s.free, bumped |-> s.bumped, rv |-> s.rv]
      BY <1>1 DEF Linked, IsTree
    <3>2. r = [live |-> s.live, data |-> s.data,
               watches |-> [s.watches EXCEPT ![p] = Append(@, w)],
               room |-> s.room, free |-> s.free, bumped |-> s.bumped, rv |-> s.rv]
      BY <3>1
    <3> QED
      BY <3>2
  <2>2. s.watches = [q \in Node |-> s.watches[q]]
    BY <1>1 DEF Linked, IsTree
  <2> HIDE DEF r
  <2>3. PICK list : r.watches = [s.watches EXCEPT ![p] = list]
    BY <2>1
  <2>4. /\ r.watches = [q \in Node |-> r.watches[q]]
        /\ \A q \in Node \ {p} : r.watches[q] = s.watches[q]
    BY <2>2, <2>3
  <2>5. IsTree(r)
    BY <1>1, <2>1, <2>4 DEF IsTree, Linked
  <2>6. Linked(r) /\ \A q : Subtree(r, q) = Subtree(s, q)
    BY <1>1, <1>3, <2>1, <2>4, <2>5, CarryStep
  <2> QED
    BY <1>1, <2>1, <2>6 DEF Versioned
<1> QED
  BY <1>1, <1>2, <1>3

-----------------------------------------------------------------------------
(* remove and remWatch.                                                    *)

\* Nodes may be unlinked with everything below them, and their entries given
\* back.
LEMMA UnlinkStep ==
    ASSUME NEW t, Linked(t), NEW s, IsTree(s), Carried(s),
           NEW gone, gone \subseteq t.live, Root \notin gone,
           s.live = t.live \ gone,
           s.free <= t.free + Cardinality(gone),
           \A q \in s.live : Prefixes(q) \cap gone = {}
    PROVE  Linked(s)
<1>1. Closed(s.live)
  BY DEF Linked, Closed
<1>2. IsFiniteSet(t.live) /\ IsFiniteSet(gone) /\ IsFiniteSet(s.live)
  BY FS_Subset DEF Linked, Within
<1>3. t.live \cap gone = gone
  OBVIOUS
<1>4. Cardinality(s.live) = Cardinality(t.live) - Cardinality(gone)
  BY <1>2, <1>3, FS_Difference
<1>5. /\ Cardinality(t.live) \in Nat /\ Cardinality(gone) \in Nat
      /\ t.free \in Nat /\ s.free \in Nat /\ MaxEntries \in Nat
      /\ Cardinality(t.live) - 1 + t.free <= MaxEntries
  BY <1>2, FS_CardinalityType, TreeAssumption DEF Linked, Within, IsTree
<1>6. Cardinality(s.live) - 1 + s.free <= MaxEntries
  BY <1>4, <1>5
<1> QED
  BY <1>1, <1>2, <1>6 DEF Linked, Within

LEMMA ClimbStep ==
    ASSUME NEW t, Linked(t), NEW p \in Node
    PROVE  LET s == Climb(t, p)
           IN  /\ Linked(s)
               /\ s.live \subseteq t.live
               /\ s.bumped = t.bumped \cup Ancestors(p)
               /\ \A n \in s.live : Subtree(t, n) # Subtree(s, n) => n \in Ancestors(p)
<1> DEFINE bare == {a \in Ancestors(p) \ {Root} :
                       \A r \in Subtree(t, a) : r \in Ancestors(p) /\ Bare(t, r)}
           s == Climb(t, p)
           gone == bare \cap t.live
<1>1. s = [live |-> t.live \ bare, data |-> t.data, watches |-> t.watches,
           room |-> t.room \ bare, free |-> t.free,
           bumped |-> t.bumped \cup Ancestors(p), rv |-> t.rv]
  <2>1. s = [t EXCEPT !.live = @ \ bare, !.room = @ \ bare,
                      !.bumped = @ \cup Ancestors(p)]
    BY Zenon DEF Climb
  <2>2. t = [live |-> t.live, data |-> t.data, watches |-> t.watches,
             room |-> t.room, free |-> t.free, bumped |-> t.bumped, rv |-> t.rv]
    BY DEF Linked, IsTree
  <2> HIDE DEF s, bare
  <2> QED
    BY <2>1, <2>2
<1>2. /\ t.live \subseteq Node /\ t.free \in Nat
      /\ t.data = [q \in Node |-> t.data[q]]
      /\ t.watches = [q \in Node |-> t.watches[q]]
      /\ IsFiniteSet(t.live)
  BY DEF Linked, IsTree, Within
<1> HIDE DEF s
<1>3. IsTree(s)
  BY <1>1, <1>2 DEF IsTree
<1>4. gone \subseteq t.live /\ Root \notin gone /\ s.live = t.live \ gone
  BY <1>1
<1>5. ASSUME NEW a \in gone PROVE Bare(t, a) /\ a \in Prefixes(p)
  <2>1. a \in Subtree(t, a)
    BY <1>2, PrefixFacts DEF Subtree
  <2> QED
    BY <2>1 DEF Ancestors
<1>6. Carried(s)
  BY <1>1, <1>4, <1>5 DEF Linked, Carried, Bare
<1>7. \A q \in s.live : Prefixes(q) \cap gone = {}
  <2>1. SUFFICES ASSUME NEW q \in s.live, NEW a \in gone, a \in Prefixes(q)
                 PROVE  FALSE
    OBVIOUS
  <2>2. q \in t.live /\ q \in Node /\ q \in Subtree(t, a)
    BY <1>2, <1>4, <2>1 DEF Subtree
  <2>3. q \in Ancestors(p)
    BY <2>2
  <2>4. q # Root
    <3>1. Prefixes(Root) = {Root}
      BY PrefixFacts DEF Root, Node, Prefixes
    <3> QED
      BY <1>4, <2>1, <3>1
  <2>5. Subtree(t, q) \subseteq Subtree(t, a)
    BY <1>2, <2>1, <2>2, PrefixFacts DEF Subtree
  <2>6. q \in gone
    BY <2>2, <2>3, <2>4, <2>5
  <2> QED
    BY <1>4, <2>6
<1>8. Linked(s)
  <2>1. Cardinality(gone) \in Nat /\ s.free = t.free
    BY <1>1, <1>2, <1>4, FS_Subset, FS_CardinalityType
  <2>2. s.free <= t.free + Cardinality(gone)
    BY <1>2, <2>1
  <2> HIDE DEF gone
  <2> QED
    BY <1>3, <1>4, <1>6, <1>7, <2>2, UnlinkStep
<1>9. ASSUME NEW n \in s.live, Subtree(t, n) # Subtree(s, n)
      PROVE  n \in Ancestors(p)
  <2>1. PICK a \in gone : n \in Prefixes(a)
    BY <1>4, <1>9 DEF Subtree
  <2>2. a \in Prefixes(p) /\ a # p /\ a \in Node
    BY <1>2, <1>4 DEF Ancestors
  <2>3. n \in Prefixes(p) /\ Len(n) <= Len(a) /\ Len(a) < Len(p)
    BY <2>1, <2>2, PrefixFacts
  <2>4. Len(n) \in Nat /\ Len(a) \in Nat /\ Len(p) \in Nat
    BY <1>2, <1>4, <2>2, PrefixFacts
  <2> QED
    BY <2>3, <2>4 DEF Ancestors
<1> QED
  BY <1>1, <1>4, <1>8, <1>9 DEF s

LEMMA RemoveSubtreeStep ==
    ASSUME NEW t, Linked(t), NEW p \in Node, NEW who
    PROVE  LET s == RemoveSubtree(t, p, who)
           IN  /\ Linked(s)
               /\ s.live \subseteq t.live
               /\ \A n \in s.live : Subtree(t, n) # Subtree(s, n) =>
                      s.rv /\ (n \in s.bumped \/ n \in Ancestors(p))
<1> DEFINE sub == Subtree(t, p)
           data == [q \in Node |-> IF q \in sub THEN DataLeft(t.data[q], who)
                                   ELSE t.data[q]]
           watches == [q \in Node |-> IF q \in sub
                                      THEN WatchesLeft(t.watches[q], who)
                                      ELSE t.watches[q]]
           gone == {q \in sub \ {Root} :
                       \A r \in Subtree(t, q) : data[r] = <<>> /\ watches[r] = <<>>}
           inlined == {q \in sub : Len(t.data[q]) > 1 /\ Len(data[q]) = 1}
           s == RemoveSubtree(t, p, who)
<1>1. s = [live |-> t.live \ gone, data |-> data, watches |-> watches,
           room |-> t.room \ gone, free |-> t.free + Cardinality(gone),
           bumped |-> inlined \cup {q \in sub : \E g \in gone : q \in Prefixes(g)},
           rv |-> gone # {}]
  BY Zenon DEF RemoveSubtree
<1>2. t.live \subseteq Node /\ t.free \in Nat /\ IsFiniteSet(t.live)
  BY DEF Linked, IsTree, Within
<1>3. gone \subseteq t.live /\ gone \subseteq sub /\ Root \notin gone /\ sub \subseteq t.live
  BY DEF Subtree
<1>4. /\ data = [q \in Node |-> data[q]] /\ watches = [q \in Node |-> watches[q]]
      /\ \A q \in Node \ sub : data[q] = t.data[q] /\ watches[q] = t.watches[q]
  OBVIOUS
<1>5. \A q \in gone : data[q] = <<>> /\ watches[q] = <<>>
  <2>1. \A q \in gone : q \in Subtree(t, q)
    BY <1>2, <1>3, PrefixFacts DEF Subtree
  <2> QED
    BY <2>1
<1>6. \A q \in t.live : Prefixes(q) \cap gone # {} => q \in gone
  <2>1. SUFFICES ASSUME NEW q \in t.live, NEW a \in gone, a \in Prefixes(q)
                 PROVE  q \in gone
    OBVIOUS
  <2>2. q \in Node /\ a \in Node /\ q # Root
    <3>1. Prefixes(Root) = {Root}
      BY PrefixFacts DEF Root, Node, Prefixes
    <3> QED
      BY <1>2, <1>3, <2>1, <3>1
  <2>3. Prefixes(a) \subseteq Prefixes(q)
    BY <2>1, <2>2, PrefixFacts
  <2>4. q \in sub
    BY <1>3, <2>1, <2>3 DEF Subtree
  <2>5. Subtree(t, q) \subseteq Subtree(t, a)
    BY <1>2, <2>1, PrefixFacts DEF Subtree
  <2> QED
    BY <2>2, <2>4, <2>5
<1>7. Cardinality(gone) \in Nat
  BY <1>2, <1>3, FS_Subset, FS_CardinalityType
<1> HIDE DEF sub, data, watches, gone, inlined, s
<1>8. IsTree(s)
  BY <1>1, <1>2, <1>4, <1>7 DEF IsTree
<1>9. Carried(s)
  <2>1. ASSUME NEW q \in Node, ~Bare(s, q) PROVE q \in s.live
    <3>1. q \notin gone
      BY <1>1, <1>5, <2>1 DEF Bare
    <3>2. q \in t.live
      <4>1. CASE q \in sub
        BY <4>1, <1>3
      <4>2. CASE q \notin sub
        BY <4>2, <1>1, <1>4, <2>1 DEF Bare, Linked, Carried
      <4> QED
        BY <4>1, <4>2
    <3> QED
      BY <1>1, <3>1, <3>2
  <2> QED
    BY <2>1 DEF Carried
<1>10. Linked(s)
  <2>1. s.live = t.live \ gone /\ s.free <= t.free + Cardinality(gone)
    BY <1>1, <1>2, <1>7
  <2>2. \A q \in s.live : Prefixes(q) \cap gone = {}
    BY <2>1, <1>6
  <2> QED
    BY <1>3, <1>8, <1>9, <2>1, <2>2, UnlinkStep
<1>11. ASSUME NEW n \in s.live, Subtree(t, n) # Subtree(s, n)
       PROVE  s.rv /\ (n \in s.bumped \/ n \in Ancestors(p))
  <2>1. PICK g \in gone : n \in Prefixes(g)
    BY <1>1, <1>11 DEF Subtree
  <2>2. s.rv
    BY <1>1, <2>1
  <2>3. g \in Node /\ p \in Prefixes(g) /\ n \in Node /\ n \in t.live
    BY <1>1, <1>2, <1>3 DEF sub, Subtree
  <2>4. Len(p) \in Nat /\ Len(n) \in Nat
    BY <2>3, PrefixFacts
  <2>5. n \in Prefixes(p) \/ p \in Prefixes(n)
    <3>1. CASE Len(n) <= Len(p)
      BY <2>1, <2>3, <3>1, PrefixFacts
    <3>2. CASE Len(p) <= Len(n)
      BY <2>1, <2>3, <3>2, PrefixFacts
    <3> QED
      BY <2>4, <3>1, <3>2
  <2>6. CASE n \in sub
    BY <1>1, <2>1, <2>2, <2>6
  <2>7. CASE n \notin sub
    <3>1. p \notin Prefixes(n)
      BY <2>3, <2>7 DEF sub, Subtree
    <3>2. n # p
      BY <3>1, <2>3, PrefixFacts
    <3> QED
      BY <2>2, <2>5, <3>1, <3>2 DEF Ancestors
  <2> QED
    BY <2>6, <2>7
<1> QED
  BY <1>1, <1>10, <1>11 DEF s

\* What a call reports, or does not, is no matter to what is linked.
LEMMA ReportStep ==
    ASSUME NEW t, Linked(t), NEW b, NEW v
    PROVE  LET s == [t EXCEPT !.bumped = b, !.rv = v]
           IN  Linked(s) /\ Versioned(t, s)
<1> DEFINE s == [t EXCEPT !.bumped = b, !.rv = v]
<1>1. t = [live |-> t.live, data |-> t.data, watches |-> t.watches,
           room |-> t.room, free |-> t.free, bumped |-> t.bumped, rv |-> t.rv]
  BY DEF Linked, IsTree
<1>2. s = [live |-> t.live, data |-> t.data, watches |-> t.watches,
           room |-> t.room, free |-> t.free, bumped |-> b, rv |-> v]
  <2>1. s = [t EXCEPT !.bumped = b, !.rv = v]
    OBVIOUS
  <2> HIDE DEF s
  <2> QED
    BY <1>1, <2>1
<1> HIDE DEF s
<1>3. Linked(s) /\ s.live = t.live
  BY <1>2 DEF Linked, IsTree, Closed, Carried, Within, Bare
<1> QED
  BY <1>3 DEF Versioned, Subtree, s

LEMMA RemovedStep ==
    ASSUME NEW t, Linked(t), NEW p \in Node, NEW who
    PROVE  Linked(Removed(t, p, who)) /\ Versioned(t, Removed(t, p, who))
<1>1. CASE p \notin t.live
  BY <1>1, ReportStep DEF Removed
<1>2. CASE p \in t.live
  <2> DEFINE s == RemoveSubtree(t, p, who)
             r == Climb(s, p)
  <2>1. /\ Linked(s)
        /\ s.live \subseteq t.live
        /\ \A n \in s.live : Subtree(t, n) # Subtree(s, n) =>
               s.rv /\ (n \in s.bumped \/ n \in Ancestors(p))
    BY RemoveSubtreeStep
  <2>2. Removed(t, p, who) = IF s.rv THEN r ELSE s
    BY <1>2 DEF Removed
  <2> HIDE DEF s
  <2>3. /\ Linked(r)
        /\ r.live \subseteq s.live
        /\ r.bumped = s.bumped \cup Ancestors(p)
        /\ \A n \in r.live : Subtree(s, n) # Subtree(r, n) => n \in Ancestors(p)
    BY <2>1, ClimbStep
  <2> HIDE DEF r
  <2>4. CASE s.rv
    BY <2>1, <2>2, <2>3, <2>4 DEF Versioned
  <2>5. CASE ~s.rv
    BY <2>1, <2>2, <2>5 DEF Versioned
  <2> QED
    BY <2>4, <2>5
<1> QED
  BY <1>1, <1>2

LEMMA UnwatchedStep ==
    ASSUME NEW t, Linked(t), NEW p \in Node, NEW w
    PROVE  Linked(Unwatched(t, p, w)) /\ Versioned(t, Unwatched(t, p, w))
<1> DEFINE s == [t EXCEPT !.watches[p] = WatchListWithout(@, w),
                          !.bumped = {}, !.rv = TRUE]
           u == [s EXCEPT !.live = @ \ {p}, !.room = @ \ {p}]
<1>1. CASE p \notin t.live \/ w \notin ToSet(t.watches[p])
  BY <1>1, ReportStep DEF Unwatched
<1>2. CASE p \in t.live /\ w \in ToSet(t.watches[p])
  <2>1. /\ s.live = t.live /\ s.data = t.data /\ s.free = t.free
        /\ \E list : s.watches = [t.watches EXCEPT ![p] = list]
        /\ s = [live |-> s.live, data |-> s.data, watches |-> s.watches,
                room |-> s.room, free |-> s.free, bumped |-> s.bumped, rv |-> s.rv]
    <3>1. t = [live |-> t.live, data |-> t.data, watches |-> t.watches,
               room |-> t.room, free |-> t.free, bumped |-> t.bumped, rv |-> t.rv]
      BY DEF Linked, IsTree
    <3> DEFINE t1 == [t EXCEPT !.watches[p] = WatchListWithout(@, w)]
    <3>2. t1 = [live |-> t.live, data |-> t.data,
                watches |-> [t.watches EXCEPT ![p] = WatchListWithout(@, w)],
                room |-> t.room, free |-> t.free, bumped |-> t.bumped, rv |-> t.rv]
      BY <3>1
    <3>3. s = [t1 EXCEPT !.bumped = {}, !.rv = TRUE]
      OBVIOUS
    <3> HIDE DEF s, t1
    <3> QED
      BY <3>2, <3>3
  <2>2. Unwatched(t, p, w) =
           CASE p = Root -> s
             [] p # Root /\ Bare(s, p) /\ Subtree(s, p) = {p} -> Climb(u, p)
             [] OTHER -> [s EXCEPT !.bumped = {Front(p)}, !.rv = FALSE]
    BY <1>2, Zenon DEF Unwatched
  <2> HIDE DEF s
  <2>3. Linked(s) /\ \A q : Subtree(s, q) = Subtree(t, q)
    <3>1. PICK list : s.watches = [t.watches EXCEPT ![p] = list]
      BY <2>1
    <3>2. t.watches = [q \in Node |-> t.watches[q]]
      BY DEF Linked, IsTree
    <3>3. /\ s.watches = [q \in Node |-> s.watches[q]]
          /\ \A q \in Node \ {p} : s.watches[q] = t.watches[q]
      BY <3>1, <3>2
    <3>4. IsTree(s)
      BY <2>1, <3>3 DEF IsTree, Linked
    <3> QED
      BY <1>2, <2>1, <3>3, <3>4, CarryStep
  <2>4. CASE p = Root
    BY <2>1, <2>2, <2>3, <2>4 DEF Versioned
  <2>5. CASE p # Root /\ Bare(s, p) /\ Subtree(s, p) = {p}
    <3>1. /\ u.live = s.live \ {p} /\ u.data = s.data /\ u.watches = s.watches
          /\ u.free = s.free
          /\ u = [live |-> u.live, data |-> u.data, watches |-> u.watches,
                  room |-> u.room, free |-> u.free, bumped |-> u.bumped, rv |-> u.rv]
      <4>1. u = [live |-> s.live \ {p}, data |-> s.data, watches |-> s.watches,
                 room |-> s.room \ {p}, free |-> s.free, bumped |-> s.bumped,
                 rv |-> s.rv]
        <5>1. u = [s EXCEPT !.live = @ \ {p}, !.room = @ \ {p}]
          OBVIOUS
        <5> HIDE DEF u
        <5> QED
          BY <2>1, <5>1
      <4> QED
        BY <4>1
    <3>2. IsTree(u) /\ Carried(u)
      BY <2>3, <2>5, <3>1 DEF Linked, IsTree, Carried, Bare
    <3>3. \A q \in u.live : Prefixes(q) \cap {p} = {}
      BY <2>5, <3>1 DEF Subtree
    <3>4. u.free <= s.free + Cardinality({p})
      <4>1. Cardinality({p}) = 1
        BY FS_Singleton
      <4>2. s.free \in Nat
        BY <2>3 DEF Linked, IsTree
      <4> HIDE DEF u
      <4> QED
        BY <3>1, <4>1, <4>2
    <3>5. {p} \subseteq s.live /\ Root \notin {p}
      BY <1>2, <2>1, <2>5
    <3>6. Linked(u)
      BY <2>3, <3>1, <3>2, <3>3, <3>4, <3>5, UnlinkStep
    <3> DEFINE r == Climb(u, p)
    <3> HIDE DEF u
    <3>7. /\ Linked(r)
          /\ r.live \subseteq u.live
          /\ r.bumped = u.bumped \cup Ancestors(p)
          /\ \A n \in r.live : Subtree(u, n) # Subtree(r, n) => n \in Ancestors(p)
      BY <3>6, ClimbStep
    <3>8. ASSUME NEW n \in r.live, Subtree(t, n) # Subtree(r, n)
          PROVE  n \in r.bumped
      <4>1. n \in u.live /\ n # p
        BY <3>1, <3>7
      <4>2. CASE Subtree(u, n) # Subtree(r, n)
        BY <3>7, <4>2
      <4>3. CASE Subtree(u, n) # Subtree(s, n)
        <5>1. n \in Prefixes(p)
          BY <3>1, <4>3 DEF Subtree
        <5> QED
          BY <3>7, <4>1, <5>1 DEF Ancestors
      <4> QED
        BY <2>3, <3>8, <4>2, <4>3
    <3>9. Unwatched(t, p, w) = r
      BY <2>2, <2>5
    <3> QED
      BY <3>7, <3>8, <3>9 DEF Versioned
  <2>6. CASE p # Root /\ ~(Bare(s, p) /\ Subtree(s, p) = {p})
    <3> DEFINE r == [s EXCEPT !.bumped = {Front(p)}, !.rv = FALSE]
    <3>1. Unwatched(t, p, w) = r
      BY <2>2, <2>6
    <3>2. Linked(r) /\ Versioned(s, r)
      BY <2>3, ReportStep
    <3> HIDE DEF r
    <3> QED
      BY <2>1, <2>3, <3>1, <3>2 DEF Versioned
  <2> QED
    BY <2>4, <2>5, <2>6
<1> QED
  BY <1>1, <1>2

-----------------------------------------------------------------------------
(* What the lists hold: data and watches of the right kind, and after a    *)
(* call for one connection the same values of the others as before.        *)

Typed(t) ==
    /\ \A p \in Node : t.data[p] \in Seq(Datum) /\ t.watches[p] \in Seq(Watcher)
    /\ t.room \subseteq Node
    /\ t.bumped \subseteq Node
    /\ t.rv \in BOOLEAN

NotOf(c) == {d \in Datum : d.owner.data1 # c}

SameForeign(t, s, c) ==
    \A p \in Node : Among(s.data[p], NotOf(c)) = Among(t.data[p], NotOf(c))

LEMMA EmptyIsTyped == Typed(EmptyTree)
<1>1. <<>> \in Seq(Datum) /\ <<>> \in Seq(Watcher)
  OBVIOUS
<1> QED
  BY <1>1 DEF EmptyTree, Typed, Node

LEMMA GrowTyped ==
    ASSUME NEW t, Linked(t), Typed(t), NEW p \in Node
    PROVE  Typed(Grow(t, p)) /\ Grow(t, p).data = t.data
<1> DEFINE s == Grow(t, p)
<1>1. \E l, f, b, v : s = [t EXCEPT !.live = l, !.free = f, !.bumped = b, !.rv = v]
                      /\ b \subseteq Node /\ v \in BOOLEAN
  <2>1. PICK l, f, c, given :
            /\ s = [t EXCEPT !.live = l, !.free = f,
                             !.bumped = IF c = {} THEN {}
                                        ELSE Prefixes(p) \cap (t.live \cup c),
                             !.rv = c # {}]
    BY Zenon DEF Grow
  <2>2. PICK b : b = IF c = {} THEN {} ELSE Prefixes(p) \cap (t.live \cup c)
    OBVIOUS
  <2>3. b \subseteq Node
    BY <2>2, PrefixFacts
  <2>4. PICK v : v = (c # {})
    OBVIOUS
  <2>5. v \in BOOLEAN
    BY <2>4
  <2> QED
    BY <2>1, <2>2, <2>3, <2>4, <2>5
<1>2. PICK l, f, b, v : /\ s = [t EXCEPT !.live = l, !.free = f, !.bumped = b, !.rv = v]
                        /\ b \subseteq Node /\ v \in BOOLEAN
  BY <1>1
<1>3. t = [live |-> t.live, data |-> t.data, watches |-> t.watches,
           room |-> t.room, free |-> t.free, bumped |-> t.bumped, rv |-> t.rv]
  BY DEF Linked, IsTree
<1> HIDE DEF s
<1>4. s = [live |-> l, data |-> t.data, watches |-> t.watches,
           room |-> t.room, free |-> f, bumped |-> b, rv |-> v]
  BY <1>2, <1>3
<1> QED
  BY <1>2, <1>4 DEF Typed, s

LEMMA setDataTyped ==
    ASSUME NEW t, Linked(t), Typed(t), NEW p \in t.live, NEW d \in Datum
    PROVE  /\ Typed(setData(t, p, d))
           /\ SameForeign(t, setData(t, p, d), d.owner.data1)
<1> DEFINE s == setData(t, p, d)
           c == d.owner.data1
<1>1. p \in Node /\ t.data[p] \in Seq(Datum) /\ d \notin NotOf(c)
  BY DEF Linked, IsTree, Typed, NotOf
<1>2. t = [live |-> t.live, data |-> t.data, watches |-> t.watches,
           room |-> t.room, free |-> t.free, bumped |-> t.bumped, rv |-> t.rv]
      /\ t.data = [q \in Node |-> t.data[q]]
  BY DEF Linked, IsTree
<1>3. ASSUME NEW list \in Seq(Datum), s.data = [t.data EXCEPT ![p] = list],
             s.watches = t.watches, s.room \subseteq t.room \cup {p},
             s.bumped \subseteq {p}, s.rv \in BOOLEAN,
             Among(list, NotOf(c)) = Among(t.data[p], NotOf(c))
      PROVE  Typed(s) /\ SameForeign(t, s, c)
  <2> HIDE DEF s, c
  <2>1. s.data[p] = list /\ \A q \in Node \ {p} : s.data[q] = t.data[q]
    BY <1>1, <1>2, <1>3
  <2>2. Typed(s)
    BY <1>1, <1>3, <2>1 DEF Typed
  <2> QED
    BY <1>3, <2>1, <2>2 DEF SameForeign
<1>4. CASE t.data[p] = <<>> \/ (Len(t.data[p]) = 1 /\ t.data[p][1].owner = d.owner)
  <2>1. PICK list : list = IF p \in t.room \/ t.data[p] # <<>> THEN <<d>> ELSE <<>>
    OBVIOUS
  <2>2. s = SetOnly(t, p, d)
    BY <1>4 DEF setData
  <2>3. s = [t EXCEPT !.data[p] = list, !.room = @ \cup {p}, !.bumped = {p}, !.rv = TRUE]
    BY <2>1, <2>2 DEF SetOnly
  <2> DEFINE t1 == [t EXCEPT !.data[p] = list]
  <2>4. t1 = [live |-> t.live, data |-> [t.data EXCEPT ![p] = list],
              watches |-> t.watches, room |-> t.room, free |-> t.free,
              bumped |-> t.bumped, rv |-> t.rv]
    BY <1>2
  <2>5. s = [t1 EXCEPT !.room = @ \cup {p}, !.bumped = {p}, !.rv = TRUE]
    BY <2>3
  <2> HIDE DEF s, t1
  <2>6. s = [live |-> t.live, data |-> [t.data EXCEPT ![p] = list],
             watches |-> t.watches, room |-> t.room \cup {p}, free |-> t.free,
             bumped |-> {p}, rv |-> TRUE]
    BY <2>4, <2>5
  <2>7. list \in Seq(Datum)
    BY <2>1
  <2>8. Among(list, NotOf(c)) = Among(t.data[p], NotOf(c))
    <3>1. CASE list = t.data[p]
      BY <3>1
    <3>2. CASE list # t.data[p]
      <4>1. list = <<d>>
        BY <2>1, <3>2
      <4>2. Len(list) = 1 /\ list[1] = d
        BY <4>1
      <4>3. Len(t.data[p]) <= 1
        <5>1. CASE t.data[p] = <<>>
          <6>1. Len(<<>>) = 0
            OBVIOUS
          <6> QED
            BY <5>1, <6>1
        <5>2. CASE Len(t.data[p]) = 1
          BY <5>2
        <5> QED
          BY <1>4, <5>1, <5>2
      <4>4. \A i \in 1 .. Len(t.data[p]) : t.data[p][i] \notin NotOf(c)
        BY <1>1, <1>4, <4>3 DEF NotOf
      <4> HIDE DEF c
      <4> QED
        BY <1>1, <2>7, <4>2, <4>3, <4>4, AmongChanged
    <3> QED
      BY <3>1, <3>2
  <2>9. s.bumped \subseteq {p} /\ s.rv \in BOOLEAN /\ s.watches = t.watches
        /\ s.room \subseteq t.room \cup {p} /\ s.data = [t.data EXCEPT ![p] = list]
    BY <2>6
  <2> QED
    BY <1>3, <2>7, <2>8, <2>9 DEF s
<1>5. CASE ~(t.data[p] = <<>> \/ (Len(t.data[p]) = 1 /\ t.data[p][1].owner = d.owner))
  <2> DEFINE mine == {i \in DOMAIN t.data[p] : t.data[p][i].owner = d.owner}
  <2>1. PICK list : list = IF mine = {} THEN Append(t.data[p], d)
                           ELSE [i \in DOMAIN t.data[p] |->
                                    IF i \in mine THEN d ELSE t.data[p][i]]
    OBVIOUS
  <2>2. PICK v : v = (1 \in mine)
    OBVIOUS
  <2>3. v \in BOOLEAN
    BY <2>2
  <2>4. s = SetInList(t, p, d)
    BY <1>5 DEF setData
  <2>5. s = [t EXCEPT !.data[p] = list, !.bumped = {}, !.rv = v]
    BY <2>1, <2>2, <2>4 DEF SetInList
  <2> DEFINE t1 == [t EXCEPT !.data[p] = list]
  <2>6. t1 = [live |-> t.live, data |-> [t.data EXCEPT ![p] = list],
              watches |-> t.watches, room |-> t.room, free |-> t.free,
              bumped |-> t.bumped, rv |-> t.rv]
    BY <1>2
  <2>7. s = [t1 EXCEPT !.bumped = {}, !.rv = v]
    BY <2>5
  <2> HIDE DEF s, t1
  <2>8. s = [live |-> t.live, data |-> [t.data EXCEPT ![p] = list],
             watches |-> t.watches, room |-> t.room, free |-> t.free,
             bumped |-> {}, rv |-> v]
    BY <2>6, <2>7
  <2>9. /\ list \in Seq(Datum)
        /\ Among(list, NotOf(c)) = Among(t.data[p], NotOf(c))
    <3>0. DOMAIN t.data[p] = 1 .. Len(t.data[p]) /\ Len(t.data[p]) \in Nat
      BY <1>1
    <3>1. CASE mine = {}
      <4>1. list = Append(t.data[p], d)
        BY <2>1, <3>1
      <4>2. list \in Seq(Datum) /\ Len(list) = Len(t.data[p]) + 1
            /\ \A i \in 1 .. Len(t.data[p]) : list[i] = t.data[p][i]
        BY <1>1, <4>1
      <4>3. list[Len(t.data[p]) + 1] = d
        BY <1>1, <4>1
      <4>4. \A i \in 1 .. Len(list) : list[i] \in NotOf(c) => i <= Len(t.data[p])
        <5> HIDE DEF c
        <5> QED
          BY <1>1, <3>0, <4>2, <4>3
      <4> HIDE DEF c
      <4> QED
        BY <1>1, <3>0, <4>2, <4>4, AmongChanged
    <3>2. CASE mine # {}
      <4>1. list = [i \in DOMAIN t.data[p] |-> IF i \in mine THEN d ELSE t.data[p][i]]
        BY <2>1, <3>2
      <4>2. list \in Seq(Datum) /\ Len(list) = Len(t.data[p])
        BY <1>1, <4>1
      <4>3. \A i \in 1 .. Len(t.data[p]) :
               (list[i] \in NotOf(c) \/ t.data[p][i] \in NotOf(c)) => list[i] = t.data[p][i]
        <5>1. \A i \in mine : t.data[p][i] \notin NotOf(c)
          BY DEF NotOf
        <5> HIDE DEF c, mine
        <5> QED
          BY <1>1, <3>0, <4>1, <5>1
      <4>4. Len(t.data[p]) <= Len(list)
        BY <3>0, <4>2
      <4>5. \A i \in 1 .. Len(list) : list[i] \in NotOf(c) => i <= Len(t.data[p])
        BY <3>0, <4>2
      <4> HIDE DEF c
      <4> QED
        BY <1>1, <4>2, <4>3, <4>4, <4>5, AmongChanged
    <3> QED
      BY <3>1, <3>2
  <2>10. s.bumped \subseteq {p} /\ s.rv \in BOOLEAN /\ s.watches = t.watches
        /\ s.room \subseteq t.room \cup {p} /\ s.data = [t.data EXCEPT ![p] = list]
    BY <2>3, <2>8
  <2> QED
    BY <1>3, <2>9, <2>10 DEF s
<1> QED
  BY <1>4, <1>5

LEMMA InsertedTyped ==
    ASSUME NEW t, Linked(t), Typed(t), NEW p \in Node, NEW d \in Datum
    PROVE  /\ Typed(Inserted(t, p, d))
           /\ SameForeign(t, Inserted(t, p, d), d.owner.data1)
<1> DEFINE c == d.owner.data1
<1>1. CASE p \in t.live
  <2> DEFINE s == setData(t, p, d)
             r == [s EXCEPT !.bumped = @ \cup Ancestors(p)]
  <2>1. Linked(s) /\ Typed(s) /\ SameForeign(t, s, c)
    BY <1>1, setDataStep, setDataTyped
  <2>2. Inserted(t, p, d) = IF s.rv THEN r ELSE s
    BY <1>1 DEF Inserted
  <2> HIDE DEF s
  <2>3. s = [live |-> s.live, data |-> s.data, watches |-> s.watches,
             room |-> s.room, free |-> s.free, bumped |-> s.bumped, rv |-> s.rv]
    BY <2>1 DEF Linked, IsTree
  <2>4. /\ r.data = s.data /\ r.watches = s.watches /\ r.room = s.room
        /\ r.bumped = s.bumped \cup Ancestors(p)
    BY <2>3
  <2>5. r.rv = s.rv
    BY <2>3
  <2>6. Ancestors(p) \subseteq Node
    BY PrefixFacts DEF Ancestors
  <2> HIDE DEF r, c
  <2>7. r.rv \in BOOLEAN
    BY <2>1, <2>5 DEF Typed
  <2>8. Typed(r) /\ SameForeign(t, r, c)
    BY <2>1, <2>4, <2>6, <2>7 DEF Typed, SameForeign
  <2> QED
    BY <2>1, <2>2, <2>8 DEF c
<1>2. CASE p \notin t.live
  <2> DEFINE s == Grow(t, p)
             r == [s EXCEPT !.data[p] = <<d>>, !.room = @ \cup {p}]
  <2>1. Linked(s) /\ Typed(s) /\ s.data = t.data
    BY GrowStep, GrowTyped
  <2>2. Inserted(t, p, d) = IF p \in s.live THEN r ELSE s
    BY <1>2 DEF Inserted
  <2> HIDE DEF s
  <2>3. /\ r.watches = s.watches
        /\ r.data = [s.data EXCEPT ![p] = <<d>>]
        /\ r.room = s.room \cup {p} /\ r.bumped = s.bumped
        /\ r = [live |-> r.live, data |-> r.data, watches |-> r.watches,
                room |-> r.room, free |-> r.free, bumped |-> r.bumped, rv |-> s.rv]
    <3> DEFINE s1 == [s EXCEPT !.data[p] = <<d>>]
    <3>1. s = [live |-> s.live, data |-> s.data, watches |-> s.watches,
               room |-> s.room, free |-> s.free, bumped |-> s.bumped, rv |-> s.rv]
      BY <2>1 DEF Linked, IsTree
    <3>2. s1 = [live |-> s.live, data |-> [s.data EXCEPT ![p] = <<d>>],
                watches |-> s.watches, room |-> s.room,
                free |-> s.free, bumped |-> s.bumped, rv |-> s.rv]
      BY <3>1
    <3>3. r = [s1 EXCEPT !.room = @ \cup {p}]
      OBVIOUS
    <3> HIDE DEF s1, r
    <3>4. r = [live |-> s.live, data |-> [s.data EXCEPT ![p] = <<d>>],
               watches |-> s.watches, room |-> s.room \cup {p},
               free |-> s.free, bumped |-> s.bumped, rv |-> s.rv]
      BY <3>2, <3>3
    <3> QED
      BY <3>4
  <2>4. t.data[p] = <<>>
    BY <1>2 DEF Linked, Carried, Bare
  <2>5. s.data = [q \in Node |-> s.data[q]]
    BY <2>1 DEF Linked, IsTree
  <2>6. r.rv = s.rv /\ s.rv \in BOOLEAN
    BY <2>1, <2>3 DEF Typed
  <2>7. r.rv \in BOOLEAN
    BY <2>6
  <2> HIDE DEF r
  <2>8. r.data[p] = <<d>> /\ \A q \in Node \ {p} : r.data[q] = t.data[q]
    BY <2>1, <2>3, <2>5
  <2>9. <<d>> \in Seq(Datum) /\ Len(<<d>>) = 1 /\ <<d>>[1] = d
    OBVIOUS
  <2>10. Typed(r)
    BY <2>1, <2>3, <2>7, <2>8, <2>9 DEF Typed
  <2>11. Among(<<d>>, NotOf(c)) = Among(<<>>, NotOf(c))
    <3>1. <<>> \in Seq(Datum) /\ Len(<<>>) = 0
      OBVIOUS
    <3>2. d \notin NotOf(c)
      BY DEF NotOf
    <3> HIDE DEF c
    <3>3. \A i \in 1 .. Len(<<d>>) : <<d>>[i] \in NotOf(c) => i <= Len(<<>>)
      BY <2>9, <3>2
    <3>4. Len(<<>>) <= Len(<<d>>) /\ 1 .. Len(<<>>) = {}
      BY <2>9, <3>1
    <3>5. PICK r1, r0 : r1 = <<d>> /\ r0 = <<>>
      OBVIOUS
    <3> QED
      BY <2>9, <3>1, <3>3, <3>4, <3>5, AmongChanged
  <2>12. SameForeign(t, r, c)
    BY <2>4, <2>8, <2>11 DEF SameForeign
  <2>13. SameForeign(t, s, c)
    BY <2>1 DEF SameForeign
  <2> QED
    BY <2>1, <2>2, <2>10, <2>12, <2>13
<1> QED
  BY <1>1, <1>2

\* What a removal leaves of a list.
LEMMA DataLeftFacts ==
    ASSUME NEW data \in Seq(Datum), NEW who
    PROVE  /\ DataLeft(data, who) \in Seq(Datum)
           /\ Among(DataLeft(data, who), NotOf(who.data1)) = Among(data, NotOf(who.data1))
           /\ who.data2 = Everyone =>
                 \A j \in DOMAIN DataLeft(data, who) :
                    DataLeft(data, who)[j].owner.data1 # who.data1
<1> DEFINE K == {i \in DOMAIN data :
                    IF Len(data) = 1 THEN data[i].owner.data1 # who.data1
                                     ELSE ~SameOwner(data[i].owner, who)}
<1>1. K \in SUBSET DOMAIN data /\ DataLeft(data, who) = Kept(data, K)
  BY DEF DataLeft
<1>2. \A i \in DOMAIN data : data[i] \in NotOf(who.data1) => i \in K
  BY DEF NotOf, SameOwner
<1>3. who.data2 = Everyone => \A i \in K : data[i].owner.data1 # who.data1
  BY DEF SameOwner
<1> HIDE DEF K
<1>4. /\ Kept(data, K) \in Seq(Datum)
      /\ \A j \in DOMAIN Kept(data, K) : \E i \in K : Kept(data, K)[j] = data[i]
  BY <1>1, KeptIsSeq
<1>5. Among(Kept(data, K), NotOf(who.data1)) = Among(data, NotOf(who.data1))
  BY <1>1, <1>2, AmongKept
<1> QED
  BY <1>1, <1>3, <1>4, <1>5

LEMMA WatchesLeftFacts ==
    ASSUME NEW watches \in Seq(Watcher), NEW who
    PROVE  /\ WatchesLeft(watches, who) \in Seq(Watcher)
           /\ who.data2 = Everyone =>
                 \A j \in DOMAIN WatchesLeft(watches, who) :
                    WatchesLeft(watches, who)[j].data1 # who.data1
<1> DEFINE K == {i \in DOMAIN watches : ~SameOwner(watches[i], who)}
<1>1. K \in SUBSET DOMAIN watches /\ WatchesLeft(watches, who) = Kept(watches, K)
  BY DEF WatchesLeft
<1>2. who.data2 = Everyone => \A i \in K : watches[i].data1 # who.data1
  BY DEF SameOwner
<1> HIDE DEF K
<1>3. /\ Kept(watches, K) \in Seq(Watcher)
      /\ \A j \in DOMAIN Kept(watches, K) : \E i \in K : Kept(watches, K)[j] = watches[i]
  BY <1>1, KeptIsSeq
<1> QED
  BY <1>1, <1>2, <1>3

LEMMA RemoveSubtreeTyped ==
    ASSUME NEW t, Linked(t), Typed(t), NEW p \in Node, NEW who
    PROVE  LET s == RemoveSubtree(t, p, who)
           IN  /\ Typed(s)
               /\ SameForeign(t, s, who.data1)
               /\ \A q \in Node :
                     /\ s.data[q] = IF q \in Subtree(t, p) THEN DataLeft(t.data[q], who)
                                                           ELSE t.data[q]
                     /\ s.watches[q] = IF q \in Subtree(t, p)
                                       THEN WatchesLeft(t.watches[q], who)
                                       ELSE t.watches[q]
<1> DEFINE sub == Subtree(t, p)
           data == [q \in Node |-> IF q \in sub THEN DataLeft(t.data[q], who)
                                   ELSE t.data[q]]
           watches == [q \in Node |-> IF q \in sub
                                      THEN WatchesLeft(t.watches[q], who)
                                      ELSE t.watches[q]]
           gone == {q \in sub \ {Root} :
                       \A r \in Subtree(t, q) : data[r] = <<>> /\ watches[r] = <<>>}
           inlined == {q \in sub : Len(t.data[q]) > 1 /\ Len(data[q]) = 1}
           s == RemoveSubtree(t, p, who)
           v == gone # {}
<1>1. s = [live |-> t.live \ gone, data |-> data, watches |-> watches,
           room |-> t.room \ gone, free |-> t.free + Cardinality(gone),
           bumped |-> inlined \cup {q \in sub : \E g \in gone : q \in Prefixes(g)},
           rv |-> v]
  BY Zenon DEF RemoveSubtree
<1>2. sub \subseteq Node /\ inlined \subseteq Node
  BY DEF Linked, IsTree, Subtree
<1>3. v \in BOOLEAN
  OBVIOUS
<1>4. ASSUME NEW q \in Node
      PROVE  /\ data[q] \in Seq(Datum) /\ watches[q] \in Seq(Watcher)
             /\ Among(data[q], NotOf(who.data1)) = Among(t.data[q], NotOf(who.data1))
             /\ data[q] = IF q \in sub THEN DataLeft(t.data[q], who) ELSE t.data[q]
             /\ watches[q] = IF q \in sub THEN WatchesLeft(t.watches[q], who)
                                          ELSE t.watches[q]
  <2>1. t.data[q] \in Seq(Datum) /\ t.watches[q] \in Seq(Watcher)
    BY DEF Typed
  <2> HIDE DEF sub
  <2> QED
    BY <2>1, DataLeftFacts, WatchesLeftFacts
<1> HIDE DEF data, watches, gone, inlined, v
<1>5. /\ s.data = data /\ s.watches = watches /\ s.room \subseteq t.room
      /\ s.bumped \subseteq inlined \cup sub
  BY <1>1
<1>6. s.rv = v
  BY <1>1
<1>7. s.rv \in BOOLEAN
  BY <1>3, <1>6
<1>8. Typed(s)
  <2> HIDE DEF s, sub
  <2> QED
    BY <1>2, <1>4, <1>5, <1>7 DEF Typed
<1>9. SameForeign(t, s, who.data1)
  BY <1>4, <1>5 DEF SameForeign
<1> QED
  BY <1>4, <1>5, <1>8, <1>9

LEMMA ClimbTyped ==
    ASSUME NEW t, IsTree(t), Typed(t), NEW p \in Node
    PROVE  LET s == Climb(t, p)
           IN  Typed(s) /\ s.data = t.data /\ s.watches = t.watches
<1> DEFINE s == Climb(t, p)
<1>1. PICK bare : s = [t EXCEPT !.live = @ \ bare, !.room = @ \ bare,
                                !.bumped = @ \cup Ancestors(p)]
  BY Zenon DEF Climb
<1>2. t = [live |-> t.live, data |-> t.data, watches |-> t.watches,
           room |-> t.room, free |-> t.free, bumped |-> t.bumped, rv |-> t.rv]
  BY DEF IsTree
<1> HIDE DEF s
<1>3. /\ s.data = t.data /\ s.watches = t.watches /\ s.room \subseteq t.room
      /\ s.bumped = t.bumped \cup Ancestors(p)
  BY <1>1, <1>2
<1>4. s.rv = t.rv
  BY <1>1, <1>2
<1>5. s.rv \in BOOLEAN
  BY <1>4 DEF Typed
<1>6. Ancestors(p) \subseteq Node
  BY PrefixFacts DEF Ancestors
<1> QED
  BY <1>3, <1>5, <1>6 DEF Typed, s

\* What a call reports is no matter to the contents either.
LEMMA ReportTyped ==
    ASSUME NEW t, IsTree(t), Typed(t), NEW b \in SUBSET Node, NEW v \in BOOLEAN
    PROVE  LET s == [t EXCEPT !.bumped = b, !.rv = v]
           IN  Typed(s) /\ s.data = t.data /\ s.watches = t.watches
<1> DEFINE s == [t EXCEPT !.bumped = b, !.rv = v]
<1>1. t = [live |-> t.live, data |-> t.data, watches |-> t.watches,
           room |-> t.room, free |-> t.free, bumped |-> t.bumped, rv |-> t.rv]
  BY DEF IsTree
<1>2. s.data = t.data /\ s.watches = t.watches /\ s.room = t.room /\ s.bumped = b
  BY <1>1
<1>3. s.rv = v
  BY <1>1
<1>4. s.rv \in BOOLEAN
  BY <1>3
<1> HIDE DEF s
<1> QED
  BY <1>2, <1>4 DEF Typed, s

LEMMA RemovedTyped ==
    ASSUME NEW t, Linked(t), Typed(t), NEW p \in Node, NEW who
    PROVE  LET s == Removed(t, p, who)
           IN  /\ Typed(s)
               /\ SameForeign(t, s, who.data1)
               /\ \A q \in Node :
                     /\ s.data[q] = IF q \in Subtree(t, p) THEN DataLeft(t.data[q], who)
                                                           ELSE t.data[q]
                     /\ s.watches[q] = IF q \in Subtree(t, p)
                                       THEN WatchesLeft(t.watches[q], who)
                                       ELSE t.watches[q]
<1>1. CASE p \notin t.live
  <2>1. Subtree(t, p) = {}
    BY <1>1 DEF Subtree, Linked, Closed
  <2>2. PICK b \in SUBSET Node, v \in BOOLEAN : b = {} /\ v = FALSE
    OBVIOUS
  <2>3. Removed(t, p, who) = [t EXCEPT !.bumped = b, !.rv = v]
    BY <1>1, <2>2 DEF Removed
  <2> DEFINE s == Removed(t, p, who)
  <2> DEFINE r == [t EXCEPT !.bumped = b, !.rv = v]
  <2>4. Typed(s) /\ s.data = t.data /\ s.watches = t.watches
    <3>1. Typed(r) /\ r.data = t.data /\ r.watches = t.watches
      BY ReportTyped DEF Linked
    <3>2. s = r
      BY <2>3
    <3> HIDE DEF s, r
    <3> QED
      BY <3>1, <3>2
  <2> HIDE DEF s
  <2>5. SameForeign(t, s, who.data1)
    BY <2>4 DEF SameForeign
  <2> QED
    BY <2>1, <2>4, <2>5 DEF s
<1>2. CASE p \in t.live
  <2> DEFINE u == RemoveSubtree(t, p, who)
             s == IF u.rv THEN Climb(u, p) ELSE u
  <2>1. /\ Linked(u) /\ Typed(u) /\ SameForeign(t, u, who.data1)
        /\ \A q \in Node :
              /\ u.data[q] = IF q \in Subtree(t, p) THEN DataLeft(t.data[q], who)
                                                    ELSE t.data[q]
              /\ u.watches[q] = IF q \in Subtree(t, p)
                                THEN WatchesLeft(t.watches[q], who)
                                ELSE t.watches[q]
    BY RemoveSubtreeStep, RemoveSubtreeTyped
  <2>2. Removed(t, p, who) = s
    BY <1>2 DEF Removed
  <2> HIDE DEF u
  <2>3. Typed(s) /\ s.data = u.data /\ s.watches = u.watches
    BY <2>1, ClimbTyped DEF Linked
  <2> HIDE DEF s
  <2>4. SameForeign(t, s, who.data1)
    BY <2>1, <2>3 DEF SameForeign
  <2> QED
    BY <2>1, <2>2, <2>3, <2>4
<1> QED
  BY <1>1, <1>2

\* Nothing refers to the connection any more.
Forgotten(t, c) ==
    \A p \in Node : /\ \A d \in ToSet(t.data[p]) : d.owner.data1 # c
                    /\ \A w \in ToSet(t.watches[p]) : w.data1 # c

LEMMA RemovedAllForgets ==
    ASSUME NEW t, Linked(t), Typed(t), NEW c
    PROVE  Forgotten(Removed(t, Root, [data1 |-> c, data2 |-> Everyone]), c)
<1> DEFINE who == [data1 |-> c, data2 |-> Everyone]
           s == Removed(t, Root, who)
<1>1. ASSUME NEW p \in Node
      PROVE  /\ \A d \in ToSet(s.data[p]) : d.owner.data1 # c
             /\ \A w \in ToSet(s.watches[p]) : w.data1 # c
  <2>1. t.data[p] \in Seq(Datum) /\ t.watches[p] \in Seq(Watcher)
    BY DEF Typed
  <2>2. who.data1 = c /\ who.data2 = Everyone
    OBVIOUS
  <2>3. Root \in Node
    BY DEF Node
  <2> HIDE DEF who
  <2>4. /\ s.data[p] = IF p \in Subtree(t, Root) THEN DataLeft(t.data[p], who)
                                                 ELSE t.data[p]
        /\ s.watches[p] = IF p \in Subtree(t, Root) THEN WatchesLeft(t.watches[p], who)
                                                    ELSE t.watches[p]
    BY <2>3, RemovedTyped
  <2> HIDE DEF s
  <2>5. CASE p \in Subtree(t, Root)
    <3>1. \A j \in DOMAIN s.data[p] : s.data[p][j].owner.data1 # c
      BY <2>1, <2>2, <2>4, <2>5, DataLeftFacts
    <3>2. \A j \in DOMAIN s.watches[p] : s.watches[p][j].data1 # c
      BY <2>1, <2>2, <2>4, <2>5, WatchesLeftFacts
    <3> QED
      BY <3>1, <3>2 DEF ToSet
  <2>6. CASE p \notin Subtree(t, Root)
    <3>1. p \notin t.live
      BY <2>6, PrefixFacts DEF Subtree
    <3>2. t.data[p] = <<>> /\ t.watches[p] = <<>>
      BY <3>1 DEF Linked, Carried, Bare
    <3>3. DOMAIN s.data[p] = {} /\ DOMAIN s.watches[p] = {}
      BY <2>4, <2>6, <3>2
    <3> QED
      BY <3>3 DEF ToSet
  <2> QED
    BY <2>5, <2>6
<1> QED
  BY <1>1 DEF Forgotten

LEMMA WatchedTyped ==
    ASSUME NEW t, Linked(t), Typed(t), NEW p \in Node, NEW w \in Watcher
    PROVE  Typed(Watched(t, p, w)) /\ Watched(t, p, w).data = t.data
<1> DEFINE s == IF p \in t.live
                THEN [t EXCEPT !.bumped = Ancestors(p), !.rv = TRUE]
                ELSE Grow(t, p)
           r == [s EXCEPT !.watches[p] = Append(@, w)]
<1>1. Linked(s) /\ Typed(s) /\ s.data = t.data
  <2>1. CASE p \in t.live
    <3>1. PICK b \in SUBSET Node, v \in BOOLEAN : b = Ancestors(p) /\ v = TRUE
      <4>1. Ancestors(p) \in SUBSET Node
        BY PrefixFacts DEF Ancestors
      <4> QED
        BY <4>1
    <3> DEFINE q == [t EXCEPT !.bumped = b, !.rv = v]
    <3>2. s = q
      BY <2>1, <3>1
    <3>3. Linked(q) /\ Typed(q) /\ q.data = t.data
      BY ReportStep, ReportTyped DEF Linked
    <3> HIDE DEF s, q
    <3> QED
      BY <3>2, <3>3
  <2>2. CASE p \notin t.live
    BY <2>2, GrowStep, GrowTyped
  <2> QED
    BY <2>1, <2>2
<1>2. Watched(t, p, w) = IF p \in s.live THEN r ELSE s
  BY DEF Watched
<1> HIDE DEF s
<1>3. s = [live |-> s.live, data |-> s.data, watches |-> s.watches,
           room |-> s.room, free |-> s.free, bumped |-> s.bumped, rv |-> s.rv]
      /\ s.watches = [q \in Node |-> s.watches[q]]
  BY <1>1 DEF Linked, IsTree
<1>4. /\ r.data = s.data /\ r.room = s.room /\ r.bumped = s.bumped
      /\ r.watches = [s.watches EXCEPT ![p] = Append(@, w)]
  BY <1>3
<1>5. r.rv = s.rv
  BY <1>3
<1>6. r.rv \in BOOLEAN
  BY <1>1, <1>5 DEF Typed
<1> HIDE DEF r
<1>7. /\ r.watches[p] = Append(s.watches[p], w)
      /\ \A q \in Node \ {p} : r.watches[q] = s.watches[q]
  BY <1>3, <1>4
<1>8. s.watches[p] \in Seq(Watcher)
  BY <1>1 DEF Typed
<1>9. Append(s.watches[p], w) \in Seq(Watcher)
  BY <1>8
<1>10. Typed(r)
  BY <1>1, <1>4, <1>6, <1>7, <1>9 DEF Typed
<1> QED
  BY <1>1, <1>2, <1>4, <1>10

LEMMA WatchListTyped ==
    ASSUME NEW list \in Seq(Watcher), NEW w
    PROVE  WatchListWithout(list, w) \in Seq(Watcher)
<1> DEFINE at == {i \in DOMAIN list : list[i] = w}
           ii == CHOOSE i \in at : \A j \in at : i <= j
           shifted == [i \in DOMAIN list |-> IF i >= ii /\ i < Len(list)
                                             THEN list[i + 1] ELSE list[i]]
<1>1. WatchListWithout(list, w) =
         CASE at = {}        -> list
           [] Len(list) = 1  -> <<>>
           [] Len(list) = 2  -> <<list[1]>>
           [] OTHER          -> shifted
  BY DEF WatchListWithout
<1>2. Len(list) \in Nat /\ DOMAIN list = 1 .. Len(list)
  OBVIOUS
<1>3. Len(list) = 2 => <<list[1]>> \in Seq(Watcher)
  BY <1>2
<1>4. shifted \in Seq(Watcher)
  <2> HIDE DEF ii
  <2>1. ASSUME NEW i \in 1 .. Len(list), i < Len(list)
        PROVE  list[i + 1] \in Watcher
    <3>1. i + 1 \in 1 .. Len(list)
      BY <1>2, <2>1
    <3> QED
      BY <3>1
  <2>2. shifted \in [1 .. Len(list) -> Watcher]
    BY <1>2, <2>1
  <2> HIDE DEF shifted
  <2> QED
    BY <1>2, <2>2
<1>5. <<>> \in Seq(Watcher)
  OBVIOUS
<1> HIDE DEF at, shifted
<1> QED
  BY <1>1, <1>3, <1>4, <1>5

LEMMA UnwatchedTyped ==
    ASSUME NEW t, Linked(t), Typed(t), NEW p \in Node, NEW w
    PROVE  Typed(Unwatched(t, p, w)) /\ Unwatched(t, p, w).data = t.data
<1> DEFINE list == WatchListWithout(t.watches[p], w)
           s == [t EXCEPT !.watches[p] = WatchListWithout(@, w),
                          !.bumped = {}, !.rv = TRUE]
           u == [s EXCEPT !.live = @ \ {p}, !.room = @ \ {p}]
<1>1. CASE p \notin t.live \/ w \notin ToSet(t.watches[p])
  <2>1. PICK b \in SUBSET Node, v \in BOOLEAN : b = {} /\ v = FALSE
    OBVIOUS
  <2> DEFINE q == [t EXCEPT !.bumped = b, !.rv = v]
  <2>2. Unwatched(t, p, w) = q
    BY <1>1, <2>1 DEF Unwatched
  <2>3. Typed(q) /\ q.data = t.data
    BY ReportTyped DEF Linked
  <2> HIDE DEF q
  <2> QED
    BY <2>2, <2>3
<1>2. CASE p \in t.live /\ w \in ToSet(t.watches[p])
  <2>1. s = [live |-> t.live, data |-> t.data,
             watches |-> [t.watches EXCEPT ![p] = list],
             room |-> t.room, free |-> t.free, bumped |-> {}, rv |-> TRUE]
    <3>1. t = [live |-> t.live, data |-> t.data, watches |-> t.watches,
               room |-> t.room, free |-> t.free, bumped |-> t.bumped, rv |-> t.rv]
      BY DEF Linked, IsTree
    <3> DEFINE t1 == [t EXCEPT !.watches[p] = WatchListWithout(@, w)]
    <3>2. t1 = [live |-> t.live, data |-> t.data,
                watches |-> [t.watches EXCEPT ![p] = list],
                room |-> t.room, free |-> t.free, bumped |-> t.bumped, rv |-> t.rv]
      BY <3>1
    <3>3. s = [t1 EXCEPT !.bumped = {}, !.rv = TRUE]
      OBVIOUS
    <3> HIDE DEF s, t1
    <3> QED
      BY <3>2, <3>3
  <2>2. Unwatched(t, p, w) =
           CASE p = Root -> s
             [] p # Root /\ Bare(s, p) /\ Subtree(s, p) = {p} -> Climb(u, p)
             [] OTHER -> [s EXCEPT !.bumped = {Front(p)}, !.rv = FALSE]
    BY <1>2, Zenon DEF Unwatched
  <2>3. list \in Seq(Watcher)
    <3>1. t.watches[p] \in Seq(Watcher)
      BY DEF Typed
    <3> QED
      BY <3>1, WatchListTyped
  <2>4. t.watches = [q \in Node |-> t.watches[q]]
    BY DEF Linked, IsTree
  <2>5. Typed(s) /\ s.data = t.data
    <3>1. /\ s.watches[p] = list /\ \A q \in Node \ {p} : s.watches[q] = t.watches[q]
          /\ s.data = t.data /\ s.room = t.room /\ s.bumped = {} /\ s.rv = TRUE
      <4> HIDE DEF list, s
      <4> QED
        BY <2>1, <2>4
    <3> HIDE DEF list, s
    <3> QED
      BY <2>3, <3>1 DEF Typed
  <2>6. IsTree(s)
    <3>1. t.data = [q \in Node |-> t.data[q]] /\ t.live \in SUBSET Node /\ t.free \in Nat
      BY DEF Linked, IsTree
    <3>2. [t.watches EXCEPT ![p] = list] = [q \in Node |-> [t.watches EXCEPT ![p] = list][q]]
      BY <2>4
    <3> HIDE DEF list, s
    <3> QED
      BY <2>1, <3>1, <3>2 DEF IsTree
  <2> HIDE DEF s
  <2>7. IsTree(u) /\ Typed(u) /\ u.data = s.data
    <3>1. u = [live |-> s.live \ {p}, data |-> s.data, watches |-> s.watches,
               room |-> s.room \ {p}, free |-> s.free, bumped |-> s.bumped,
               rv |-> s.rv]
      <4>1. u = [s EXCEPT !.live = @ \ {p}, !.room = @ \ {p}]
        OBVIOUS
      <4>2. s = [live |-> s.live, data |-> s.data, watches |-> s.watches,
                 room |-> s.room, free |-> s.free, bumped |-> s.bumped, rv |-> s.rv]
        BY <2>6 DEF IsTree
      <4> HIDE DEF u
      <4> QED
        BY <4>1, <4>2
    <3>2. u.rv = s.rv /\ s.rv \in BOOLEAN
      BY <2>5, <3>1 DEF Typed
    <3>3. u.rv \in BOOLEAN
      BY <3>2
    <3> HIDE DEF u
    <3>4. /\ u.data = s.data /\ u.watches = s.watches /\ u.room \subseteq s.room
          /\ u.bumped = s.bumped
      BY <3>1
    <3>5. Typed(u)
      BY <2>5, <3>3, <3>4 DEF Typed
    <3>6. IsTree(u)
      BY <2>6, <3>1 DEF IsTree
    <3> QED
      BY <3>4, <3>5, <3>6
  <2> HIDE DEF u
  <2>8. Typed(Climb(u, p)) /\ Climb(u, p).data = t.data
    BY <2>5, <2>7, ClimbTyped
  <2>9. ASSUME p # Root
        PROVE  LET q == [s EXCEPT !.bumped = {Front(p)}, !.rv = FALSE]
               IN  Typed(q) /\ q.data = t.data
    <3>1. {Front(p)} \in SUBSET Node
      <4>1. p \in Seq(Names) /\ Len(p) # 0
        BY <2>9, NodeIsSeq DEF Root
      <4>2. Front(p) \in Prefixes(p)
        <5>1. Len(p) - 1 \in 0 .. Len(p)
          BY <4>1
        <5> QED
          BY <5>1 DEF Front, Prefixes
      <4> QED
        BY <4>2, PrefixFacts
    <3>2. PICK b \in SUBSET Node, v \in BOOLEAN : b = {Front(p)} /\ v = FALSE
      BY <3>1
    <3> DEFINE r == [s EXCEPT !.bumped = b, !.rv = v]
    <3>3. Typed(r) /\ r.data = s.data
      BY <2>5, <2>6, ReportTyped
    <3>4. r = [s EXCEPT !.bumped = {Front(p)}, !.rv = FALSE]
      BY <3>2
    <3> HIDE DEF r
    <3> QED
      BY <2>5, <3>3, <3>4
  <2> QED
    BY <2>2, <2>5, <2>8, <2>9
<1> QED
  BY <1>1, <1>2

-----------------------------------------------------------------------------
(* The theorems.                                                           *)

LEMMA TreeStep ==
    ASSUME Linked(tree), NEW c \in Conn, By(c)
    PROVE  Linked(tree') /\ Versioned(tree, tree')
<1>1. WatchPath \subseteq Node /\ Path \subseteq Node /\ Root \in Node
  BY TreeAssumption DEF Node
<1>2. ASSUME NEW p \in Path, NEW o, NEW v, insert(p, o, v)
      PROVE  Linked(tree') /\ Versioned(tree, tree')
  BY <1>1, <1>2, InsertedStep DEF insert
<1>3. ASSUME NEW p \in Path, NEW o, remove(p, o)
      PROVE  Linked(tree') /\ Versioned(tree, tree')
  BY <1>1, <1>3, RemovedStep DEF remove
<1>4. ASSUME NEW p \in WatchPath, NEW w, addWatch(p, w)
      PROVE  Linked(tree') /\ Versioned(tree, tree')
  BY <1>1, <1>4, WatchedStep DEF addWatch
<1>5. ASSUME NEW p \in WatchPath, NEW w, remWatch(p, w)
      PROVE  Linked(tree') /\ Versioned(tree, tree')
  BY <1>1, <1>5, UnwatchedStep DEF remWatch
<1>6. ASSUME removeAll(c)
      PROVE  Linked(tree') /\ Versioned(tree, tree')
  BY <1>1, <1>6, RemovedStep DEF removeAll
<1> QED
  BY <1>2, <1>3, <1>4, <1>5, <1>6 DEF By

LEMMA LinkedInvariant == TreeSpec => []Linked(tree)
<1>1. TreeInit => Linked(tree)
  BY EmptyIsLinked DEF TreeInit
<1>2. Linked(tree) /\ [TreeNext]_tree => Linked(tree)'
  BY TreeStep DEF TreeNext
<1> QED
  BY <1>1, <1>2, PTL DEF TreeSpec

\* The same for the contents.
LEMMA TreeTypedStep ==
    ASSUME Linked(tree), Typed(tree), NEW c \in Conn, By(c)
    PROVE  Typed(tree') /\ SameForeign(tree, tree', c)
<1>1. WatchPath \subseteq Node /\ Path \subseteq Node /\ Root \in Node
  BY TreeAssumption DEF Node
<1>2. ASSUME NEW p \in Path, NEW o \in Owner, o.data1 = c, NEW v \in Value, insert(p, o, v)
      PROVE  Typed(tree') /\ SameForeign(tree, tree', c)
  <2>1. PICK d : d = [owner |-> o, value |-> v]
    OBVIOUS
  <2>2. d \in Datum /\ d.owner.data1 = c
    BY <1>2, <2>1 DEF Datum
  <2> QED
    BY <1>1, <1>2, <2>1, <2>2, InsertedTyped DEF insert
<1>3. ASSUME NEW p \in Path, NEW o \in Owner, o.data1 = c, remove(p, o)
      PROVE  Typed(tree') /\ SameForeign(tree, tree', c)
  BY <1>1, <1>3, RemovedTyped DEF remove
<1>4. ASSUME NEW p \in WatchPath, NEW w \in Watcher, addWatch(p, w)
      PROVE  Typed(tree') /\ SameForeign(tree, tree', c)
  BY <1>1, <1>4, WatchedTyped DEF addWatch, SameForeign
<1>5. ASSUME NEW p \in WatchPath, NEW w \in Watcher, remWatch(p, w)
      PROVE  Typed(tree') /\ SameForeign(tree, tree', c)
  BY <1>1, <1>5, UnwatchedTyped DEF remWatch, SameForeign
<1>6. ASSUME removeAll(c)
      PROVE  Typed(tree') /\ SameForeign(tree, tree', c)
  <2>1. PICK who : who = [data1 |-> c, data2 |-> Everyone]
    OBVIOUS
  <2>2. who.data1 = c
    BY <2>1
  <2> QED
    BY <1>1, <1>6, <2>1, <2>2, RemovedTyped DEF removeAll
<1> QED
  BY <1>2, <1>3, <1>4, <1>5, <1>6 DEF By

LEMMA TypedInvariant == TreeSpec => [](Linked(tree) /\ Typed(tree))
<1>1. TreeInit => Linked(tree) /\ Typed(tree)
  BY EmptyIsLinked, EmptyIsTyped DEF TreeInit
<1>2. Linked(tree) /\ Typed(tree) /\ [TreeNext]_tree => (Linked(tree) /\ Typed(tree))'
  BY TreeStep, TreeTypedStep DEF TreeNext
<1> QED
  BY <1>1, <1>2, PTL DEF TreeSpec

\* The tree keeps its type: nodes, lists of data and of watches, and never more
\* free entries than the version table has.
THEOREM TreeTypes == TreeSpec => []TreeTypeOK
<1>1. Linked(tree) /\ Typed(tree) => TreeTypeOK
  <2> SUFFICES ASSUME Linked(tree), Typed(tree) PROVE TreeTypeOK
    OBVIOUS
  <2>1. tree.free \in 0 .. MaxEntries
    <3>1. /\ IsFiniteSet(tree.live) /\ Root \in tree.live /\ tree.free \in Nat
          /\ Cardinality(tree.live) - 1 + tree.free <= MaxEntries
      BY DEF Linked, Within, Closed, IsTree
    <3>2. Cardinality(tree.live) \in Nat /\ Cardinality(tree.live) # 0
      BY <3>1, FS_CardinalityType, FS_EmptySet
    <3> QED
      BY <3>1, <3>2, TreeAssumption
  <2>2. tree.live \subseteq Node
    BY DEF Linked, IsTree
  <2> QED
    BY <2>1, <2>2 DEF Typed, TreeTypeOK
<1> QED
  BY <1>1, TypedInvariant, PTL

\* No call made for one connection changes, hides or reorders the values that
\* another one has published, whichever publishers share a node.
THEOREM ForeignValuesAreKept == TreeSpec => ForeignValuesKept
<1>1. ASSUME NEW t, Typed(t), NEW c
      PROVE  ValuesNotOf(t, c) = [p \in Node |-> Among(t.data[p], NotOf(c))]
  <2>1. ASSUME NEW p \in Node
        PROVE  Kept(t.data[p], {i \in DOMAIN t.data[p] : t.data[p][i].owner.data1 # c})
                  = Among(t.data[p], NotOf(c))
    <3>1. t.data[p] \in Seq(Datum)
      BY <1>1 DEF Typed
    <3>2. {i \in DOMAIN t.data[p] : t.data[p][i].owner.data1 # c}
             = {i \in DOMAIN t.data[p] : t.data[p][i] \in NotOf(c)}
      BY <3>1 DEF NotOf
    <3> QED
      BY <3>2 DEF Among
  <2> QED
    BY <2>1 DEF ValuesNotOf
<1>2. ASSUME Linked(tree), Typed(tree), NEW c \in Conn, By(c)
      PROVE  ValuesNotOf(tree', c) = ValuesNotOf(tree, c)
  <2>1. Typed(tree') /\ SameForeign(tree, tree', c)
    BY <1>2, TreeTypedStep
  <2>2. /\ ValuesNotOf(tree, c) = [p \in Node |-> Among(tree.data[p], NotOf(c))]
        /\ ValuesNotOf(tree', c) = [p \in Node |-> Among(tree'.data[p], NotOf(c))]
    BY <1>1, <1>2, <2>1
  <2> QED
    BY <2>1, <2>2 DEF SameForeign
<1>3. Linked(tree) /\ Typed(tree) /\ [TreeNext]_tree =>
         [\A c \in Conn :
             ValuesNotOf(tree', c) # ValuesNotOf(tree, c) => ~By(c)]_tree
  BY <1>2
<1> QED
  BY <1>3, TypedInvariant, PTL DEF TreeSpec, ForeignValuesKept

\* A connection that has gone has left nothing behind in the tree: no value, and
\* no watch through which its protocol object would be written to.
THEOREM DisconnectionForgets == TreeSpec => DisconnectForgets
<1>1. ASSUME Linked(tree), Typed(tree), NEW c \in Conn, removeAll(c)
      PROVE  \A p \in Node :
                /\ \A d \in ToSet(tree'.data[p]) : d.owner.data1 # c
                /\ \A w \in ToSet(tree'.watches[p]) : w.data1 # c
  BY <1>1, RemovedAllForgets DEF removeAll, Forgotten
<1>2. Linked(tree) /\ Typed(tree) /\ [TreeNext]_tree =>
         [\A c \in Conn : removeAll(c) =>
             \A p \in Node :
                /\ \A d \in ToSet(tree'.data[p]) : d.owner.data1 # c
                /\ \A w \in ToSet(tree'.watches[p]) : w.data1 # c]_tree
  BY <1>1
<1> QED
  BY <1>2, TypedInvariant, PTL DEF TreeSpec, DisconnectForgets

\* In every sequence of inserts, removals, watches and disconnections, on every
\* set of paths and with a version table of any size, whatever carries a value
\* or a watch is reached from the root, and the table is not overdrawn.
THEOREM TreeIsLinked == TreeSpec => []LinkedToRoot
<1>1. Linked(tree) => LinkedToRoot
  BY DEF Linked, Closed, Carried, Within, LinkedToRoot
<1> QED
  BY <1>1, LinkedInvariant, PTL

\* No call makes a node appear or disappear without bumping every node above it
\* that stays: what subscribers compare versions for.
THEOREM ChildrenAreVersioned == TreeSpec => ChildrenVersioned
<1>1. Linked(tree) /\ [TreeNext]_tree =>
         [\A p \in tree.live \cap tree'.live :
             Subtree(tree, p) # Subtree(tree', p) => p \in tree'.bumped]_tree
  BY TreeStep DEF TreeNext, Versioned
<1> QED
  BY <1>1, LinkedInvariant, PTL DEF TreeSpec, ChildrenVersioned

(***************************************************************************)
(* II.  The server and its clients.                                        *)
(***************************************************************************)

-----------------------------------------------------------------------------
(* The inductive invariant.  What it says of one client is stated for any  *)
(* queues and counters, so that the steps can be reasoned about one client *)
(* at a time.                                                              *)

\* What a client asks for is what it may ask for.
Asked(c, r) ==
    \/ r.op = "ADD" /\ <<c, r.path>> \in Publish /\ \E v \in Value : r.value = {v}
    \/ r.op = "REM" /\ <<c, r.path>> \in Withdraw /\ r.value = {}
    \/ r.op \in {"NOTIFY", "SUBINDEX"}

AskedAll(c, ops) == \A i \in DOMAIN ops : Asked(c, ops[i])

IsQueue(s) == s \in Seq(UNION {{s[i]} : i \in DOMAIN s})

\* The requests that a client has collected (ops), sent (packs), and those of
\* its packet that the server has still to carry out (rest).
QueuedAs(c, ops, packs, rest) ==
    /\ IsQueue(ops) /\ AskedAll(c, ops)
    /\ IsQueue(rest) /\ AskedAll(c, rest)
    /\ IsQueue(packs)
    /\ \A i \in DOMAIN packs : IsQueue(packs[i].ops) /\ AskedAll(c, packs[i].ops)

\* Packets are numbered in the order in which they are sent, and acknowledged
\* in that order.  Only the packet with which a client introduces itself has no
\* number.
Plain(ops) == \A i \in DOMAIN ops : ops[i].op \notin {"ADD", "REM"}

Later(pack, recv, acks) ==
    \/ pack.id = 0 /\ Plain(pack.ops)
    \/ pack.id > recv /\ \A k \in DOMAIN acks : acks[k] < pack.id

\* acks are on their way to the client; current is the packet being handled.
NumberedAs(sent, recv, acks, packs, ops, current) ==
    /\ sent \in Nat /\ recv \in 0 .. sent /\ acks \in Seq(0 .. sent)
    /\ \A i \in DOMAIN packs :
          /\ packs[i].id \in 0 .. sent
          /\ Later(packs[i], recv, acks)
          /\ \A j \in DOMAIN packs : i < j => packs[i].id < packs[j].id
          /\ \A u \in current : u.id < packs[i].id
          /\ ops # <<>> => packs[i].id < sent
    /\ \A u \in current : /\ u.id \in 0 .. sent
                          /\ Later(u, recv, acks)
                          /\ ops # <<>> => u.id < sent
    /\ ops # <<>> => recv < sent /\ \A k \in DOMAIN acks : acks[k] < sent

\* What a sequence of requests makes of the values of their client at a path.
Touches(r, p) == (r.op = "ADD" /\ r.path = p) \/ (r.op = "REM" /\ r.path \in Prefixes(p))

Untouched(ops, p) == \A i \in DOMAIN ops : ~Touches(ops[i], p)

LastIn(ops, p, after) ==
    \E i \in DOMAIN ops :
        /\ Touches(ops[i], p) /\ ops[i].value = after
        /\ \A j \in DOMAIN ops : i < j => ~Touches(ops[j], p)

AllUntouched(packs, p) == \A k \in DOMAIN packs : Untouched(packs[k].ops, p)

LastPacked(packs, p, after) ==
    \E k \in DOMAIN packs :
        /\ LastIn(packs[k].ops, p, after)
        /\ \A m \in DOMAIN packs : k < m => Untouched(packs[m].ops, p)

\* What a client has published at a path (after) is what it has asked for last:
\* that is still collected, or on its way, or being handled, or stored (now).
UnderwayAs(p, ops, packs, rest, now, after) ==
    \/ LastIn(ops, p, after)
    \/ /\ Untouched(ops, p)
       /\ \/ LastPacked(packs, p, after)
          \/ /\ AllUntouched(packs, p)
             /\ \/ LastIn(rest, p, after)
                \/ Untouched(rest, p) /\ now = after

\* The values of a process at a path.
Values(t, a, p) == {d.value : d \in {e \in ToSet(t.data[p]) : e.owner.data1 = a}}

\* A node holds at most one datum, of the process that publishes its path; and
\* that is one of those that are there.
Owned(t, there) ==
    \A p \in Node :
        \/ t.data[p] = <<>>
        \/ \E a \in there, v \in Value :
              /\ <<a, p>> \in Publish
              /\ t.data[p] = <<[owner |-> OwnerOf(a), value |-> v]>>

\* The block of a path that is published has room from the beginning, and no
\* entry of the version table is lost.
Roomy(t) == \A x \in Publish : x[2] \in t.live => x[2] \in t.room

Full(t) == Cardinality(t.live) - 1 + t.free >= MaxEntries

\* The packet that the server is handling, and its requests.
Working(c) == work.kind = "packet" /\ work.from = c

Current(c) == IF Working(c) THEN {[id |-> work.id, ops |-> work.ops]} ELSE {}

Rest(c) == IF Working(c) THEN work.ops ELSE <<>>

Shape ==
    /\ connections \subseteq Client
    /\ DOMAIN toServer = Client /\ DOMAIN toClient = Client /\ DOMAIN todo = Client
    /\ DOMAIN lastSentId = Client /\ DOMAIN lastRecvId = Client
    /\ want \in [Client -> [Path -> SUBSET Value]]
    /\ work.kind = "packet" => work.from \in connections
    /\ DOMAIN work = {"kind", "from", "id", "ops", "changed"}

Queued(c) == QueuedAs(c, todo[c], toServer[c], Rest(c))

Numbered(c) == NumberedAs(lastSentId[c], lastRecvId[c], toClient[c], toServer[c],
                          todo[c], Current(c))

Underway(c, p) ==
    UnderwayAs(p, todo[c], toServer[c], Rest(c), Values(tree, c, p), want[c][p])

TreeInv(t, there) == Linked(t) /\ Typed(t) /\ Owned(t, there)

LInv ==
    /\ TreeInv(tree, connections \cup {Server})
    /\ Shape
    /\ \A c \in connections : Queued(c) /\ Numbered(c)

Spacious(t) == Roomy(t) /\ Full(t)

AckInv ==
    /\ LInv
    /\ Spacious(tree)
    /\ \A c \in connections, p \in Path : Underway(c, p)

-----------------------------------------------------------------------------
(* Sequences of requests.                                                  *)

LEMMA QueueFacts ==
    ASSUME NEW s, IsQueue(s)
    PROVE  /\ Len(s) \in Nat /\ DOMAIN s = 1 .. Len(s)
           /\ \A x : /\ IsQueue(Append(s, x))
                     /\ DOMAIN Append(s, x) = 1 .. Len(s) + 1
                     /\ Append(s, x)[Len(s) + 1] = x
                     /\ \A i \in 1 .. Len(s) : Append(s, x)[i] = s[i]
           /\ s # <<>> => /\ Len(s) # 0 /\ 1 \in DOMAIN s /\ Head(s) = s[1]
                          /\ IsQueue(Tail(s)) /\ DOMAIN Tail(s) = 1 .. Len(s) - 1
                          /\ \A i \in 1 .. Len(s) - 1 : Tail(s)[i] = s[i + 1]
<1> DEFINE S == UNION {{s[i]} : i \in DOMAIN s}
<1>1. s \in Seq(S)
  BY DEF IsQueue
<1>2. Len(s) \in Nat /\ DOMAIN s = 1 .. Len(s)
  BY <1>1
<1>3. ASSUME NEW r, NEW T, r \in Seq(T) PROVE IsQueue(r)
  <2>1. \A i \in DOMAIN r : r[i] \in UNION {{r[j]} : j \in DOMAIN r}
    OBVIOUS
  <2>2. PICK U : U = UNION {{r[j]} : j \in DOMAIN r}
    OBVIOUS
  <2>3. DOMAIN r = 1 .. Len(r) /\ Len(r) \in Nat /\ r = [i \in 1 .. Len(r) |-> r[i]]
    BY <1>3
  <2>4. r \in Seq(U)
    BY <2>1, <2>2, <2>3
  <2> QED
    BY <2>2, <2>4 DEF IsQueue
<1> HIDE DEF S
<1>4. ASSUME NEW x
      PROVE  /\ IsQueue(Append(s, x))
             /\ DOMAIN Append(s, x) = 1 .. Len(s) + 1
             /\ Append(s, x)[Len(s) + 1] = x
             /\ \A i \in 1 .. Len(s) : Append(s, x)[i] = s[i]
  <2>1. Append(s, x) \in Seq(S \cup {x})
    BY <1>1
  <2>2. IsQueue(Append(s, x))
    BY <1>3, <2>1
  <2> QED
    BY <1>1, <2>2
<1>5. ASSUME s # <<>>
      PROVE  /\ Len(s) # 0 /\ 1 \in DOMAIN s /\ Head(s) = s[1]
             /\ IsQueue(Tail(s)) /\ DOMAIN Tail(s) = 1 .. Len(s) - 1
             /\ \A i \in 1 .. Len(s) - 1 : Tail(s)[i] = s[i + 1]
  <2>1. Tail(s) \in Seq(S)
    BY <1>1, <1>5
  <2>2. IsQueue(Tail(s))
    BY <1>3, <2>1
  <2>3. Len(s) # 0 /\ 1 \in DOMAIN s /\ Head(s) = s[1]
    BY <1>1, <1>5
  <2>4. DOMAIN Tail(s) = 1 .. Len(s) - 1 /\ \A i \in 1 .. Len(s) - 1 : Tail(s)[i] = s[i + 1]
    BY <1>1, <1>5
  <2> QED
    BY <2>2, <2>3, <2>4
<1> QED
  BY <1>2, <1>4, <1>5

LEMMA EmptyQueue == IsQueue(<<>>) /\ DOMAIN <<>> = {}
  BY DEF IsQueue

\* One more request.
LEMMA LastInAppend ==
    ASSUME NEW ops, IsQueue(ops), NEW r, NEW p
    PROVE  /\ Touches(r, p) => LastIn(Append(ops, r), p, r.value)
           /\ ~Touches(r, p) =>
                 /\ Untouched(ops, p) => Untouched(Append(ops, r), p)
                 /\ \A V : LastIn(ops, p, V) => LastIn(Append(ops, r), p, V)
<1> DEFINE n == Len(ops)
           s == Append(ops, r)
<1>1. /\ n \in Nat /\ DOMAIN ops = 1 .. n
      /\ DOMAIN s = 1 .. n + 1 /\ s[n + 1] = r /\ \A i \in 1 .. n : s[i] = ops[i]
  BY QueueFacts
<1> HIDE DEF n, s
<1>2. /\ \A j \in DOMAIN s : j = n + 1 \/ j \in 1 .. n
      /\ n + 1 \in DOMAIN s /\ \A j \in DOMAIN s : ~(n + 1 < j)
      /\ \A j \in 1 .. n : j \in DOMAIN s
  BY <1>1
<1>3. Touches(r, p) => LastIn(s, p, r.value)
  BY <1>1, <1>2 DEF LastIn
<1>4. ~Touches(r, p) /\ Untouched(ops, p) => Untouched(s, p)
  BY <1>1, <1>2 DEF Untouched
<1>5. ASSUME ~Touches(r, p), NEW V, LastIn(ops, p, V) PROVE LastIn(s, p, V)
  <2>1. PICK i \in DOMAIN ops :
           /\ Touches(ops[i], p) /\ ops[i].value = V
           /\ \A j \in DOMAIN ops : i < j => ~Touches(ops[j], p)
    BY <1>5 DEF LastIn
  <2>2. \A j \in DOMAIN s : i < j => ~Touches(s[j], p)
    BY <1>1, <1>2, <1>5, <2>1
  <2> QED
    BY <1>1, <1>2, <2>1, <2>2 DEF LastIn
<1> QED
  BY <1>3, <1>4, <1>5 DEF s

\* One request carried out.
LEMMA LastInTail ==
    ASSUME NEW ops, IsQueue(ops), ops # <<>>, NEW p
    PROVE  /\ Untouched(ops, p) => ~Touches(Head(ops), p) /\ Untouched(Tail(ops), p)
           /\ \A V : LastIn(ops, p, V) =>
                 \/ LastIn(Tail(ops), p, V)
                 \/ /\ Touches(Head(ops), p) /\ Head(ops).value = V
                    /\ Untouched(Tail(ops), p)
<1> DEFINE n == Len(ops)
           s == Tail(ops)
           r == Head(ops)
<1>1. /\ n \in Nat /\ n # 0 /\ DOMAIN ops = 1 .. n /\ 1 \in DOMAIN ops /\ r = ops[1]
      /\ DOMAIN s = 1 .. n - 1 /\ \A i \in 1 .. n - 1 : s[i] = ops[i + 1]
  BY QueueFacts
<1> HIDE DEF n, s, r
<1>2. \A j \in DOMAIN s : j + 1 \in DOMAIN ops /\ s[j] = ops[j + 1] /\ 1 < j + 1
  BY <1>1
<1>3. Untouched(ops, p) => ~Touches(r, p) /\ Untouched(s, p)
  BY <1>1, <1>2 DEF Untouched
<1>4. ASSUME NEW V, LastIn(ops, p, V)
      PROVE  \/ LastIn(s, p, V)
             \/ Touches(r, p) /\ r.value = V /\ Untouched(s, p)
  <2>1. PICK i \in DOMAIN ops :
           /\ Touches(ops[i], p) /\ ops[i].value = V
           /\ \A j \in DOMAIN ops : i < j => ~Touches(ops[j], p)
    BY <1>4 DEF LastIn
  <2>2. CASE i = 1
    BY <1>1, <1>2, <2>1, <2>2 DEF Untouched
  <2>3. CASE i # 1
    <3>1. i - 1 \in DOMAIN s /\ s[i - 1] = ops[i]
      BY <1>1, <2>3
    <3>2. ASSUME NEW j \in DOMAIN s, i - 1 < j PROVE ~Touches(s[j], p)
      <4>1. i < j + 1
        BY <1>1, <3>2
      <4> QED
        BY <1>2, <2>1, <4>1
    <3> QED
      BY <2>1, <3>1, <3>2 DEF LastIn
  <2> QED
    BY <2>2, <2>3
<1> QED
  BY <1>3, <1>4 DEF s, r

\* The collected requests become the last packet.
LEMMA PacketsAppend ==
    ASSUME NEW packs, IsQueue(packs), NEW p, NEW pack
    PROVE  /\ \A V : LastIn(pack.ops, p, V) => LastPacked(Append(packs, pack), p, V)
           /\ Untouched(pack.ops, p) =>
                 /\ AllUntouched(packs, p) => AllUntouched(Append(packs, pack), p)
                 /\ \A V : LastPacked(packs, p, V) => LastPacked(Append(packs, pack), p, V)
<1> DEFINE n == Len(packs)
           s == Append(packs, pack)
<1>1. /\ n \in Nat /\ DOMAIN packs = 1 .. n
      /\ DOMAIN s = 1 .. n + 1 /\ s[n + 1] = pack /\ \A i \in 1 .. n : s[i] = packs[i]
  BY QueueFacts
<1> HIDE DEF n, s
<1>2. /\ \A j \in DOMAIN s : j = n + 1 \/ j \in 1 .. n
      /\ n + 1 \in DOMAIN s /\ \A j \in DOMAIN s : ~(n + 1 < j)
      /\ \A j \in 1 .. n : j \in DOMAIN s
  BY <1>1
<1>3. \A V : LastIn(pack.ops, p, V) => LastPacked(s, p, V)
  BY <1>1, <1>2 DEF LastPacked
<1>4. Untouched(pack.ops, p) /\ AllUntouched(packs, p) => AllUntouched(s, p)
  BY <1>1, <1>2 DEF AllUntouched
<1>5. ASSUME Untouched(pack.ops, p), NEW V, LastPacked(packs, p, V)
      PROVE  LastPacked(s, p, V)
  <2>1. PICK k \in DOMAIN packs :
           /\ LastIn(packs[k].ops, p, V)
           /\ \A m \in DOMAIN packs : k < m => Untouched(packs[m].ops, p)
    BY <1>5 DEF LastPacked
  <2>2. \A m \in DOMAIN s : k < m => Untouched(s[m].ops, p)
    BY <1>1, <1>2, <1>5, <2>1
  <2> QED
    BY <1>1, <1>2, <2>1, <2>2 DEF LastPacked
<1> QED
  BY <1>3, <1>4, <1>5 DEF s

\* The first packet is taken.
LEMMA PacketsTail ==
    ASSUME NEW packs, IsQueue(packs), packs # <<>>, NEW p
    PROVE  /\ AllUntouched(packs, p) =>
                 Untouched(Head(packs).ops, p) /\ AllUntouched(Tail(packs), p)
           /\ \A V : LastPacked(packs, p, V) =>
                 \/ LastPacked(Tail(packs), p, V)
                 \/ LastIn(Head(packs).ops, p, V) /\ AllUntouched(Tail(packs), p)
<1> DEFINE n == Len(packs)
           s == Tail(packs)
           r == Head(packs)
<1>1. /\ n \in Nat /\ n # 0 /\ DOMAIN packs = 1 .. n /\ 1 \in DOMAIN packs /\ r = packs[1]
      /\ DOMAIN s = 1 .. n - 1 /\ \A i \in 1 .. n - 1 : s[i] = packs[i + 1]
  BY QueueFacts
<1> HIDE DEF n, s, r
<1>2. \A j \in DOMAIN s : j + 1 \in DOMAIN packs /\ s[j] = packs[j + 1] /\ 1 < j + 1
  BY <1>1
<1>3. AllUntouched(packs, p) => Untouched(r.ops, p) /\ AllUntouched(s, p)
  BY <1>1, <1>2 DEF AllUntouched
<1>4. ASSUME NEW V, LastPacked(packs, p, V)
      PROVE  LastPacked(s, p, V) \/ (LastIn(r.ops, p, V) /\ AllUntouched(s, p))
  <2>1. PICK k \in DOMAIN packs :
           /\ LastIn(packs[k].ops, p, V)
           /\ \A m \in DOMAIN packs : k < m => Untouched(packs[m].ops, p)
    BY <1>4 DEF LastPacked
  <2>2. CASE k = 1
    BY <1>1, <1>2, <2>1, <2>2 DEF AllUntouched
  <2>3. CASE k # 1
    <3>1. k - 1 \in DOMAIN s /\ s[k - 1] = packs[k]
      BY <1>1, <2>3
    <3>2. ASSUME NEW m \in DOMAIN s, k - 1 < m PROVE Untouched(s[m].ops, p)
      <4>1. k < m + 1
        BY <1>1, <3>2
      <4> QED
        BY <1>2, <2>1, <4>1
    <3> QED
      BY <2>1, <3>1, <3>2 DEF LastPacked
  <2> QED
    BY <2>2, <2>3
<1> QED
  BY <1>3, <1>4 DEF s, r

-----------------------------------------------------------------------------
(* What the calls on the tree do to the values of the processes.           *)

LEMMA ValuesFacts ==
    ASSUME NEW t, NEW p, NEW c
    PROVE  /\ t.data[p] = <<>> => Values(t, c, p) = {}
           /\ \A a, v : t.data[p] = <<[owner |-> OwnerOf(a), value |-> v]>> =>
                           Values(t, c, p) = IF a = c THEN {v} ELSE {}
<1>1. ASSUME t.data[p] = <<>> PROVE Values(t, c, p) = {}
  BY <1>1 DEF Values, ToSet
<1>2. ASSUME NEW a, NEW v, t.data[p] = <<[owner |-> OwnerOf(a), value |-> v]>>
      PROVE  Values(t, c, p) = IF a = c THEN {v} ELSE {}
  <2> DEFINE d == [owner |-> OwnerOf(a), value |-> v]
  <2>1. d.owner.data1 = a /\ d.value = v
    BY DEF OwnerOf
  <2>2. ToSet(<<d>>) = {d}
    BY DEF ToSet
  <2> HIDE DEF d
  <2>3. ToSet(t.data[p]) = {d}
    BY <1>2, <2>2 DEF d
  <2>4. CASE a = c
    BY <2>1, <2>3, <2>4 DEF Values
  <2>5. CASE a # c
    BY <2>1, <2>3, <2>5 DEF Values
  <2> QED
    BY <2>4, <2>5
<1> QED
  BY <1>1, <1>2

LEMMA ValuesSame ==
    ASSUME NEW t, NEW s, NEW p, NEW c, s.data[p] = t.data[p]
    PROVE  Values(s, c, p) = Values(t, c, p)
  BY DEF Values

\* Of a single datum either all or nothing is left.
LEMMA DataLeftOfOne ==
    ASSUME NEW d \in Datum, NEW who
    PROVE  DataLeft(<<d>>, who) = IF d.owner.data1 = who.data1 THEN <<>> ELSE <<d>>
<1>1. <<d>> \in Seq(Datum) /\ DOMAIN <<d>> = {1} /\ Len(<<d>>) = 1 /\ <<d>>[1] = d
  OBVIOUS
<1>2. CASE d.owner.data1 = who.data1
  <2>1. {i \in DOMAIN <<d>> : IF Len(<<d>>) = 1 THEN <<d>>[i].owner.data1 # who.data1
                              ELSE ~SameOwner(<<d>>[i].owner, who)} = {}
    BY <1>1, <1>2
  <2>2. {} \in SUBSET DOMAIN <<d>>
    OBVIOUS
  <2>3. Kept(<<d>>, {}) = <<>>
    BY <1>1, <2>2, KeptIsSeq
  <2> QED
    BY <1>2, <2>1, <2>3 DEF DataLeft
<1>3. CASE d.owner.data1 # who.data1
  <2>1. {i \in DOMAIN <<d>> : IF Len(<<d>>) = 1 THEN <<d>>[i].owner.data1 # who.data1
                              ELSE ~SameOwner(<<d>>[i].owner, who)} = {1}
    BY <1>1, <1>3
  <2> DEFINE e == [j \in 1 .. 1 |-> 1]
  <2>2. Enumerates(e, 1, {1})
    BY DEF Enumerates
  <2>3. Kept(<<d>>, {1}) = [j \in 1 .. 1 |-> <<d>>[e[j]]]
    BY <2>2, KeptIs, {1} \in SUBSET Nat, 1 \in Nat
  <2>4. [j \in 1 .. 1 |-> <<d>>[e[j]]] = <<d>>
    OBVIOUS
  <2> QED
    BY <1>3, <2>1, <2>3, <2>4 DEF DataLeft
<1> QED
  BY <1>2, <1>3

LEMMA DataLeftOfNone ==
    ASSUME NEW who PROVE DataLeft(<<>>, who) = <<>>
<1>1. <<>> \in Seq(Datum) /\ DOMAIN <<>> = {}
  OBVIOUS
<1>2. \A K : K \subseteq DOMAIN <<>> => K = {}
  BY <1>1
<1>3. Kept(<<>>, {}) = <<>>
  <2>1. {} \in SUBSET DOMAIN <<>>
    OBVIOUS
  <2> QED
    BY <1>1, <2>1, KeptIsSeq
<1> QED
  BY <1>2, <1>3 DEF DataLeft

LEMMA OwnedDatum ==
    ASSUME NEW a \in Process, NEW v \in Value
    PROVE  [owner |-> OwnerOf(a), value |-> v] \in Datum
  BY LayerAssumption DEF Datum

\* A path that nobody but a publishes.
LEMMA OnePublisherOf ==
    ASSUME NEW a, NEW b, NEW p, <<a, p>> \in Publish, <<b, p>> \in Publish
    PROVE  a = b
<1>1. \A x \in Publish, y \in Publish : x[2] = y[2] => x = y
  BY LayerAssumption
<1>2. <<a, p>>[2] = p /\ <<b, p>>[2] = p
  OBVIOUS
<1>3. <<a, p>> = <<b, p>>
  BY <1>1, <1>2
<1> QED
  BY <1>3

\* A value set at a node that is there.
LEMMA SetOwned ==
    ASSUME NEW t, Linked(t), Typed(t), NEW there \in SUBSET Process, Owned(t, there),
           NEW a \in there, NEW p \in t.live, NEW v \in Value, <<a, p>> \in Publish,
           NEW d, d = [owner |-> OwnerOf(a), value |-> v],
           NEW s, s = Inserted(t, p, d)
    PROVE  /\ s.live = t.live /\ s.free = t.free /\ s.room = t.room \cup {p}
           /\ \A q \in Node \ {p} : s.data[q] = t.data[q]
           /\ s.data[p] \in {<<>>, <<d>>}
           /\ p \in t.room => s.data[p] = <<d>>
           /\ s.bumped = {p} \cup Ancestors(p) /\ s.rv /\ s.watches = t.watches
<1>1. p \in Node /\ t.data = [q \in Node |-> t.data[q]]
      /\ t = [live |-> t.live, data |-> t.data, watches |-> t.watches,
              room |-> t.room, free |-> t.free, bumped |-> t.bumped, rv |-> t.rv]
  BY DEF Linked, IsTree
<1>2. t.data[p] = <<>> \/ (Len(t.data[p]) = 1 /\ t.data[p][1].owner = d.owner)
  <2>1. CASE t.data[p] = <<>>
    BY <2>1
  <2>2. CASE t.data[p] # <<>>
    <3>1. PICK b \in there, w \in Value :
             <<b, p>> \in Publish /\ t.data[p] = <<[owner |-> OwnerOf(b), value |-> w]>>
      BY <1>1, <2>2 DEF Owned
    <3>2. b = a
      BY <3>1, OnePublisherOf
    <3> QED
      BY <3>1, <3>2
  <2> QED
    BY <2>1, <2>2
<1>3. PICK list : list = IF p \in t.room \/ t.data[p] # <<>> THEN <<d>> ELSE <<>>
  OBVIOUS
<1> DEFINE r == SetOnly(t, p, d)
<1>4. r = [live |-> t.live, data |-> [t.data EXCEPT ![p] = list], watches |-> t.watches,
           room |-> t.room \cup {p}, free |-> t.free, bumped |-> {p}, rv |-> TRUE]
  <2> DEFINE t1 == [t EXCEPT !.data[p] = list]
  <2>1. t1 = [live |-> t.live, data |-> [t.data EXCEPT ![p] = list], watches |-> t.watches,
              room |-> t.room, free |-> t.free, bumped |-> t.bumped, rv |-> t.rv]
    BY <1>1
  <2>2. r = [t1 EXCEPT !.room = @ \cup {p}, !.bumped = {p}, !.rv = TRUE]
    BY <1>1, <1>3 DEF SetOnly
  <2> HIDE DEF t1, r
  <2> QED
    BY <2>1, <2>2
<1>5. setData(t, p, d) = r
  BY <1>2 DEF setData
<1>6. s = [r EXCEPT !.bumped = @ \cup Ancestors(p)]
  <2>1. r.rv
    BY <1>4
  <2> HIDE DEF r
  <2> QED
    BY <1>5, <2>1 DEF Inserted
<1> HIDE DEF r
<1>7. /\ s.live = t.live /\ s.free = t.free /\ s.room = t.room \cup {p}
      /\ s.data = [t.data EXCEPT ![p] = list]
  BY <1>4, <1>6
<1>8. s.data[p] = list /\ \A q \in Node \ {p} : s.data[q] = t.data[q]
  BY <1>1, <1>7
<1>9. s.bumped = {p} \cup Ancestors(p) /\ s.rv /\ s.watches = t.watches
  BY <1>4, <1>6
<1> QED
  BY <1>3, <1>7, <1>8, <1>9

\* Whatever is published, there are entries for it and nobody has to make do
\* with a block that was created for a node without a value.
Ample ==
    /\ IsFiniteSet(Path) /\ Cardinality(Path) <= MaxEntries
    /\ \A x \in Publish, y \in Publish : x[2] \in Prefixes(y[2]) => x[2] = y[2]

LEMMA EnoughEntries ==
    ASSUME NEW t, Linked(t), Full(t), Ample, NEW p \in Node,
           NEW missing, missing = Prefixes(p) \ t.live
    PROVE  /\ IsFiniteSet(missing)
           /\ Cardinality(missing) \in Nat /\ Cardinality(missing) <= t.free
           /\ Cardinality(t.live \cup Prefixes(p)) = Cardinality(t.live) + Cardinality(missing)
           /\ Cardinality(t.live) \in Nat /\ t.free \in Nat
<1>1. /\ IsFiniteSet(t.live) /\ t.live \subseteq Node /\ t.free \in Nat
      /\ Cardinality(t.live) \in Nat
  BY FS_CardinalityType DEF Linked, IsTree, Within
<1>2. IsFiniteSet(Node) /\ Cardinality(Node) \in Nat /\ Cardinality(Path) \in Nat
      /\ Cardinality(Node) <= Cardinality(Path) + 1
  <2>1. IsFiniteSet(Path) /\ Cardinality(Path) \in Nat /\ Root \notin Path
    BY FS_CardinalityType, TreeAssumption DEF Ample
  <2>2. IsFiniteSet(Node) /\ Cardinality(Node) = Cardinality(Path) + 1
    BY <2>1, FS_AddElement DEF Node
  <2> QED
    BY <2>1, <2>2
<1>3. IsFiniteSet(Node \ t.live)
      /\ Cardinality(Node \ t.live) = Cardinality(Node) - Cardinality(t.live)
  <2>1. Node \cap t.live = t.live
    BY <1>1
  <2> QED
    BY <1>2, <2>1, FS_Difference
<1>4. missing \subseteq Node \ t.live
  BY PrefixFacts
<1>5. IsFiniteSet(missing) /\ Cardinality(missing) \in Nat
      /\ Cardinality(missing) <= Cardinality(Node \ t.live)
  BY <1>3, <1>4, FS_Subset, FS_CardinalityType
<1>6. Cardinality(missing) <= t.free
  BY <1>1, <1>2, <1>3, <1>5, TreeAssumption DEF Full, Ample
<1>7. t.live \cup Prefixes(p) = t.live \cup missing /\ t.live \cap missing = {}
  OBVIOUS
<1>8. Cardinality(t.live \cup missing) = Cardinality(t.live) + Cardinality(missing)
  <2>1. Cardinality(t.live \cup missing)
           = Cardinality(t.live) + Cardinality(missing) - Cardinality(t.live \cap missing)
    BY <1>1, <1>5, FS_Union
  <2>2. Cardinality(t.live \cap missing) = 0
    BY <1>7, FS_EmptySet
  <2> QED
    BY <1>1, <1>5, <2>1, <2>2
<1> QED
  BY <1>1, <1>5, <1>6, <1>7, <1>8

\* A value inserted where no node is yet.
LEMMA GrownOwned ==
    ASSUME NEW t, Linked(t), Typed(t), NEW p \in Node \ t.live, NEW d,
           NEW s, s = Inserted(t, p, d)
    PROVE  /\ t.data[p] = <<>>
           /\ \A q \in Node \ {p} : s.data[q] = t.data[q]
           /\ s.data[p] \in {<<>>, <<d>>}
           /\ Full(t) /\ Ample =>
                 /\ Full(s) /\ s.data[p] = <<d>>
                 /\ s.live = t.live \cup Prefixes(p) /\ s.room = t.room \cup {p}
<1> DEFINE g == Grow(t, p)
<1>1. Linked(g) /\ Typed(g) /\ g.data = t.data
  BY GrowStep, GrowTyped
<1>2. s = IF p \in g.live THEN [g EXCEPT !.data[p] = <<d>>, !.room = @ \cup {p}] ELSE g
  BY DEF Inserted
<1>3. /\ g = [live |-> g.live, data |-> g.data, watches |-> g.watches,
              room |-> g.room, free |-> g.free, bumped |-> g.bumped, rv |-> g.rv]
      /\ g.data = [q \in Node |-> g.data[q]]
  BY <1>1 DEF Linked, IsTree
<1>4. t.data[p] = <<>>
  BY DEF Linked, Carried, Bare
<1>5. /\ s.live = g.live /\ s.free = g.free
      /\ \A q \in Node \ {p} : s.data[q] = g.data[q]
      /\ p \in g.live => s.data[p] = <<d>> /\ s.room = g.room \cup {p}
      /\ p \notin g.live => s = g
  <2> HIDE DEF g
  <2>1. CASE p \notin g.live
    BY <1>2, <2>1
  <2>2. CASE p \in g.live
    <3> DEFINE g1 == [g EXCEPT !.data[p] = <<d>>]
    <3>1. g1 = [live |-> g.live, data |-> [g.data EXCEPT ![p] = <<d>>],
                watches |-> g.watches, room |-> g.room,
                free |-> g.free, bumped |-> g.bumped, rv |-> g.rv]
      BY <1>3
    <3>2. s = [g1 EXCEPT !.room = @ \cup {p}]
      BY <1>2, <2>2
    <3> HIDE DEF g1
    <3>3. /\ s.live = g.live /\ s.free = g.free /\ s.room = g.room \cup {p}
          /\ s.data = [g.data EXCEPT ![p] = <<d>>]
      BY <3>1, <3>2
    <3>4. s.data[p] = <<d>> /\ \A q \in Node \ {p} : s.data[q] = g.data[q]
      BY <1>3, <3>3
    <3> QED
      BY <2>2, <3>3, <3>4
  <2> QED
    BY <2>1, <2>2
<1>6. ASSUME Full(t), Ample
      PROVE  /\ g.live = t.live \cup Prefixes(p) /\ g.room = t.room
             /\ Cardinality(g.live) - 1 + g.free = Cardinality(t.live) - 1 + t.free
  <2> DEFINE missing == Prefixes(p) \ t.live
  <2>1. /\ Cardinality(missing) \in Nat /\ Cardinality(missing) <= t.free
        /\ Cardinality(t.live \cup Prefixes(p)) = Cardinality(t.live) + Cardinality(missing)
        /\ Cardinality(t.live) \in Nat /\ t.free \in Nat
    BY <1>6, EnoughEntries
  <2>2. PICK n \in Nat : n = Cardinality(missing)
    BY <2>1
  <2> DEFINE created == {q \in missing : Len(q) <= Len(p) - n + n}
  <2>3. created = missing
    <3>1. \A q \in missing : Len(q) <= Len(p) /\ Len(q) \in Nat /\ Len(p) \in Nat
      BY PrefixFacts
    <3>2. Len(p) - n + n = Len(p)
      BY <3>1, PrefixFacts
    <3> QED
      BY <3>1, <3>2
  <2>4. PICK b : b = IF created = {} THEN {} ELSE Prefixes(p) \cap (t.live \cup created)
    OBVIOUS
  <2>5. PICK v : v = (created # {})
    OBVIOUS
  <2>6. g = [t EXCEPT !.live = @ \cup created, !.free = @ - n, !.bumped = b, !.rv = v]
    BY <2>1, <2>2, <2>4, <2>5 DEF Grow
  <2>7. t = [live |-> t.live, data |-> t.data, watches |-> t.watches,
             room |-> t.room, free |-> t.free, bumped |-> t.bumped, rv |-> t.rv]
    BY DEF Linked, IsTree
  <2> HIDE DEF g, created
  <2>8. g.live = t.live \cup created /\ g.room = t.room /\ g.free = t.free - n
    BY <2>6, <2>7
  <2>9. g.live = t.live \cup Prefixes(p)
    BY <2>3, <2>8
  <2>10. PICK k, m \in Nat : /\ k = Cardinality(t.live) /\ m = t.free
    BY <2>1
  <2>11. Cardinality(g.live) = k + n /\ g.free = m - n
    BY <2>1, <2>2, <2>8, <2>9, <2>10
  <2>12. Cardinality(g.live) - 1 + g.free = k - 1 + m
    BY <2>2, <2>10, <2>11
  <2> QED
    BY <2>8, <2>9, <2>10, <2>12
<1>7. ASSUME Full(t), Ample
      PROVE  /\ Full(s) /\ s.data[p] = <<d>>
             /\ s.live = t.live \cup Prefixes(p) /\ s.room = t.room \cup {p}
  <2>1. p \in g.live
    BY <1>6, <1>7, PrefixFacts
  <2>2. s.live = g.live /\ s.free = g.free /\ s.data[p] = <<d>> /\ s.room = g.room \cup {p}
    BY <1>5, <2>1
  <2>3. /\ g.live = t.live \cup Prefixes(p) /\ g.room = t.room
        /\ Cardinality(g.live) - 1 + g.free = Cardinality(t.live) - 1 + t.free
    BY <1>6, <1>7
  <2> HIDE DEF g
  <2> QED
    BY <1>7, <2>2, <2>3 DEF Full
<1> HIDE DEF g
<1>8. s.data[p] \in {<<>>, <<d>>} /\ \A q \in Node \ {p} : s.data[q] = t.data[q]
  BY <1>1, <1>4, <1>5
<1> QED
  BY <1>4, <1>7, <1>8

Inserts(s, t, p, a, v) == s = Inserted(t, p, [owner |-> OwnerOf(a), value |-> v])

LEMMA InsertedOwned ==
    ASSUME NEW t, NEW there \in SUBSET Process, TreeInv(t, there),
           NEW a \in there, NEW p \in Node, NEW v \in Value, <<a, p>> \in Publish,
           NEW s, Inserts(s, t, p, a, v)
    PROVE  /\ TreeInv(s, there)
           /\ \A q \in Node \ {p} : s.data[q] = t.data[q]
           /\ \A c : c # a => Values(s, c, p) = Values(t, c, p)
           /\ Spacious(t) /\ Ample => Spacious(s) /\ Values(s, a, p) = {v}
<1> DEFINE d == [owner |-> OwnerOf(a), value |-> v]
<1>1. /\ Linked(t) /\ Typed(t) /\ Owned(t, there)
      /\ s = Inserted(t, p, d)
  BY DEF TreeInv, Inserts
<1>2. d \in Datum
  BY OwnedDatum
<1>3. Linked(s) /\ Typed(s)
  BY <1>1, <1>2, InsertedStep, InsertedTyped
<1>4. /\ \A q \in Node \ {p} : s.data[q] = t.data[q]
      /\ s.data[p] \in {<<>>, <<d>>}
  <2>1. CASE p \in t.live
    BY <1>1, <2>1, SetOwned
  <2>2. CASE p \notin t.live
    BY <1>1, <2>2, GrownOwned
  <2> QED
    BY <2>1, <2>2
<1>5. Owned(s, there)
  <2> SUFFICES ASSUME NEW q \in Node
               PROVE  \/ s.data[q] = <<>>
                      \/ \E b \in there, w \in Value :
                            /\ <<b, q>> \in Publish
                            /\ s.data[q] = <<[owner |-> OwnerOf(b), value |-> w]>>
    BY DEF Owned
  <2>1. CASE q = p
    BY <1>4, <2>1
  <2>2. CASE q # p
    BY <1>1, <1>4, <2>2 DEF Owned
  <2> QED
    BY <2>1, <2>2
<1>6. ASSUME NEW c, c # a PROVE Values(s, c, p) = Values(t, c, p)
  <2>1. Values(s, c, p) = {}
    BY <1>4, <1>6, ValuesFacts
  <2>2. CASE t.data[p] = <<>>
    BY <2>1, <2>2, ValuesFacts
  <2>3. CASE t.data[p] # <<>>
    <3>1. PICK b \in there, w \in Value :
             <<b, p>> \in Publish /\ t.data[p] = <<[owner |-> OwnerOf(b), value |-> w]>>
      BY <1>1, <2>3 DEF Owned
    <3>2. b = a
      BY <3>1, OnePublisherOf
    <3>3. Values(t, c, p) = IF a = c THEN {w} ELSE {}
      BY <3>1, <3>2, ValuesFacts
    <3> QED
      BY <1>6, <2>1, <3>3
  <2> QED
    BY <2>2, <2>3
<1>7. ASSUME Spacious(t), Ample PROVE Spacious(s) /\ Values(s, a, p) = {v}
  <2>1. Full(t) /\ Roomy(t)
    BY <1>7 DEF Spacious
  <2>2. CASE p \in t.live
    <3>1. p \in t.room
      <4>1. <<a, p>>[2] = p
        OBVIOUS
      <4> QED
        BY <2>1, <2>2, <4>1 DEF Roomy
    <3>2. /\ s.live = t.live /\ s.free = t.free /\ s.room = t.room \cup {p}
          /\ s.data[p] = <<d>>
      BY <1>1, <2>2, <3>1, SetOwned
    <3>3. Values(s, a, p) = {v}
      BY <3>2, ValuesFacts
    <3> QED
      BY <2>1, <3>2, <3>3 DEF Spacious, Full, Roomy
  <2>3. CASE p \notin t.live
    <3>1. /\ Full(s) /\ s.data[p] = <<d>>
          /\ s.live = t.live \cup Prefixes(p) /\ s.room = t.room \cup {p}
      BY <1>1, <1>7, <2>1, <2>3, GrownOwned
    <3>2. ASSUME NEW x \in Publish, x[2] \in s.live PROVE x[2] \in s.room
      <4>1. <<a, p>> \in Publish /\ <<a, p>>[2] = p
        OBVIOUS
      <4>2. x[2] \in Prefixes(p) => x[2] = p
        BY <1>7, <4>1 DEF Ample
      <4> QED
        BY <2>1, <3>1, <3>2, <4>2 DEF Roomy
    <3>3. Values(s, a, p) = {v}
      BY <3>1, ValuesFacts
    <3> QED
      BY <3>1, <3>2, <3>3 DEF Spacious, Roomy
  <2> QED
    BY <2>2, <2>3
<1> QED
  BY <1>3, <1>4, <1>5, <1>6, <1>7 DEF TreeInv

\* A removal takes whole lists away.
LEMMA RemovedData ==
    ASSUME NEW t, NEW there \in SUBSET Process, TreeInv(t, there),
           NEW p \in Node, NEW who, NEW s, s = Removed(t, p, who), NEW q \in Node
    PROVE  s.data[q] = IF /\ p \in Prefixes(q) /\ t.data[q] # <<>>
                          /\ t.data[q][1].owner.data1 = who.data1
                       THEN <<>> ELSE t.data[q]
<1>1. Linked(t) /\ Typed(t) /\ Owned(t, there)
  BY DEF TreeInv
<1>2. s.data[q] = IF q \in Subtree(t, p) THEN DataLeft(t.data[q], who) ELSE t.data[q]
  BY <1>1, RemovedTyped
<1>3. CASE t.data[q] = <<>>
  BY <1>2, <1>3, DataLeftOfNone
<1>4. CASE t.data[q] # <<>>
  <2>1. q \in t.live
    BY <1>1, <1>4 DEF Linked, Carried, Bare
  <2>2. q \in Subtree(t, p) <=> p \in Prefixes(q)
    BY <2>1 DEF Subtree
  <2>3. PICK b \in there, w \in Value : t.data[q] = <<[owner |-> OwnerOf(b), value |-> w]>>
    BY <1>1, <1>4 DEF Owned
  <2> DEFINE d == [owner |-> OwnerOf(b), value |-> w]
  <2>4. d \in Datum
    BY OwnedDatum
  <2> HIDE DEF d
  <2>5. t.data[q] = <<d>> /\ t.data[q][1] = d
    BY <2>3 DEF d
  <2>6. DataLeft(<<d>>, who) = IF d.owner.data1 = who.data1 THEN <<>> ELSE <<d>>
    BY <2>4, DataLeftOfOne
  <2> QED
    BY <1>2, <1>4, <2>2, <2>5, <2>6
<1> QED
  BY <1>3, <1>4

LEMMA RemovedSpacious ==
    ASSUME NEW t, Linked(t), Typed(t), Spacious(t),
           NEW p \in Node, p = Root \/ Len(p) = 1,
           NEW who, NEW s, s = Removed(t, p, who)
    PROVE  Spacious(s)
<1>1. t = [live |-> t.live, data |-> t.data, watches |-> t.watches,
           room |-> t.room, free |-> t.free, bumped |-> t.bumped, rv |-> t.rv]
  BY DEF Linked, IsTree
<1>2. CASE p \notin t.live
  <2>1. s = [t EXCEPT !.bumped = {}, !.rv = FALSE]
    BY <1>2 DEF Removed
  <2>2. s.live = t.live /\ s.room = t.room /\ s.free = t.free
    BY <1>1, <2>1
  <2> QED
    BY <2>2 DEF Spacious, Roomy, Full
<1>3. CASE p \in t.live
  <2> DEFINE r == RemoveSubtree(t, p, who)
  <2>1. Linked(r)
    BY RemoveSubtreeStep
  <2>2. PICK gone : /\ gone \subseteq t.live
                    /\ r.live = t.live \ gone /\ r.room = t.room \ gone
                    /\ r.free = t.free + Cardinality(gone)
    BY DEF RemoveSubtree, Subtree
  <2> HIDE DEF r
  <2>3. Ancestors(p) \ {Root} = {}
    <3>1. CASE p = Root
      <4>1. \A q \in Prefixes(Root) : q = Root
        <5>1. Root \in Node /\ Len(Root) = 0
          BY DEF Root, Node
        <5>2. \A q \in Prefixes(Root) : q \in Node /\ Len(q) <= Len(Root)
                                        /\ (Len(q) = Len(Root) => q = Root)
          BY <5>1, PrefixFacts
        <5>3. \A q \in Node : Len(q) \in Nat
          BY PrefixFacts
        <5> QED
          BY <5>1, <5>2, <5>3
      <4> QED
        BY <3>1, <4>1 DEF Ancestors
    <3>2. CASE Len(p) = 1
      <4>1. \A q \in Prefixes(p) : q \in Node /\ Len(q) <= 1 /\ (Len(q) = 1 => q = p)
        BY <3>2, PrefixFacts
      <4>2. \A q \in Node : Len(q) = 0 => q = Root
        BY NodeIsSeq DEF Root
      <4>3. \A q \in Node : Len(q) \in Nat
        BY PrefixFacts
      <4>4. ASSUME NEW q \in Prefixes(p), q # p PROVE q = Root
        <5>1. q \in Node /\ Len(q) <= 1 /\ Len(q) # 1
          BY <4>1, <4>4
        <5>2. Len(q) \in Nat
          BY <4>3, <5>1
        <5>3. PICK n \in Nat : n = Len(q)
          BY <5>2
        <5>4. n = 0
          BY <5>1, <5>3
        <5> QED
          BY <4>2, <5>1, <5>3, <5>4
      <4> QED
        BY <4>4 DEF Ancestors
    <3> QED
      BY <3>1, <3>2
  <2>4. s.live = r.live /\ s.room = r.room /\ s.free = r.free
    <3>1. s = r \/ s = Climb(r, p)
      BY <1>3 DEF Removed, r
    <3>2. CASE s = Climb(r, p)
      <4>1. {a \in Ancestors(p) \ {Root} :
                \A q \in Subtree(r, a) : q \in Ancestors(p) /\ Bare(r, q)} = {}
        BY <2>3
      <4>2. s = [r EXCEPT !.live = @ \ {}, !.room = @ \ {}, !.bumped = @ \cup Ancestors(p)]
        BY <3>2, <4>1 DEF Climb
      <4>3. r = [live |-> r.live, data |-> r.data, watches |-> r.watches,
                 room |-> r.room, free |-> r.free, bumped |-> r.bumped, rv |-> r.rv]
        BY <2>1 DEF Linked, IsTree
      <4> QED
        BY <4>2, <4>3
    <3> QED
      BY <3>1, <3>2
  <2>5. Roomy(s)
    BY <2>2, <2>4 DEF Spacious, Roomy
  <2>6. Full(s)
    <3>1. IsFiniteSet(t.live) /\ IsFiniteSet(gone)
      BY <2>2, FS_Subset DEF Linked, Within
    <3>2. t.live \cap gone = gone
      BY <2>2
    <3>3. Cardinality(r.live) = Cardinality(t.live) - Cardinality(gone)
      <4>1. Cardinality(t.live \ gone) = Cardinality(t.live) - Cardinality(t.live \cap gone)
        BY <3>1, FS_Difference
      <4> QED
        BY <2>2, <3>2, <4>1
    <3>4. PICK k, n, m \in Nat : k = Cardinality(t.live) /\ n = Cardinality(gone) /\ m = t.free
      BY <3>1, FS_CardinalityType DEF Linked, IsTree
    <3>5. k - 1 + m >= MaxEntries
      BY <3>4 DEF Spacious, Full
    <3>6. Cardinality(s.live) = k - n /\ s.free = m + n
      BY <2>2, <2>4, <3>3, <3>4
    <3>7. k - n - 1 + (m + n) >= MaxEntries
      <4>1. MaxEntries \in Nat
        BY TreeAssumption
      <4>2. k - n - 1 + (m + n) = k - 1 + m
        OBVIOUS
      <4> QED
        BY <3>5, <4>1, <4>2
    <3> QED
      BY <3>6, <3>7 DEF Full
  <2> QED
    BY <2>5, <2>6 DEF Spacious
<1> QED
  BY <1>2, <1>3

Removes(s, t, p, who) == s = Removed(t, p, who)

Withdrawn(s, t, there, p, a) ==
    /\ TreeInv(s, there)
    /\ p = Root => TreeInv(s, there \ {a})
    /\ \A q \in Node :
          /\ \A c : c # a => Values(s, c, q) = Values(t, c, q)
          /\ Values(s, a, q) = IF p \in Prefixes(q) THEN {} ELSE Values(t, a, q)
    /\ Spacious(t) /\ (p = Root \/ Len(p) = 1) => Spacious(s)

LEMMA RemovedOwned ==
    ASSUME NEW t, NEW there \in SUBSET Process, TreeInv(t, there),
           NEW p \in Node, NEW who, NEW s, Removes(s, t, p, who)
    PROVE  Withdrawn(s, t, there, p, who.data1)
<1>1. Linked(t) /\ Typed(t) /\ Owned(t, there)
  BY DEF TreeInv
<1>2. Linked(s) /\ Typed(s)
  BY <1>1, RemovedStep, RemovedTyped DEF Removes
<1>3. \A q \in Node :
         s.data[q] = IF /\ p \in Prefixes(q) /\ t.data[q] # <<>>
                        /\ t.data[q][1].owner.data1 = who.data1
                     THEN <<>> ELSE t.data[q]
  BY RemovedData DEF Removes
<1>4. \A b : OwnerOf(b).data1 = b
  BY DEF OwnerOf
<1>5. Owned(s, there)
  BY <1>1, <1>3 DEF Owned
<1>6. ASSUME p = Root PROVE Owned(s, there \ {who.data1})
  <2> SUFFICES ASSUME NEW q \in Node, s.data[q] # <<>>
               PROVE  \E a \in there \ {who.data1}, v \in Value :
                         /\ <<a, q>> \in Publish
                         /\ s.data[q] = <<[owner |-> OwnerOf(a), value |-> v]>>
    BY DEF Owned
  <2>1. PICK a \in there, v \in Value :
           /\ <<a, q>> \in Publish
           /\ s.data[q] = <<[owner |-> OwnerOf(a), value |-> v]>>
    BY <1>5 DEF Owned
  <2>2. p \in Prefixes(q)
    BY <1>6, PrefixFacts
  <2>3. t.data[q][1].owner.data1 # who.data1 /\ s.data[q] = t.data[q]
    BY <1>3, <2>2
  <2>4. a # who.data1
    BY <1>4, <2>1, <2>3
  <2> QED
    BY <2>1, <2>4
<1>7. ASSUME NEW q \in Node, NEW c
      PROVE  /\ c # who.data1 => Values(s, c, q) = Values(t, c, q)
             /\ c = who.data1 => Values(s, c, q) = IF p \in Prefixes(q) THEN {}
                                                   ELSE Values(t, c, q)
  <2>1. CASE t.data[q] = <<>>
    <3>1. s.data[q] = <<>>
      BY <1>3, <2>1
    <3>2. Values(s, c, q) = {} /\ Values(t, c, q) = {}
      BY <2>1, <3>1, ValuesFacts
    <3> QED
      BY <3>2
  <2>2. CASE t.data[q] # <<>>
    <3>1. PICK b \in there, w \in Value : t.data[q] = <<[owner |-> OwnerOf(b), value |-> w]>>
      BY <1>1, <2>2 DEF Owned
    <3>2. t.data[q][1].owner.data1 = b
      BY <1>4, <3>1
    <3>3. Values(t, c, q) = IF b = c THEN {w} ELSE {}
      BY <3>1, ValuesFacts
    <3>4. CASE p \in Prefixes(q) /\ b = who.data1
      <4>1. s.data[q] = <<>>
        BY <1>3, <2>2, <3>2, <3>4
      <4>2. Values(s, c, q) = {}
        BY <4>1, ValuesFacts
      <4> QED
        BY <3>3, <3>4, <4>2
    <3>5. CASE ~(p \in Prefixes(q) /\ b = who.data1)
      <4>1. s.data[q] = t.data[q]
        BY <1>3, <3>2, <3>5
      <4>2. Values(s, c, q) = Values(t, c, q)
        BY <4>1, ValuesSame
      <4> QED
        BY <3>3, <3>5, <4>2
    <3> QED
      BY <3>4, <3>5
  <2> QED
    BY <2>1, <2>2
<1>8. Spacious(t) /\ (p = Root \/ Len(p) = 1) => Spacious(s)
  BY <1>1, RemovedSpacious DEF Removes
<1> QED
  BY <1>2, <1>5, <1>6, <1>7, <1>8 DEF TreeInv, Withdrawn

\* A call that does nothing, and what follows every call, change the report only.
Quieted(s, t) == s = [t EXCEPT !.bumped = {}, !.rv = FALSE]

LEMMA ReportedTree ==
    ASSUME NEW t, NEW there, TreeInv(t, there), NEW s, Quieted(s, t)
    PROVE  /\ TreeInv(s, there)
           /\ \A c, q : Values(s, c, q) = Values(t, c, q)
           /\ Spacious(t) => Spacious(s)
<1>1. Linked(t) /\ Typed(t) /\ IsTree(t)
  BY DEF TreeInv, Linked
<1>2. Linked(s)
  BY <1>1, ReportStep DEF Quieted
<1>3. Typed(s) /\ s.data = t.data
  BY <1>1, ReportTyped DEF Quieted
<1>4. s.live = t.live /\ s.room = t.room /\ s.free = t.free
  BY <1>1 DEF IsTree, Quieted
<1>5. Owned(s, there)
  BY <1>3 DEF TreeInv, Owned
<1> QED
  BY <1>2, <1>3, <1>4, <1>5 DEF TreeInv, Values, Spacious, Roomy, Full

LEMMA StoredTree ==
    ASSUME NEW t, NEW there, TreeInv(t, there), Store(t)
    PROVE  /\ TreeInv(tree', there)
           /\ \A c, q : Values(tree', c, q) = Values(t, c, q)
           /\ Spacious(t) => Spacious(tree')
<1>1. Quieted(tree', t)
  BY DEF Store, Quieted
<1> QED
  BY <1>1, ReportedTree

-----------------------------------------------------------------------------
(* What becomes of the queues and the counters of one client.              *)

\* One more request is collected.
LEMMA PostQueued ==
    ASSUME NEW c, NEW ops, NEW packs, NEW rest, QueuedAs(c, ops, packs, rest),
           NEW r, Asked(c, r)
    PROVE  QueuedAs(c, Append(ops, r), packs, rest) /\ Append(ops, r) # <<>>
<1>1. IsQueue(ops) /\ AskedAll(c, ops)
  BY DEF QueuedAs
<1>2. /\ IsQueue(Append(ops, r)) /\ DOMAIN Append(ops, r) = 1 .. Len(ops) + 1
      /\ DOMAIN ops = 1 .. Len(ops) /\ Len(ops) \in Nat
      /\ Append(ops, r)[Len(ops) + 1] = r
      /\ \A i \in 1 .. Len(ops) : Append(ops, r)[i] = ops[i]
  BY <1>1, QueueFacts
<1>3. AskedAll(c, Append(ops, r))
  <2> SUFFICES ASSUME NEW i \in DOMAIN Append(ops, r) PROVE Asked(c, Append(ops, r)[i])
    BY DEF AskedAll
  <2>1. i = Len(ops) + 1 \/ i \in 1 .. Len(ops)
    BY <1>2
  <2> QED
    BY <1>1, <1>2, <2>1 DEF AskedAll
<1>4. Len(ops) + 1 \in DOMAIN Append(ops, r)
  BY <1>2
<1>5. Append(ops, r) # <<>>
  BY <1>4, EmptyQueue
<1> QED
  BY <1>2, <1>3, <1>5 DEF QueuedAs

LEMMA PostNumbered ==
    ASSUME NEW sent, NEW recv, NEW acks, NEW packs, NEW ops, NEW current,
           NumberedAs(sent, recv, acks, packs, ops, current),
           NEW more, NEW next, next = IF ops = <<>> THEN sent + 1 ELSE sent
    PROVE  NumberedAs(next, recv, acks, packs, more, current)
<1>1. /\ sent \in Nat /\ recv \in 0 .. sent /\ acks \in Seq(0 .. sent)
      /\ next \in Nat /\ sent <= next
  BY DEF NumberedAs
<1>2. recv \in 0 .. next
  BY <1>1
<1>3. acks \in Seq(0 .. next)
  <2>1. \A i \in 0 .. sent : i \in 0 .. next
    BY <1>1
  <2> QED
    BY <1>1, <2>1
<1>4. recv < next /\ \A k \in DOMAIN acks : acks[k] < next
  <2>1. CASE ops = <<>>
    <3>1. next = sent + 1 /\ \A k \in DOMAIN acks : acks[k] \in 0 .. sent
      BY <1>1, <2>1
    <3> QED
      BY <1>1, <3>1
  <2>2. CASE ops # <<>>
    BY <2>2 DEF NumberedAs
  <2> QED
    BY <2>1, <2>2
<1>5. ASSUME NEW n \in 0 .. sent, ops # <<>> => n < sent
      PROVE  n \in 0 .. next /\ n < next
  BY <1>1, <1>5
<1>6. ASSUME NEW i \in DOMAIN packs
      PROVE  /\ packs[i].id \in 0 .. next
             /\ Later(packs[i], recv, acks)
             /\ \A j \in DOMAIN packs : i < j => packs[i].id < packs[j].id
             /\ \A u \in current : u.id < packs[i].id
             /\ packs[i].id < next
  <2>1. packs[i].id \in 0 .. sent /\ (ops # <<>> => packs[i].id < sent)
    BY <1>6 DEF NumberedAs
  <2>2. packs[i].id \in 0 .. next /\ packs[i].id < next
    BY <1>5, <2>1
  <2> QED
    BY <2>2 DEF NumberedAs
<1>7. ASSUME NEW u \in current
      PROVE  u.id \in 0 .. next /\ Later(u, recv, acks) /\ u.id < next
  <2>1. u.id \in 0 .. sent /\ (ops # <<>> => u.id < sent)
    BY <1>7 DEF NumberedAs
  <2>2. u.id \in 0 .. next /\ u.id < next
    BY <1>5, <2>1
  <2> QED
    BY <2>2 DEF NumberedAs
<1> QED
  BY <1>1, <1>2, <1>3, <1>4, <1>6, <1>7 DEF NumberedAs

\* The collected requests are sent.
LEMMA SentQueued ==
    ASSUME NEW c, NEW ops, NEW packs, NEW rest, QueuedAs(c, ops, packs, rest),
           NEW pack, pack.ops = ops
    PROVE  QueuedAs(c, <<>>, Append(packs, pack), rest)
<1> DEFINE s == Append(packs, pack)
<1>1. IsQueue(packs) /\ IsQueue(ops) /\ AskedAll(c, ops)
  BY DEF QueuedAs
<1>2. /\ IsQueue(s) /\ DOMAIN s = 1 .. Len(packs) + 1
      /\ DOMAIN packs = 1 .. Len(packs) /\ Len(packs) \in Nat
      /\ s[Len(packs) + 1] = pack
      /\ \A i \in 1 .. Len(packs) : s[i] = packs[i]
  BY <1>1, QueueFacts
<1> HIDE DEF s
<1>3. ASSUME NEW i \in DOMAIN s PROVE IsQueue(s[i].ops) /\ AskedAll(c, s[i].ops)
  <2>1. i = Len(packs) + 1 \/ i \in 1 .. Len(packs)
    BY <1>2
  <2>2. CASE i = Len(packs) + 1
    BY <1>1, <1>2, <2>2
  <2>3. CASE i \in 1 .. Len(packs)
    BY <1>2, <2>3 DEF QueuedAs
  <2> QED
    BY <2>1, <2>2, <2>3
<1>4. IsQueue(<<>>) /\ AskedAll(c, <<>>)
  BY EmptyQueue DEF AskedAll
<1> QED
  BY <1>2, <1>3, <1>4 DEF QueuedAs, s

LEMMA SentNumbered ==
    ASSUME NEW sent, NEW recv, NEW acks, NEW packs, NEW ops, NEW current,
           NumberedAs(sent, recv, acks, packs, ops, current), IsQueue(packs), ops # <<>>,
           NEW pack, pack.id = sent
    PROVE  NumberedAs(sent, recv, acks, Append(packs, pack), <<>>, current)
<1> DEFINE s == Append(packs, pack)
<1>1. /\ DOMAIN s = 1 .. Len(packs) + 1
      /\ DOMAIN packs = 1 .. Len(packs) /\ Len(packs) \in Nat
      /\ s[Len(packs) + 1] = pack
      /\ \A i \in 1 .. Len(packs) : s[i] = packs[i]
  BY QueueFacts
<1> HIDE DEF s
<1>2. \A i \in DOMAIN s : i = Len(packs) + 1 \/ (i \in DOMAIN packs /\ i < Len(packs) + 1)
  BY <1>1
<1>3. sent \in Nat /\ recv < sent /\ \A k \in DOMAIN acks : acks[k] < sent
  BY DEF NumberedAs
<1>4. Later(pack, recv, acks)
  BY <1>3 DEF Later, NumberedAs
<1>5. ASSUME NEW i \in DOMAIN s
      PROVE  /\ s[i].id \in 0 .. sent
             /\ Later(s[i], recv, acks)
             /\ \A j \in DOMAIN s : i < j => s[i].id < s[j].id
             /\ \A u \in current : u.id < s[i].id
  <2>1. CASE i = Len(packs) + 1
    <3>1. s[i] = pack /\ s[i].id = sent
      BY <1>1, <2>1
    <3>2. \A j \in DOMAIN s : ~(i < j)
      BY <1>1, <2>1
    <3>3. \A u \in current : u.id < sent
      BY DEF NumberedAs
    <3> QED
      BY <1>3, <1>4, <3>1, <3>2, <3>3
  <2>2. CASE i \in DOMAIN packs
    <3>1. s[i] = packs[i]
      BY <1>1, <2>2
    <3>2. /\ packs[i].id \in 0 .. sent /\ Later(packs[i], recv, acks)
          /\ \A u \in current : u.id < packs[i].id
          /\ packs[i].id < sent
      BY <2>2 DEF NumberedAs
    <3>3. ASSUME NEW j \in DOMAIN s, i < j PROVE packs[i].id < s[j].id
      <4>1. CASE j = Len(packs) + 1
        BY <1>1, <3>2, <4>1
      <4>2. CASE j \in DOMAIN packs
        <5>1. s[j] = packs[j]
          BY <1>1, <4>2
        <5> QED
          BY <2>2, <3>3, <4>2, <5>1 DEF NumberedAs
      <4> QED
        BY <1>2, <4>1, <4>2
    <3> QED
      BY <3>1, <3>2, <3>3
  <2> QED
    BY <1>2, <2>1, <2>2
<1>6. ASSUME NEW u \in current PROVE u.id \in 0 .. sent /\ Later(u, recv, acks)
  BY DEF NumberedAs
<1>7. sent \in Nat /\ recv \in 0 .. sent /\ acks \in Seq(0 .. sent)
  BY DEF NumberedAs
<1> QED
  BY <1>5, <1>6, <1>7 DEF NumberedAs, s

\* The server takes the first packet.
LEMMA TakenQueued ==
    ASSUME NEW c, NEW ops, NEW packs, NEW rest, QueuedAs(c, ops, packs, rest),
           packs # <<>>
    PROVE  QueuedAs(c, ops, Tail(packs), Head(packs).ops)
<1>1. /\ Head(packs) = packs[1] /\ 1 \in DOMAIN packs
      /\ IsQueue(Tail(packs)) /\ DOMAIN Tail(packs) = 1 .. Len(packs) - 1
      /\ Len(packs) \in Nat /\ DOMAIN packs = 1 .. Len(packs)
      /\ \A i \in 1 .. Len(packs) - 1 : Tail(packs)[i] = packs[i + 1]
  BY QueueFacts DEF QueuedAs
<1>2. ASSUME NEW i \in DOMAIN Tail(packs)
      PROVE  IsQueue(Tail(packs)[i].ops) /\ AskedAll(c, Tail(packs)[i].ops)
  <2>1. Tail(packs)[i] = packs[i + 1] /\ i + 1 \in DOMAIN packs
    BY <1>1
  <2> QED
    BY <2>1 DEF QueuedAs
<1>3. IsQueue(Head(packs).ops) /\ AskedAll(c, Head(packs).ops)
  BY <1>1 DEF QueuedAs
<1> QED
  BY <1>1, <1>2, <1>3 DEF QueuedAs

LEMMA TakenNumbered ==
    ASSUME NEW sent, NEW recv, NEW acks, NEW packs, NEW ops, NEW none,
           NumberedAs(sent, recv, acks, packs, ops, none), IsQueue(packs), packs # <<>>,
           NEW u, u.id = Head(packs).id, u.ops = Head(packs).ops
    PROVE  NumberedAs(sent, recv, acks, Tail(packs), ops, {u})
<1> DEFINE s == Tail(packs)
<1>1. /\ Head(packs) = packs[1] /\ 1 \in DOMAIN packs
      /\ DOMAIN s = 1 .. Len(packs) - 1
      /\ Len(packs) \in Nat /\ DOMAIN packs = 1 .. Len(packs)
      /\ \A i \in 1 .. Len(packs) - 1 : s[i] = packs[i + 1]
  BY QueueFacts
<1> HIDE DEF s
<1>2. ASSUME NEW i \in DOMAIN s
      PROVE  s[i] = packs[i + 1] /\ i + 1 \in DOMAIN packs /\ 1 < i + 1 /\ i \in Nat
  BY <1>1
<1>3. ASSUME NEW i \in DOMAIN s
      PROVE  /\ s[i].id \in 0 .. sent
             /\ Later(s[i], recv, acks)
             /\ \A j \in DOMAIN s : i < j => s[i].id < s[j].id
             /\ u.id < s[i].id
             /\ ops # <<>> => s[i].id < sent
  <2>1. s[i] = packs[i + 1] /\ i + 1 \in DOMAIN packs /\ 1 < i + 1 /\ i \in Nat
    BY <1>2
  <2>2. ASSUME NEW j \in DOMAIN s, i < j PROVE s[i].id < s[j].id
    <3>1. s[j] = packs[j + 1] /\ j + 1 \in DOMAIN packs /\ i + 1 < j + 1
      BY <1>2, <2>1, <2>2
    <3> QED
      BY <2>1, <3>1 DEF NumberedAs
  <2>3. u.id < packs[i + 1].id
    BY <1>1, <2>1 DEF NumberedAs
  <2>4. /\ packs[i + 1].id \in 0 .. sent /\ Later(packs[i + 1], recv, acks)
        /\ ops # <<>> => packs[i + 1].id < sent
    BY <2>1 DEF NumberedAs
  <2> QED
    BY <2>1, <2>2, <2>3, <2>4
<1>4. u.id \in 0 .. sent /\ Later(u, recv, acks) /\ (ops # <<>> => u.id < sent)
  <2>1. /\ packs[1].id \in 0 .. sent /\ Later(packs[1], recv, acks)
        /\ ops # <<>> => packs[1].id < sent
    BY <1>1 DEF NumberedAs
  <2> QED
    BY <1>1, <2>1 DEF Later
<1>5. /\ sent \in Nat /\ recv \in 0 .. sent /\ acks \in Seq(0 .. sent)
      /\ ops # <<>> => recv < sent /\ \A k \in DOMAIN acks : acks[k] < sent
  BY DEF NumberedAs
<1> QED
  BY <1>3, <1>4, <1>5 DEF NumberedAs, s

\* The server has carried out the first request that is left.
LEMMA HandledQueued ==
    ASSUME NEW c, NEW ops, NEW packs, NEW rest, QueuedAs(c, ops, packs, rest),
           rest # <<>>
    PROVE  QueuedAs(c, ops, packs, Tail(rest)) /\ Asked(c, Head(rest))
<1>1. /\ Head(rest) = rest[1] /\ 1 \in DOMAIN rest
      /\ IsQueue(Tail(rest)) /\ DOMAIN Tail(rest) = 1 .. Len(rest) - 1
      /\ Len(rest) \in Nat /\ DOMAIN rest = 1 .. Len(rest)
      /\ \A i \in 1 .. Len(rest) - 1 : Tail(rest)[i] = rest[i + 1]
  BY QueueFacts DEF QueuedAs
<1>2. ASSUME NEW i \in DOMAIN Tail(rest) PROVE Asked(c, Tail(rest)[i])
  <2>1. Tail(rest)[i] = rest[i + 1] /\ i + 1 \in DOMAIN rest
    BY <1>1
  <2> QED
    BY <2>1 DEF QueuedAs, AskedAll
<1>3. Asked(c, Head(rest))
  BY <1>1 DEF QueuedAs, AskedAll
<1> QED
  BY <1>1, <1>2, <1>3 DEF QueuedAs, AskedAll

LEMMA HandledNumbered ==
    ASSUME NEW sent, NEW recv, NEW acks, NEW packs, NEW ops, NEW u,
           NumberedAs(sent, recv, acks, packs, ops, {u}),
           IsQueue(u.ops), u.ops # <<>>,
           NEW w, w.id = u.id, w.ops = Tail(u.ops)
    PROVE  NumberedAs(sent, recv, acks, packs, ops, {w})
<1>1. Plain(u.ops) => Plain(w.ops)
  <2> SUFFICES ASSUME Plain(u.ops), NEW i \in DOMAIN w.ops
               PROVE  w.ops[i].op \notin {"ADD", "REM"}
    BY DEF Plain
  <2>1. w.ops[i] = u.ops[i + 1] /\ i + 1 \in DOMAIN u.ops
    BY QueueFacts
  <2> QED
    BY <2>1 DEF Plain
<1>2. Later(w, recv, acks)
  BY <1>1 DEF Later, NumberedAs
<1>3. w.id \in 0 .. sent /\ (ops # <<>> => w.id < sent)
  BY DEF NumberedAs
<1>4. \A i \in DOMAIN packs : w.id < packs[i].id
  BY DEF NumberedAs
<1>5. /\ sent \in Nat /\ recv \in 0 .. sent /\ acks \in Seq(0 .. sent)
      /\ ops # <<>> => recv < sent /\ \A k \in DOMAIN acks : acks[k] < sent
      /\ \A i \in DOMAIN packs :
            /\ packs[i].id \in 0 .. sent
            /\ Later(packs[i], recv, acks)
            /\ \A j \in DOMAIN packs : i < j => packs[i].id < packs[j].id
            /\ ops # <<>> => packs[i].id < sent
  BY DEF NumberedAs
<1> QED
  BY <1>2, <1>3, <1>4, <1>5 DEF NumberedAs

\* A SYNC is sent: the packet is acknowledged, or (id 0) a change is announced.
LEMMA AckedNumbered ==
    ASSUME NEW sent, NEW recv, NEW acks, NEW packs, NEW ops, NEW current,
           NumberedAs(sent, recv, acks, packs, ops, current),
           NEW id, id = 0 \/ \E u \in current : id = u.id,
           NEW left, left = {} \/ (id = 0 /\ left = current)
    PROVE  NumberedAs(sent, recv, Append(acks, id), packs, ops, left)
<1>1. /\ sent \in Nat /\ recv \in 0 .. sent /\ acks \in Seq(0 .. sent)
      /\ ops # <<>> => recv < sent /\ \A k \in DOMAIN acks : acks[k] < sent
  BY DEF NumberedAs
<1>2. id \in 0 .. sent /\ (ops # <<>> => id < sent)
  BY <1>1 DEF NumberedAs
<1>3. /\ Append(acks, id) \in Seq(0 .. sent)
      /\ DOMAIN Append(acks, id) = 1 .. Len(acks) + 1
      /\ Append(acks, id)[Len(acks) + 1] = id
      /\ DOMAIN acks = 1 .. Len(acks) /\ Len(acks) \in Nat
      /\ \A k \in 1 .. Len(acks) : Append(acks, id)[k] = acks[k]
  BY <1>1, <1>2
<1> DEFINE s == Append(acks, id)
<1> HIDE DEF s
<1>4. \A k \in DOMAIN s : s[k] = id \/ (k \in DOMAIN acks /\ s[k] = acks[k])
  BY <1>3 DEF s
<1>5. ASSUME NEW v, v.id \in 0 .. sent, Later(v, recv, acks), id = 0 \/ id < v.id
      PROVE  Later(v, recv, s)
  <2>1. CASE v.id = 0 /\ Plain(v.ops)
    BY <2>1 DEF Later
  <2>2. CASE v.id > recv /\ \A k \in DOMAIN acks : acks[k] < v.id
    <3>1. id < v.id
      BY <1>1, <1>5, <2>2
    <3> QED
      BY <1>4, <2>2, <3>1 DEF Later
  <2> QED
    BY <1>5, <2>1, <2>2 DEF Later
<1>6. ops # <<>> => recv < sent /\ \A k \in DOMAIN s : s[k] < sent
  BY <1>1, <1>2, <1>4
<1>7. ASSUME NEW i \in DOMAIN packs PROVE Later(packs[i], recv, s)
  BY <1>5 DEF NumberedAs
<1>8. ASSUME NEW u \in left
      PROVE  /\ u.id \in 0 .. sent /\ Later(u, recv, s)
             /\ ops # <<>> => u.id < sent
             /\ \A i \in DOMAIN packs : u.id < packs[i].id
  <2>1. id = 0 /\ u \in current
    BY <1>8
  <2> QED
    BY <1>5, <2>1 DEF NumberedAs
<1>9. \A i \in DOMAIN packs :
         /\ packs[i].id \in 0 .. sent
         /\ \A j \in DOMAIN packs : i < j => packs[i].id < packs[j].id
         /\ ops # <<>> => packs[i].id < sent
  BY DEF NumberedAs
<1>10. s \in Seq(0 .. sent)
  BY <1>3 DEF s
<1> QED
  BY <1>1, <1>6, <1>7, <1>8, <1>9, <1>10 DEF NumberedAs, s

\* A SYNC is received.
LEMMA ReceivedNumbered ==
    ASSUME NEW sent, NEW recv, NEW acks, NEW packs, NEW ops, NEW current,
           NumberedAs(sent, recv, acks, packs, ops, current), acks # <<>>,
           NEW next, next = IF Head(acks) # 0 THEN Head(acks) ELSE recv
    PROVE  NumberedAs(sent, next, Tail(acks), packs, ops, current)
<1>1. /\ sent \in Nat /\ recv \in 0 .. sent /\ acks \in Seq(0 .. sent)
      /\ ops # <<>> => recv < sent /\ \A k \in DOMAIN acks : acks[k] < sent
  BY DEF NumberedAs
<1>2. /\ 1 \in DOMAIN acks /\ Head(acks) = acks[1] /\ acks[1] \in 0 .. sent
      /\ Tail(acks) \in Seq(0 .. sent)
      /\ \A k \in DOMAIN Tail(acks) : k + 1 \in DOMAIN acks /\ Tail(acks)[k] = acks[k + 1]
  BY <1>1
<1>3. next \in 0 .. sent /\ (ops # <<>> => next < sent)
  BY <1>1, <1>2
<1> DEFINE s == Tail(acks)
<1> HIDE DEF s
<1>4. ASSUME NEW v, Later(v, recv, acks) PROVE Later(v, next, s)
  <2>1. CASE v.id = 0 /\ Plain(v.ops)
    BY <2>1 DEF Later
  <2>2. CASE v.id > recv /\ \A k \in DOMAIN acks : acks[k] < v.id
    <3>1. v.id > next
      BY <1>2, <2>2
    <3>2. \A k \in DOMAIN s : s[k] < v.id
      BY <1>2, <2>2 DEF s
    <3> QED
      BY <3>1, <3>2 DEF Later
  <2> QED
    BY <1>4, <2>1, <2>2 DEF Later
<1>5. ops # <<>> => next < sent /\ \A k \in DOMAIN s : s[k] < sent
  BY <1>1, <1>2, <1>3 DEF s
<1>6. \A i \in DOMAIN packs :
         /\ packs[i].id \in 0 .. sent
         /\ Later(packs[i], next, s)
         /\ \A j \in DOMAIN packs : i < j => packs[i].id < packs[j].id
         /\ \A u \in current : u.id < packs[i].id
         /\ ops # <<>> => packs[i].id < sent
  BY <1>4 DEF NumberedAs
<1>7. \A u \in current : /\ u.id \in 0 .. sent /\ Later(u, next, s)
                         /\ ops # <<>> => u.id < sent
  BY <1>4 DEF NumberedAs
<1>8. s \in Seq(0 .. sent)
  BY <1>2 DEF s
<1> QED
  BY <1>1, <1>3, <1>5, <1>6, <1>7, <1>8 DEF NumberedAs, s

\* No requests.
LEMMA NoneIn == \A p, V : Untouched(<<>>, p) /\ ~LastIn(<<>>, p, V)
  BY EmptyQueue DEF Untouched, LastIn

LEMMA PostUnderway ==
    ASSUME NEW p, NEW ops, NEW packs, NEW rest, NEW now, NEW after,
           IsQueue(ops), UnderwayAs(p, ops, packs, rest, now, after),
           NEW r, NEW next, next = IF Touches(r, p) THEN r.value ELSE after
    PROVE  UnderwayAs(p, Append(ops, r), packs, rest, now, next)
<1>1. /\ Touches(r, p) => LastIn(Append(ops, r), p, r.value)
      /\ ~Touches(r, p) =>
            /\ Untouched(ops, p) => Untouched(Append(ops, r), p)
            /\ \A V : LastIn(ops, p, V) => LastIn(Append(ops, r), p, V)
  BY LastInAppend
<1>2. CASE Touches(r, p)
  BY <1>1, <1>2 DEF UnderwayAs
<1>3. CASE ~Touches(r, p)
  BY <1>1, <1>3 DEF UnderwayAs
<1> QED
  BY <1>2, <1>3

LEMMA SentUnderway ==
    ASSUME NEW p, NEW ops, NEW packs, NEW rest, NEW now, NEW after,
           IsQueue(packs), UnderwayAs(p, ops, packs, rest, now, after),
           NEW pack, pack.ops = ops
    PROVE  UnderwayAs(p, <<>>, Append(packs, pack), rest, now, after)
<1>1. /\ LastIn(ops, p, after) => LastPacked(Append(packs, pack), p, after)
      /\ Untouched(ops, p) =>
            /\ AllUntouched(packs, p) => AllUntouched(Append(packs, pack), p)
            /\ LastPacked(packs, p, after) => LastPacked(Append(packs, pack), p, after)
  BY PacketsAppend
<1> QED
  BY <1>1, NoneIn DEF UnderwayAs

LEMMA TakenUnderway ==
    ASSUME NEW p, NEW ops, NEW packs, NEW now, NEW after,
           IsQueue(packs), packs # <<>>, UnderwayAs(p, ops, packs, <<>>, now, after)
    PROVE  UnderwayAs(p, ops, Tail(packs), Head(packs).ops, now, after)
<1>1. /\ AllUntouched(packs, p) =>
            Untouched(Head(packs).ops, p) /\ AllUntouched(Tail(packs), p)
      /\ LastPacked(packs, p, after) =>
            \/ LastPacked(Tail(packs), p, after)
            \/ LastIn(Head(packs).ops, p, after) /\ AllUntouched(Tail(packs), p)
  BY PacketsTail
<1> QED
  BY <1>1, NoneIn DEF UnderwayAs

LEMMA HandledUnderway ==
    ASSUME NEW p, NEW ops, NEW packs, NEW rest, NEW now, NEW after,
           IsQueue(rest), rest # <<>>, UnderwayAs(p, ops, packs, rest, now, after),
           NEW next,
           next = IF Touches(Head(rest), p) THEN Head(rest).value ELSE now
    PROVE  UnderwayAs(p, ops, packs, Tail(rest), next, after)
<1>1. /\ Untouched(rest, p) => ~Touches(Head(rest), p) /\ Untouched(Tail(rest), p)
      /\ LastIn(rest, p, after) =>
            \/ LastIn(Tail(rest), p, after)
            \/ /\ Touches(Head(rest), p) /\ Head(rest).value = after
               /\ Untouched(Tail(rest), p)
  BY LastInTail
<1> QED
  BY <1>1 DEF UnderwayAs

\* If everything is acknowledged nothing that matters is under way.
LEMMA AckedStored ==
    ASSUME NEW recv, NEW acks, NEW packs, NEW ops, NEW rest, NEW current,
           NumberedAs(recv, recv, acks, packs, ops, current),
           rest # <<>> => \E u \in current : u.ops = rest,
           NEW p, NEW now, NEW after, UnderwayAs(p, ops, packs, rest, now, after)
    PROVE  now = after
<1>1. recv \in Nat /\ ops = <<>>
  BY DEF NumberedAs
<1>2. ASSUME NEW u, u.id \in 0 .. recv, Later(u, recv, acks) PROVE Plain(u.ops)
  BY <1>1, <1>2 DEF Later
<1>3. \A i \in DOMAIN packs : Plain(packs[i].ops)
  BY <1>2 DEF NumberedAs
<1>4. rest = <<>> \/ Plain(rest)
  BY <1>2 DEF NumberedAs
<1>5. ASSUME NEW s, Plain(s) PROVE Untouched(s, p) /\ ~LastIn(s, p, after)
  BY <1>5 DEF Plain, Untouched, LastIn, Touches
<1>6. ~LastPacked(packs, p, after)
  BY <1>3, <1>5 DEF LastPacked
<1>7. ~LastIn(rest, p, after) /\ ~LastIn(ops, p, after)
  BY <1>1, <1>4, <1>5, NoneIn
<1> QED
  BY <1>6, <1>7 DEF UnderwayAs

-----------------------------------------------------------------------------
(* The steps.                                                              *)

LEMMA SameClient ==
    ASSUME NEW c,
           todo'[c] = todo[c], toServer'[c] = toServer[c], toClient'[c] = toClient[c],
           lastSentId'[c] = lastSentId[c], lastRecvId'[c] = lastRecvId[c],
           Rest(c)' = Rest(c), Current(c)' = Current(c)
    PROVE  /\ Queued(c) => Queued(c)'
           /\ Numbered(c) => Numbered(c)'
           /\ \A p : /\ Underway(c, p)
                     /\ Values(tree', c, p) = Values(tree, c, p)
                     /\ want'[c][p] = want[c][p]
                     => Underway(c, p)'
<1>1. ASSUME Queued(c) PROVE Queued(c)'
  BY <1>1 DEF Queued
<1>2. ASSUME Numbered(c) PROVE Numbered(c)'
  BY <1>2 DEF Numbered
<1>3. ASSUME NEW p, Underway(c, p), Values(tree', c, p) = Values(tree, c, p),
             want'[c][p] = want[c][p]
      PROVE  Underway(c, p)'
  BY <1>3 DEF Underway
<1> QED
  BY <1>1, <1>2, <1>3

watched == <<tree, connections, work, toServer, toClient, todo, lastSentId,
             lastRecvId, want>>

LEMMA StutterStep ==
    ASSUME UNCHANGED watched
    PROVE  (LInv => LInv') /\ (AckInv => AckInv')
<1>1. /\ tree' = tree /\ connections' = connections /\ work' = work
      /\ toServer' = toServer /\ toClient' = toClient /\ todo' = todo
      /\ lastSentId' = lastSentId /\ lastRecvId' = lastRecvId /\ want' = want
  BY DEF watched
<1>2. ASSUME NEW c
      PROVE  /\ Queued(c) => Queued(c)'
             /\ Numbered(c) => Numbered(c)'
             /\ \A p : Underway(c, p) => Underway(c, p)'
  <2>1. Rest(c)' = Rest(c) /\ Current(c)' = Current(c)
    BY <1>1 DEF Rest, Current, Working
  <2> QED
    BY <1>1, <2>1, SameClient
<1>3. LInv => LInv'
  BY <1>1, <1>2 DEF LInv, Shape
<1>4. AckInv => AckInv'
  BY <1>1, <1>2, <1>3 DEF AckInv
<1> QED
  BY <1>3, <1>4

\* What holds of the tree and of the shape before and after a step that does
\* neither touch the tree nor let a client go.
LEMMA SameTree ==
    ASSUME LInv, tree' = tree, connections' = connections
    PROVE  /\ TreeInv(tree', connections' \cup {Server})
           /\ Spacious(tree) => Spacious(tree')
           /\ \A c, p : Values(tree', c, p) = Values(tree, c, p)
  BY DEF LInv

\* A client collects one more request.
LEMMA PostStep ==
    ASSUME LInv, NEW c \in connections, NEW r, Asked(c, r), Post(c, r),
           want' \in [Client -> [Path -> SUBSET Value]],
           \A p \in Path : want'[c][p] = IF Touches(r, p) THEN r.value ELSE want[c][p],
           \A b \in Client \ {c} : want'[b] = want[b],
           UNCHANGED <<tree, connections, work, toServer, toClient>>
    PROVE  LInv' /\ (AckInv => AckInv')
<1>1. Shape
  BY DEF LInv
<1>2. /\ todo' = [todo EXCEPT ![c] = Append(todo[c], r)]
      /\ lastSentId' = [lastSentId EXCEPT ![c] = IF todo[c] = <<>> THEN lastSentId[c] + 1
                                                 ELSE lastSentId[c]]
      /\ lastRecvId' = lastRecvId
  BY DEF Post
<1>3. c \in Client
  BY <1>1 DEF Shape
<1>4. Shape'
  BY <1>1, <1>2 DEF Shape
<1>5. \A b : Rest(b)' = Rest(b) /\ Current(b)' = Current(b)
  BY DEF Rest, Current, Working
<1>6. /\ todo'[c] = Append(todo[c], r)
      /\ lastSentId'[c] = IF todo[c] = <<>> THEN lastSentId[c] + 1 ELSE lastSentId[c]
  BY <1>1, <1>2, <1>3 DEF Shape
<1>7. Queued(c) /\ Numbered(c)
  BY DEF LInv
<1>8. Queued(c)'
  BY <1>5, <1>6, <1>7, PostQueued DEF Queued
<1>9. Numbered(c)'
  <2>1. NumberedAs(lastSentId[c], lastRecvId[c], toClient[c], toServer[c], todo[c], Current(c))
    BY <1>7 DEF Numbered
  <2>2. NumberedAs(lastSentId'[c], lastRecvId[c], toClient[c], toServer[c], todo'[c], Current(c))
    BY <1>6, <2>1, PostNumbered
  <2> QED
    BY <1>2, <1>5, <2>2 DEF Numbered
<1>10. ASSUME NEW b \in connections \ {c}
       PROVE  /\ todo'[b] = todo[b] /\ lastSentId'[b] = lastSentId[b]
              /\ want'[b] = want[b]
  <2>1. b \in Client
    BY <1>1 DEF Shape
  <2> QED
    BY <1>1, <1>2, <2>1 DEF Shape
<1>11. ASSUME NEW b \in connections \ {c}
       PROVE  Queued(b)' /\ Numbered(b)'
  <2>1. Queued(b) /\ Numbered(b)
    BY DEF LInv
  <2> QED
    BY <1>2, <1>5, <1>10, <2>1, SameClient
<1>12. LInv'
  <2>1. \A b \in connections' : Queued(b)' /\ Numbered(b)'
    BY <1>8, <1>9, <1>11
  <2> QED
    BY <1>4, <2>1, SameTree DEF LInv
<1>13. ASSUME AckInv PROVE AckInv'
  <2>1. ASSUME NEW p \in Path PROVE Underway(c, p)'
    <3>1. IsQueue(todo[c])
      BY <1>7 DEF Queued, QueuedAs
    <3>2. UnderwayAs(p, todo[c], toServer[c], Rest(c), Values(tree, c, p), want[c][p])
      BY <1>13 DEF AckInv, Underway
    <3>3. UnderwayAs(p, todo'[c], toServer[c], Rest(c), Values(tree, c, p), want'[c][p])
      BY <1>6, <3>1, <3>2, PostUnderway
    <3> QED
      BY <1>5, <3>3 DEF Underway
  <2>2. ASSUME NEW b \in connections \ {c}, NEW p \in Path PROVE Underway(b, p)'
    <3>1. Underway(b, p)
      BY <1>13 DEF AckInv
    <3> QED
      BY <1>2, <1>5, <1>10, <3>1, SameClient
  <2>3. \A b \in connections', p \in Path : Underway(b, p)'
    BY <2>1, <2>2
  <2>4. Spacious(tree')
    BY <1>13, SameTree DEF AckInv
  <2> QED
    BY <1>12, <2>3, <2>4 DEF AckInv
<1> QED
  BY <1>12, <1>13

\* A step that leaves all clients but one alone.
LEMMA OneClientStep ==
    ASSUME LInv, NEW c \in connections, connections' = connections,
           Shape', TreeInv(tree', connections \cup {Server}),
           Queued(c)', Numbered(c)',
           \A b \in connections \ {c} :
              /\ todo'[b] = todo[b] /\ toServer'[b] = toServer[b]
              /\ toClient'[b] = toClient[b] /\ lastSentId'[b] = lastSentId[b]
              /\ lastRecvId'[b] = lastRecvId[b] /\ want'[b] = want[b]
              /\ Rest(b)' = Rest(b) /\ Current(b)' = Current(b)
              /\ \A p \in Path : Values(tree', b, p) = Values(tree, b, p)
    PROVE  /\ LInv'
           /\ /\ AckInv /\ Spacious(tree')
              /\ \A p \in Path : Underway(c, p)'
              => AckInv'
<1>1. ASSUME NEW b \in connections \ {c}
      PROVE  /\ Queued(b)' /\ Numbered(b)'
             /\ \A p \in Path : Underway(b, p) => Underway(b, p)'
  <2>1. Queued(b) /\ Numbered(b)
    BY DEF LInv
  <2> QED
    BY <2>1, SameClient
<1>2. LInv'
  <2>1. \A b \in connections' : Queued(b)' /\ Numbered(b)'
    BY <1>1
  <2> QED
    BY <2>1 DEF LInv
<1>3. ASSUME AckInv, Spacious(tree'), \A p \in Path : Underway(c, p)' PROVE AckInv'
  <2>1. \A b \in connections', p \in Path : Underway(b, p)'
    BY <1>1, <1>3 DEF AckInv
  <2> QED
    BY <1>2, <1>3, <2>1 DEF AckInv
<1> QED
  BY <1>2, <1>3

\* A client sends what it has collected.
LEMMA TransmitStep ==
    ASSUME LInv, NEW c \in connections, Transmit(c),
           UNCHANGED <<tree, connections, work, toClient, lastSentId, lastRecvId, want>>
    PROVE  LInv' /\ (AckInv => AckInv')
<1>1. Shape /\ Queued(c) /\ Numbered(c)
  BY DEF LInv
<1>2. CASE todo[c] = <<>>
  <2>1. toServer' = toServer
    BY <1>2 DEF Transmit
  <2>2. todo' = [todo EXCEPT ![c] = <<>>] /\ Shape'
    BY <1>1, <2>1 DEF Transmit, Shape
  <2>3. \A b \in connections : todo'[b] = todo[b]
    BY <1>1, <1>2, <2>2 DEF Shape
  <2>4. \A b : Rest(b)' = Rest(b) /\ Current(b)' = Current(b)
    BY DEF Rest, Current, Working
  <2>5. Queued(c)' /\ Numbered(c)' /\ \A p : Underway(c, p) => Underway(c, p)'
    BY <1>1, <2>1, <2>3, <2>4, SameClient
  <2>6. LInv'
    BY <2>1, <2>2, <2>3, <2>4, <2>5, SameTree, OneClientStep
  <2>7. AckInv => Spacious(tree') /\ \A p \in Path : Underway(c, p)'
    BY <2>5, SameTree DEF AckInv
  <2>8. AckInv => AckInv'
    BY <2>1, <2>2, <2>3, <2>4, <2>5, <2>7, SameTree, OneClientStep
  <2> QED
    BY <2>6, <2>8
<1>3. CASE todo[c] # <<>>
  <2> DEFINE pack == [id |-> lastSentId[c], ops |-> todo[c]]
  <2>1. /\ todo' = [todo EXCEPT ![c] = <<>>]
        /\ toServer' = [toServer EXCEPT ![c] = Append(toServer[c], pack)]
    BY <1>3 DEF Transmit
  <2>2. c \in Client /\ Shape'
    BY <1>1, <2>1 DEF Shape
  <2>3. todo'[c] = <<>> /\ toServer'[c] = Append(toServer[c], pack)
    BY <1>1, <2>1, <2>2 DEF Shape
  <2>4. \A b \in connections \ {c} : todo'[b] = todo[b] /\ toServer'[b] = toServer[b]
    BY <1>1, <2>1 DEF Shape
  <2>5. \A b : Rest(b)' = Rest(b) /\ Current(b)' = Current(b)
    BY DEF Rest, Current, Working
  <2>6. pack.id = lastSentId[c] /\ pack.ops = todo[c] /\ IsQueue(toServer[c])
    BY <1>1 DEF Queued, QueuedAs
  <2> HIDE DEF pack
  <2>7. Queued(c)'
    <3>1. QueuedAs(c, todo[c], toServer[c], Rest(c))
      BY <1>1 DEF Queued
    <3>2. QueuedAs(c, <<>>, Append(toServer[c], pack), Rest(c))
      BY <2>6, <3>1, SentQueued
    <3> QED
      BY <2>3, <2>5, <3>2 DEF Queued
  <2>8. Numbered(c)'
    <3>1. NumberedAs(lastSentId[c], lastRecvId[c], toClient[c], toServer[c], todo[c],
                     Current(c))
      BY <1>1 DEF Numbered
    <3>2. NumberedAs(lastSentId[c], lastRecvId[c], toClient[c],
                     Append(toServer[c], pack), <<>>, Current(c))
      BY <1>3, <2>6, <3>1, SentNumbered
    <3> QED
      BY <2>3, <2>5, <3>2 DEF Numbered
  <2>9. AckInv => \A p \in Path : Underway(c, p)'
    <3> SUFFICES ASSUME AckInv, NEW p \in Path PROVE Underway(c, p)'
      OBVIOUS
    <3>1. UnderwayAs(p, todo[c], toServer[c], Rest(c), Values(tree, c, p), want[c][p])
      BY DEF AckInv, Underway
    <3>2. UnderwayAs(p, <<>>, Append(toServer[c], pack), Rest(c),
                     Values(tree, c, p), want[c][p])
      BY <2>6, <3>1, SentUnderway
    <3> QED
      BY <2>3, <2>5, <3>2 DEF Underway
  <2>10. /\ LInv'
         /\ /\ AckInv /\ Spacious(tree')
            /\ \A p \in Path : Underway(c, p)'
            => AckInv'
    BY <2>2, <2>4, <2>5, <2>7, <2>8, SameTree, OneClientStep
  <2>11. AckInv => Spacious(tree')
    BY SameTree DEF AckInv
  <2> QED
    BY <2>9, <2>10, <2>11
<1> QED
  BY <1>2, <1>3

\* A client receives a SYNC.
LEMMA ReceiveStep ==
    ASSUME LInv, NEW c \in connections, ReceiveSync(c)
    PROVE  LInv' /\ (AckInv => AckInv')
<1>1. Shape /\ Queued(c) /\ Numbered(c)
  BY DEF LInv
<1>2. PICK next : /\ next = IF Head(toClient[c]) # 0 THEN Head(toClient[c])
                            ELSE lastRecvId[c]
                  /\ toClient[c] # <<>>
                  /\ lastRecvId' = [lastRecvId EXCEPT ![c] = next]
                  /\ toClient' = [toClient EXCEPT ![c] = Tail(toClient[c])]
  BY DEF ReceiveSync
<1>3. /\ tree' = tree /\ connections' = connections /\ work' = work
      /\ toServer' = toServer /\ todo' = todo /\ lastSentId' = lastSentId /\ want' = want
  BY DEF ReceiveSync, space, serverVars, history
<1>4. c \in Client /\ Shape'
  BY <1>1, <1>2, <1>3 DEF Shape
<1>5. lastRecvId'[c] = next /\ toClient'[c] = Tail(toClient[c])
  BY <1>1, <1>2, <1>4 DEF Shape
<1>6. \A b \in connections \ {c} :
         lastRecvId'[b] = lastRecvId[b] /\ toClient'[b] = toClient[b]
  BY <1>1, <1>2 DEF Shape
<1>7. \A b : Rest(b)' = Rest(b) /\ Current(b)' = Current(b)
  BY <1>3 DEF Rest, Current, Working
<1>8. Queued(c)'
  BY <1>1, <1>3, <1>7 DEF Queued
<1>9. Numbered(c)'
  <2>1. NumberedAs(lastSentId[c], lastRecvId[c], toClient[c], toServer[c], todo[c],
                   Current(c))
    BY <1>1 DEF Numbered
  <2>2. NumberedAs(lastSentId[c], next, Tail(toClient[c]), toServer[c], todo[c],
                   Current(c))
    BY <1>2, <2>1, ReceivedNumbered
  <2> QED
    BY <1>3, <1>5, <1>7, <2>2 DEF Numbered
<1>10. AckInv => \A p \in Path : Underway(c, p)'
  BY <1>3, <1>7 DEF AckInv, Underway
<1>11. /\ LInv'
       /\ /\ AckInv /\ Spacious(tree')
          /\ \A p \in Path : Underway(c, p)'
          => AckInv'
  BY <1>3, <1>4, <1>6, <1>7, <1>8, <1>9, SameTree, OneClientStep
<1>12. AckInv => Spacious(tree')
  BY <1>3, SameTree DEF AckInv
<1> QED
  BY <1>10, <1>11, <1>12

\* The server takes a packet.
LEMMA TakeStep ==
    ASSUME LInv, NEW c \in Client, TakePacket(c)
    PROVE  LInv' /\ (AckInv => AckInv')
<1>1. /\ c \in connections /\ toServer[c] # <<>> /\ work = NoWork
      /\ work' = [kind |-> "packet", from |-> c, id |-> Head(toServer[c]).id,
                  ops |-> Head(toServer[c]).ops, changed |-> FALSE]
      /\ toServer' = [toServer EXCEPT ![c] = Tail(toServer[c])]
      /\ tree' = tree /\ connections' = connections /\ toClient' = toClient
      /\ todo' = todo /\ lastSentId' = lastSentId /\ lastRecvId' = lastRecvId
      /\ want' = want
  BY DEF TakePacket, Free, space, packets, history
<1>2. Shape /\ Queued(c) /\ Numbered(c)
  BY <1>1 DEF LInv
<1>3. Shape'
  BY <1>1, <1>2 DEF Shape
<1>4. toServer'[c] = Tail(toServer[c])
      /\ \A b \in connections \ {c} : toServer'[b] = toServer[b]
  BY <1>1, <1>2 DEF Shape
<1>5. \A b : Rest(b) = <<>> /\ Current(b) = {}
  BY <1>1 DEF Rest, Current, Working, NoWork
<1>6. /\ Rest(c)' = Head(toServer[c]).ops
      /\ Current(c)' = {[id |-> Head(toServer[c]).id, ops |-> Head(toServer[c]).ops]}
      /\ \A b : b # c => Rest(b)' = <<>> /\ Current(b)' = {}
  BY <1>1 DEF Rest, Current, Working
<1>7. IsQueue(toServer[c])
  BY <1>2 DEF Queued, QueuedAs
<1>8. Queued(c)'
  <2>1. QueuedAs(c, todo[c], toServer[c], Rest(c))
    BY <1>2 DEF Queued
  <2>2. QueuedAs(c, todo[c], Tail(toServer[c]), Head(toServer[c]).ops)
    BY <1>1, <2>1, TakenQueued
  <2> QED
    BY <1>1, <1>4, <1>6, <2>2 DEF Queued
<1>9. Numbered(c)'
  <2>1. NumberedAs(lastSentId[c], lastRecvId[c], toClient[c], toServer[c], todo[c],
                   Current(c))
    BY <1>2 DEF Numbered
  <2>2. PICK u : u = [id |-> Head(toServer[c]).id, ops |-> Head(toServer[c]).ops]
    OBVIOUS
  <2>3. u.id = Head(toServer[c]).id /\ u.ops = Head(toServer[c]).ops
    BY <2>2
  <2>4. NumberedAs(lastSentId[c], lastRecvId[c], toClient[c], Tail(toServer[c]),
                   todo[c], {u})
    BY <1>1, <1>7, <2>1, <2>3, TakenNumbered
  <2> QED
    BY <1>1, <1>4, <1>6, <2>2, <2>4 DEF Numbered
<1>10. AckInv => \A p \in Path : Underway(c, p)'
  <2> SUFFICES ASSUME AckInv, NEW p \in Path PROVE Underway(c, p)'
    OBVIOUS
  <2>1. UnderwayAs(p, todo[c], toServer[c], <<>>, Values(tree, c, p), want[c][p])
    BY <1>1, <1>5 DEF AckInv, Underway
  <2>2. UnderwayAs(p, todo[c], Tail(toServer[c]), Head(toServer[c]).ops,
                   Values(tree, c, p), want[c][p])
    BY <1>1, <1>7, <2>1, TakenUnderway
  <2> QED
    BY <1>1, <1>4, <1>6, <2>2 DEF Underway
<1>11. /\ LInv'
       /\ /\ AckInv /\ Spacious(tree')
          /\ \A p \in Path : Underway(c, p)'
          => AckInv'
  <2>1. \A b \in connections \ {c} :
           /\ todo'[b] = todo[b] /\ toServer'[b] = toServer[b]
           /\ toClient'[b] = toClient[b] /\ lastSentId'[b] = lastSentId[b]
           /\ lastRecvId'[b] = lastRecvId[b] /\ want'[b] = want[b]
           /\ Rest(b)' = Rest(b) /\ Current(b)' = Current(b)
           /\ \A p \in Path : Values(tree', b, p) = Values(tree, b, p)
    BY <1>1, <1>4, <1>5, <1>6
  <2> QED
    BY <1>1, <1>3, <1>8, <1>9, <2>1, SameTree, OneClientStep
<1>12. AckInv => Spacious(tree')
  BY <1>1, SameTree DEF AckInv
<1> QED
  BY <1>10, <1>11, <1>12

\* The call on the tree that a request asks for.
Requested(t, c, r) ==
    t = CASE r.op = "ADD" -> doSetItem(c, r.path, CHOOSE v \in r.value : TRUE)
          [] r.op = "REM" -> doRemItems(c, r.path)
          [] OTHER -> [tree EXCEPT !.bumped = {}, !.rv = FALSE]

LEMMA RequestOnTree ==
    ASSUME LInv, NEW c \in connections, NEW r, Asked(c, r), NEW t,
           Requested(t, c, r)
    PROVE  /\ TreeInv(t, connections \cup {Server})
           /\ \A b, p : b # c /\ p \in Path => Values(t, b, p) = Values(tree, b, p)
           /\ Spacious(tree) /\ Ample =>
                 /\ Spacious(t)
                 /\ \A p \in Path : Values(t, c, p) = IF Touches(r, p) THEN r.value
                                                      ELSE Values(tree, c, p)
<1>1. PICK there \in SUBSET Process :
         there = connections \cup {Server} /\ c \in there /\ TreeInv(tree, there)
  BY DEF LInv, Shape, Process
<1>2. CASE r.op = "ADD"
  <2>1. <<c, r.path>> \in Publish /\ r.path \in Node
    BY <1>2, LayerAssumption DEF Asked, Node
  <2>2. PICK v \in Value : r.value = {v}
    BY <1>2 DEF Asked
  <2>3. t = Inserted(tree, r.path, [owner |-> OwnerOf(c), value |-> v])
    BY <1>2, <2>2 DEF doSetItem, Requested
  <2>4. /\ TreeInv(t, there)
        /\ \A q \in Node \ {r.path} : t.data[q] = tree.data[q]
        /\ \A b : b # c => Values(t, b, r.path) = Values(tree, b, r.path)
        /\ Spacious(tree) /\ Ample => Spacious(t) /\ Values(t, c, r.path) = {v}
    <3>1. PICK p \in Node : p = r.path
      BY <2>1
    <3>2. <<c, p>> \in Publish /\ Inserts(t, tree, p, c, v)
      BY <2>1, <2>3, <3>1 DEF Inserts
    <3>3. /\ TreeInv(t, there)
          /\ \A q \in Node \ {p} : t.data[q] = tree.data[q]
          /\ \A b : b # c => Values(t, b, p) = Values(tree, b, p)
          /\ Spacious(tree) /\ Ample => Spacious(t) /\ Values(t, c, p) = {v}
      BY <1>1, <3>2, InsertedOwned
    <3> QED
      BY <3>1, <3>3
  <2>5. \A b, p : p \in Path /\ p # r.path => Values(t, b, p) = Values(tree, b, p)
    <3> SUFFICES ASSUME NEW b, NEW p \in Path, p # r.path
                 PROVE  Values(t, b, p) = Values(tree, b, p)
      OBVIOUS
    <3>1. t.data[p] = tree.data[p]
      BY <2>4 DEF Node
    <3> QED
      BY <3>1 DEF Values
  <2>6. \A p : Touches(r, p) <=> p = r.path
    BY <1>2 DEF Touches
  <2> QED
    BY <1>1, <2>2, <2>4, <2>5, <2>6
<1>3. CASE r.op = "REM"
  <2>1. r.path \in Path /\ Len(r.path) = 1 /\ r.path \in Node
    BY <1>3, LayerAssumption DEF Asked, Node
  <2>2. r.value = {}
    BY <1>3 DEF Asked
  <2>3. t = Removed(tree, r.path, OwnerOf(c)) /\ OwnerOf(c).data1 = c
    BY <1>3 DEF doRemItems, OwnerOf, Requested
  <2>4. /\ TreeInv(t, there)
        /\ \A q \in Node :
              /\ \A b : b # c => Values(t, b, q) = Values(tree, b, q)
              /\ Values(t, c, q) = IF r.path \in Prefixes(q) THEN {} ELSE Values(tree, c, q)
        /\ Spacious(tree) => Spacious(t)
    <3>1. PICK p \in Node : p = r.path
      BY <2>1
    <3>2. PICK who : who = OwnerOf(c) /\ who.data1 = c
      BY <2>3
    <3>3. Removes(t, tree, p, who) /\ Len(p) = 1
      BY <2>1, <2>3, <3>1, <3>2 DEF Removes
    <3>4. Withdrawn(t, tree, there, p, who.data1)
      BY <1>1, <3>3, RemovedOwned
    <3> QED
      BY <3>1, <3>2, <3>3, <3>4 DEF Withdrawn
  <2>5. \A p : Touches(r, p) <=> r.path \in Prefixes(p)
    BY <1>3 DEF Touches
  <2> QED
    BY <1>1, <2>2, <2>4, <2>5 DEF Node
<1>4. CASE r.op \in {"NOTIFY", "SUBINDEX"}
  <2>1. Quieted(t, tree)
    BY <1>4 DEF Requested, Quieted
  <2>2. /\ TreeInv(t, there)
        /\ \A b, p : Values(t, b, p) = Values(tree, b, p)
        /\ Spacious(tree) => Spacious(t)
    BY <1>1, <2>1, ReportedTree
  <2>3. \A p : ~Touches(r, p)
    BY <1>4 DEF Touches
  <2> QED
    BY <1>1, <2>2, <2>3
<1> QED
  BY <1>2, <1>3, <1>4 DEF Asked

\* The server carries out a request.
LEMMA HandleStep ==
    ASSUME LInv, HandleRequest
    PROVE  LInv' /\ (AckInv /\ Ample => AckInv')
<1>0. PICK c, r : c = work.from /\ r = Head(work.ops)
  OBVIOUS
<1>1. PICK t : /\ Requested(t, c, r)
               /\ Store(t)
               /\ work.kind = "packet" /\ work.ops # <<>>
               /\ work' = [work EXCEPT !.ops = Tail(work.ops),
                                       !.changed = work.changed \/ t.rv]
  BY <1>0 DEF HandleRequest, Requested
<1>2. /\ connections' = connections /\ toServer' = toServer /\ toClient' = toClient
      /\ todo' = todo /\ lastSentId' = lastSentId /\ lastRecvId' = lastRecvId
      /\ want' = want
  BY DEF HandleRequest, channels, packets, history
<1>3. Shape
  BY DEF LInv
<1>4. c \in connections
  BY <1>0, <1>1, <1>3 DEF Shape
<1>5. /\ work'.kind = "packet" /\ work'.from = c /\ work'.id = work.id
      /\ work'.ops = Tail(work.ops)
      /\ DOMAIN work' = {"kind", "from", "id", "ops", "changed"}
  BY <1>0, <1>1, <1>3 DEF Shape
<1>6. Shape'
  BY <1>2, <1>3, <1>4, <1>5 DEF Shape
<1>7. Queued(c) /\ Numbered(c)
  BY <1>4 DEF LInv
<1>8. /\ Rest(c) = work.ops /\ Current(c) = {[id |-> work.id, ops |-> work.ops]}
      /\ \A b : b # c => Rest(b) = <<>> /\ Current(b) = {}
  BY <1>0, <1>1 DEF Rest, Current, Working
<1>9. /\ Rest(c)' = Tail(work.ops)
      /\ Current(c)' = {[id |-> work.id, ops |-> Tail(work.ops)]}
      /\ \A b : b # c => Rest(b)' = <<>> /\ Current(b)' = {}
  BY <1>5 DEF Rest, Current, Working
<1>10. IsQueue(work.ops)
  BY <1>7, <1>8 DEF Queued, QueuedAs
<1>11. Asked(c, r) /\ Queued(c)'
  <2>1. QueuedAs(c, todo[c], toServer[c], work.ops)
    BY <1>7, <1>8 DEF Queued
  <2>2. QueuedAs(c, todo[c], toServer[c], Tail(work.ops)) /\ Asked(c, r)
    BY <1>0, <1>1, <2>1, HandledQueued
  <2> QED
    BY <1>2, <1>9, <2>2 DEF Queued
<1>12. Numbered(c)'
  <2>1. PICK u, w : /\ u = [id |-> work.id, ops |-> work.ops]
                    /\ w = [id |-> work.id, ops |-> Tail(work.ops)]
    OBVIOUS
  <2>2. w.id = u.id /\ w.ops = Tail(u.ops) /\ u.ops # <<>> /\ IsQueue(u.ops)
    BY <1>1, <1>10, <2>1
  <2>3. NumberedAs(lastSentId[c], lastRecvId[c], toClient[c], toServer[c], todo[c], {u})
    BY <1>7, <1>8, <2>1 DEF Numbered
  <2>4. NumberedAs(lastSentId[c], lastRecvId[c], toClient[c], toServer[c], todo[c], {w})
    BY <2>2, <2>3, HandledNumbered
  <2> QED
    BY <1>2, <1>9, <2>1, <2>4 DEF Numbered
<1>13. /\ TreeInv(t, connections \cup {Server})
       /\ \A b, p : b # c /\ p \in Path => Values(t, b, p) = Values(tree, b, p)
       /\ Spacious(tree) /\ Ample =>
             /\ Spacious(t)
             /\ \A p \in Path : Values(t, c, p) = IF Touches(r, p) THEN r.value
                                                  ELSE Values(tree, c, p)
  BY <1>1, <1>4, <1>11, RequestOnTree
<1>14. /\ TreeInv(tree', connections \cup {Server})
       /\ \A b, p : Values(tree', b, p) = Values(t, b, p)
       /\ Spacious(t) => Spacious(tree')
  <2>1. Store(t) /\ TreeInv(t, connections \cup {Server})
    BY <1>1, <1>13
  <2>2. PICK there : there = connections \cup {Server}
    OBVIOUS
  <2> HIDE DEF Store
  <2>3. /\ TreeInv(tree', there)
        /\ \A b, p : Values(tree', b, p) = Values(t, b, p)
        /\ Spacious(t) => Spacious(tree')
    BY <2>1, <2>2, StoredTree
  <2> QED
    BY <2>2, <2>3
<1>15. AckInv /\ Ample => Spacious(tree') /\ \A p \in Path : Underway(c, p)'
  <2> SUFFICES ASSUME AckInv, Ample
               PROVE  Spacious(tree') /\ \A p \in Path : Underway(c, p)'
    OBVIOUS
  <2>1. Spacious(tree')
    BY <1>13, <1>14 DEF AckInv
  <2>2. ASSUME NEW p \in Path PROVE Underway(c, p)'
    <3>1. UnderwayAs(p, todo[c], toServer[c], work.ops, Values(tree, c, p), want[c][p])
      BY <1>4, <1>8 DEF AckInv, Underway
    <3>2. Values(tree', c, p) = IF Touches(r, p) THEN r.value ELSE Values(tree, c, p)
      BY <1>13, <1>14 DEF AckInv
    <3>3. UnderwayAs(p, todo[c], toServer[c], Tail(work.ops), Values(tree', c, p),
                     want[c][p])
      BY <1>0, <1>1, <1>10, <3>1, <3>2, HandledUnderway
    <3> QED
      BY <1>2, <1>9, <3>3 DEF Underway
  <2> QED
    BY <2>1, <2>2
<1>16. \A b \in connections \ {c} :
          /\ todo'[b] = todo[b] /\ toServer'[b] = toServer[b]
          /\ toClient'[b] = toClient[b] /\ lastSentId'[b] = lastSentId[b]
          /\ lastRecvId'[b] = lastRecvId[b] /\ want'[b] = want[b]
          /\ Rest(b)' = Rest(b) /\ Current(b)' = Current(b)
          /\ \A p \in Path : Values(tree', b, p) = Values(tree, b, p)
  <2> SUFFICES ASSUME NEW b \in connections \ {c}
               PROVE  /\ Rest(b)' = Rest(b) /\ Current(b)' = Current(b)
                      /\ \A p \in Path : Values(tree', b, p) = Values(tree, b, p)
    BY <1>2
  <2>1. Rest(b)' = Rest(b) /\ Current(b)' = Current(b)
    BY <1>0, <1>5 DEF Rest, Current, Working
  <2>2. \A p \in Path : Values(tree', b, p) = Values(tree, b, p)
    BY <1>13, <1>14
  <2> QED
    BY <2>1, <2>2
<1>17. /\ LInv'
       /\ /\ AckInv /\ Spacious(tree')
          /\ \A p \in Path : Underway(c, p)'
          => AckInv'
  BY <1>2, <1>4, <1>6, <1>11, <1>12, <1>14, <1>16, OneClientStep
<1> QED
  BY <1>15, <1>17

LEMMA DoneNumbered ==
    ASSUME NEW sent, NEW recv, NEW acks, NEW packs, NEW ops, NEW current,
           NumberedAs(sent, recv, acks, packs, ops, current)
    PROVE  NumberedAs(sent, recv, acks, packs, ops, {})
  BY DEF NumberedAs

\* Clients are told that something has changed, and one that its packet is done.
Told(c) ==
    \E mid : /\ \/ mid = toClient[c]
                \/ Working(c) /\ mid = Append(toClient[c], work.id)
             /\ toClient'[c] = mid \/ toClient'[c] = Append(mid, 0)

LEMMA TellStep ==
    ASSUME LInv, work.kind = "packet" => work.ops = <<>>, work' = NoWork,
           DOMAIN toClient' = Client, \A c \in connections : Told(c),
           UNCHANGED <<tree, connections, toServer, todo, lastSentId, lastRecvId, want>>
    PROVE  LInv' /\ (AckInv => AckInv')
<1>1. Shape /\ Shape'
  BY DEF LInv, Shape, NoWork
<1>2. \A c : Rest(c) = <<>> /\ Rest(c)' = <<>> /\ Current(c)' = {}
  BY DEF Rest, Current, Working, NoWork
<1>3. ASSUME NEW c \in connections PROVE Queued(c)'
  <2>1. Queued(c)
    BY DEF LInv
  <2> QED
    BY <1>2, <2>1 DEF Queued
<1>4. ASSUME NEW c \in connections PROVE Numbered(c)'
  <2>1. NumberedAs(lastSentId[c], lastRecvId[c], toClient[c], toServer[c], todo[c],
                   Current(c))
    BY DEF LInv, Numbered
  <2>2. PICK mid : /\ \/ mid = toClient[c]
                      \/ Working(c) /\ mid = Append(toClient[c], work.id)
                   /\ toClient'[c] = mid \/ toClient'[c] = Append(mid, 0)
    BY DEF Told
  <2>3. NumberedAs(lastSentId[c], lastRecvId[c], mid, toServer[c], todo[c], {})
    <3>1. CASE mid = toClient[c]
      BY <2>1, <3>1, DoneNumbered
    <3>2. CASE Working(c) /\ mid = Append(toClient[c], work.id)
      <4>1. \E u \in Current(c) : work.id = u.id
        BY <3>2 DEF Current
      <4>2. NumberedAs(lastSentId[c], lastRecvId[c], Append(toClient[c], work.id),
                       toServer[c], todo[c], {})
        BY <2>1, <4>1, AckedNumbered
      <4> QED
        BY <3>2, <4>2
    <3> QED
      BY <2>2, <3>1, <3>2
  <2>4. NumberedAs(lastSentId[c], lastRecvId[c], toClient'[c], toServer[c], todo[c], {})
    <3>1. NumberedAs(lastSentId[c], lastRecvId[c], Append(mid, 0), toServer[c], todo[c], {})
      BY <2>3, AckedNumbered
    <3> QED
      BY <2>2, <2>3, <3>1
  <2> QED
    BY <1>2, <2>4 DEF Numbered
<1>5. LInv'
  BY <1>1, <1>3, <1>4, SameTree DEF LInv
<1>6. ASSUME AckInv PROVE AckInv'
  <2>1. ASSUME NEW c \in connections, NEW p \in Path PROVE Underway(c, p)'
    BY <1>2, <1>6 DEF AckInv, Underway
  <2> QED
    BY <1>5, <1>6, <2>1, SameTree DEF AckInv
<1> QED
  BY <1>5, <1>6

LEMMA FinishStep ==
    ASSUME LInv, FinishPacket
    PROVE  LInv' /\ (AckInv => AckInv')
<1>1. /\ work.kind = "packet" /\ work.ops = <<>> /\ work' = NoWork
      /\ UNCHANGED <<tree, connections, toServer, todo, lastSentId, lastRecvId, want>>
  BY DEF FinishPacket, space, packets, history
<1>2. \/ toClient' = Synced({work.from}, work.id)
      \/ toClient' = [c \in Client |-> IF c \in connections /\ Concerned(c)
                                       THEN Append(Synced({work.from}, work.id)[c], 0)
                                       ELSE Synced({work.from}, work.id)[c]]
  BY DEF FinishPacket, doServerTransmit
<1>3. PICK mid : /\ mid = Synced({work.from}, work.id)
                 /\ mid = [c \in Client |-> IF c \in {work.from}
                                            THEN Append(toClient[c], work.id)
                                            ELSE toClient[c]]
  BY DEF Synced
<1>4. ASSUME NEW c \in connections PROVE Told(c)
  <2>1. c \in Client
    BY DEF LInv, Shape
  <2>2. \/ mid[c] = toClient[c]
        \/ Working(c) /\ mid[c] = Append(toClient[c], work.id)
    BY <1>1, <1>3, <2>1 DEF Working
  <2>3. toClient'[c] = mid[c] \/ toClient'[c] = Append(mid[c], 0)
    BY <1>2, <1>3, <2>1
  <2> QED
    BY <2>2, <2>3 DEF Told
<1>5. DOMAIN toClient' = Client
  BY <1>2, <1>3
<1> QED
  BY <1>1, <1>4, <1>5, TellStep

LEMMA TimerStep ==
    ASSUME LInv, ServerTimer
    PROVE  LInv' /\ (AckInv => AckInv')
<1>1. /\ work = NoWork /\ work' = NoWork
      /\ UNCHANGED <<tree, connections, toServer, todo, lastSentId, lastRecvId, want>>
  BY DEF ServerTimer, Free, space, packets, history
<1>2. toClient' = [c \in Client |-> IF c \in connections /\ Concerned(c)
                                    THEN Append(toClient[c], 0) ELSE toClient[c]]
  BY DEF ServerTimer, doServerTransmit
<1>3. ASSUME NEW c \in connections PROVE Told(c)
  <2>1. c \in Client
    BY DEF LInv, Shape
  <2>2. toClient'[c] = toClient[c] \/ toClient'[c] = Append(toClient[c], 0)
    BY <1>2, <2>1
  <2> QED
    BY <2>2 DEF Told
<1>4. DOMAIN toClient' = Client /\ work.kind # "packet"
  BY <1>1, <1>2 DEF NoWork
<1> QED
  BY <1>1, <1>3, <1>4, TellStep

LEMMA FinishDisconnectStep ==
    ASSUME LInv, FinishDisconnect
    PROVE  LInv' /\ (AckInv => AckInv')
<1>1. /\ work.kind = "gone" /\ work' = NoWork
      /\ UNCHANGED <<tree, connections, toServer, todo, lastSentId, lastRecvId, want>>
  BY DEF FinishDisconnect, space, packets, history
<1>2. \/ toClient' = toClient
      \/ toClient' = [c \in Client |-> IF c \in connections
                                       THEN Append(toClient[c], 0) ELSE toClient[c]]
  BY DEF FinishDisconnect, Synced
<1>3. ASSUME NEW c \in connections PROVE Told(c)
  <2>1. c \in Client
    BY DEF LInv, Shape
  <2>2. toClient'[c] = toClient[c] \/ toClient'[c] = Append(toClient[c], 0)
    BY <1>2, <2>1
  <2> QED
    BY <2>2 DEF Told
<1>4. DOMAIN toClient' = Client /\ work.kind # "packet"
  BY <1>1, <1>2 DEF LInv, Shape
<1> QED
  BY <1>1, <1>3, <1>4, TellStep

\* The server process publishes or withdraws a value of its own.
LEMMA TreeOnlyStep ==
    ASSUME LInv, NEW t, TreeInv(t, connections \cup {Server}), Store(t),
           \A b \in connections, p \in Path : Values(t, b, p) = Values(tree, b, p),
           UNCHANGED <<connections, work, toServer, toClient, todo, lastSentId,
                       lastRecvId, want>>
    PROVE  LInv' /\ (AckInv /\ Spacious(t) => AckInv')
<1>1. /\ TreeInv(tree', connections \cup {Server})
      /\ \A c, q : Values(tree', c, q) = Values(t, c, q)
      /\ Spacious(t) => Spacious(tree')
  <2>1. PICK there : there = connections \cup {Server}
    OBVIOUS
  <2>2. /\ TreeInv(tree', there)
        /\ \A c, q : Values(tree', c, q) = Values(t, c, q)
        /\ Spacious(t) => Spacious(tree')
    BY <2>1, StoredTree
  <2> QED
    BY <2>1, <2>2
<1>2. Shape'
  BY DEF LInv, Shape
<1>3. \A b : Rest(b)' = Rest(b) /\ Current(b)' = Current(b)
  BY DEF Rest, Current, Working
<1>4. ASSUME NEW b \in connections
      PROVE  /\ Queued(b)' /\ Numbered(b)'
             /\ \A p \in Path : Underway(b, p) => Underway(b, p)'
  <2>1. Queued(b) /\ Numbered(b)
    BY DEF LInv
  <2>2. \A p \in Path : Values(tree', b, p) = Values(tree, b, p)
    BY <1>1
  <2> QED
    BY <1>3, <2>1, <2>2, SameClient
<1>5. LInv'
  <2>1. \A b \in connections' : Queued(b)' /\ Numbered(b)'
    BY <1>4
  <2> QED
    BY <1>1, <1>2, <2>1 DEF LInv
<1>6. ASSUME AckInv, Spacious(t) PROVE AckInv'
  <2>1. \A b \in connections', p \in Path : Underway(b, p)'
    BY <1>4, <1>6 DEF AckInv
  <2> QED
    BY <1>1, <1>5, <1>6, <2>1 DEF AckInv
<1> QED
  BY <1>5, <1>6

LEMMA ServerPublisherStep ==
    ASSUME LInv, ServerPublisher
    PROVE  LInv' /\ (AckInv /\ Ample => AckInv')
<1>1. PICK there \in SUBSET Process :
         there = connections \cup {Server} /\ Server \in there /\ TreeInv(tree, there)
  BY DEF LInv, Shape, Process
<1>2. ASSUME NEW b \in connections PROVE b # Server
  BY LayerAssumption DEF LInv, Shape
<1>3. ASSUME NEW p \in Path, NEW v \in Value, ServerSetItem(p, v)
      PROVE  LInv' /\ (AckInv /\ Ample => AckInv')
  <2>1. PICK t : Inserts(t, tree, p, Server, v) /\ Store(t)
    BY <1>3 DEF ServerSetItem, ServerCall, doSetItem, Inserts
  <2>2. <<Server, p>> \in Publish /\ p \in Node
    BY <1>3 DEF ServerSetItem, Node
  <2>3. /\ TreeInv(t, there)
        /\ \A q \in Node \ {p} : t.data[q] = tree.data[q]
        /\ \A b : b # Server => Values(t, b, p) = Values(tree, b, p)
        /\ Spacious(tree) /\ Ample => Spacious(t) /\ Values(t, Server, p) = {v}
    BY <1>1, <2>1, <2>2, InsertedOwned
  <2>4. ASSUME NEW b \in connections, NEW q \in Path
        PROVE  Values(t, b, q) = Values(tree, b, q)
    <3>1. CASE q = p
      BY <1>2, <2>3, <3>1
    <3>2. CASE q # p
      <4>1. t.data[q] = tree.data[q]
        BY <2>3, <3>2 DEF Node
      <4> QED
        BY <4>1 DEF Values
    <3> QED
      BY <3>1, <3>2
  <2>5. UNCHANGED <<connections, work, toServer, toClient, todo, lastSentId,
                    lastRecvId, want>>
    BY <1>3 DEF ServerSetItem, ServerCall, channels, packets
  <2>6. LInv' /\ (AckInv /\ Spacious(t) => AckInv')
    BY <1>1, <2>1, <2>3, <2>4, <2>5, TreeOnlyStep
  <2> QED
    BY <2>3, <2>6 DEF AckInv
<1>4. ASSUME NEW p \in Path, ServerRemItems(p)
      PROVE  LInv' /\ (AckInv /\ Ample => AckInv')
  <2>1. PICK t, who : /\ Removes(t, tree, p, who) /\ Store(t)
                      /\ who.data1 = Server
    BY <1>4 DEF ServerRemItems, ServerCall, doRemItems, Removes, OwnerOf
  <2>2. p \in Node
    BY DEF Node
  <2>7. Len(p) = 1
    BY <1>4, LayerAssumption DEF ServerRemItems
  <2>8. Removes(t, tree, p, who)
    BY <2>1
  <2>3. Withdrawn(t, tree, there, p, who.data1)
    BY <1>1, <2>2, <2>8, RemovedOwned
  <2>4. \A b \in connections, q \in Path : Values(t, b, q) = Values(tree, b, q)
    BY <1>2, <2>1, <2>3 DEF Node, Withdrawn
  <2>5. UNCHANGED <<connections, work, toServer, toClient, todo, lastSentId,
                    lastRecvId, want>>
    BY <1>4 DEF ServerRemItems, ServerCall, channels, packets
  <2>6. LInv' /\ (AckInv /\ Spacious(t) => AckInv')
    BY <1>1, <2>1, <2>3, <2>4, <2>5, TreeOnlyStep DEF Withdrawn
  <2> QED
    BY <2>3, <2>6, <2>7 DEF AckInv, Withdrawn
<1> QED
  BY <1>3, <1>4 DEF ServerPublisher

\* A client goes: its values and all that it has sent go with it.
LEMMA DisconnectStep ==
    ASSUME LInv, NEW c \in Client, Disconnect(c)
    PROVE  LInv' /\ (AckInv => AckInv')
<1>1. PICK there \in SUBSET Process :
         there = connections \cup {Server} /\ TreeInv(tree, there)
  BY DEF LInv, Shape, Process
<1>2. PICK t, who : /\ Removes(t, tree, Root, who) /\ Store(t)
                    /\ who = [data1 |-> c, data2 |-> Everyone] /\ who.data1 = c
  BY DEF Disconnect, Cleared, Removes
<1>3. /\ c \in connections /\ work = NoWork /\ connections' = connections \ {c}
      /\ toServer' = [toServer EXCEPT ![c] = <<>>]
      /\ toClient' = [toClient EXCEPT ![c] = <<>>]
      /\ todo' = [todo EXCEPT ![c] = <<>>]
      /\ lastSentId' = lastSentId /\ lastRecvId' = lastRecvId /\ want' = want
  BY DEF Disconnect, Free, history
<1>4. work'.kind = "gone" /\ DOMAIN work' = {"kind", "from", "id", "ops", "changed"}
  <2>1. PICK v : work' = [NoWork EXCEPT !.kind = "gone", !.from = c, !.changed = v]
    BY DEF Disconnect
  <2> QED
    BY <2>1 DEF NoWork
<1>5. Root \in Node
  BY DEF Node
<1>6. Withdrawn(t, tree, there, Root, who.data1)
  BY <1>1, <1>2, <1>5, RemovedOwned
<1>7. PICK left : left = there \ {c} /\ left = connections' \cup {Server}
  BY <1>1, <1>3, LayerAssumption
<1>8. TreeInv(t, left)
  BY <1>2, <1>6, <1>7 DEF Withdrawn
<1>9. /\ TreeInv(tree', left)
      /\ \A b, q : Values(tree', b, q) = Values(t, b, q)
      /\ Spacious(t) => Spacious(tree')
  BY <1>2, <1>8, StoredTree
<1>10. Shape
  BY DEF LInv
<1>11. Shape'
  BY <1>3, <1>4, <1>10 DEF Shape
<1>12. \A b : Rest(b) = <<>> /\ Current(b) = {} /\ Rest(b)' = <<>> /\ Current(b)' = {}
  BY <1>3, <1>4 DEF Rest, Current, Working, NoWork
<1>13. ASSUME NEW b \in connections'
       PROVE  /\ Queued(b)' /\ Numbered(b)'
              /\ \A p \in Path : Underway(b, p) => Underway(b, p)'
  <2>1. b \in connections /\ b # c /\ b \in Client
    BY <1>3, <1>10 DEF Shape
  <2>2. /\ todo'[b] = todo[b] /\ toServer'[b] = toServer[b]
        /\ toClient'[b] = toClient[b]
    BY <1>3, <1>10, <2>1 DEF Shape
  <2>3. Queued(b) /\ Numbered(b)
    BY <2>1 DEF LInv
  <2>4. \A p \in Path : Values(tree', b, p) = Values(tree, b, p)
    BY <1>2, <1>6, <1>9, <2>1 DEF Node, Withdrawn
  <2> QED
    BY <1>3, <1>12, <2>2, <2>3, <2>4, SameClient
<1>14. LInv'
  BY <1>7, <1>9, <1>11, <1>13 DEF LInv
<1>15. ASSUME AckInv PROVE AckInv'
  <2>1. \A b \in connections', p \in Path : Underway(b, p)'
    BY <1>3, <1>13, <1>15 DEF AckInv
  <2> QED
    BY <1>6, <1>9, <1>14, <1>15, <2>1 DEF AckInv, Withdrawn
<1> QED
  BY <1>14, <1>15

\* Subscribing and the end of a subscription put a request into the queue.
LEMMA InterestStep ==
    ASSUME LInv, NEW a \in Process, MayCall(a), notifyInterest(a),
           UNCHANGED <<tree, connections, work, toServer, toClient, want>>
    PROVE  LInv' /\ (AckInv => AckInv')
<1>1. CASE a = Server
  <2>1. UNCHANGED watched
    BY <1>1 DEF notifyInterest, packets, watched
  <2> QED
    BY <2>1, StutterStep
<1>2. CASE a # Server
  <2>1. a \in connections /\ a \in Client
    BY <1>2 DEF MayCall, Process
  <2>2. PICK r : r = Request("NOTIFY", Root, {})
    OBVIOUS
  <2>3. r.op = "NOTIFY"
    BY <2>2 DEF Request
  <2>4. Post(a, r)
    BY <1>2, <2>2 DEF notifyInterest
  <2>5. Asked(a, r) /\ \A p : ~Touches(r, p)
    BY <2>3 DEF Asked, Touches
  <2>6. want' \in [Client -> [Path -> SUBSET Value]]
    BY DEF LInv, Shape
  <2> QED
    BY <2>1, <2>4, <2>5, <2>6, PostStep
<1> QED
  BY <1>1, <1>2

\* A client publishes a value, or withdraws what it has below a path.
LEMMA PublisherStep ==
    ASSUME LInv, NEW c \in Client, Publisher(c)
    PROVE  LInv' /\ (AckInv => AckInv')
<1>1. want \in [Client -> [Path -> SUBSET Value]]
  BY DEF LInv, Shape
<1>2. ASSUME doClientSync(c) PROVE LInv' /\ (AckInv => AckInv')
  <2>1. /\ c \in connections /\ Transmit(c)
        /\ UNCHANGED <<tree, connections, work, toClient, lastSentId, lastRecvId, want>>
    BY <1>2, LayerAssumption DEF doClientSync, Free, space, serverVars, history
  <2> QED
    BY <2>1, TransmitStep
<1>3. ASSUME NEW p \in Path, NEW v \in Value, setItem(c, p, v)
      PROVE  LInv' /\ (AckInv => AckInv')
  <2>1. PICK r : r = Request("ADD", p, {v})
    OBVIOUS
  <2>2. r.op = "ADD" /\ r.path = p /\ r.value = {v}
    BY <2>1 DEF Request
  <2>3. /\ c \in connections /\ Post(c, r)
        /\ want' = [want EXCEPT ![c][p] = {v}]
        /\ UNCHANGED <<tree, connections, work, toServer, toClient>>
    BY <1>3, <2>1, LayerAssumption DEF setItem, MayCall, space, serverVars, channels
  <2>4. Asked(c, r)
    BY <1>3, <2>2 DEF Asked, setItem
  <2>5. want' \in [Client -> [Path -> SUBSET Value]]
    BY <1>1, <2>3
  <2>6. \A q \in Path : want'[c][q] = IF Touches(r, q) THEN r.value ELSE want[c][q]
    BY <1>1, <2>2, <2>3 DEF Touches
  <2>7. \A b \in Client \ {c} : want'[b] = want[b]
    BY <1>1, <2>3
  <2> QED
    BY <2>3, <2>4, <2>5, <2>6, <2>7, PostStep
<1>4. ASSUME NEW p \in Path, remItems(c, p)
      PROVE  LInv' /\ (AckInv => AckInv')
  <2>1. PICK r : r = Request("REM", p, {})
    OBVIOUS
  <2>2. r.op = "REM" /\ r.path = p /\ r.value = {}
    BY <2>1 DEF Request
  <2>3. /\ c \in connections /\ Post(c, r)
        /\ want' = [want EXCEPT ![c] =
                       [q \in Path |-> IF p \in Prefixes(q) THEN {} ELSE want[c][q]]]
        /\ UNCHANGED <<tree, connections, work, toServer, toClient>>
    BY <1>4, <2>1, LayerAssumption DEF remItems, MayCall, space, serverVars, channels
  <2>4. Asked(c, r)
    BY <1>4, <2>2 DEF Asked, remItems
  <2>5. want' \in [Client -> [Path -> SUBSET Value]]
    <3>1. [q \in Path |-> IF p \in Prefixes(q) THEN {} ELSE want[c][q]]
             \in [Path -> SUBSET Value]
      BY <1>1
    <3> QED
      BY <1>1, <2>3, <3>1
  <2>6. \A q \in Path : want'[c][q] = IF Touches(r, q) THEN r.value ELSE want[c][q]
    BY <1>1, <2>2, <2>3 DEF Touches
  <2>7. \A b \in Client \ {c} : want'[b] = want[b]
    BY <1>1, <2>3
  <2> QED
    BY <2>3, <2>4, <2>5, <2>6, <2>7, PostStep
<1> QED
  BY <1>2, <1>3, <1>4 DEF Publisher

LEMMA SubscriberStep ==
    ASSUME LInv, NEW a \in Process, Subscriber(a)
    PROVE  LInv' /\ (AckInv => AckInv')
<1>1. ASSUME NEW p, item(a, p) PROVE LInv' /\ (AckInv => AckInv')
  <2>1. /\ MayCall(a) /\ notifyInterest(a)
        /\ UNCHANGED <<tree, connections, work, toServer, toClient, want>>
    BY <1>1 DEF item, space, serverVars, channels
  <2> QED
    BY <2>1, InterestStep
<1>2. ASSUME NEW p, removeHandle(a, p) PROVE LInv' /\ (AckInv => AckInv')
  <2>1. /\ MayCall(a) /\ notifyInterest(a)
        /\ UNCHANGED <<tree, connections, work, toServer, toClient, want>>
    BY <1>2 DEF removeHandle, space, serverVars, channels
  <2> QED
    BY <2>1, InterestStep
<1>3. ASSUME NEW p, ReadHandle(a, p) PROVE LInv' /\ (AckInv => AckInv')
  <2>1. UNCHANGED watched
    BY <1>3 DEF ReadHandle, space, serverVars, channels, packets, history, watched
  <2> QED
    BY <2>1, StutterStep
<1> QED
  BY <1>1, <1>2, <1>3 DEF Subscriber

LEMMA EmitStep ==
    ASSUME LInv, NEW a, Emit(a)
    PROVE  LInv' /\ (AckInv => AckInv')
<1>1. UNCHANGED watched
  <2>1. ASSUME NEW p, RefreshOne(a, p) PROVE UNCHANGED watched
    BY <2>1 DEF RefreshOne, space, serverVars, channels, packets, history, watched
  <2>2. ASSUME NEW p, RefreshBegin(a, p) PROVE UNCHANGED watched
    BY <2>2 DEF RefreshBegin, space, serverVars, channels, packets, history, watched
  <2>3. ASSUME NEW p, RefreshEnd(a, p) PROVE UNCHANGED watched
    BY <2>3 DEF RefreshEnd, space, serverVars, channels, packets, history, watched
  <2>4. ASSUME NEW p, EmitForced(a, p) PROVE UNCHANGED watched
    BY <2>4 DEF EmitForced, space, serverVars, channels, packets, history, watched
  <2>5. ASSUME EmitDone(a) PROVE UNCHANGED watched
    BY <2>5 DEF EmitDone, space, serverVars, channels, packets, history, watched
  <2> QED
    BY <2>1, <2>2, <2>3, <2>4, <2>5 DEF Emit
<1> QED
  BY <1>1, StutterStep

LEMMA ClientRunsStep ==
    ASSUME LInv, NEW c \in Client, ClientRuns(c)
    PROVE  LInv' /\ (AckInv => AckInv')
<1>1. c # Server
  BY LayerAssumption
<1>2. CASE Emit(c)
  BY <1>2, EmitStep
<1>3. CASE doClientTransmit(c)
  <2>1. /\ c \in connections /\ Transmit(c)
        /\ UNCHANGED <<tree, connections, work, toClient, lastSentId, lastRecvId, want>>
    BY <1>1, <1>3 DEF doClientTransmit, Free, space, serverVars, history
  <2> QED
    BY <2>1, TransmitStep
<1>4. CASE ReceiveSync(c)
  <2>1. c \in connections
    BY <1>1, <1>4 DEF ReceiveSync, Free
  <2> QED
    BY <1>4, <2>1, ReceiveStep
<1>5. CASE SyncReturn(c)
  <2>1. UNCHANGED watched
    BY <1>5 DEF SyncReturn, space, serverVars, channels, history, watched
  <2> QED
    BY <2>1, StutterStep
<1>6. ASSUME NEW p, ReadEnd(c, p) PROVE LInv' /\ (AckInv => AckInv')
  <2>1. UNCHANGED watched
    BY <1>6 DEF ReadEnd, space, serverVars, channels, packets, history, watched
  <2> QED
    BY <2>1, StutterStep
<1> QED
  BY <1>2, <1>3, <1>4, <1>5, <1>6 DEF ClientRuns, ClientStep

LEMMA LayerStep ==
    ASSUME LInv, [LayerNext]_lvars
    PROVE  LInv' /\ (AckInv /\ Ample => AckInv')
<1>1. CASE UNCHANGED lvars
  <2>1. UNCHANGED watched
    BY <1>1 DEF lvars, space, serverVars, channels, packets, history, watched
  <2> QED
    BY <2>1, StutterStep
<1>2. ASSUME NEW a \in Process, Subscriber(a) PROVE LInv' /\ (AckInv => AckInv')
  BY <1>2, SubscriberStep
<1>3. ASSUME NEW c \in Client, ClientRuns(c) \/ Publisher(c) \/ Disconnect(c)
      PROVE  LInv' /\ (AckInv => AckInv')
  BY <1>3, ClientRunsStep, PublisherStep, DisconnectStep
<1>4. CASE ServerRuns
  BY <1>4, EmitStep, HandleStep, FinishStep, TimerStep, FinishDisconnectStep, TakeStep
     DEF ServerRuns, ServerStep
<1>5. CASE ServerPublisher
  BY <1>5, ServerPublisherStep
<1> QED
  BY <1>1, <1>2, <1>3, <1>4, <1>5 DEF LayerNext

-----------------------------------------------------------------------------
(* The initial state, and the theorems.                                    *)

LEMMA OneQueue ==
    ASSUME NEW x
    PROVE  IsQueue(<<x>>) /\ DOMAIN <<x>> = {1} /\ <<x>>[1] = x
  BY DEF IsQueue

LEMMA LayerBegin ==
    ASSUME LayerInit
    PROVE  LInv /\ AckInv
<1>1. PICK r, pack : /\ r = Request("SUBINDEX", Root, {})
                     /\ pack = [id |-> 0, ops |-> <<r>>]
  OBVIOUS
<1>2. /\ r.op = "SUBINDEX" /\ pack.id = 0 /\ pack.ops = <<r>>
  BY <1>1 DEF Request
<1>3. /\ connections = Client /\ work = NoWork /\ tree = EmptyTree
      /\ \A c \in Client : /\ toServer[c] = <<pack>> /\ toClient[c] = <<>>
                           /\ todo[c] = <<>> /\ lastSentId[c] = 0 /\ lastRecvId[c] = 0
                           /\ want[c] = [p \in Path |-> {}]
      /\ want = [c \in Client |-> [p \in Path |-> {}]]
      /\ DOMAIN toServer = Client /\ DOMAIN toClient = Client /\ DOMAIN todo = Client
      /\ DOMAIN lastSentId = Client /\ DOMAIN lastRecvId = Client
  BY <1>1 DEF LayerInit, TreeInit
<1>4. \A c : Rest(c) = <<>> /\ Current(c) = {}
  BY <1>3 DEF Rest, Current, Working, NoWork
<1>5. IsQueue(<<pack>>) /\ DOMAIN <<pack>> = {1} /\ <<pack>>[1] = pack
  BY OneQueue
<1>6. IsQueue(<<r>>) /\ DOMAIN <<r>> = {1} /\ <<r>>[1] = r
  BY OneQueue
<1>7. TreeInv(tree, connections \cup {Server})
  <2>1. Owned(EmptyTree, connections \cup {Server})
    BY DEF Owned, EmptyTree
  <2> QED
    BY <1>3, <2>1, EmptyIsLinked, EmptyIsTyped DEF TreeInv
<1>8. Shape
  BY <1>3 DEF Shape, NoWork
<1>9. ASSUME NEW c \in connections PROVE Queued(c)
  <2>1. \A i \in DOMAIN <<pack>> :
           IsQueue(<<pack>>[i].ops) /\ AskedAll(c, <<pack>>[i].ops)
    BY <1>2, <1>5, <1>6 DEF AskedAll, Asked
  <2>2. QueuedAs(c, <<>>, <<pack>>, <<>>)
    BY <1>5, <2>1, EmptyQueue DEF QueuedAs, AskedAll
  <2> QED
    BY <1>3, <1>4, <2>2 DEF Queued
<1>10. ASSUME NEW c \in connections PROVE Numbered(c)
  <2>1. Later(pack, 0, <<>>)
    BY <1>2, <1>6 DEF Later, Plain
  <2>2. \A i \in DOMAIN <<pack>> :
           /\ <<pack>>[i].id \in 0 .. 0
           /\ Later(<<pack>>[i], 0, <<>>)
           /\ \A j \in DOMAIN <<pack>> : i < j => <<pack>>[i].id < <<pack>>[j].id
    BY <1>2, <1>5, <2>1
  <2>3. <<>> \in Seq(0 .. 0) /\ 0 \in Nat /\ 0 \in 0 .. 0
    OBVIOUS
  <2>4. NumberedAs(0, 0, <<>>, <<pack>>, <<>>, {})
    BY <2>2, <2>3 DEF NumberedAs
  <2> QED
    BY <1>3, <1>4, <2>4 DEF Numbered
<1>11. LInv
  BY <1>7, <1>8, <1>9, <1>10 DEF LInv
<1>12. Spacious(tree)
  <2>1. Roomy(EmptyTree)
    BY LayerAssumption, TreeAssumption DEF Roomy, EmptyTree
  <2>2. Cardinality({Root}) = 1
    BY FS_Singleton
  <2>3. EmptyTree.live = {Root} /\ EmptyTree.free = MaxEntries
    BY DEF EmptyTree
  <2>4. Full(EmptyTree)
    BY <2>2, <2>3, TreeAssumption DEF Full
  <2> QED
    BY <1>3, <2>1, <2>4 DEF Spacious
<1>13. ASSUME NEW c \in connections, NEW p \in Path PROVE Underway(c, p)
  <2>1. Values(tree, c, p) = {}
    <3>1. tree.data[p] = <<>>
      BY <1>3 DEF EmptyTree, Node
    <3> QED
      BY <3>1, ValuesFacts
  <2>2. AllUntouched(<<pack>>, p)
    BY <1>2, <1>5, <1>6 DEF AllUntouched, Untouched, Touches
  <2>3. want[c][p] = {}
    BY <1>3
  <2> QED
    BY <1>3, <1>4, <2>1, <2>2, <2>3, NoneIn DEF Underway, UnderwayAs
<1> QED
  BY <1>11, <1>12, <1>13 DEF AckInv

LEMMA LayerInvariant == LayerSpec => []LInv
<1>1. LayerInit => LInv
  BY LayerBegin
<1>2. LInv /\ [LayerNext]_lvars => LInv'
  BY LayerStep
<1> QED
  BY <1>1, <1>2, PTL DEF LayerSpec

\* The values of a client that has disconnected are gone from the tree, and
\* nothing that it sent before, and nothing that anybody does later, puts one
\* there in its name: whatever is stored belongs to a process that is there.
THEOREM TheGoneOwnNothing == LayerSpec => []GoneOwnsNothing
<1>1. LInv => GoneOwnsNothing
  <2> SUFFICES ASSUME LInv, NEW c \in Client \ connections, NEW p \in Path
               PROVE  DataOf(c, p) = {}
    BY DEF GoneOwnsNothing
  <2>1. DataOf(c, p) = Values(tree, c, p)
    BY DEF DataOf, Values
  <2>2. CASE tree.data[p] = <<>>
    BY <2>1, <2>2, ValuesFacts
  <2>3. CASE tree.data[p] # <<>>
    <3>1. p \in Node
      BY DEF Node
    <3>2. PICK a \in connections \cup {Server}, v \in Value :
             tree.data[p] = <<[owner |-> OwnerOf(a), value |-> v]>>
      BY <2>3, <3>1 DEF LInv, TreeInv, Owned
    <3>3. a # c
      BY LayerAssumption
    <3>4. Values(tree, c, p) = IF a = c THEN {v} ELSE {}
      BY <3>2, ValuesFacts
    <3> QED
      BY <2>1, <3>3, <3>4
  <2> QED
    BY <2>2, <2>3
<1> QED
  BY <1>1, LayerInvariant, PTL

\* sync() means what it says: when the last packet of a client is acknowledged
\* the tree holds what the client has published and nothing it has withdrawn.
\* That needs room: a version table that is large enough for every path, and no
\* value at an intermediate node of another.
THEOREM TheAckedIsApplied ==
    ASSUME Ample
    PROVE  LayerSpec => []AckedIsApplied
<1>1. LayerInit => LInv /\ AckInv
  BY LayerBegin
<1>2. (LInv /\ AckInv) /\ [LayerNext]_lvars => (LInv /\ AckInv)'
  BY LayerStep, Ample
<1>3. LInv /\ AckInv => AckedIsApplied
  <2> SUFFICES ASSUME AckInv, NEW c \in connections, lastRecvId[c] = lastSentId[c],
                      NEW p \in Path
               PROVE  DataOf(c, p) = want[c][p]
    BY DEF AckedIsApplied
  <2>1. DataOf(c, p) = Values(tree, c, p)
    BY DEF DataOf, Values
  <2>2. UnderwayAs(p, todo[c], toServer[c], Rest(c), Values(tree, c, p), want[c][p])
    BY DEF AckInv, Underway
  <2>3. NumberedAs(lastRecvId[c], lastRecvId[c], toClient[c], toServer[c], todo[c],
                   Current(c))
    BY DEF AckInv, LInv, Numbered
  <2>4. Rest(c) # <<>> => \E u \in Current(c) : u.ops = Rest(c)
    BY DEF Rest, Current
  <2>5. PICK now, after : now = Values(tree, c, p) /\ after = want[c][p]
    OBVIOUS
  <2>6. UnderwayAs(p, todo[c], toServer[c], Rest(c), now, after)
    BY <2>2, <2>5
  <2>7. now = after
    BY <2>3, <2>4, <2>6, AckedStored
  <2> QED
    BY <2>1, <2>5, <2>7
<1> QED
  BY <1>1, <1>2, <1>3, PTL DEF LayerSpec

(***************************************************************************)
(* III.  Subscribers are told.                                             *)
(***************************************************************************)

-----------------------------------------------------------------------------
(* The inductive invariant: what the subscriber of a handle has been told, *)
(* and who will tell it the rest.                                          *)

\* No bit of an attached bitmap is ever between two nodes, and only clients
\* change what those who have one are told of.
Announced ==
    /\ Preemptible \cap Indexed = {}
    /\ (\A x \in Publish \cup Withdraw : x[1] # Server) \/ Indexed = {}

Present == connections \cup {Server}

IsHandle(h) ==
    /\ h = [node |-> h.node, whole |-> h.whole, version |-> h.version,
            creation |-> h.creation, force |-> h.force, counted |-> h.counted,
            told |-> h.told]
    /\ h.whole \in BOOLEAN /\ h.force \in BOOLEAN /\ h.counted \in BOOLEAN

\* The handle points to the node as it is now.
Fresh(h) == Alive(h) /\ h.version = version[h.node]

Sound(h, p) ==
    /\ IsHandle(h)
    /\ h.node \in Prefixes(p) /\ h.whole = (h.node = p)
    /\ h.version \in 0 .. tick /\ h.creation \in 0 .. tick
    /\ Fresh(h) => h.node = Closest(p)

\* handleChanged will be emitted for it, whatever becomes of the node.
Pledged(a, h) == h.force \/ (~h.counted /\ half[a] = "changed")

Nothing(p) == [q \in {r \in Path : p \in Prefixes(r)} |-> {}]

Knows(a, h, p) ==
    /\ Fresh(h) /\ h.whole => h.told = Content(p) \/ Pledged(a, h)
    /\ ~h.whole => h.told = Nothing(p) \/ Pledged(a, h)

\* doClientEmit has still to come to it: it is not past it with a preempted
\* refresh.
Due(a, h, p) ==
    emitting[a] /\ p \in toEmit[a] /\ (h.counted \/ half[a] \notin {"changed", "same"})

\* doClientEmit will be called: the process has a notice, or the server will
\* find a bit of it that is set.
Noted(a, h, p) ==
    a \in Indexed => h.node \in changedNodes /\ Closest(p) \in changedNodes

Coming(a, h, p) ==
    \/ a # Server /\ toClient[a] # <<>>
    \/ work.kind = "gone" /\ work.changed
    \/ work.kind = "packet" /\ work.changed /\ Noted(a, h, p)
    \/ timers > 0 /\ a \notin Indexed

Owed(a, h, p) ==
    /\ ~Fresh(h) => Due(a, h, p) \/ Coming(a, h, p)
    /\ h.force => emitting[a] \/ Coming(a, h, p)

Held(a, h) ==
    /\ ~h.counted => a \in Preemptible /\ half[a] # "no"
    /\ ~h.counted /\ half[a] = "same" => ~h.force

HandleInv(a, h, p) == Sound(h, p) /\ Knows(a, h, p) /\ Owed(a, h, p) /\ Held(a, h)

Forced(hs) == {p \in DOMAIN hs : hs[p].force}

EmitShape ==
    /\ DOMAIN handles = Process /\ DOMAIN toEmit = Process
    /\ DOMAIN emitting = Process /\ DOMAIN half = Process
    /\ forceChangeCount \in [Process -> Nat]
    /\ tick \in Nat /\ timers \in Nat
    /\ version \in [Node -> 0 .. tick] /\ creation \in [Node -> 0 .. tick]
    /\ index \subseteq Indexed
    /\ work.changed \in BOOLEAN
    /\ \A q \in Node : tree.watches[q] = <<>>

\* What is true of one process: its slots are called once for every handle that
\* is to be announced, and it is in the middle of one refresh at most.
ProcessInv(a) ==
    /\ DOMAIN handles[a] \subseteq Path
    /\ toEmit[a] # {} => emitting[a]
    /\ Cardinality(Forced(handles[a])) <= forceChangeCount[a]
    /\ \A p, q \in DOMAIN handles[a] :
          ~handles[a][p].counted /\ ~handles[a][q].counted => p = q
    /\ \A p \in DOMAIN handles[a] : HandleInv(a, handles[a][p], p)

TellInv ==
    /\ EmitShape
    /\ \A a \in Process \ Present : handles[a] = <<>>
    /\ \A a \in Present : ProcessInv(a)

-----------------------------------------------------------------------------
(* What a call on the tree reports.                                        *)

NoWatches(t) == \A q \in Node : t.watches[q] = <<>>

\* Whatever can be seen of the step from t to s has been bumped.
Reported(t, s) ==
    /\ s.bumped # {} => s.rv
    /\ s.live \ t.live \subseteq s.bumped /\ t.live \ s.live \subseteq s.bumped
    /\ Versioned(t, s)
    /\ \A q \in Node : s.data[q] # t.data[q] => Prefixes(q) \cap t.live \subseteq s.bumped
    /\ NoWatches(s)

LEMMA InsertedReported ==
    ASSUME NEW t, NEW there \in SUBSET Process, TreeInv(t, there), NoWatches(t),
           NEW a \in there, NEW p \in Node, NEW v \in Value, <<a, p>> \in Publish,
           NEW s, Inserts(s, t, p, a, v)
    PROVE  Reported(t, s)
<1> DEFINE d == [owner |-> OwnerOf(a), value |-> v]
<1>1. Linked(t) /\ Typed(t) /\ Owned(t, there) /\ s = Inserted(t, p, d)
  BY DEF TreeInv, Inserts
<1>2. Versioned(t, s)
  BY <1>1, InsertedStep
<1>3. CASE p \in t.live
  <2>1. /\ s.live = t.live /\ \A q \in Node \ {p} : s.data[q] = t.data[q]
        /\ s.bumped = {p} \cup Ancestors(p) /\ s.rv /\ s.watches = t.watches
    BY <1>1, <1>3, SetOwned
  <2>2. Prefixes(p) \subseteq s.bumped
    BY <2>1 DEF Ancestors
  <2> QED
    BY <1>2, <2>1, <2>2 DEF Reported, NoWatches
<1>4. CASE p \notin t.live
  <2> DEFINE g == Grow(t, p)
  <2>1. /\ Linked(g) /\ t.live \subseteq g.live /\ g.live \ t.live \subseteq g.bumped
        /\ g.bumped # {} => g.rv
        /\ p \in g.live \ t.live => Prefixes(p) \cap t.live \subseteq g.bumped
        /\ g.watches = t.watches
    BY <1>1, GrowStep
  <2>2. s = IF p \in g.live THEN [g EXCEPT !.data[p] = <<d>>, !.room = @ \cup {p}] ELSE g
    BY <1>1, <1>4 DEF Inserted
  <2>3. g.data = t.data
    BY <1>1, GrowTyped
  <2>4. /\ g = [live |-> g.live, data |-> g.data, watches |-> g.watches,
                room |-> g.room, free |-> g.free, bumped |-> g.bumped, rv |-> g.rv]
        /\ g.data = [q \in Node |-> g.data[q]]
    BY <2>1 DEF Linked, IsTree
  <2> HIDE DEF g, d
  <2>5. CASE p \notin g.live
    <3>1. s = g
      BY <2>2, <2>5
    <3> QED
      BY <1>2, <2>1, <2>3, <3>1 DEF Reported, NoWatches
  <2>6. CASE p \in g.live
    <3> DEFINE g1 == [g EXCEPT !.data[p] = <<d>>]
    <3>1. g1 = [live |-> g.live, data |-> [g.data EXCEPT ![p] = <<d>>],
                watches |-> g.watches, room |-> g.room,
                free |-> g.free, bumped |-> g.bumped, rv |-> g.rv]
      BY <2>4
    <3>2. s = [g1 EXCEPT !.room = @ \cup {p}]
      BY <2>2, <2>6
    <3> HIDE DEF g1
    <3>3. /\ s.live = g.live /\ s.bumped = g.bumped /\ s.watches = g.watches
          /\ s.data = [g.data EXCEPT ![p] = <<d>>]
      BY <3>1, <3>2
    <3>4. s.rv = g.rv
      BY <3>1, <3>2
    <3>5. g.rv => s.rv
      BY <3>4
    <3>6. \A q \in Node \ {p} : s.data[q] = t.data[q]
      BY <2>3, <2>4, <3>3
    <3> QED
      BY <1>2, <1>4, <2>1, <2>6, <3>3, <3>5, <3>6 DEF Reported, NoWatches
  <2> QED
    BY <2>5, <2>6
<1> QED
  BY <1>3, <1>4

LEMMA WatchesLeftOfNone ==
    ASSUME NEW who PROVE WatchesLeft(<<>>, who) = <<>>
<1>1. <<>> \in Seq(Watcher) /\ DOMAIN <<>> = {}
  OBVIOUS
<1>2. \A K : K \subseteq DOMAIN <<>> => K = {}
  BY <1>1
<1>3. Kept(<<>>, {}) = <<>>
  <2>1. {} \in SUBSET DOMAIN <<>>
    OBVIOUS
  <2> QED
    BY <1>1, <2>1, KeptIsSeq
<1> QED
  BY <1>2, <1>3 DEF WatchesLeft

\* What is published is a leaf among what is published, so that a node that
\* loses its value goes.
LEMMA RemovedReported ==
    ASSUME NEW t, NEW there \in SUBSET Process, TreeInv(t, there), NoWatches(t), Ample,
           NEW p \in Node, NEW who, NEW s, Removes(s, t, p, who)
    PROVE  Reported(t, s)
<1>1. Linked(t) /\ Typed(t) /\ Owned(t, there) /\ s = Removed(t, p, who)
  BY DEF TreeInv, Removes
<1>2. Versioned(t, s)
  BY <1>1, RemovedStep
<1>3. t = [live |-> t.live, data |-> t.data, watches |-> t.watches,
           room |-> t.room, free |-> t.free, bumped |-> t.bumped, rv |-> t.rv]
      /\ t.live \subseteq Node
  BY <1>1 DEF Linked, IsTree
<1>4. CASE p \notin t.live
  <2>1. s = [t EXCEPT !.bumped = {}, !.rv = FALSE]
    BY <1>1, <1>4 DEF Removed
  <2>2. s.live = t.live /\ s.data = t.data /\ s.watches = t.watches /\ s.bumped = {}
    BY <1>3, <2>1
  <2> QED
    BY <1>2, <2>2 DEF Reported, NoWatches
<1>5. CASE p \in t.live
  <2> DEFINE sub == Subtree(t, p)
             data == [q \in Node |-> IF q \in sub THEN DataLeft(t.data[q], who)
                                     ELSE t.data[q]]
             watches == [q \in Node |-> IF q \in sub
                                        THEN WatchesLeft(t.watches[q], who)
                                        ELSE t.watches[q]]
             gone == {q \in sub \ {Root} :
                         \A r \in Subtree(t, q) : data[r] = <<>> /\ watches[r] = <<>>}
             inlined == {q \in sub : Len(t.data[q]) > 1 /\ Len(data[q]) = 1}
             u == RemoveSubtree(t, p, who)
  <2>1. u = [live |-> t.live \ gone, data |-> data, watches |-> watches,
             room |-> t.room \ gone, free |-> t.free + Cardinality(gone),
             bumped |-> inlined \cup {q \in sub : \E g \in gone : q \in Prefixes(g)},
             rv |-> gone # {}]
    BY Zenon DEF RemoveSubtree
  <2>2. Linked(u)
    BY <1>1, RemoveSubtreeStep
  <2>3. s = IF u.rv THEN Climb(u, p) ELSE u
    BY <1>1, <1>5 DEF Removed
  <2>4. inlined = {}
    <3>1. ASSUME NEW q \in Node PROVE ~(Len(t.data[q]) > 1)
      <4>1. CASE t.data[q] = <<>>
        BY <4>1
      <4>2. CASE t.data[q] # <<>>
        <5>1. PICK b \in there, w \in Value :
                 t.data[q] = <<[owner |-> OwnerOf(b), value |-> w]>>
          BY <1>1, <4>2 DEF Owned
        <5>2. Len(t.data[q]) = 1
          BY <5>1
        <5> QED
          BY <5>2
      <4> QED
        BY <4>1, <4>2
    <3>2. sub \subseteq Node
      BY <1>3 DEF Subtree
    <3> QED
      BY <3>1, <3>2
  <2>5. \A q \in Node : watches[q] = <<>>
    BY WatchesLeftOfNone DEF NoWatches
  <2>6. ASSUME NEW q \in Node, data[q] # t.data[q] PROVE q \in gone
    <3>1. q \in sub /\ q \in t.live /\ p \in Prefixes(q)
      BY <2>6 DEF Subtree
    <3>2. t.data[q] # <<>>
      BY <2>6, <3>1, DataLeftOfNone
    <3>3. PICK b \in there, w \in Value :
             <<b, q>> \in Publish /\ t.data[q] = <<[owner |-> OwnerOf(b), value |-> w]>>
      BY <1>1, <3>2 DEF Owned
    <3>4. q \in Path /\ q # Root
      BY <3>3, LayerAssumption, TreeAssumption
    <3>5. data[q] = <<>>
      <4> DEFINE d == [owner |-> OwnerOf(b), value |-> w]
      <4>1. d \in Datum
        BY OwnedDatum
      <4> HIDE DEF d
      <4>2. t.data[q] = <<d>>
        BY <3>3 DEF d
      <4>3. DataLeft(<<d>>, who) \in {<<>>, <<d>>}
        BY <4>1, DataLeftOfOne
      <4>4. data[q] = DataLeft(<<d>>, who)
        BY <3>1, <4>2
      <4> HIDE DEF data
      <4> QED
        BY <2>6, <4>2, <4>3, <4>4
    <3>6. ASSUME NEW r \in Subtree(t, q), r # q PROVE data[r] = <<>>
      <4>1. r \in Node /\ q \in Prefixes(r) /\ r \in t.live
        BY <1>3 DEF Subtree
      <4>2. t.data[r] = <<>>
        <5>1. SUFFICES ASSUME t.data[r] # <<>> PROVE FALSE
          OBVIOUS
        <5>2. PICK c \in there, x \in Value : <<c, r>> \in Publish
          BY <1>1, <4>1, <5>1 DEF Owned
        <5>3. <<b, q>>[2] = q /\ <<c, r>>[2] = r
          OBVIOUS
        <5>4. q = r
          BY <3>3, <4>1, <5>2, <5>3 DEF Ample
        <5> QED
          BY <3>6, <5>4
      <4>3. data[r] = IF r \in sub THEN DataLeft(t.data[r], who) ELSE t.data[r]
        BY <4>1
      <4> HIDE DEF data
      <4> QED
        BY <4>2, <4>3, DataLeftOfNone
    <3>7. \A r \in Subtree(t, q) : watches[r] = <<>>
      BY <1>3, <2>5 DEF Subtree
    <3> HIDE DEF data, watches
    <3> QED
      BY <3>1, <3>4, <3>5, <3>6, <3>7
  <2>7. gone \subseteq sub /\ sub \subseteq t.live /\ \A q \in gone : q \in Prefixes(q)
    <3>1. \A q \in Node : q \in Prefixes(q)
      BY PrefixFacts
    <3> QED
      BY <1>3, <3>1 DEF Subtree
  <2> HIDE DEF data, watches, gone, inlined, u
  <2>8. /\ u.live = t.live \ gone /\ u.data = data /\ u.watches = watches
        /\ u.bumped = {q \in sub : \E g \in gone : q \in Prefixes(g)}
        /\ u.rv <=> gone # {}
    BY <2>1, <2>4
  <2>9. CASE ~u.rv
    <3>1. s = u /\ gone = {} /\ u.bumped = {}
      BY <2>3, <2>8, <2>9
    <3> QED
      BY <1>2, <2>5, <2>6, <2>8, <3>1 DEF Reported, NoWatches
  <2>10. CASE u.rv
    <3> DEFINE bare == {a \in Ancestors(p) \ {Root} :
                           \A r \in Subtree(u, a) : r \in Ancestors(p) /\ Bare(u, r)}
    <3>1. s = [u EXCEPT !.live = @ \ bare, !.room = @ \ bare,
                        !.bumped = @ \cup Ancestors(p)]
      BY <2>3, <2>10, Zenon DEF Climb
    <3>2. u = [live |-> u.live, data |-> u.data, watches |-> u.watches,
               room |-> u.room, free |-> u.free, bumped |-> u.bumped, rv |-> u.rv]
      BY <2>2 DEF Linked, IsTree
    <3>3. bare \subseteq Ancestors(p)
      OBVIOUS
    <3> HIDE DEF bare
    <3>4. /\ s.live = u.live \ bare /\ s.data = u.data /\ s.watches = u.watches
          /\ s.bumped = u.bumped \cup Ancestors(p)
      BY <3>1, <3>2
    <3>5. s.rv = u.rv
      BY <3>1, <3>2
    <3>6. s.rv
      BY <2>10, <3>5
    <3>7. ASSUME NEW q \in gone, NEW x \in Prefixes(q) \cap t.live PROVE x \in s.bumped
      <4>1. q \in Node /\ p \in Prefixes(q) /\ x \in Node
        BY <1>3, <2>7 DEF Subtree
      <4>2. CASE x \in sub
        BY <2>8, <3>4, <4>2
      <4>3. CASE x \notin sub
        <5>1. p \notin Prefixes(x)
          BY <4>3 DEF Subtree
        <5>2. Len(x) \in Nat /\ Len(p) \in Nat /\ p \in Prefixes(p)
          BY <4>1, PrefixFacts
        <5>3. x \in Prefixes(p)
          <6>1. CASE Len(p) <= Len(x)
            BY <4>1, <5>1, <6>1, PrefixFacts
          <6>2. CASE Len(x) <= Len(p)
            BY <4>1, <6>2, PrefixFacts
          <6> QED
            BY <5>2, <6>1, <6>2
        <5>4. x # p
          BY <5>1, <5>2
        <5> QED
          BY <3>4, <5>3, <5>4 DEF Ancestors
      <4> QED
        BY <4>2, <4>3
    <3>8. t.live \ s.live \subseteq s.bumped
      BY <2>7, <2>8, <3>3, <3>4
    <3> QED
      BY <1>2, <2>5, <2>6, <2>8, <3>4, <3>6, <3>7, <3>8 DEF Reported, NoWatches
  <2> QED
    BY <2>9, <2>10
<1> QED
  BY <1>4, <1>5

-----------------------------------------------------------------------------
(* The node to which a handle points, and what is seen from there.         *)

\* findClosest, of any set of nodes.
Nearest(live, p) == CHOOSE n \in Prefixes(p) \cap live :
                        \A m \in Prefixes(p) \cap live : Len(m) <= Len(n)

IsNearest(n, live, p) ==
    /\ n \in Prefixes(p) \cap live
    /\ \A m \in Prefixes(p) \cap live : Len(m) <= Len(n) /\ m \in Prefixes(n)

LEMMA NearestIs ==
    ASSUME NEW live, Root \in live, NEW p \in Node
    PROVE  IsNearest(Nearest(live, p), live, p)
<1> DEFINE D == {Len(p) - Len(m) : m \in Prefixes(p) \cap live}
           R == OpToRel(<, Nat)
<1>1. /\ Len(p) \in Nat /\ Root \in Prefixes(p)
      /\ \A m \in Prefixes(p) : m \in Node /\ Len(m) \in Nat /\ Len(m) <= Len(p)
  BY PrefixFacts
<1>2. D \in SUBSET Nat /\ D # {}
  BY <1>1
<1>3. \A x, y \in Nat : x < y => <<x, y>> \in R
  BY DEF OpToRel
<1>4. IsWellFoundedOn(R, Nat)
  BY NatLessThanWellFounded
<1> HIDE DEF R
<1>5. PICK k \in D : \A j \in D : ~ (<<j, k>> \in R)
  BY <1>2, <1>4, WFMin
<1>6. PICK n \in Prefixes(p) \cap live : k = Len(p) - Len(n)
  BY <1>5
<1>7. ASSUME NEW m \in Prefixes(p) \cap live PROVE Len(m) <= Len(n)
  <2>1. PICK j \in D : j = Len(p) - Len(m)
    OBVIOUS
  <2>2. j \in Nat /\ k \in Nat
    BY <1>2, <1>5, <2>1
  <2>3. ~ (j < k)
    BY <1>3, <1>5, <2>2
  <2> QED
    BY <1>1, <1>6, <2>1, <2>2, <2>3
<1>8. PICK x : x = Nearest(live, p)
  OBVIOUS
<1>9. x \in Prefixes(p) \cap live /\ \A m \in Prefixes(p) \cap live : Len(m) <= Len(x)
  BY <1>7, <1>8 DEF Nearest
<1>10. \A m \in Prefixes(p) \cap live : m \in Prefixes(x)
  BY <1>9, PrefixFacts
<1> QED
  BY <1>8, <1>9, <1>10 DEF IsNearest

\* Another node is the closest one only after a new version of the one that
\* was, and the one that is has a new version too.
LEMMA NearestMoves ==
    ASSUME NEW t, NEW s, Linked(t), Linked(s), Reported(t, s), NEW p \in Node,
           NEW m, m = Nearest(t.live, p), NEW n, n = Nearest(s.live, p), n # m
    PROVE  m \in s.bumped /\ n \in s.bumped
<1>1. IsNearest(m, t.live, p) /\ IsNearest(n, s.live, p)
  BY NearestIs DEF Linked, Closed
<1>2. /\ m \in t.live /\ n \in s.live /\ m \in Node /\ n \in Node
      /\ m \in Prefixes(p) /\ n \in Prefixes(p)
  BY <1>1, PrefixFacts DEF IsNearest
<1>3. n \in Prefixes(n) /\ m \in Prefixes(m)
  BY <1>2, PrefixFacts
<1>4. n \in t.live => m \notin s.live
  <2>1. SUFFICES ASSUME n \in t.live, m \in s.live PROVE FALSE
    OBVIOUS
  <2>2. n \in Prefixes(m) /\ m \in Prefixes(n)
    BY <1>1, <1>2, <2>1 DEF IsNearest
  <2>3. Len(n) <= Len(m) /\ Len(m) <= Len(n) /\ Len(n) \in Nat /\ Len(m) \in Nat
    BY <1>2, <2>2, PrefixFacts
  <2> QED
    BY <1>2, <2>2, <2>3, PrefixFacts
<1>5. m \in s.bumped
  <2>1. CASE m \notin s.live
    BY <1>2, <2>1 DEF Reported
  <2>2. CASE m \in s.live
    <3>1. n \notin t.live /\ m \in Prefixes(n)
      BY <1>1, <1>2, <1>4, <2>2 DEF IsNearest
    <3>2. n \in Subtree(s, m) /\ n \notin Subtree(t, m)
      BY <1>2, <3>1 DEF Subtree
    <3> QED
      BY <1>2, <2>2, <3>2 DEF Reported, Versioned
  <2> QED
    BY <2>1, <2>2
<1>6. n \in s.bumped
  <2>1. CASE n \notin t.live
    BY <1>2, <2>1 DEF Reported
  <2>2. CASE n \in t.live
    <3>1. m \notin s.live /\ n \in Prefixes(m)
      BY <1>1, <1>2, <1>4, <2>2 DEF IsNearest
    <3>2. m \in Subtree(t, n) /\ m \notin Subtree(s, n)
      BY <1>2, <3>1 DEF Subtree
    <3> QED
      BY <1>2, <2>2, <3>2 DEF Reported, Versioned
  <2> QED
    BY <2>1, <2>2
<1> QED
  BY <1>5, <1>6

\* What is seen from p in the tree t.
Seen(t, p) == [q \in {r \in Path : p \in Prefixes(r)} |-> Default(t, q)]

LEMMA SeenKept ==
    ASSUME NEW t, NEW s, Reported(t, s), NEW p \in t.live, p \notin s.bumped
    PROVE  Seen(s, p) = Seen(t, p)
<1>1. ASSUME NEW q \in Path, p \in Prefixes(q) PROVE Default(s, q) = Default(t, q)
  <2>1. s.data[q] = t.data[q]
    BY <1>1 DEF Reported, Node
  <2> QED
    BY <2>1 DEF Default
<1> QED
  BY <1>1 DEF Seen

LEMMA NothingSeen ==
    ASSUME NEW t, Linked(t), NEW p \in Node, p \notin t.live
    PROVE  Seen(t, p) = Nothing(p)
<1>1. ASSUME NEW q \in Path, p \in Prefixes(q) PROVE Default(t, q) = {}
  <2>1. q \notin t.live
    BY <1>1 DEF Linked, Closed
  <2>2. t.data[q] = <<>>
    BY <2>1 DEF Linked, Carried, Bare, Node
  <2> QED
    BY <2>2 DEF Default
<1> QED
  BY <1>1 DEF Seen, Nothing

\* The tree after a call, with what the call has reported written down.
LEMMA StoredHandle ==
    ASSUME NEW t, Linked(tree), Linked(t), Reported(tree, t), Store(t), EmitShape,
           NEW p \in Node, NEW h, Sound(h, p)
    PROVE  /\ tick' \in Nat
           /\ version' \in [Node -> 0 .. tick']
           /\ creation' \in [Node -> 0 .. tick']
           /\ Sound(h, p)'
           /\ Fresh(h)' => Fresh(h) /\ h.node \notin t.bumped
           /\ Fresh(h) /\ ~Fresh(h)' =>
                 t.rv /\ h.node \in changedNodes' /\ Closest(p)' \in changedNodes'
           /\ Fresh(h)' /\ h.whole => Content(p)' = Content(p)
           /\ \A a : Noted(a, h, p) => Noted(a, h, p)'
<1> DEFINE now == IF t.bumped = {} THEN tick ELSE tick + 1
<1>1. /\ tree' = [t EXCEPT !.bumped = {}, !.rv = FALSE]
      /\ version' = [n \in Node |-> IF n \in t.bumped THEN now ELSE version[n]]
      /\ creation' = [n \in Node |-> IF n \in t.live \ tree.live THEN now ELSE creation[n]]
      /\ tick' = now
      /\ changedNodes' = changedNodes \cup t.bumped
  BY DEF Store
<1>2. tree'.live = t.live /\ tree'.data = t.data
  BY <1>1 DEF Linked, IsTree
<1>3. /\ tick \in Nat /\ version \in [Node -> 0 .. tick]
      /\ creation \in [Node -> 0 .. tick]
  BY DEF EmitShape
<1>4. now \in Nat /\ tick <= now /\ (t.bumped # {} => tick < now)
  BY <1>3
<1>5. t.live \ tree.live \subseteq t.bumped /\ tree.live \ t.live \subseteq t.bumped
  BY DEF Reported
<1> HIDE DEF now
<1>6. PICK x : x = h.node
  OBVIOUS
<1>7. /\ x \in Prefixes(p) /\ x \in Node /\ h.version \in 0 .. tick
      /\ h.creation \in 0 .. tick /\ (Fresh(h) => x = Closest(p))
      /\ IsHandle(h) /\ h.whole = (x = p)
  BY <1>6, PrefixFacts DEF Sound
<1>8. /\ Fresh(h) <=> x \in tree.live /\ creation[x] = h.creation /\ h.version = version[x]
      /\ Fresh(h)' <=> x \in t.live /\ creation'[x] = h.creation /\ h.version = version'[x]
  BY <1>2, <1>6 DEF Fresh, Alive
<1>9. Fresh(h)' => Fresh(h) /\ x \notin t.bumped
  <2> SUFFICES ASSUME Fresh(h)' PROVE Fresh(h) /\ x \notin t.bumped
    OBVIOUS
  <2>1. x \notin t.bumped
    <3> SUFFICES ASSUME x \in t.bumped PROVE FALSE
      OBVIOUS
    <3>1. version'[x] = now /\ tick < now
      BY <1>1, <1>4, <1>7
    <3> QED
      BY <1>3, <1>4, <1>7, <1>8, <3>1
  <2>2. version'[x] = version[x] /\ x \in tree.live /\ creation'[x] = creation[x]
    BY <1>1, <1>5, <1>7, <1>8, <2>1
  <2> QED
    BY <1>8, <2>1, <2>2
<1>10. Fresh(h) /\ x \notin t.bumped => Fresh(h)'
  BY <1>1, <1>5, <1>7, <1>8
<1>11. Closest(p) = Nearest(tree.live, p) /\ Closest(p)' = Nearest(t.live, p)
  BY <1>2 DEF Closest, Nearest
<1>12. PICK m, n : m = Closest(p) /\ n = Closest(p)'
  OBVIOUS
<1>13. n # m => m \in t.bumped /\ n \in t.bumped
  BY <1>11, <1>12, NearestMoves
<1>14. Sound(h, p)'
  <2>1. tick' = now
    BY <1>1
  <2>2. h.version \in 0 .. now /\ h.creation \in 0 .. now
    BY <1>3, <1>4, <1>7
  <2>3. Fresh(h)' => x = n
    BY <1>7, <1>9, <1>12, <1>13
  <2> QED
    BY <1>6, <1>7, <1>12, <2>1, <2>2, <2>3 DEF Sound
<1>15. Fresh(h) /\ ~Fresh(h)' =>
          t.rv /\ x \in changedNodes' /\ n \in changedNodes'
  <2> SUFFICES ASSUME Fresh(h), ~Fresh(h)'
               PROVE  t.rv /\ x \in changedNodes' /\ n \in changedNodes'
    OBVIOUS
  <2>1. x \in t.bumped /\ x = m
    BY <1>7, <1>10, <1>12
  <2>2. t.rv
    BY <2>1 DEF Reported
  <2> QED
    BY <1>1, <1>13, <2>1, <2>2
<1>16. ASSUME Fresh(h)', h.whole PROVE Content(p)' = Content(p)
  <2>1. p \in tree.live /\ p \notin t.bumped
    BY <1>6, <1>7, <1>8, <1>9, <1>16
  <2>2. Seen(t, p) = Seen(tree, p)
    BY <2>1, SeenKept
  <2>3. Content(p) = Seen(tree, p)
    BY DEF Content, Seen
  <2>4. Content(p)' = Seen(t, p)
    BY <1>2 DEF Content, Seen, Default
  <2> QED
    BY <2>2, <2>3, <2>4
<1>17. ASSUME NEW a, Noted(a, h, p) PROVE Noted(a, h, p)'
  BY <1>1, <1>6, <1>12, <1>13, <1>17 DEF Noted
<1>18. /\ tick' \in Nat /\ version' \in [Node -> 0 .. tick']
       /\ creation' \in [Node -> 0 .. tick']
  <2>1. \A k \in 0 .. tick : k \in 0 .. now
    BY <1>3, <1>4
  <2>2. now \in 0 .. now
    BY <1>4
  <2>3. version' \in [Node -> 0 .. now] /\ creation' \in [Node -> 0 .. now]
    BY <1>1, <1>3, <2>1, <2>2
  <2> QED
    BY <1>1, <1>4, <2>3
<1> QED
  BY <1>6, <1>9, <1>12, <1>14, <1>15, <1>16, <1>17, <1>18

-----------------------------------------------------------------------------
(* refreshHandle, and what emission makes of a handle.                     *)

\* A handle in its place, with the rest of it changed.
With(h, force, counted, told) ==
    [node |-> h.node, whole |-> h.whole, version |-> h.version,
     creation |-> h.creation, force |-> force, counted |-> counted, told |-> told]

\* What handleChanged shows.
Shown(h, p) == IF h.whole /\ Alive(h) THEN Content(p) ELSE Nothing(p)

InPlaceOf(g, h) ==
    /\ IsHandle(g)
    /\ g.node = h.node /\ g.version = h.version /\ g.creation = h.creation
    /\ g.whole = h.whole

Changed(g, force, counted, told) ==
    (g.force <=> force) /\ (g.counted <=> counted) /\ g.told = told

LEMMA InPlace ==
    ASSUME NEW h, NEW g, InPlaceOf(g, h), NEW p
    PROVE  /\ Fresh(g) <=> Fresh(h)
           /\ Alive(g) <=> Alive(h)
           /\ Sound(h, p) => Sound(g, p)
<1>1. (Fresh(g) <=> Fresh(h)) /\ (Alive(g) <=> Alive(h))
  BY DEF InPlaceOf, Fresh, Alive
<1>2. Sound(h, p) => Sound(g, p)
  BY <1>1 DEF Sound, InPlaceOf
<1> QED
  BY <1>1, <1>2

LEMMA WithFacts ==
    ASSUME NEW h, IsHandle(h), NEW f \in BOOLEAN, NEW c \in BOOLEAN, NEW told,
           NEW g, g = With(h, f, c, told)
    PROVE  InPlaceOf(g, h) /\ Changed(g, f, c, told)
<1>1. /\ g.told = told /\ g.force = f /\ g.counted = c
      /\ g.node = h.node /\ g.version = h.version /\ g.creation = h.creation
      /\ g.whole = h.whole
  BY DEF With
<1>2. g = [node |-> g.node, whole |-> g.whole, version |-> g.version,
           creation |-> g.creation, force |-> g.force, counted |-> g.counted,
           told |-> g.told]
  BY <1>1 DEF With
<1>3. g.whole \in BOOLEAN /\ g.force \in BOOLEAN /\ g.counted \in BOOLEAN
  BY <1>1 DEF IsHandle
<1>4. IsHandle(g)
  BY <1>2, <1>3 DEF IsHandle
<1> QED
  BY <1>1, <1>4 DEF InPlaceOf, Changed

LEMMA HandleForms ==
    ASSUME NEW h, IsHandle(h), NEW f \in BOOLEAN, NEW c \in BOOLEAN
    PROVE  /\ [h EXCEPT !.force = f] = With(h, f, h.counted, h.told)
           /\ [h EXCEPT !.counted = c] = With(h, h.force, c, h.told)
           /\ [h EXCEPT !.counted = c, !.force = f] = With(h, f, c, h.told)
           /\ [h EXCEPT !.force = f, !.counted = c] = With(h, f, c, h.told)
<1>1. PICK node, whole, version0, creation0, force, counted, told :
         h = [node |-> node, whole |-> whole, version |-> version0,
              creation |-> creation0, force |-> force, counted |-> counted,
              told |-> told]
  BY DEF IsHandle
<1>6. [h EXCEPT !.force = f] = With(h, f, h.counted, h.told)
  BY <1>1 DEF With
<1>7. [h EXCEPT !.counted = c] = With(h, h.force, c, h.told)
  BY <1>1 DEF With
<1>8. [h EXCEPT !.counted = c, !.force = f] = With(h, f, c, h.told)
  <2> DEFINE g == [h EXCEPT !.counted = c]
  <2>1. [h EXCEPT !.counted = c, !.force = f] = [g EXCEPT !.force = f]
    OBVIOUS
  <2>2. g = [node |-> node, whole |-> whole, version |-> version0,
             creation |-> creation0, force |-> force, counted |-> c, told |-> told]
    BY <1>1
  <2> HIDE DEF g
  <2>3. [g EXCEPT !.force = f] = With(h, f, c, h.told)
    BY <1>1, <2>2 DEF With
  <2> QED
    BY <2>1, <2>3
<1>9. [h EXCEPT !.force = f, !.counted = c] = With(h, f, c, h.told)
  <2> DEFINE g == [h EXCEPT !.force = f]
  <2>1. [h EXCEPT !.force = f, !.counted = c] = [g EXCEPT !.counted = c]
    OBVIOUS
  <2>2. g = [node |-> node, whole |-> whole, version |-> version0,
             creation |-> creation0, force |-> f, counted |-> counted, told |-> told]
    BY <1>1
  <2> HIDE DEF g
  <2>3. [g EXCEPT !.counted = c] = With(h, f, c, h.told)
    BY <1>1, <2>2 DEF With
  <2> QED
    BY <2>1, <2>3
<1> QED
  BY <1>6, <1>7, <1>8, <1>9

LEMMA TellForm ==
    ASSUME NEW h, IsHandle(h), NEW p
    PROVE  Tell(h, p) = With(h, h.force, h.counted, Shown(h, p))
<1>1. PICK node, whole, version0, creation0, force, counted, told :
         h = [node |-> node, whole |-> whole, version |-> version0,
              creation |-> creation0, force |-> force, counted |-> counted,
              told |-> told]
  BY DEF IsHandle
<1>2. [q \in DOMAIN Content(p) |-> {}] = Nothing(p)
  BY DEF Content, Nothing
<1>3. Tell(h, p) = [h EXCEPT !.told = Shown(h, p)]
  BY <1>2 DEF Tell, Shown
<1>4. PICK x : x = Shown(h, p)
  OBVIOUS
<1>5. Tell(h, p) = With(h, h.force, h.counted, x)
  BY <1>1, <1>3, <1>4 DEF With
<1> QED
  BY <1>4, <1>5

\* What is emitted is true.
LEMMA ShownIsKnown ==
    ASSUME NEW h, NEW p, h.told = Shown(h, p), NEW a
    PROVE  Knows(a, h, p)
  BY DEF Knows, Shown, Fresh

\* A handle is announced, and has no more to be announced for.
Informed(g, n, p, counted) ==
    /\ InPlaceOf(g, n)
    /\ \A a : Knows(a, g, p)
    /\ ~g.force /\ (g.counted <=> counted)

LEMMA TellInforms ==
    ASSUME NEW p, NEW n, IsHandle(n), NEW c \in BOOLEAN,
           NEW m, m = With(n, FALSE, c, n.told), NEW g, g = Tell(m, p)
    PROVE  Informed(g, n, p, c)
<1>1. PICK f \in BOOLEAN : f = FALSE
  OBVIOUS
<1>2. InPlaceOf(m, n) /\ Changed(m, f, c, n.told)
  BY <1>1, WithFacts
<1>3. m.force \in BOOLEAN /\ m.counted \in BOOLEAN /\ IsHandle(m)
  BY <1>2 DEF InPlaceOf, IsHandle
<1>4. PICK y : y = Shown(m, p)
  OBVIOUS
<1>5. g = With(m, m.force, m.counted, y)
  BY <1>3, <1>4, TellForm
<1>6. InPlaceOf(g, m) /\ Changed(g, m.force, m.counted, y)
  BY <1>3, <1>5, WithFacts
<1>7. g.told = Shown(g, p)
  <2>1. (Alive(g) <=> Alive(m)) /\ g.whole = m.whole
    BY <1>6, InPlace DEF InPlaceOf
  <2> QED
    BY <1>4, <1>6, <2>1 DEF Shown, Changed
<1>8. \A a : Knows(a, g, p)
  BY <1>7, ShownIsKnown
<1>9. InPlaceOf(g, n)
  BY <1>2, <1>6 DEF InPlaceOf
<1>10. ~g.force /\ (g.counted <=> c)
  BY <1>1, <1>2, <1>6 DEF Changed
<1> QED
  BY <1>8, <1>9, <1>10 DEF Informed

\* A handle is put where it belongs.
IsPlaced(n, h, p) ==
    /\ Sound(n, p) /\ Fresh(n) /\ n.node = Closest(p)
    /\ n.told = h.told
    /\ (n.force <=> h.force) /\ (n.counted <=> h.counted)

LEMMA ClosestIs ==
    ASSUME Linked(tree), NEW p \in Node
    PROVE  /\ IsNearest(Closest(p), tree.live, p)
           /\ Closest(p) \in Node
           /\ Closest(p) = p <=> p \in tree.live
           /\ Closest(p) # p => Content(p) = Nothing(p)
<1>1. PICK m : m = Closest(p)
  OBVIOUS
<1>2. IsNearest(m, tree.live, p)
  <2>1. m = Nearest(tree.live, p)
    BY <1>1 DEF Closest, Nearest
  <2> QED
    BY <2>1, NearestIs DEF Linked, Closed
<1>3. m \in Prefixes(p) /\ m \in tree.live /\ m \in Node
  BY <1>2, PrefixFacts DEF IsNearest
<1>4. ASSUME p \in tree.live PROVE m = p
  <2>1. Len(p) <= Len(m) /\ p \in Prefixes(p)
    BY <1>2, <1>4, PrefixFacts DEF IsNearest
  <2>2. Len(m) <= Len(p) /\ Len(m) \in Nat /\ Len(p) \in Nat
    BY <1>3, PrefixFacts
  <2> QED
    BY <1>3, <2>1, <2>2, PrefixFacts
<1>5. ASSUME m # p PROVE Content(p) = Nothing(p)
  <2>1. Seen(tree, p) = Nothing(p)
    BY <1>4, <1>5, NothingSeen
  <2> QED
    BY <2>1 DEF Content, Seen
<1> QED
  BY <1>1, <1>2, <1>3, <1>4, <1>5

LEMMA PlacedIs ==
    ASSUME Linked(tree), EmitShape, NEW p \in Node, NEW h, IsHandle(h),
           NEW n, n = Placed(h, p)
    PROVE  IsPlaced(n, h, p)
<1>1. PICK m : m = Closest(p)
  OBVIOUS
<1>2. m \in Prefixes(p) /\ m \in tree.live /\ m \in Node
  BY <1>1, ClosestIs DEF IsNearest
<1>3. PICK node, whole, version0, creation0, force, counted, told :
         /\ h = [node |-> node, whole |-> whole, version |-> version0,
                 creation |-> creation0, force |-> force, counted |-> counted,
                 told |-> told]
         /\ whole \in BOOLEAN /\ force \in BOOLEAN /\ counted \in BOOLEAN
  BY DEF IsHandle
<1> DEFINE w == (m = p)
<1>4. n = [h EXCEPT !.node = m, !.whole = w, !.version = version[m],
                    !.creation = creation[m]]
  BY <1>1 DEF Placed
<1>5. w \in BOOLEAN
  OBVIOUS
<1> HIDE DEF w
<1>6. n = [node |-> m, whole |-> w, version |-> version[m],
           creation |-> creation[m], force |-> force, counted |-> counted,
           told |-> told]
  BY <1>3, <1>4
<1>7. IsHandle(n) /\ Fresh(n)
  BY <1>2, <1>3, <1>5, <1>6 DEF IsHandle, Fresh, Alive
<1>8. version[m] \in 0 .. tick /\ creation[m] \in 0 .. tick
  BY <1>2 DEF EmitShape
<1>9. n.whole = (n.node = p)
  BY <1>6 DEF w
<1>10. Sound(n, p)
  BY <1>1, <1>2, <1>6, <1>7, <1>8, <1>9 DEF Sound
<1> QED
  BY <1>1, <1>3, <1>6, <1>7, <1>10 DEF IsPlaced

Refreshes(n, h, p) == n = refreshHandle(h, p)

IsRefreshed(n, h, p) ==
    IsPlaced(n, h, p) /\ (Fresh(h) => n = h)

LEMMA Refreshed ==
    ASSUME Linked(tree), EmitShape, NEW p \in Node, NEW h, Sound(h, p),
           NEW n, Refreshes(n, h, p)
    PROVE  IsRefreshed(n, h, p)
<1>1. IsHandle(h) /\ h.node \in Prefixes(p) /\ h.whole = (h.node = p) /\ h.node \in Node
      /\ h.creation \in 0 .. tick
  BY PrefixFacts DEF Sound
<1>2. ASSUME n = Placed(h, p) PROVE IsPlaced(n, h, p)
  BY <1>1, <1>2, PlacedIs
<1>3. CASE ~Alive(h)
  BY <1>2, <1>3 DEF refreshHandle, Refreshes, Fresh, IsRefreshed
<1>4. CASE Alive(h) /\ h.whole
  <2>1. h.node = p /\ p \in tree.live /\ creation[p] = h.creation
    BY <1>1, <1>4 DEF Alive
  <2>2. Closest(p) = p
    BY <2>1, ClosestIs
  <2>3. PICK v : v = version[p] /\ v \in 0 .. tick
    BY DEF EmitShape
  <2>4. n = [h EXCEPT !.version = v]
    BY <1>4, <2>1, <2>3 DEF refreshHandle, Refreshes
  <2>5. PICK node, whole, version0, creation0, force, counted, told :
           /\ h = [node |-> node, whole |-> whole, version |-> version0,
                   creation |-> creation0, force |-> force, counted |-> counted,
                   told |-> told]
           /\ whole \in BOOLEAN /\ force \in BOOLEAN /\ counted \in BOOLEAN
    BY <1>1 DEF IsHandle
  <2>6. n = [node |-> node, whole |-> whole, version |-> v, creation |-> creation0,
             force |-> force, counted |-> counted, told |-> told]
    BY <2>4, <2>5
  <2>7. IsHandle(n)
    BY <2>5, <2>6 DEF IsHandle
  <2>8. node = p /\ creation0 = h.creation
    BY <2>1, <2>5
  <2>9. n.whole = (n.node = p)
    <3>1. whole = (node = p)
      BY <1>1, <2>5
    <3> QED
      BY <2>6, <3>1
  <2>10. Fresh(n)
    BY <2>1, <2>3, <2>6, <2>8 DEF Fresh, Alive
  <2>11. Sound(n, p)
    BY <1>1, <2>1, <2>2, <2>3, <2>6, <2>7, <2>8, <2>9 DEF Sound
  <2>12. Fresh(h) => n = h
    BY <2>1, <2>3, <2>5, <2>6 DEF Fresh
  <2> QED
    BY <2>2, <2>5, <2>6, <2>8, <2>10, <2>11, <2>12 DEF IsRefreshed, IsPlaced
<1>5. CASE Alive(h) /\ ~h.whole /\ h.version # version[h.node]
  BY <1>2, <1>5 DEF refreshHandle, Refreshes, Fresh, IsRefreshed
<1>6. CASE Alive(h) /\ ~h.whole /\ h.version = version[h.node]
  <2>1. n = h /\ Fresh(h)
    BY <1>6 DEF refreshHandle, Refreshes, Fresh
  <2> QED
    BY <2>1 DEF IsRefreshed, IsPlaced, Sound
<1> QED
  BY <1>1, <1>3, <1>4, <1>5, <1>6 DEF IsHandle

\* A refresh that finds nothing to announce has changed nothing that is seen.
LEMMA RefreshedKnows ==
    ASSUME NEW a, NEW p, NEW h, IsHandle(h), Knows(a, h, p), ~Pledged(a, h),
           NEW n, IsHandle(n), Fresh(n), n.told = h.told, Fresh(h) => n = h,
           ~HandleChanged(h, n)
    PROVE  /\ n.whole => n = h /\ n.told = Content(p)
           /\ ~n.whole => n.told = Nothing(p)
<1>1. CASE n.whole
  <2>1. n = h
    BY <1>1 DEF HandleChanged
  <2> QED
    BY <1>1, <2>1 DEF Knows
<1>2. CASE ~n.whole
  <2>1. ~h.whole
    BY <1>2 DEF HandleChanged, IsHandle
  <2> QED
    BY <1>2, <2>1 DEF Knows
<1> QED
  BY <1>1, <1>2 DEF IsHandle

-----------------------------------------------------------------------------
(* Steps that change a handle at most.                                     *)

Calm == UNCHANGED <<tree, version, creation, tick, changedNodes, work, timers,
                    connections, index, toClient>>

LEMMA CalmFacts ==
    ASSUME Calm, NEW a, NEW p, NEW h
    PROVE  /\ Fresh(h)' <=> Fresh(h)
           /\ Closest(p)' = Closest(p) /\ Content(p)' = Content(p)
           /\ Sound(h, p) => Sound(h, p)'
           /\ Coming(a, h, p) => Coming(a, h, p)'
<1>1. /\ Fresh(h)' <=> Fresh(h)
      /\ Closest(p)' = Closest(p) /\ Content(p)' = Content(p)
  BY DEF Calm, Fresh, Alive, Closest, Content, Default
<1>2. Sound(h, p) => Sound(h, p)'
  BY <1>1 DEF Calm, Sound
<1>3. Coming(a, h, p) => Coming(a, h, p)'
  BY <1>1 DEF Coming, Noted, Calm
<1> QED
  BY <1>1, <1>2, <1>3

LEMMA CalmHandle ==
    ASSUME Calm, NEW a, NEW p, NEW h, HandleInv(a, h, p),
           half'[a] = half[a] \/ h.counted,
           p \in toEmit[a] => p \in toEmit'[a],
           emitting[a] => emitting'[a]
    PROVE  HandleInv(a, h, p)'
<1>1. /\ Fresh(h)' <=> Fresh(h)
      /\ Closest(p)' = Closest(p) /\ Content(p)' = Content(p)
  BY CalmFacts
<1>2. Sound(h, p)'
  BY CalmFacts DEF HandleInv
<1>3. Pledged(a, h) => Pledged(a, h)'
  BY DEF Pledged
<1>4. Knows(a, h, p)'
  BY <1>1, <1>3 DEF HandleInv, Knows
<1>5. Coming(a, h, p) => Coming(a, h, p)'
  BY CalmFacts
<1>6. Due(a, h, p) => Due(a, h, p)'
  BY DEF Due
<1>7. Owed(a, h, p)'
  BY <1>1, <1>5, <1>6 DEF HandleInv, Owed
<1>8. Held(a, h)'
  BY DEF HandleInv, Held
<1> QED
  BY <1>2, <1>4, <1>7, <1>8 DEF HandleInv

LEMMA ForcedCount ==
    ASSUME NEW hs, IsFiniteSet(DOMAIN hs), NEW p \in DOMAIN hs,
           NEW gs, DOMAIN gs = DOMAIN hs,
           \A q \in DOMAIN hs : q # p => gs[q] = hs[q],
           NEW k \in Nat, Cardinality(Forced(hs)) <= k, NEW j \in Int,
           j + (IF hs[p].force THEN 1 ELSE 0) = k + (IF gs[p].force THEN 1 ELSE 0)
    PROVE  j \in Nat /\ Cardinality(Forced(gs)) <= j
<1> DEFINE F == Forced(hs)
           G == Forced(gs)
<1>1. F \subseteq DOMAIN hs /\ G \subseteq DOMAIN hs
  BY DEF Forced
<1>2. IsFiniteSet(F) /\ IsFiniteSet(G)
  BY <1>1, FS_Subset
<1>3. Cardinality(F) \in Nat /\ Cardinality(G) \in Nat
  BY <1>2, FS_CardinalityType
<1>4. (p \in F <=> hs[p].force) /\ (p \in G <=> gs[p].force)
  BY DEF Forced
<1>5. F \ {p} = G \ {p}
  BY DEF Forced
<1> HIDE DEF F, G
<1>6. /\ Cardinality(F \ {p}) = IF p \in F THEN Cardinality(F) - 1 ELSE Cardinality(F)
      /\ Cardinality(G \ {p}) = IF p \in G THEN Cardinality(G) - 1 ELSE Cardinality(G)
  BY <1>2, FS_RemoveElement
<1> QED
  BY <1>3, <1>4, <1>5, <1>6 DEF F, G

\* What is true of a process stays true if its handles are not touched.
LEMMA ProcessKept ==
    ASSUME NEW b, ProcessInv(b), handles'[b] = handles[b],
           forceChangeCount'[b] = forceChangeCount[b],
           toEmit'[b] # {} => emitting'[b],
           \A p, h : p \in DOMAIN handles[b] /\ HandleInv(b, h, p) /\ h = handles[b][p]
                        => HandleInv(b, h, p)'
    PROVE  ProcessInv(b)'
<1>1. ASSUME NEW p \in DOMAIN handles[b] PROVE HandleInv(b, handles[b][p], p)'
  <2>1. PICK h : h = handles[b][p]
    OBVIOUS
  <2>2. HandleInv(b, h, p)
    BY <2>1 DEF ProcessInv
  <2>3. HandleInv(b, h, p)'
    BY <2>1, <2>2
  <2> QED
    BY <2>1, <2>3
<1>2. DOMAIN handles'[b] \subseteq Path
  BY DEF ProcessInv
<1>3. Cardinality(Forced(handles'[b])) <= forceChangeCount'[b]
  BY DEF ProcessInv
<1>4. \A p, q \in DOMAIN handles'[b] :
         ~handles'[b][p].counted /\ ~handles'[b][q].counted => p = q
  BY DEF ProcessInv
<1> QED
  BY <1>1, <1>2, <1>3, <1>4 DEF ProcessInv

\* Nothing of what other processes have is touched.
Alone(a) ==
    /\ DOMAIN handles' = Process /\ DOMAIN toEmit' = Process
    /\ DOMAIN emitting' = Process /\ DOMAIN half' = Process
    /\ \A b \in Process \ {a} :
          /\ handles'[b] = handles[b] /\ toEmit'[b] = toEmit[b]
          /\ emitting'[b] = emitting[b] /\ half'[b] = half[b]
          /\ forceChangeCount'[b] = forceChangeCount[b]

LEMMA AlonePresent ==
    ASSUME TellInv, Calm, NEW a \in Process, Present \subseteq Process, Alone(a),
           a \in Present => ProcessInv(a)', a \notin Present => handles'[a] = <<>>,
           forceChangeCount' \in [Process -> Nat]
    PROVE  TellInv'
<1>1. EmitShape'
  BY DEF TellInv, EmitShape, Calm, Alone
<1>2. Present' = Present
  BY DEF Present, Calm
<1>3. \A b \in Process \ Present : handles'[b] = <<>>
  BY DEF TellInv, Alone
<1>4. ASSUME NEW b \in Present, b # a PROVE ProcessInv(b)'
  <2>1. b \in Process /\ ProcessInv(b)
    BY DEF TellInv
  <2>2. /\ handles'[b] = handles[b] /\ toEmit'[b] = toEmit[b]
        /\ emitting'[b] = emitting[b] /\ half'[b] = half[b]
        /\ forceChangeCount'[b] = forceChangeCount[b]
    BY <1>4, <2>1 DEF Alone
  <2>3. \A p, h : HandleInv(b, h, p) => HandleInv(b, h, p)'
    BY <2>2, CalmHandle
  <2>4. toEmit'[b] # {} => emitting'[b]
    BY <2>1, <2>2 DEF ProcessInv
  <2> QED
    BY <2>1, <2>2, <2>3, <2>4, ProcessKept
<1> QED
  BY <1>1, <1>2, <1>3, <1>4 DEF TellInv

\* One handle of a process is changed, and the others are not in the way.
LEMMA OneHandle ==
    ASSUME TellInv, Calm, IsFiniteSet(Path), NEW a \in Present, Present \subseteq Process,
           Alone(a), NEW p \in DOMAIN handles[a], NEW n, NEW k \in Int,
           handles'[a] = [handles[a] EXCEPT ![p] = n],
           forceChangeCount' = [forceChangeCount EXCEPT ![a] = k],
           k + (IF handles[a][p].force THEN 1 ELSE 0)
              = forceChangeCount[a] + (IF n.force THEN 1 ELSE 0),
           HandleInv(a, n, p)',
           emitting'[a] = emitting[a], toEmit'[a] \subseteq toEmit[a],
           toEmit[a] \subseteq toEmit'[a] \cup {p},
           \/ half'[a] = half[a] /\ (handles[a][p].counted => n.counted)
           \/ \A q \in DOMAIN handles[a] : q # p => handles[a][q].counted
    PROVE  TellInv'
<1>1. a \in Process /\ ProcessInv(a) /\ forceChangeCount \in [Process -> Nat]
  BY DEF TellInv, EmitShape
<1>2. /\ DOMAIN handles'[a] = DOMAIN handles[a] /\ handles'[a][p] = n
      /\ \A q \in DOMAIN handles[a] : q # p => handles'[a][q] = handles[a][q]
  OBVIOUS
<1>3. forceChangeCount[a] \in Nat /\ forceChangeCount'[a] = k
  BY <1>1
<1>4. DOMAIN handles[a] \subseteq Path /\ IsFiniteSet(DOMAIN handles[a])
  BY <1>1, FS_Subset DEF ProcessInv
<1>5. k \in Nat /\ Cardinality(Forced(handles'[a])) <= k
  <2>1. PICK hs, gs : hs = handles[a] /\ gs = handles'[a]
    OBVIOUS
  <2>2. Cardinality(Forced(hs)) <= forceChangeCount[a]
    BY <1>1, <2>1 DEF ProcessInv
  <2>3. k \in Nat /\ Cardinality(Forced(gs)) <= k
    BY <1>2, <1>3, <1>4, <2>1, <2>2, ForcedCount
  <2> QED
    BY <2>1, <2>3
<1>6. ASSUME NEW q \in DOMAIN handles[a] PROVE HandleInv(a, handles[a][q], q)' \/ q = p
  <2> SUFFICES ASSUME q # p PROVE HandleInv(a, handles[a][q], q)'
    OBVIOUS
  <2>1. PICK h : h = handles[a][q]
    OBVIOUS
  <2>2. HandleInv(a, h, q)
    BY <1>1, <2>1 DEF ProcessInv
  <2>3. half'[a] = half[a] \/ h.counted
    BY <2>1
  <2>4. HandleInv(a, h, q)'
    BY <2>2, <2>3, CalmHandle
  <2>5. h = handles'[a][q]
    BY <1>2, <2>1
  <2> QED
    BY <2>4, <2>5
<1>7. \A q \in DOMAIN handles'[a] : HandleInv(a, handles[a][q], q)'
  <2>1. HandleInv(a, handles[a][p], p)'
    BY <1>2
  <2> QED
    BY <1>2, <1>6, <2>1
<1>8. \A q, r \in DOMAIN handles'[a] :
         ~handles'[a][q].counted /\ ~handles'[a][r].counted => q = r
  BY <1>1, <1>2 DEF ProcessInv
<1>9. toEmit'[a] # {} => emitting'[a]
  BY <1>1 DEF ProcessInv
<1>10. ProcessInv(a)'
  BY <1>2, <1>3, <1>4, <1>5, <1>7, <1>8, <1>9 DEF ProcessInv
<1>11. forceChangeCount' \in [Process -> Nat]
  BY <1>1, <1>5
<1> QED
  BY <1>10, <1>11, AlonePresent

LEMMA HandleHere ==
    ASSUME TellInv, LInv, NEW a \in Process, NEW p \in DOMAIN handles[a]
    PROVE  /\ a \in Present /\ Present \subseteq Process
           /\ p \in Path /\ p \in Node /\ Linked(tree) /\ EmitShape
           /\ ProcessInv(a)
           /\ HandleInv(a, handles[a][p], p)
           /\ forceChangeCount[a] \in Nat
<1>1. a \in Present
  BY DEF TellInv
<1>2. Present \subseteq Process
  BY DEF LInv, Shape, Present, Process
<1> QED
  BY <1>1, <1>2 DEF TellInv, EmitShape, ProcessInv, LInv, TreeInv, Node

\* A handle is refreshed, and announced if it is to be.
LEMMA RefreshOneTells ==
    ASSUME TellInv, LInv, IsFiniteSet(Path), NEW a \in Process, NEW p \in DOMAIN handles[a],
           RefreshOne(a, p)
    PROVE  TellInv'
<1>1. PICK h : h = handles[a][p]
  OBVIOUS
<1>2. PICK n : n = refreshHandle(h, p)
  OBVIOUS
<1>3. PICK hit \in BOOLEAN : hit = (HandleChanged(h, n) \/ h.force)
  OBVIOUS
<1>4. PICK g : g = IF hit THEN Tell([n EXCEPT !.force = FALSE], p) ELSE n
  OBVIOUS
<1>5. PICK k : k = forceChangeCount[a] - (IF h.force THEN 1 ELSE 0)
  OBVIOUS
<1>6. /\ p \in toEmit[a] /\ half[a] = "no"
      /\ toEmit' = [toEmit EXCEPT ![a] = @ \ {p}]
      /\ forceChangeCount' = [forceChangeCount EXCEPT ![a] = k]
      /\ handles' = [handles EXCEPT ![a][p] = g]
      /\ emitting' = emitting /\ half' = half
  BY <1>1, <1>2, <1>3, <1>4, <1>5 DEF RefreshOne
<1>7. Calm
  BY DEF RefreshOne, Calm, space, serverVars, channels
<1>8. /\ a \in Present /\ Present \subseteq Process /\ p \in Node /\ Linked(tree)
      /\ EmitShape /\ HandleInv(a, h, p) /\ forceChangeCount[a] \in Nat
  BY <1>1, HandleHere
<1>9. IsHandle(h) /\ Sound(h, p) /\ Knows(a, h, p) /\ h.counted
  BY <1>6, <1>8 DEF HandleInv, Sound, Held, IsHandle
<1>10. IsRefreshed(n, h, p) /\ IsHandle(n) /\ n.counted
  <2>1. Refreshes(n, h, p)
    BY <1>2 DEF Refreshes
  <2>2. IsRefreshed(n, h, p)
    BY <1>8, <1>9, <2>1, Refreshed
  <2> QED
    BY <1>9, <2>2 DEF IsRefreshed, IsPlaced, Sound
<1>11. Sound(g, p) /\ Fresh(g) /\ Knows(a, g, p) /\ ~g.force /\ g.counted
  <2>1. CASE hit
    <3>1. PICK m : m = [n EXCEPT !.force = FALSE]
      OBVIOUS
    <3>2. m = With(n, FALSE, n.counted, n.told) /\ n.counted \in BOOLEAN
      BY <1>10, <3>1, HandleForms DEF IsHandle
    <3>3. g = Tell(m, p)
      BY <1>4, <2>1, <3>1
    <3>4. Informed(g, n, p, n.counted)
      BY <1>10, <3>2, <3>3, TellInforms
    <3> QED
      BY <1>10, <3>4, InPlace DEF Informed, IsRefreshed, IsPlaced
  <2>2. CASE ~hit
    <3>1. g = n /\ ~h.force /\ ~HandleChanged(h, n)
      BY <1>3, <1>4, <2>2
    <3>2. ~Pledged(a, h)
      BY <1>6, <3>1 DEF Pledged
    <3>3. /\ n.whole => n.told = Content(p)
          /\ ~n.whole => n.told = Nothing(p)
      BY <1>9, <1>10, <3>1, <3>2, RefreshedKnows DEF IsRefreshed, IsPlaced
    <3> QED
      BY <1>9, <1>10, <3>1, <3>3 DEF Knows, IsRefreshed, IsPlaced
  <2> QED
    BY <2>1, <2>2
<1>12. HandleInv(a, g, p)'
  <2>1. /\ Fresh(g)' <=> Fresh(g)
        /\ Content(p)' = Content(p)
        /\ Sound(g, p)'
    BY <1>7, <1>11, CalmFacts
  <2>2. Knows(a, g, p)'
    BY <1>6, <1>11, <2>1 DEF Knows, Pledged
  <2>3. Owed(a, g, p)'
    BY <1>11, <2>1 DEF Owed
  <2>4. Held(a, g)'
    BY <1>11 DEF Held
  <2> QED
    BY <2>1, <2>2, <2>3, <2>4 DEF HandleInv
<1>13. Alone(a)
  BY <1>6, <1>8 DEF Alone, EmitShape
<1>14. /\ handles'[a] = [handles[a] EXCEPT ![p] = g]
       /\ toEmit'[a] = toEmit[a] \ {p}
  BY <1>6, <1>8 DEF EmitShape
<1>15. k + (IF handles[a][p].force THEN 1 ELSE 0)
          = forceChangeCount[a] + (IF g.force THEN 1 ELSE 0) /\ k \in Int
  BY <1>1, <1>5, <1>8, <1>11
<1> QED
  BY <1>6, <1>7, <1>8, <1>11, <1>12, <1>13, <1>14, <1>15, OneHandle

\* A refresh is preempted between the two bits that it changes.
LEMMA RefreshBeginTells ==
    ASSUME TellInv, LInv, IsFiniteSet(Path), NEW a \in Process, NEW p \in DOMAIN handles[a],
           RefreshBegin(a, p)
    PROVE  TellInv'
<1>1. PICK h : h = handles[a][p]
  OBVIOUS
<1>2. PICK n : n = refreshHandle(h, p)
  OBVIOUS
<1>3. PICK hit \in BOOLEAN : hit = (HandleChanged(h, n) \/ h.force)
  OBVIOUS
<1>4. PICK g : g = [n EXCEPT !.counted = FALSE]
  OBVIOUS
<1>5. PICK k : k = forceChangeCount[a]
  OBVIOUS
<1>6. /\ p \in toEmit[a] /\ half[a] = "no" /\ a \in Preemptible
      /\ handles' = [handles EXCEPT ![a][p] = g]
      /\ half' = [half EXCEPT ![a] = IF hit THEN "changed" ELSE "same"]
      /\ emitting' = emitting /\ toEmit' = toEmit /\ forceChangeCount' = forceChangeCount
  BY <1>1, <1>2, <1>3, <1>4 DEF RefreshBegin
<1>7. Calm
  BY DEF RefreshBegin, Calm, space, serverVars, channels
<1>8. /\ a \in Present /\ Present \subseteq Process /\ p \in Node /\ Linked(tree)
      /\ EmitShape /\ HandleInv(a, h, p) /\ forceChangeCount[a] \in Nat
      /\ ProcessInv(a)
  BY <1>1, HandleHere
<1>9. IsHandle(h) /\ Sound(h, p) /\ Knows(a, h, p) /\ h.counted
  BY <1>6, <1>8 DEF HandleInv, Sound, Held, IsHandle
<1>10. IsRefreshed(n, h, p) /\ IsHandle(n)
  <2>1. Refreshes(n, h, p)
    BY <1>2 DEF Refreshes
  <2>2. IsRefreshed(n, h, p)
    BY <1>8, <1>9, <2>1, Refreshed
  <2> QED
    BY <2>2 DEF IsRefreshed, IsPlaced, Sound
<1>11. InPlaceOf(g, n) /\ (g.force <=> h.force) /\ ~g.counted /\ g.told = n.told
  <2>1. PICK f, c : f \in BOOLEAN /\ c \in BOOLEAN /\ f = n.force /\ c = FALSE
    BY <1>10 DEF IsHandle
  <2>2. g = With(n, f, c, n.told)
    BY <1>4, <1>10, <2>1, HandleForms
  <2>3. InPlaceOf(g, n) /\ Changed(g, f, c, n.told)
    BY <1>10, <2>1, <2>2, WithFacts
  <2> QED
    BY <1>10, <2>1, <2>3 DEF Changed, IsRefreshed, IsPlaced
<1>12. Sound(g, p) /\ Fresh(g)
  BY <1>10, <1>11, InPlace DEF IsRefreshed, IsPlaced
<1>13. half'[a] = IF hit THEN "changed" ELSE "same"
  BY <1>6, <1>8 DEF EmitShape
<1>14. HandleInv(a, g, p)'
  <2>1. /\ Fresh(g)' <=> Fresh(g)
        /\ Content(p)' = Content(p)
        /\ Sound(g, p)'
    BY <1>7, <1>12, CalmFacts
  <2>2. Knows(a, g, p)'
    <3>1. CASE hit
      BY <1>11, <1>13, <3>1 DEF Knows, Pledged
    <3>2. CASE ~hit
      <4>1. ~h.force /\ ~HandleChanged(h, n)
        BY <1>3, <3>2
      <4>2. ~Pledged(a, h)
        BY <1>6, <4>1 DEF Pledged
      <4>3. /\ n.whole => n.told = Content(p)
            /\ ~n.whole => n.told = Nothing(p)
        BY <1>9, <1>10, <4>1, <4>2, RefreshedKnows DEF IsRefreshed, IsPlaced
      <4> QED
        BY <1>11, <2>1, <4>3 DEF Knows, InPlaceOf
    <3> QED
      BY <3>1, <3>2
  <2>3. Owed(a, g, p)'
    BY <1>6, <1>8, <1>12, <2>1 DEF Owed, ProcessInv
  <2>4. Held(a, g)'
    <3>1. hit \/ ~h.force
      BY <1>3
    <3>2. half'[a] # "no" /\ (half'[a] = "same" => ~hit)
      BY <1>13
    <3> QED
      BY <1>6, <1>11, <3>1, <3>2 DEF Held
  <2> QED
    BY <2>1, <2>2, <2>3, <2>4 DEF HandleInv
<1>15. Alone(a)
  BY <1>6, <1>8 DEF Alone, EmitShape
<1>16. handles'[a] = [handles[a] EXCEPT ![p] = g]
  BY <1>6, <1>8 DEF EmitShape
<1>17. /\ forceChangeCount' = [forceChangeCount EXCEPT ![a] = k] /\ k \in Int
       /\ k + (IF handles[a][p].force THEN 1 ELSE 0)
             = forceChangeCount[a] + (IF g.force THEN 1 ELSE 0)
  BY <1>1, <1>5, <1>6, <1>8, <1>11 DEF EmitShape
<1>18. \A q \in DOMAIN handles[a] : handles[a][q].counted
  <2> SUFFICES ASSUME NEW q \in DOMAIN handles[a] PROVE handles[a][q].counted
    OBVIOUS
  <2>1. Held(a, handles[a][q])
    BY <1>8 DEF ProcessInv, HandleInv
  <2> QED
    BY <1>6, <2>1 DEF Held
<1> QED
  BY <1>6, <1>7, <1>8, <1>14, <1>15, <1>16, <1>17, <1>18, OneHandle

\* It goes on.
LEMMA RefreshEndTells ==
    ASSUME TellInv, LInv, IsFiniteSet(Path), NEW a \in Process, NEW p \in DOMAIN handles[a],
           RefreshEnd(a, p)
    PROVE  TellInv'
<1>1. PICK h : h = handles[a][p]
  OBVIOUS
<1>2. PICK m : m = [h EXCEPT !.counted = TRUE, !.force = FALSE]
  OBVIOUS
<1>3. PICK g : g = IF half[a] = "changed" THEN Tell(m, p) ELSE m
  OBVIOUS
<1>4. PICK k : k = forceChangeCount[a] - (IF h.force THEN 1 ELSE 0)
  OBVIOUS
<1>5. /\ p \in toEmit[a] /\ ~h.counted /\ half[a] \in {"changed", "same"}
      /\ toEmit' = [toEmit EXCEPT ![a] = @ \ {p}]
      /\ forceChangeCount' = [forceChangeCount EXCEPT ![a] = k]
      /\ handles' = [handles EXCEPT ![a][p] = g]
      /\ half' = [half EXCEPT ![a] = "no"]
      /\ emitting' = emitting
  BY <1>1, <1>2, <1>3, <1>4 DEF RefreshEnd
<1>6. Calm
  BY DEF RefreshEnd, Calm, space, serverVars, channels
<1>7. /\ a \in Present /\ Present \subseteq Process /\ p \in Node /\ Linked(tree)
      /\ EmitShape /\ HandleInv(a, h, p) /\ forceChangeCount[a] \in Nat
      /\ ProcessInv(a)
  BY <1>1, HandleHere
<1>8. IsHandle(h) /\ Sound(h, p) /\ Knows(a, h, p)
  BY <1>7 DEF HandleInv, Sound
<1>9. /\ InPlaceOf(g, h) /\ ~g.force /\ g.counted
      /\ Knows(a, g, p)
  <2>1. m = With(h, FALSE, TRUE, h.told)
    BY <1>2, <1>8, HandleForms
  <2>2. CASE half[a] = "changed"
    <3>1. Informed(g, h, p, TRUE)
      BY <1>3, <1>8, <2>1, <2>2, TellInforms
    <3> QED
      BY <3>1 DEF Informed
  <2>3. CASE half[a] = "same"
    <3>1. g = m /\ ~h.force
      BY <1>3, <1>5, <1>7, <2>3 DEF HandleInv, Held
    <3>2. PICK f, c : f \in BOOLEAN /\ c \in BOOLEAN /\ f = FALSE /\ c = TRUE
      OBVIOUS
    <3>3. InPlaceOf(g, h) /\ Changed(g, f, c, h.told)
      BY <1>8, <2>1, <3>1, <3>2, WithFacts
    <3>4. ~Pledged(a, h)
      BY <2>3, <3>1 DEF Pledged
    <3>5. Fresh(g) <=> Fresh(h)
      BY <3>3, InPlace
    <3> QED
      BY <1>8, <3>2, <3>3, <3>4, <3>5 DEF Changed, Knows, InPlaceOf
  <2> QED
    BY <1>5, <2>2, <2>3
<1>10. Sound(g, p) /\ (Fresh(g) <=> Fresh(h)) /\ g.node = h.node
  BY <1>8, <1>9, InPlace DEF InPlaceOf
<1>11. HandleInv(a, g, p)'
  <2>1. /\ Fresh(g)' <=> Fresh(g)
        /\ Content(p)' = Content(p)
        /\ Sound(g, p)'
        /\ Coming(a, g, p) => Coming(a, g, p)'
    BY <1>6, <1>10, CalmFacts
  <2>2. Knows(a, g, p)'
    <3>1. ~Pledged(a, g)
      BY <1>9 DEF Pledged
    <3> QED
      BY <1>9, <2>1, <3>1 DEF Knows
  <2>3. Owed(a, g, p)'
    <3>1. ~Fresh(g) => Coming(a, h, p)
      BY <1>5, <1>7, <1>10 DEF HandleInv, Owed, Due
    <3>2. Coming(a, h, p) => Coming(a, g, p)
      BY <1>10 DEF Coming, Noted
    <3> QED
      BY <1>9, <2>1, <3>1, <3>2 DEF Owed
  <2>4. Held(a, g)'
    BY <1>9 DEF Held
  <2> QED
    BY <2>1, <2>2, <2>3, <2>4 DEF HandleInv
<1>12. Alone(a)
  BY <1>5, <1>7 DEF Alone, EmitShape
<1>13. /\ handles'[a] = [handles[a] EXCEPT ![p] = g]
       /\ toEmit'[a] = toEmit[a] \ {p}
  BY <1>5, <1>7 DEF EmitShape
<1>14. k + (IF handles[a][p].force THEN 1 ELSE 0)
          = forceChangeCount[a] + (IF g.force THEN 1 ELSE 0) /\ k \in Int
  BY <1>1, <1>4, <1>7, <1>9
<1>15. \A q \in DOMAIN handles[a] : q # p => handles[a][q].counted
  BY <1>1, <1>5, <1>7 DEF ProcessInv
<1> QED
  BY <1>5, <1>6, <1>7, <1>11, <1>12, <1>13, <1>14, <1>15, OneHandle

\* A handle that a slot has read is announced in its turn.
LEMMA EmitForcedTells ==
    ASSUME TellInv, LInv, IsFiniteSet(Path), NEW a \in Process, NEW p \in DOMAIN handles[a],
           EmitForced(a, p)
    PROVE  TellInv'
<1>1. PICK h : h = handles[a][p]
  OBVIOUS
<1>2. PICK m : m = [h EXCEPT !.force = FALSE]
  OBVIOUS
<1>3. PICK g : g = Tell(m, p)
  OBVIOUS
<1>4. PICK k : k = forceChangeCount[a] - 1
  OBVIOUS
<1>5. EmitShape
  BY DEF TellInv
<1>6. /\ emitting[a] /\ toEmit[a] = {} /\ half[a] = "no" /\ h.force
      /\ forceChangeCount' = [forceChangeCount EXCEPT ![a] = k]
      /\ handles'[a] = [handles[a] EXCEPT ![p] = g]
      /\ DOMAIN handles' = Process
      /\ \A b \in Process : b # a => handles'[b] = handles[b]
      /\ half' = half /\ emitting' = emitting /\ toEmit' = toEmit
  BY <1>1, <1>2, <1>3, <1>4, <1>5 DEF EmitForced, EmitShape
<1>7. Calm
  BY DEF EmitForced, Calm, space, serverVars, channels
<1>8. /\ a \in Present /\ Present \subseteq Process /\ p \in Node /\ Linked(tree)
      /\ EmitShape /\ HandleInv(a, h, p) /\ forceChangeCount[a] \in Nat
      /\ ProcessInv(a)
  BY <1>1, HandleHere
<1>9. IsHandle(h) /\ Sound(h, p) /\ h.counted
  BY <1>6, <1>8 DEF HandleInv, Sound, Held, IsHandle
<1>10. InPlaceOf(g, h) /\ ~g.force /\ g.counted /\ Knows(a, g, p)
  <2>1. m = With(h, FALSE, h.counted, h.told) /\ h.counted \in BOOLEAN
    BY <1>2, <1>9, HandleForms DEF IsHandle
  <2>2. Informed(g, h, p, h.counted)
    BY <1>3, <1>9, <2>1, TellInforms
  <2> QED
    BY <1>9, <2>2 DEF Informed
<1>11. Sound(g, p) /\ (Fresh(g) <=> Fresh(h)) /\ g.node = h.node
  BY <1>9, <1>10, InPlace DEF InPlaceOf
<1>12. HandleInv(a, g, p)'
  <2>1. /\ Fresh(g)' <=> Fresh(g)
        /\ Content(p)' = Content(p)
        /\ Sound(g, p)'
        /\ Coming(a, g, p) => Coming(a, g, p)'
    BY <1>7, <1>11, CalmFacts
  <2>2. Knows(a, g, p)'
    <3>1. ~Pledged(a, g)
      BY <1>10 DEF Pledged
    <3> QED
      BY <1>10, <2>1, <3>1 DEF Knows
  <2>3. Owed(a, g, p)'
    <3>1. ~Fresh(g) => Coming(a, h, p)
      BY <1>6, <1>8, <1>11 DEF HandleInv, Owed, Due
    <3>2. Coming(a, h, p) => Coming(a, g, p)
      BY <1>11 DEF Coming, Noted
    <3> QED
      BY <1>10, <2>1, <3>1, <3>2 DEF Owed
  <2>4. Held(a, g)'
    BY <1>10 DEF Held
  <2> QED
    BY <2>1, <2>2, <2>3, <2>4 DEF HandleInv
<1>13. Alone(a)
  BY <1>6, <1>8 DEF Alone, EmitShape
<1>14. k + (IF handles[a][p].force THEN 1 ELSE 0)
          = forceChangeCount[a] + (IF g.force THEN 1 ELSE 0) /\ k \in Int
  BY <1>1, <1>4, <1>6, <1>8, <1>10
<1> QED
  BY <1>6, <1>7, <1>8, <1>10, <1>12, <1>13, <1>14, OneHandle

\* The slots have all been called: there is nothing left to announce but what
\* has happened since.
LEMMA EmitDoneTells ==
    ASSUME TellInv, LInv, IsFiniteSet(Path), NEW a \in Process, EmitDone(a)
    PROVE  TellInv'
<1>1. EmitShape /\ Present \subseteq Process
  BY DEF TellInv, LInv, Shape, Present, Process
<1>2. /\ emitting' = [emitting EXCEPT ![a] = FALSE]
      /\ toEmit[a] = {} /\ half[a] = "no" /\ forceChangeCount[a] = 0
      /\ handles' = handles /\ toEmit' = toEmit /\ half' = half
      /\ forceChangeCount' = forceChangeCount
  BY DEF EmitDone
<1>3. Calm
  BY DEF EmitDone, Calm, space, serverVars, channels
<1>4. Alone(a)
  BY <1>1, <1>2 DEF Alone, EmitShape
<1>5. ASSUME a \in Present PROVE ProcessInv(a)'
  <2>1. ProcessInv(a)
    BY <1>5 DEF TellInv
  <2>2. \A q \in DOMAIN handles[a] : ~handles[a][q].force
    <3>1. PICK hs : hs = handles[a]
      OBVIOUS
    <3>2. DOMAIN hs \subseteq Path /\ Cardinality(Forced(hs)) <= 0
      BY <1>2, <2>1, <3>1 DEF ProcessInv
    <3>3. Forced(hs) \subseteq DOMAIN hs /\ IsFiniteSet(Forced(hs))
      BY <3>2, FS_Subset DEF Forced
    <3>4. Cardinality(Forced(hs)) \in Nat
      BY <3>3, FS_CardinalityType
    <3>5. Forced(hs) = {}
      BY <3>2, <3>3, <3>4, FS_EmptySet
    <3> QED
      BY <3>1, <3>5 DEF Forced
  <2>3. ASSUME NEW p, NEW h, p \in DOMAIN handles[a], HandleInv(a, h, p), h = handles[a][p]
        PROVE  HandleInv(a, h, p)'
    <3>1. ~h.force
      BY <2>2, <2>3
    <3>2. /\ Fresh(h)' <=> Fresh(h)
          /\ Content(p)' = Content(p)
          /\ Sound(h, p) => Sound(h, p)'
          /\ Coming(a, h, p) => Coming(a, h, p)'
      BY <1>3, CalmFacts
    <3>3. Sound(h, p)' /\ Knows(a, h, p)' /\ Held(a, h)'
      BY <1>2, <2>3, <3>2 DEF HandleInv, Knows, Pledged, Held
    <3>4. Owed(a, h, p)'
      BY <1>2, <2>3, <3>1, <3>2 DEF HandleInv, Owed, Due
    <3> QED
      BY <3>3, <3>4 DEF HandleInv
  <2>4. toEmit'[a] = {}
    BY <1>2
  <2> QED
    BY <1>2, <2>1, <2>3, <2>4, ProcessKept
<1>6. a \notin Present => handles'[a] = <<>>
  BY <1>2 DEF TellInv
<1>7. forceChangeCount' \in [Process -> Nat]
  BY <1>1, <1>2 DEF EmitShape
<1> QED
  BY <1>1, <1>3, <1>4, <1>5, <1>6, <1>7, AlonePresent

LEMMA EmitTells ==
    ASSUME TellInv, LInv, IsFiniteSet(Path), NEW a \in Process, Emit(a)
    PROVE  TellInv'
  BY RefreshOneTells, RefreshBeginTells, RefreshEndTells, EmitForcedTells, EmitDoneTells
     DEF Emit

-----------------------------------------------------------------------------
(* What subscribers do.                                                    *)

\* A read refreshes the handle of a node that is not there: what it finds is
\* to be announced.
LEMMA ReadHandleTells ==
    ASSUME TellInv, LInv, IsFiniteSet(Path), NEW a \in Process, NEW p \in DOMAIN handles[a],
           ReadHandle(a, p)
    PROVE  TellInv'
<1>1. PICK h : h = handles[a][p]
  OBVIOUS
<1>2. PICK n : n = refreshHandle(h, p)
  OBVIOUS
<1>3. PICK hit \in BOOLEAN : hit = HandleChanged(h, n)
  <2>1. HandleChanged(h, n) \in BOOLEAN
    <3>1. Refreshes(n, h, p)
      BY <1>2 DEF Refreshes
    <3>2. IsHandle(h)
      BY <1>1, HandleHere DEF HandleInv, Sound
    <3> QED
      BY <3>2 DEF HandleChanged, IsHandle
  <2> QED
    BY <2>1
<1>4. PICK split \in BOOLEAN : split = (a \in Preemptible /\ Moves(h, n))
  OBVIOUS
<1>5. PICK f, c : f = (h.force \/ hit) /\ c = ~split /\ f \in BOOLEAN /\ c \in BOOLEAN
  OBVIOUS
<1>6. PICK g : g = [n EXCEPT !.force = f, !.counted = c]
  OBVIOUS
<1>7. PICK k : k = IF hit /\ ~h.force THEN forceChangeCount[a] + 1 ELSE forceChangeCount[a]
  OBVIOUS
<1>8. /\ half[a] = "no" /\ n # h
      /\ handles' = [handles EXCEPT ![a][p] = g]
      /\ half' = [half EXCEPT ![a] = IF split THEN "read" ELSE "no"]
      /\ forceChangeCount' = [forceChangeCount EXCEPT ![a] = k]
      /\ emitting' = emitting /\ toEmit' = toEmit
  BY <1>1, <1>2, <1>3, <1>4, <1>5, <1>6, <1>7 DEF ReadHandle
<1>9. Calm
  BY DEF ReadHandle, Calm, space, serverVars, channels
<1>10. /\ a \in Present /\ Present \subseteq Process /\ p \in Node /\ Linked(tree)
       /\ EmitShape /\ HandleInv(a, h, p) /\ forceChangeCount[a] \in Nat
       /\ ProcessInv(a)
  BY <1>1, HandleHere
<1>11. IsHandle(h) /\ Sound(h, p) /\ Knows(a, h, p) /\ h.counted
  BY <1>8, <1>10 DEF HandleInv, Sound, Held, IsHandle
<1>12. IsRefreshed(n, h, p) /\ IsHandle(n)
  <2>1. Refreshes(n, h, p)
    BY <1>2 DEF Refreshes
  <2>2. IsRefreshed(n, h, p)
    BY <1>10, <1>11, <2>1, Refreshed
  <2> QED
    BY <2>2 DEF IsRefreshed, IsPlaced, Sound
<1>13. /\ InPlaceOf(g, n) /\ g.told = n.told
       /\ g.force <=> h.force \/ hit
       /\ g.counted <=> ~split
  <2>1. g = With(n, f, c, n.told)
    BY <1>5, <1>6, <1>12, HandleForms
  <2>2. InPlaceOf(g, n) /\ Changed(g, f, c, n.told)
    BY <1>5, <1>12, <2>1, WithFacts
  <2> QED
    BY <1>5, <2>2 DEF Changed
<1>14. Sound(g, p) /\ Fresh(g) /\ g.node = Closest(p)
  BY <1>12, <1>13, InPlace DEF IsRefreshed, IsPlaced, InPlaceOf
<1>15. half'[a] = IF split THEN "read" ELSE "no"
  BY <1>8, <1>10 DEF EmitShape
<1>16. HandleInv(a, g, p)'
  <2>1. /\ Fresh(g)' <=> Fresh(g)
        /\ Content(p)' = Content(p)
        /\ Sound(g, p)'
        /\ Coming(a, g, p) => Coming(a, g, p)'
    BY <1>9, <1>14, CalmFacts
  <2>2. Knows(a, g, p)'
    <3>1. CASE hit \/ h.force
      BY <1>13, <3>1 DEF Knows, Pledged
    <3>2. CASE ~hit /\ ~h.force
      <4>1. ~HandleChanged(h, n)
        BY <1>3, <3>2
      <4>2. ~Pledged(a, h)
        BY <1>8, <3>2 DEF Pledged
      <4>3. /\ n.whole => n.told = Content(p)
            /\ ~n.whole => n.told = Nothing(p)
        BY <1>11, <1>12, <4>1, <4>2, RefreshedKnows DEF IsRefreshed, IsPlaced
      <4> QED
        BY <1>13, <2>1, <4>3 DEF Knows, InPlaceOf
    <3> QED
      BY <3>1, <3>2
  <2>3. Owed(a, g, p)'
    <3>1. h.force => emitting[a] \/ Coming(a, h, p)
      BY <1>10 DEF HandleInv, Owed
    <3>2. ~Fresh(h)
      BY <1>8, <1>12 DEF IsRefreshed, IsPlaced
    <3>3. emitting[a] \/ Coming(a, h, p)
      BY <1>10, <3>2 DEF HandleInv, Owed, Due
    <3>4. Coming(a, h, p) => Coming(a, g, p)
      BY <1>14 DEF Coming, Noted
    <3> QED
      BY <1>8, <1>14, <2>1, <3>3, <3>4 DEF Owed
  <2>4. Held(a, g)'
    BY <1>4, <1>13, <1>15 DEF Held
  <2> QED
    BY <2>1, <2>2, <2>3, <2>4 DEF HandleInv
<1>17. Alone(a)
  BY <1>8, <1>10 DEF Alone, EmitShape
<1>18. handles'[a] = [handles[a] EXCEPT ![p] = g]
  BY <1>8, <1>10 DEF EmitShape
<1>19. /\ k \in Int
       /\ k + (IF handles[a][p].force THEN 1 ELSE 0)
             = forceChangeCount[a] + (IF g.force THEN 1 ELSE 0)
  BY <1>1, <1>7, <1>10, <1>13
<1>20. \A q \in DOMAIN handles[a] : handles[a][q].counted
  <2> SUFFICES ASSUME NEW q \in DOMAIN handles[a] PROVE handles[a][q].counted
    OBVIOUS
  <2>1. Held(a, handles[a][q])
    BY <1>10 DEF ProcessInv, HandleInv
  <2> QED
    BY <1>8, <2>1 DEF Held
<1> QED
  BY <1>8, <1>9, <1>10, <1>16, <1>17, <1>18, <1>19, <1>20, OneHandle

LEMMA ReadEndTells ==
    ASSUME TellInv, LInv, IsFiniteSet(Path), NEW a \in Process, NEW p \in DOMAIN handles[a],
           ReadEnd(a, p)
    PROVE  TellInv'
<1>1. PICK h : h = handles[a][p]
  OBVIOUS
<1>2. PICK g : g = [h EXCEPT !.counted = TRUE]
  OBVIOUS
<1>3. PICK k : k = forceChangeCount[a]
  OBVIOUS
<1>4. EmitShape
  BY DEF TellInv
<1>5. /\ half[a] = "read" /\ ~h.counted
      /\ handles'[a] = [handles[a] EXCEPT ![p] = g]
      /\ DOMAIN handles' = Process
      /\ \A b \in Process : b # a => handles'[b] = handles[b]
      /\ half' = [half EXCEPT ![a] = "no"]
      /\ emitting' = emitting /\ toEmit' = toEmit /\ forceChangeCount' = forceChangeCount
  BY <1>1, <1>2, <1>4 DEF ReadEnd, EmitShape
<1>6. Calm
  BY DEF ReadEnd, Calm, space, serverVars, channels
<1>7. /\ a \in Present /\ Present \subseteq Process /\ p \in Node
      /\ HandleInv(a, h, p) /\ forceChangeCount[a] \in Nat
      /\ ProcessInv(a)
  BY <1>1, HandleHere
<1>8. IsHandle(h) /\ Sound(h, p)
  BY <1>7 DEF HandleInv, Sound
<1>9. InPlaceOf(g, h) /\ (g.force <=> h.force) /\ g.counted /\ g.told = h.told
  <2>1. PICK f, c : f \in BOOLEAN /\ c \in BOOLEAN /\ f = h.force /\ c = TRUE
    BY <1>8 DEF IsHandle
  <2>2. g = With(h, f, c, h.told)
    BY <1>2, <1>8, <2>1, HandleForms
  <2>3. InPlaceOf(g, h) /\ Changed(g, f, c, h.told)
    BY <1>8, <2>1, <2>2, WithFacts
  <2> QED
    BY <2>1, <2>3 DEF Changed
<1>10. Sound(g, p) /\ (Fresh(g) <=> Fresh(h)) /\ g.node = h.node
  BY <1>8, <1>9, InPlace DEF InPlaceOf
<1>11. HandleInv(a, g, p)'
  <2>1. /\ Fresh(g)' <=> Fresh(g)
        /\ Content(p)' = Content(p)
        /\ Sound(g, p)'
        /\ Coming(a, g, p) => Coming(a, g, p)'
    BY <1>6, <1>10, CalmFacts
  <2>2. Pledged(a, h) => Pledged(a, g)'
    BY <1>5, <1>9 DEF Pledged
  <2>3. Knows(a, g, p)'
    BY <1>7, <1>9, <1>10, <2>1, <2>2 DEF HandleInv, Knows, InPlaceOf
  <2>4. Owed(a, g, p)'
    <3>1. Coming(a, h, p) => Coming(a, g, p)
      BY <1>10 DEF Coming, Noted
    <3>2. Due(a, h, p) => Due(a, g, p)'
      BY <1>5, <1>9 DEF Due
    <3> QED
      BY <1>5, <1>7, <1>9, <1>10, <2>1, <3>1, <3>2 DEF HandleInv, Owed
  <2>5. Held(a, g)'
    BY <1>9 DEF Held
  <2> QED
    BY <2>1, <2>3, <2>4, <2>5 DEF HandleInv
<1>12. Alone(a)
  BY <1>4, <1>5 DEF Alone, EmitShape
<1>13. /\ forceChangeCount' = [forceChangeCount EXCEPT ![a] = k] /\ k \in Int
       /\ k + (IF handles[a][p].force THEN 1 ELSE 0)
             = forceChangeCount[a] + (IF g.force THEN 1 ELSE 0)
  BY <1>1, <1>3, <1>4, <1>5, <1>7, <1>9 DEF EmitShape
<1>14. \A q \in DOMAIN handles[a] : q # p => handles[a][q].counted
  BY <1>1, <1>5, <1>7 DEF ProcessInv
<1> QED
  BY <1>5, <1>6, <1>7, <1>11, <1>12, <1>13, <1>14, OneHandle

LEMMA AllHere ==
    ASSUME TellInv, LInv
    PROVE  /\ EmitShape /\ Present \subseteq Process /\ Linked(tree)
           /\ \A a \in Present : ProcessInv(a) /\ a \in Process
  BY DEF TellInv, LInv, Shape, TreeInv, Present, Process

LEMMA CallerPresent ==
    ASSUME NEW a \in Process, MayCall(a)
    PROVE  a \in Present /\ half[a] = "no"
  BY DEF MayCall, Present

\* The set of handles of a process changes, and each of them is as before or
\* as good as new.
LEMMA HandleSet ==
    ASSUME TellInv, LInv, Calm, NEW a \in Process, a \in Present, half[a] = "no",
           UNCHANGED <<forceChangeCount, toEmit, emitting, half>>,
           NEW gs, handles' = [handles EXCEPT ![a] = gs],
           DOMAIN gs \subseteq Path, IsFiniteSet(Path),
           \A q \in DOMAIN gs :
              \/ q \in DOMAIN handles[a] /\ gs[q] = handles[a][q]
              \/ ~gs[q].force /\ gs[q].counted /\ HandleInv(a, gs[q], q)
    PROVE  TellInv'
<1>1. /\ EmitShape /\ Present \subseteq Process /\ ProcessInv(a)
      /\ forceChangeCount[a] \in Nat
  BY AllHere DEF EmitShape
<1>2. handles'[a] = gs /\ Alone(a)
  BY <1>1 DEF Alone, EmitShape
<1>3. ASSUME NEW q \in DOMAIN gs PROVE HandleInv(a, gs[q], q) /\ gs[q].counted
  <2>1. CASE q \in DOMAIN handles[a] /\ gs[q] = handles[a][q]
    <3>1. HandleInv(a, handles[a][q], q)
      BY <1>1, <2>1 DEF ProcessInv
    <3>2. handles[a][q].counted
      BY <3>1 DEF HandleInv, Held
    <3> QED
      BY <2>1, <3>1, <3>2
  <2> QED
    BY <2>1
<1>4. ASSUME NEW q \in DOMAIN handles'[a] PROVE HandleInv(a, handles[a][q], q)'
  <2>1. PICK h : h = gs[q] /\ h = handles'[a][q]
    BY <1>2
  <2>2. HandleInv(a, h, q)
    BY <1>2, <1>3, <1>4, <2>1
  <2>3. HandleInv(a, h, q)'
    BY <2>2, CalmHandle
  <2> QED
    BY <2>1, <2>3
<1>5. Cardinality(Forced(gs)) <= forceChangeCount[a]
  <2>1. PICK hs : hs = handles[a]
    OBVIOUS
  <2>2. DOMAIN hs \subseteq Path /\ Cardinality(Forced(hs)) <= forceChangeCount[a]
    BY <1>1, <2>1 DEF ProcessInv
  <2>3. Forced(gs) \subseteq Forced(hs) /\ Forced(hs) \subseteq Path
    BY <2>1, <2>2 DEF Forced
  <2>4. /\ IsFiniteSet(Forced(hs)) /\ IsFiniteSet(Forced(gs))
        /\ Cardinality(Forced(gs)) <= Cardinality(Forced(hs))
    BY <2>3, FS_Subset
  <2>5. Cardinality(Forced(hs)) \in Nat /\ Cardinality(Forced(gs)) \in Nat
    BY <2>4, FS_CardinalityType
  <2> QED
    BY <1>1, <2>2, <2>4, <2>5
<1>6. ProcessInv(a)'
  <2>1. DOMAIN handles'[a] \subseteq Path
    BY <1>2
  <2>2. Cardinality(Forced(handles'[a])) <= forceChangeCount'[a]
    BY <1>2, <1>5
  <2>3. \A q, r \in DOMAIN handles'[a] :
           ~handles'[a][q].counted /\ ~handles'[a][r].counted => q = r
    BY <1>2, <1>3
  <2>4. toEmit'[a] # {} => emitting'[a]
    BY <1>1 DEF ProcessInv
  <2> QED
    BY <1>4, <2>1, <2>2, <2>3, <2>4 DEF ProcessInv
<1>7. forceChangeCount' \in [Process -> Nat]
  BY <1>1 DEF EmitShape
<1> QED
  BY <1>1, <1>2, <1>6, <1>7, AlonePresent

\* A subscriber begins with what it reads.
LEMMA ItemTells ==
    ASSUME TellInv, LInv, IsFiniteSet(Path), NEW a \in Process, NEW p \in Path, item(a, p)
    PROVE  TellInv'
<1>1. PICK h : h = [node |-> Root, whole |-> FALSE, version |-> 0, creation |-> 0,
                    force |-> FALSE, counted |-> TRUE, told |-> Content(p)]
  OBVIOUS
<1>2. PICK g : g = Placed(h, p)
  OBVIOUS
<1>3. PICK gs : gs = [q \in DOMAIN handles[a] \cup {p} |-> IF q = p THEN g ELSE handles[a][q]]
  OBVIOUS
<1>4. handles' = [handles EXCEPT ![a] = gs]
  BY <1>1, <1>2, <1>3 DEF item
<1>5. /\ MayCall(a) /\ Calm
      /\ UNCHANGED <<forceChangeCount, toEmit, emitting, half>>
  BY DEF item, Calm, space, serverVars, channels, emission
<1>6. /\ DOMAIN gs = {p} \cup DOMAIN handles[a]
      /\ gs[p] = g /\ \A q \in DOMAIN handles[a] : q # p => gs[q] = handles[a][q]
  BY <1>3
<1>7. a \in Present /\ half[a] = "no"
  BY <1>5, CallerPresent
<1>8. EmitShape /\ Linked(tree) /\ ProcessInv(a) /\ p \in Node
  BY <1>7, AllHere DEF Node
<1>9. IsHandle(h) /\ ~h.force /\ h.counted /\ h.told = Content(p)
  BY <1>1 DEF IsHandle
<1>10. IsPlaced(g, h, p)
  BY <1>2, <1>8, <1>9, PlacedIs
<1>11. /\ Sound(g, p) /\ Fresh(g) /\ ~g.force /\ g.counted /\ g.told = Content(p)
       /\ g.node = Closest(p)
  BY <1>9, <1>10 DEF IsPlaced
<1>12. Knows(a, g, p)
  <2>1. ~g.whole => Closest(p) # p
    BY <1>11 DEF Sound
  <2>2. ~g.whole => Content(p) = Nothing(p)
    BY <1>8, <2>1, ClosestIs
  <2> QED
    BY <1>11, <2>2 DEF Knows
<1>13. HandleInv(a, g, p)
  BY <1>11, <1>12 DEF HandleInv, Owed, Held
<1>14. DOMAIN gs \subseteq Path
  BY <1>6, <1>8 DEF ProcessInv
<1>15. \A q \in DOMAIN gs :
          \/ q \in DOMAIN handles[a] /\ gs[q] = handles[a][q]
          \/ ~gs[q].force /\ gs[q].counted /\ HandleInv(a, gs[q], q)
  BY <1>6, <1>11, <1>13
<1> QED
  BY <1>4, <1>5, <1>7, <1>14, <1>15, HandleSet

LEMMA RemoveHandleTells ==
    ASSUME TellInv, LInv, IsFiniteSet(Path), NEW a \in Process, NEW p, removeHandle(a, p)
    PROVE  TellInv'
<1>1. PICK gs : gs = [q \in DOMAIN handles[a] \ {p} |-> handles[a][q]]
  OBVIOUS
<1>2. handles' = [handles EXCEPT ![a] = gs]
  BY <1>1 DEF removeHandle
<1>3. /\ MayCall(a) /\ Calm
      /\ UNCHANGED <<forceChangeCount, toEmit, emitting, half>>
  BY DEF removeHandle, Calm, space, serverVars, channels, emission
<1>4. a \in Present /\ half[a] = "no"
  BY <1>3, CallerPresent
<1>5. ProcessInv(a)
  BY <1>4, AllHere
<1>6. DOMAIN gs \subseteq Path
  BY <1>1, <1>5 DEF ProcessInv
<1>7. \A q \in DOMAIN gs : q \in DOMAIN handles[a] /\ gs[q] = handles[a][q]
  BY <1>1
<1> QED
  BY <1>2, <1>3, <1>4, <1>6, <1>7, HandleSet

LEMMA SubscriberTells ==
    ASSUME TellInv, LInv, IsFiniteSet(Path), NEW a \in Process, Subscriber(a)
    PROVE  TellInv'
<1>1. ASSUME NEW p \in Path, ReadHandle(a, p) PROVE TellInv'
  <2>1. p \in DOMAIN handles[a]
    BY <1>1 DEF ReadHandle
  <2> QED
    BY <1>1, <2>1, ReadHandleTells
<1> QED
  BY <1>1, ItemTells, RemoveHandleTells DEF Subscriber

-----------------------------------------------------------------------------
(* Steps that change what is around the handles.                           *)

\* The handles of a process are not touched, and it does not stop emitting.
HandlesKept(b) ==
    /\ handles'[b] = handles[b] /\ forceChangeCount'[b] = forceChangeCount[b]
    /\ half'[b] = half[b]
    /\ toEmit'[b] # {} => emitting'[b]

LEMMA Surrounded ==
    ASSUME TellInv, EmitShape', Present' \subseteq Present, Present \subseteq Process,
           \A b \in Process \ Present' : handles'[b] = <<>>,
           \A b \in Present' : HandlesKept(b),
           \A b \in Present' : \A p, h :
              p \in DOMAIN handles[b] /\ HandleInv(b, h, p) /\ h = handles[b][p]
                 => HandleInv(b, h, p)'
    PROVE  TellInv'
<1>1. ASSUME NEW b \in Present' PROVE ProcessInv(b)'
  <2>1. ProcessInv(b)
    BY DEF TellInv
  <2> QED
    BY <2>1, ProcessKept DEF HandlesKept
<1> QED
  BY <1>1 DEF TellInv

SameSpace == UNCHANGED <<tree, version, creation, tick>>

\* doClientEmit is called in process b, or goes on there; nobody forgets it.
Emits(b) == emitting'[b] /\ toEmit'[b] = DOMAIN handles[b]

GoesOn(b) == emitting'[b] = emitting[b] /\ toEmit'[b] = toEmit[b]

LEMMA ToldHandle ==
    ASSUME SameSpace, NEW b, NEW p \in DOMAIN handles[b], NEW h, HandleInv(b, h, p),
           half'[b] = half[b],
           \/ Emits(b) /\ (half[b] = "no" \/ h.counted)
           \/ GoesOn(b) /\ (Coming(b, h, p) => Coming(b, h, p)')
    PROVE  HandleInv(b, h, p)'
<1>1. /\ Fresh(h)' <=> Fresh(h)
      /\ Closest(p)' = Closest(p) /\ Content(p)' = Content(p)
  BY DEF SameSpace, Fresh, Alive, Closest, Content, Default
<1>2. Sound(h, p)'
  BY <1>1 DEF SameSpace, Sound, HandleInv
<1>3. Knows(b, h, p)'
  BY <1>1 DEF HandleInv, Knows, Pledged
<1>4. Owed(b, h, p)'
  BY <1>1 DEF HandleInv, Owed, Emits, GoesOn, Due
<1>5. Held(b, h)'
  BY DEF HandleInv, Held
<1> QED
  BY <1>2, <1>3, <1>4, <1>5 DEF HandleInv

\* Whoever is to hear of a set of nodes has its bit set, or no bitmap.
LEMMA ConcernedIfNoted ==
    ASSUME Announced, EmitShape, NEW b \in Client, NEW p \in DOMAIN handles[b],
           NEW h, h = handles[b][p], HandleInv(b, h, p), Noted(b, h, p)
    PROVE  Concerned(b)
<1>1. CASE b \notin Indexed
  BY <1>1 DEF EmitShape, Concerned
<1>2. CASE b \in Indexed
  <2>1. h.node \in changedNodes
    BY <1>2 DEF Noted
  <2>2. h.counted
    BY <1>2 DEF Announced, HandleInv, Held
  <2>3. h.node \in Interest(b)
    BY <2>2 DEF Interest
  <2> QED
    BY <2>1, <2>3 DEF Concerned
<1> QED
  BY <1>1, <1>2

\* What StartEmit does.
LEMMA StartFacts ==
    ASSUME EmitShape, NEW a \in Process, StartEmit(a)
    PROVE  /\ DOMAIN toEmit' = Process /\ DOMAIN emitting' = Process /\ DOMAIN half' = Process
           /\ forceChangeCount' = forceChangeCount /\ half' = half
           /\ toEmit'[a] # {} => emitting'[a]
           /\ DOMAIN handles[a] # {} => Emits(a)
           /\ \A b \in Process : b # a => GoesOn(b)
  BY DEF StartEmit, EmitShape, Emits, GoesOn

LEMMA AppendedQueue ==
    ASSUME NEW s, NEW S, s \in Seq(S), NEW x
    PROVE  Append(s, x) # <<>> /\ Append(s, x) \in Seq(S \cup {x})
<1>1. Append(s, x) \in Seq(S \cup {x})
  OBVIOUS
<1>2. DOMAIN Append(s, x) = 1 .. Len(s) + 1 /\ Len(s) \in Nat
  OBVIOUS
<1>3. 1 \in DOMAIN Append(s, x)
  BY <1>2
<1>4. Append(s, x) # <<>>
  BY <1>3, EmptyQueue
<1> QED
  BY <1>1, <1>4

LEMMA AppendedNotEmpty ==
    ASSUME LInv, NEW c \in connections, NEW s, NEW y, s \in {toClient[c], Append(toClient[c], y)}
    PROVE  /\ \A x : Append(s, x) # <<>>
           /\ toClient[c] # <<>> => s # <<>>
           /\ s # toClient[c] => s # <<>>
<1>1. PICK S : toClient[c] \in Seq(S)
  BY DEF LInv, Numbered, NumberedAs
<1>2. Append(toClient[c], y) # <<>> /\ Append(toClient[c], y) \in Seq(S \cup {y})
  BY <1>1, AppendedQueue
<1>3. \A x : Append(s, x) # <<>>
  BY <1>1, <1>2, AppendedQueue
<1> QED
  BY <1>2, <1>3

\* The server tells its clients, and calls doClientEmit itself (told), or has
\* nothing to tell.
LEMMA ServerTells ==
    ASSUME TellInv, LInv, SameSpace, Present' = Present, handles' = handles, EmitShape',
           StartEmit(Server) \/ UNCHANGED emission,
           \A b \in Present : \A p, h :
              /\ p \in DOMAIN handles[b] /\ HandleInv(b, h, p) /\ h = handles[b][p]
              /\ StartEmit(Server) => b # Server
              => (Coming(b, h, p) => Coming(b, h, p)')
    PROVE  TellInv'
<1>1. /\ EmitShape /\ Present \subseteq Process
      /\ \A a \in Present : ProcessInv(a) /\ a \in Process
      /\ Server \in Process
  BY AllHere DEF Process
<1>2. ASSUME NEW b \in Present PROVE HandlesKept(b) /\ ((b = Server /\ StartEmit(Server)) \/ GoesOn(b))
  <2>1. CASE StartEmit(Server)
    BY <1>1, <2>1, StartFacts DEF HandlesKept, ProcessInv, GoesOn
  <2>2. CASE UNCHANGED emission
    BY <1>1, <2>2 DEF emission, HandlesKept, ProcessInv, GoesOn
  <2> QED
    BY <2>1, <2>2
<1>3. ASSUME NEW b \in Present, NEW p, NEW h, p \in DOMAIN handles[b], HandleInv(b, h, p),
             h = handles[b][p]
      PROVE  HandleInv(b, h, p)'
  <2>1. half'[b] = half[b]
    BY <1>2 DEF HandlesKept
  <2>2. CASE b = Server /\ StartEmit(Server)
    <3>1. Emits(b)
      BY <1>1, <1>3, <2>2, StartFacts
    <3>2. h.counted
      BY <1>3, <2>2, LayerAssumption DEF HandleInv, Held
    <3> QED
      BY <1>3, <2>1, <3>1, <3>2, ToldHandle
  <2>3. CASE GoesOn(b) /\ ~(b = Server /\ StartEmit(Server))
    <3>1. Coming(b, h, p) => Coming(b, h, p)'
      BY <1>3, <2>3
    <3> QED
      BY <1>3, <2>1, <2>3, <3>1, ToldHandle
  <2> QED
    BY <1>2, <2>2, <2>3
<1>4. \A b \in Process \ Present' : handles'[b] = <<>>
  BY DEF TellInv
<1> QED
  BY <1>1, <1>2, <1>3, <1>4, Surrounded

\* A client receives a packet and calls doClientEmit.
LEMMA ReceiveTells ==
    ASSUME TellInv, LInv, NEW c \in Client, ReceiveSync(c)
    PROVE  TellInv'
<1>1. /\ EmitShape /\ Present \subseteq Process /\ c \in Process
      /\ \A a \in Present : ProcessInv(a) /\ a \in Process
  BY AllHere DEF Process
<1>2. /\ SameSpace /\ StartEmit(c) /\ handles' = handles /\ half[c] = "no"
      /\ UNCHANGED <<changedNodes, work, timers, connections, index>>
      /\ toClient' = [toClient EXCEPT ![c] = Tail(@)]
  BY DEF ReceiveSync, Free, SameSpace, space, serverVars
<1>3. EmitShape' /\ Present' = Present
  <2>1. /\ DOMAIN toEmit' = Process /\ DOMAIN emitting' = Process /\ DOMAIN half' = Process
        /\ forceChangeCount' = forceChangeCount
    BY <1>1, <1>2, StartFacts
  <2> QED
    BY <1>1, <1>2, <2>1 DEF EmitShape, SameSpace, Present
<1>4. ASSUME NEW b \in Present PROVE HandlesKept(b) /\ (b # c => GoesOn(b))
  BY <1>1, <1>2, StartFacts DEF HandlesKept, ProcessInv, GoesOn
<1>5. ASSUME NEW b \in Present, NEW p, NEW h, p \in DOMAIN handles[b], HandleInv(b, h, p),
             h = handles[b][p]
      PROVE  HandleInv(b, h, p)'
  <2>1. half'[b] = half[b]
    BY <1>4 DEF HandlesKept
  <2>2. CASE b = c
    <3>1. Emits(b)
      BY <1>1, <1>2, <1>5, <2>2, StartFacts
    <3> QED
      BY <1>2, <1>5, <2>1, <2>2, <3>1, ToldHandle
  <2>3. CASE b # c
    <3>1. toClient'[b] = toClient[b]
      BY <1>2, <2>3
    <3>2. Closest(p)' = Closest(p)
      BY <1>2 DEF SameSpace, Closest
    <3>3. Coming(b, h, p) => Coming(b, h, p)'
      BY <1>2, <3>1, <3>2 DEF Coming, Noted
    <3> QED
      BY <1>2, <1>4, <1>5, <2>1, <2>3, <3>3, ToldHandle
  <2> QED
    BY <2>2, <2>3
<1>6. \A b \in Process \ Present' : handles'[b] = <<>>
  BY <1>2, <1>3 DEF TellInv
<1> QED
  BY <1>1, <1>3, <1>4, <1>5, <1>6, Surrounded

LEMMA TakeTells ==
    ASSUME TellInv, LInv, NEW c \in Client, TakePacket(c)
    PROVE  TellInv'
<1>1. /\ SameSpace /\ handles' = handles /\ UNCHANGED emission
      /\ UNCHANGED <<timers, connections, index, toClient>> /\ work = NoWork
      /\ \E pack : work' = [kind |-> "packet", from |-> c, id |-> pack.id,
                            ops |-> pack.ops, changed |-> FALSE]
  BY DEF TakePacket, Free, SameSpace, space
<1>2. EmitShape' /\ Present' = Present
  BY <1>1 DEF TellInv, EmitShape, SameSpace, emission, Present
<1>3. ASSUME NEW b \in Present, NEW p, NEW h, Coming(b, h, p) PROVE Coming(b, h, p)'
  BY <1>1, <1>3 DEF Coming, NoWork
<1> QED
  BY <1>1, <1>2, <1>3, ServerTells

LEMMA FinishTells ==
    ASSUME TellInv, LInv, Announced, FinishPacket
    PROVE  TellInv'
<1>1. /\ SameSpace /\ handles' = handles /\ work.kind = "packet" /\ work' = NoWork
      /\ UNCHANGED <<timers, connections, index>>
  BY DEF FinishPacket, SameSpace, space
<1>2. PICK causal : /\ causal = Synced({work.from}, work.id)
                    /\ IF work.changed THEN doServerTransmit(causal)
                       ELSE toClient' = causal /\ UNCHANGED emission
  BY DEF FinishPacket
<1>3. EmitShape /\ Server \in Process
  BY DEF TellInv, Process
<1>4. IF work.changed THEN StartEmit(Server) ELSE UNCHANGED emission
  BY <1>2 DEF doServerTransmit
<1>5. EmitShape' /\ Present' = Present
  <2>1. /\ DOMAIN toEmit' = Process /\ DOMAIN emitting' = Process /\ DOMAIN half' = Process
        /\ forceChangeCount' = forceChangeCount
    BY <1>3, <1>4, StartFacts DEF emission, EmitShape
  <2> QED
    BY <1>1, <1>3, <2>1 DEF EmitShape, SameSpace, Present, NoWork
<1>6. ASSUME NEW b \in Present, NEW p, NEW h, p \in DOMAIN handles[b],
             HandleInv(b, h, p), h = handles[b][p],
             StartEmit(Server) => b # Server, Coming(b, h, p)
      PROVE  Coming(b, h, p)'
  <2>1. CASE b = Server
    BY <1>1, <1>4, <1>6, <2>1 DEF Coming
  <2>2. CASE b # Server
    <3>1. b \in connections /\ b \in Client
      BY <2>2 DEF Present, LInv, Shape
    <3>2. causal[b] \in {toClient[b], Append(toClient[b], work.id)}
      BY <1>2, <3>1 DEF Synced
    <3>3. toClient'[b] \in {causal[b], Append(causal[b], 0)}
      BY <1>2, <3>1 DEF doServerTransmit
    <3>4. Append(causal[b], 0) # <<>> /\ (toClient[b] # <<>> => causal[b] # <<>>)
      <4>1. PICK s, y : s = causal[b] /\ y = work.id
        OBVIOUS
      <4>2. s \in {toClient[b], Append(toClient[b], y)}
        BY <3>2, <4>1
      <4>3. Append(s, 0) # <<>> /\ (toClient[b] # <<>> => s # <<>>)
        BY <3>1, <4>2, AppendedNotEmpty
      <4> QED
        BY <4>1, <4>3
    <3>5. CASE work.changed /\ Noted(b, h, p)
      <4>1. Concerned(b)
        BY <1>3, <1>6, <3>1, <3>5, ConcernedIfNoted
      <4>2. toClient'[b] = Append(causal[b], 0)
        BY <1>2, <3>1, <3>5, <4>1 DEF doServerTransmit
      <4> QED
        BY <2>2, <3>4, <4>2 DEF Coming
    <3>6. CASE toClient[b] # <<>>
      <4>1. toClient'[b] # <<>>
        BY <3>3, <3>6, <3>4
      <4> QED
        BY <2>2, <4>1 DEF Coming
    <3>7. CASE timers > 0 /\ b \notin Indexed
      BY <1>1, <3>7 DEF Coming
    <3> QED
      BY <1>1, <1>6, <3>5, <3>6, <3>7 DEF Coming
  <2> QED
    BY <2>1, <2>2
<1> QED
  BY <1>1, <1>4, <1>5, <1>6, ServerTells

LEMMA TimerTells ==
    ASSUME TellInv, LInv, Announced, ServerTimer
    PROVE  TellInv'
<1>1. /\ SameSpace /\ handles' = handles /\ work = NoWork /\ work' = NoWork
      /\ timers > 0 /\ timers' = timers - 1
      /\ UNCHANGED <<connections, index>>
      /\ doServerTransmit(toClient) /\ StartEmit(Server)
  BY DEF ServerTimer, Free, SameSpace, space, doServerTransmit
<1>2. EmitShape /\ Server \in Process
  BY DEF TellInv, Process
<1>3. EmitShape' /\ Present' = Present
  <2>1. /\ DOMAIN toEmit' = Process /\ DOMAIN emitting' = Process /\ DOMAIN half' = Process
        /\ forceChangeCount' = forceChangeCount
    BY <1>1, <1>2, StartFacts
  <2>2. timers' \in Nat
    BY <1>1, <1>2 DEF EmitShape
  <2> QED
    BY <1>1, <1>2, <2>1, <2>2 DEF EmitShape, SameSpace, Present
<1>4. ASSUME NEW b \in Present, NEW p, NEW h, b # Server, Coming(b, h, p)
      PROVE  Coming(b, h, p)'
  <2>1. b \in connections /\ b \in Client
    BY <1>4 DEF Present, LInv, Shape
  <2>2. toClient'[b] \in {toClient[b], Append(toClient[b], 0)}
    BY <1>1, <2>1 DEF doServerTransmit
  <2>3. CASE toClient[b] # <<>>
    BY <1>4, <2>1, <2>2, <2>3, AppendedNotEmpty DEF Coming
  <2>4. CASE b \notin Indexed
    <3>1. Concerned(b)
      BY <1>2, <2>4 DEF EmitShape, Concerned
    <3>2. toClient'[b] = Append(toClient[b], 0)
      BY <1>1, <2>1, <3>1 DEF doServerTransmit
    <3> QED
      BY <1>4, <2>1, <3>2, AppendedNotEmpty DEF Coming
  <2> QED
    BY <1>1, <1>4, <2>3, <2>4 DEF Coming, NoWork
<1> QED
  BY <1>1, <1>3, <1>4, ServerTells

LEMMA FinishDisconnectTells ==
    ASSUME TellInv, LInv, FinishDisconnect
    PROVE  TellInv'
<1>1. /\ SameSpace /\ handles' = handles /\ work.kind = "gone" /\ work' = NoWork
      /\ UNCHANGED <<timers, connections, index>>
      /\ IF work.changed
         THEN /\ StartEmit(Server)
              /\ toClient' = [c \in Client |-> IF c \in connections
                                               THEN Append(toClient[c], 0) ELSE toClient[c]]
         ELSE UNCHANGED <<toClient, emission>>
  BY DEF FinishDisconnect, SameSpace, space, Synced
<1>2. EmitShape /\ Server \in Process
  BY DEF TellInv, Process
<1>3. StartEmit(Server) \/ UNCHANGED emission
  BY <1>1
<1>4. EmitShape' /\ Present' = Present
  <2>1. /\ DOMAIN toEmit' = Process /\ DOMAIN emitting' = Process /\ DOMAIN half' = Process
        /\ forceChangeCount' = forceChangeCount
    BY <1>2, <1>3, StartFacts DEF emission, EmitShape
  <2> QED
    BY <1>1, <1>2, <2>1 DEF EmitShape, SameSpace, Present, NoWork
<1>5. ASSUME NEW b \in Present, NEW p, NEW h, Coming(b, h, p),
             StartEmit(Server) => b # Server
      PROVE  Coming(b, h, p)'
  <2>1. CASE work.changed
    <3>1. b \in connections /\ b \in Client /\ b # Server
      BY <1>1, <1>5, <2>1 DEF Present, LInv, Shape
    <3>2. toClient'[b] = Append(toClient[b], 0)
      BY <1>1, <2>1, <3>1
    <3> QED
      BY <3>1, <3>2, AppendedNotEmpty DEF Coming
  <2>2. CASE ~work.changed
    BY <1>1, <1>5, <2>2 DEF Coming
  <2> QED
    BY <2>1, <2>2
<1> QED
  BY <1>1, <1>3, <1>4, <1>5, ServerTells

LEMMA RequestReported ==
    ASSUME TellInv, LInv, Ample, NEW c \in connections, NEW r, Asked(c, r), NEW t,
           Requested(t, c, r)
    PROVE  Reported(tree, t)
<1>1. PICK there \in SUBSET Process :
         there = connections \cup {Server} /\ c \in there /\ TreeInv(tree, there)
  BY DEF LInv, Shape, Process
<1>2. NoWatches(tree)
  BY DEF TellInv, EmitShape, NoWatches
<1>3. CASE r.op = "ADD"
  <2>1. PICK v \in Value : <<c, r.path>> \in Publish /\ r.value = {v}
    BY <1>3 DEF Asked
  <2>2. PICK p \in Node : p = r.path
    BY <2>1, LayerAssumption DEF Node
  <2>3. Inserts(t, tree, p, c, v)
    BY <1>3, <2>1, <2>2 DEF doSetItem, Requested, Inserts
  <2>4. <<c, p>> \in Publish
    BY <2>1, <2>2
  <2> QED
    BY <1>1, <1>2, <2>3, <2>4, InsertedReported
<1>4. CASE r.op = "REM"
  <2>1. PICK p, who : p = r.path /\ who = OwnerOf(c) /\ p \in Node
    BY <1>4, LayerAssumption DEF Asked, Node
  <2>2. Removes(t, tree, p, who)
    BY <1>4, <2>1 DEF doRemItems, Requested, Removes
  <2> QED
    BY <1>1, <1>2, <2>1, <2>2, RemovedReported
<1>5. CASE r.op \in {"NOTIFY", "SUBINDEX"}
  <2>1. t = [tree EXCEPT !.bumped = {}, !.rv = FALSE]
    BY <1>5 DEF Requested
  <2>2. IsTree(tree)
    BY <1>1 DEF TreeInv, Linked
  <2>3. t.live = tree.live /\ t.data = tree.data /\ t.watches = tree.watches /\ t.bumped = {}
    BY <2>1, <2>2 DEF IsTree
  <2>4. Versioned(tree, t)
    BY <2>3 DEF Versioned, Subtree
  <2> QED
    BY <1>2, <2>3, <2>4 DEF Reported, NoWatches
<1> QED
  BY <1>3, <1>4, <1>5 DEF Asked

LEMMA StoredTypes ==
    ASSUME NEW t, Store(t), EmitShape
    PROVE  /\ tick' \in Nat
           /\ version' \in [Node -> 0 .. tick']
           /\ creation' \in [Node -> 0 .. tick']
<1> DEFINE now == IF t.bumped = {} THEN tick ELSE tick + 1
<1>1. /\ version' = [n \in Node |-> IF n \in t.bumped THEN now ELSE version[n]]
      /\ creation' = [n \in Node |-> IF n \in t.live \ tree.live THEN now ELSE creation[n]]
      /\ tick' = now
  BY DEF Store
<1>2. /\ tick \in Nat /\ version \in [Node -> 0 .. tick]
      /\ creation \in [Node -> 0 .. tick]
  BY DEF EmitShape
<1>3. now \in Nat /\ tick <= now
  BY <1>2
<1> HIDE DEF now
<1>4. \A k \in 0 .. tick : k \in 0 .. now
  BY <1>2, <1>3
<1>5. now \in 0 .. now
  BY <1>3
<1>6. version' \in [Node -> 0 .. now] /\ creation' \in [Node -> 0 .. now]
  BY <1>1, <1>2, <1>4, <1>5
<1> QED
  BY <1>1, <1>3, <1>6

-----------------------------------------------------------------------------
(* Steps that change the tree.                                             *)

\* Nothing is forgotten of what was to come, and what t reports is announced.
LEMMA TreeHandle ==
    ASSUME NEW t, Linked(tree), Linked(t), Reported(tree, t), Store(t), EmitShape,
           NEW b, NEW p \in Node, NEW h, HandleInv(b, h, p),
           half'[b] = half[b], GoesOn(b), p \in DOMAIN handles[b],
           (Coming(b, h, p) => Coming(b, h, p)'),
           t.rv /\ Noted(b, h, p)' => Coming(b, h, p)'
    PROVE  HandleInv(b, h, p)'
<1>1. Sound(h, p)
  BY DEF HandleInv
<1>2. /\ Sound(h, p)'
      /\ Fresh(h)' => Fresh(h)
      /\ Fresh(h) /\ ~Fresh(h)' =>
            t.rv /\ h.node \in changedNodes' /\ Closest(p)' \in changedNodes'
      /\ Fresh(h)' /\ h.whole => Content(p)' = Content(p)
  BY <1>1, StoredHandle
<1>3. Knows(b, h, p)'
  BY <1>2 DEF HandleInv, Knows, Pledged
<1>4. Fresh(h) /\ ~Fresh(h)' => t.rv /\ Noted(b, h, p)'
  BY <1>2 DEF Noted
<1>5. Owed(b, h, p)'
  BY <1>4 DEF HandleInv, Owed, Due, GoesOn
<1>6. Held(b, h)'
  BY DEF HandleInv, Held
<1> QED
  BY <1>2, <1>3, <1>5, <1>6 DEF HandleInv

\* A call on the tree: whoever is there and not concerned by it hears of it.
LEMMA TreeTells ==
    ASSUME TellInv, LInv, NEW t, Linked(t), Reported(tree, t), Store(t),
           Present' \subseteq Present,
           \A b \in Process \ Present' : handles'[b] = <<>>,
           \A b \in Present' : /\ handles'[b] = handles[b] /\ half'[b] = half[b]
                               /\ forceChangeCount'[b] = forceChangeCount[b] /\ GoesOn(b),
           DOMAIN handles' = Process, DOMAIN toEmit' = Process,
           DOMAIN emitting' = Process, DOMAIN half' = Process,
           forceChangeCount' = forceChangeCount,
           timers' \in Nat, index' \subseteq Indexed, work'.changed \in BOOLEAN,
           \A b \in Present' : \A p, h :
              /\ Coming(b, h, p) /\ (Noted(b, h, p) => Noted(b, h, p)') => Coming(b, h, p)'
              /\ t.rv /\ Noted(b, h, p)' => Coming(b, h, p)'
    PROVE  TellInv'
<1>1. /\ EmitShape /\ Present \subseteq Process /\ Linked(tree)
      /\ \A a \in Present : ProcessInv(a) /\ a \in Process
  BY AllHere
<1>2. tree'.watches = t.watches
  BY DEF Store, Linked, IsTree
<1>3. ASSUME NEW b \in Present', NEW p, NEW h, p \in DOMAIN handles[b],
             HandleInv(b, h, p), h = handles[b][p]
      PROVE  HandleInv(b, h, p)'
  <2>1. p \in Node /\ Sound(h, p)
    BY <1>1, <1>3 DEF ProcessInv, HandleInv, Node
  <2>2. Noted(b, h, p) => Noted(b, h, p)'
    BY <1>1, <2>1, StoredHandle
  <2>3. (Coming(b, h, p) => Coming(b, h, p)') /\ (t.rv /\ Noted(b, h, p)' => Coming(b, h, p)')
    BY <2>2
  <2> QED
    BY <1>1, <1>3, <2>1, <2>3, TreeHandle
<1>4. /\ tick' \in Nat /\ version' \in [Node -> 0 .. tick']
      /\ creation' \in [Node -> 0 .. tick']
  BY <1>1, StoredTypes
<1>5. EmitShape'
  BY <1>1, <1>2, <1>4 DEF EmitShape, Reported, NoWatches
<1>6. \A b \in Present' : HandlesKept(b)
  BY <1>1 DEF HandlesKept, ProcessInv, GoesOn
<1> QED
  BY <1>1, <1>3, <1>5, <1>6, Surrounded

\* The server carries out a request.
LEMMA HandleTells ==
    ASSUME TellInv, LInv, Ample, HandleRequest
    PROVE  TellInv'
<1>0. PICK c, r : c = work.from /\ r = Head(work.ops)
  OBVIOUS
<1>1. PICK t : /\ Requested(t, c, r)
               /\ Store(t)
               /\ work.kind = "packet" /\ work.ops # <<>>
               /\ work' = [work EXCEPT !.ops = Tail(work.ops),
                                       !.changed = work.changed \/ t.rv]
               /\ index' \subseteq index \cup ({c} \cap Indexed)
  BY <1>0 DEF HandleRequest, Requested
<1>2. UNCHANGED <<timers, connections, toClient, handles, emission>>
  BY DEF HandleRequest, channels
<1>3. Shape /\ EmitShape
  BY DEF LInv, TellInv
<1>4. c \in connections
  BY <1>0, <1>1, <1>3 DEF Shape
<1>5. work'.kind = "packet" /\ (work'.changed <=> work.changed \/ t.rv)
      /\ work'.changed \in BOOLEAN
  BY <1>1, <1>3 DEF Shape
<1>6. Asked(c, r)
  <2>1. QueuedAs(c, todo[c], toServer[c], work.ops)
    BY <1>0, <1>1, <1>4 DEF LInv, Queued, Rest, Working
  <2> QED
    BY <1>0, <1>1, <2>1, HandledQueued
<1>7. TreeInv(t, connections \cup {Server})
  BY <1>1, <1>4, <1>6, RequestOnTree
<1>8. Linked(t) /\ Reported(tree, t)
  BY <1>1, <1>4, <1>6, <1>7, RequestReported DEF TreeInv
<1>9. Present' = Present /\ Present \subseteq Process
  BY <1>2, <1>3 DEF Present, Shape, Process
<1>10. ASSUME NEW b \in Present', NEW p, NEW h
       PROVE  /\ Coming(b, h, p) /\ (Noted(b, h, p) => Noted(b, h, p)') => Coming(b, h, p)'
              /\ t.rv /\ Noted(b, h, p)' => Coming(b, h, p)'
  BY <1>1, <1>2, <1>5 DEF Coming
<1>11. index' \subseteq Indexed /\ timers' \in Nat
  BY <1>1, <1>2, <1>3 DEF EmitShape
<1>12. /\ \A b \in Process \ Present' : handles'[b] = <<>>
       /\ \A b \in Present' : /\ handles'[b] = handles[b] /\ half'[b] = half[b]
                              /\ forceChangeCount'[b] = forceChangeCount[b] /\ GoesOn(b)
       /\ DOMAIN handles' = Process /\ DOMAIN toEmit' = Process
       /\ DOMAIN emitting' = Process /\ DOMAIN half' = Process
       /\ forceChangeCount' = forceChangeCount
  BY <1>2, <1>3, <1>9 DEF emission, TellInv, EmitShape, GoesOn
<1> QED
  BY <1>1, <1>5, <1>8, <1>9, <1>10, <1>11, <1>12, TreeTells

\* The server process publishes or withdraws a value: nobody has a bitmap.
LEMMA ServerCallTells ==
    ASSUME TellInv, LInv, Indexed = {}, NEW t, Linked(t), Reported(tree, t), ServerCall(t)
    PROVE  TellInv'
<1>1. /\ Store(t) /\ work = NoWork /\ work' = work
      /\ timers' = IF t.rv THEN timers + 1 ELSE timers
      /\ UNCHANGED <<connections, index, toClient, handles, emission>>
  BY DEF ServerCall, MayCall, channels
<1>2. EmitShape /\ Present' = Present /\ Present \subseteq Process
  BY <1>1, AllHere DEF Present
<1>3. timers \in Nat /\ timers' \in Nat /\ (t.rv => timers' > 0) /\ (timers > 0 => timers' > 0)
  <2>1. timers \in Nat
    BY <1>2 DEF EmitShape
  <2> QED
    BY <1>1, <2>1
<1>4. ASSUME NEW b \in Present', NEW p, NEW h
      PROVE  /\ Coming(b, h, p) /\ (Noted(b, h, p) => Noted(b, h, p)') => Coming(b, h, p)'
             /\ t.rv /\ Noted(b, h, p)' => Coming(b, h, p)'
  BY <1>1, <1>3 DEF Coming, NoWork
<1>5. /\ \A b \in Process \ Present' : handles'[b] = <<>>
      /\ \A b \in Present' : /\ handles'[b] = handles[b] /\ half'[b] = half[b]
                             /\ forceChangeCount'[b] = forceChangeCount[b] /\ GoesOn(b)
      /\ DOMAIN handles' = Process /\ DOMAIN toEmit' = Process
      /\ DOMAIN emitting' = Process /\ DOMAIN half' = Process
      /\ forceChangeCount' = forceChangeCount
      /\ index' \subseteq Indexed /\ work'.changed \in BOOLEAN
  BY <1>1, <1>2 DEF emission, TellInv, EmitShape, GoesOn
<1> QED
  BY <1>1, <1>2, <1>3, <1>4, <1>5, TreeTells

LEMMA ServerPublisherTells ==
    ASSUME TellInv, LInv, Ample, Announced, ServerPublisher
    PROVE  TellInv'
<1>1. PICK there \in SUBSET Process :
         there = connections \cup {Server} /\ Server \in there /\ TreeInv(tree, there)
  BY DEF LInv, Shape, Process
<1>2. NoWatches(tree)
  BY DEF TellInv, EmitShape, NoWatches
<1>3. ASSUME NEW p \in Path, NEW v \in Value, ServerSetItem(p, v) PROVE TellInv'
  <2>1. PICK t : Inserts(t, tree, p, Server, v) /\ ServerCall(t)
    BY <1>3 DEF ServerSetItem, doSetItem, Inserts
  <2>2. <<Server, p>> \in Publish /\ p \in Node
    BY <1>3 DEF ServerSetItem, Node
  <2>3. <<Server, p>>[1] = Server
    OBVIOUS
  <2>4. Indexed = {}
    BY <2>2, <2>3 DEF Announced
  <2>5. TreeInv(t, there)
    BY <1>1, <2>1, <2>2, InsertedOwned
  <2>6. Linked(t) /\ Reported(tree, t)
    BY <1>1, <1>2, <2>1, <2>2, <2>5, InsertedReported DEF TreeInv
  <2> QED
    BY <2>1, <2>4, <2>6, ServerCallTells
<1>4. ASSUME NEW p \in Path, ServerRemItems(p) PROVE TellInv'
  <2>1. PICK t, who : Removes(t, tree, p, who) /\ ServerCall(t)
    BY <1>4 DEF ServerRemItems, doRemItems, Removes
  <2>2. <<Server, p>> \in Withdraw /\ p \in Node
    BY <1>4 DEF ServerRemItems, Node
  <2>3. <<Server, p>>[1] = Server
    OBVIOUS
  <2>4. Indexed = {}
    BY <2>2, <2>3 DEF Announced
  <2>5. Removes(t, tree, p, who)
    BY <2>1
  <2>6. TreeInv(t, there)
    BY <1>1, <2>2, <2>5, RemovedOwned DEF Withdrawn
  <2>7. Linked(t) /\ Reported(tree, t)
    BY <1>1, <1>2, <2>2, <2>5, <2>6, RemovedReported DEF TreeInv
  <2> QED
    BY <2>1, <2>4, <2>7, ServerCallTells
<1> QED
  BY <1>3, <1>4 DEF ServerPublisher

\* A client goes, and those that stay will be told.
LEMMA DisconnectTells ==
    ASSUME TellInv, LInv, Ample, NEW c \in Client, Disconnect(c)
    PROVE  TellInv'
<1>1. PICK there \in SUBSET Process :
         there = connections \cup {Server} /\ TreeInv(tree, there)
  BY DEF LInv, Shape, Process
<1>2. NoWatches(tree) /\ Root \in Node
  BY DEF TellInv, EmitShape, NoWatches, Node
<1>3. PICK t, who : /\ Removes(t, tree, Root, who) /\ Store(t)
                    /\ work' = [NoWork EXCEPT !.kind = "gone", !.from = c, !.changed = t.rv]
  BY DEF Disconnect, Cleared, Removes
<1>4. Removes(t, tree, Root, who)
  BY <1>3
<1>5. TreeInv(t, there)
  BY <1>1, <1>2, <1>4, RemovedOwned DEF Withdrawn
<1>6. Linked(t) /\ t.rv \in BOOLEAN /\ Reported(tree, t)
  BY <1>1, <1>2, <1>4, <1>5, RemovedReported DEF TreeInv, Typed
<1>7. /\ c \in connections /\ work = NoWork /\ connections' = connections \ {c}
      /\ index' = index \ {c}
      /\ toClient' = [toClient EXCEPT ![c] = <<>>]
      /\ handles' = [handles EXCEPT ![c] = <<>>]
      /\ emitting' = [emitting EXCEPT ![c] = FALSE]
      /\ toEmit' = [toEmit EXCEPT ![c] = {}]
      /\ half' = [half EXCEPT ![c] = "no"]
      /\ timers' = timers /\ forceChangeCount' = forceChangeCount
  BY DEF Disconnect, Free
<1>8. EmitShape /\ Present \subseteq Process
  BY AllHere
<1>9. Present' = Present \ {c} /\ c \in Process
  BY <1>7, LayerAssumption DEF Present, Process
<1>10. work'.kind = "gone" /\ (work'.changed <=> t.rv) /\ work'.changed \in BOOLEAN
  BY <1>3, <1>6 DEF NoWork
<1>11. ASSUME NEW b \in Present'
       PROVE  /\ b # c /\ handles'[b] = handles[b] /\ half'[b] = half[b]
              /\ forceChangeCount'[b] = forceChangeCount[b] /\ GoesOn(b)
  BY <1>7, <1>8, <1>9 DEF GoesOn
<1>12. ASSUME NEW b \in Present', NEW p, NEW h
       PROVE  /\ Coming(b, h, p) /\ (Noted(b, h, p) => Noted(b, h, p)') => Coming(b, h, p)'
              /\ t.rv /\ Noted(b, h, p)' => Coming(b, h, p)'
  <2>1. toClient'[b] = toClient[b]
    BY <1>7, <1>11
  <2> QED
    BY <1>7, <1>10, <2>1 DEF Coming, NoWork
<1>13. \A b \in Process \ Present' : handles'[b] = <<>>
  BY <1>7, <1>8, <1>9 DEF TellInv, EmitShape
<1>14. /\ DOMAIN handles' = Process /\ DOMAIN toEmit' = Process
       /\ DOMAIN emitting' = Process /\ DOMAIN half' = Process
       /\ timers' \in Nat /\ index' \subseteq Indexed
  BY <1>7, <1>8 DEF EmitShape
<1>15. Present' \subseteq Present /\ Store(t)
  BY <1>3, <1>9
<1> QED
  BY <1>6, <1>7, <1>10, <1>11, <1>12, <1>13, <1>14, <1>15, TreeTells

-----------------------------------------------------------------------------
(* Every step, the initial state, and the theorem.                         *)

\* Steps that have nothing to do with any of this.
LEMMA ElsewhereTells ==
    ASSUME TellInv, LInv, UNCHANGED <<space, serverVars, toClient, handles, emission>>
    PROVE  TellInv'
<1>1. /\ SameSpace /\ UNCHANGED <<work, timers, connections, index, changedNodes>>
      /\ UNCHANGED emission
  BY DEF SameSpace, space, serverVars
<1>2. EmitShape' /\ Present' = Present
  BY <1>1 DEF TellInv, EmitShape, SameSpace, emission, Present
<1>3. ASSUME NEW b, NEW p, NEW h, Coming(b, h, p) PROVE Coming(b, h, p)'
  <2>1. Closest(p)' = Closest(p)
    BY <1>1 DEF SameSpace, Closest
  <2> QED
    BY <1>1, <1>3, <2>1 DEF Coming, Noted
<1> QED
  BY <1>1, <1>2, <1>3, ServerTells

LEMMA ClientTells ==
    ASSUME TellInv, LInv, IsFiniteSet(Path), NEW c \in Client, ClientRuns(c) \/ Publisher(c)
    PROVE  TellInv'
<1>1. c \in Process
  BY DEF Process
<1>2. CASE doClientTransmit(c) \/ doClientSync(c)
  BY <1>2, ElsewhereTells DEF doClientTransmit, doClientSync
<1>3. CASE SyncReturn(c)
  BY <1>3, ElsewhereTells DEF SyncReturn, channels
<1>4. ASSUME NEW p, NEW v, setItem(c, p, v) \/ remItems(c, p) PROVE TellInv'
  BY <1>4, ElsewhereTells DEF setItem, remItems, channels
<1> QED
  BY <1>1, <1>2, <1>3, <1>4, EmitTells, ReceiveTells, ReadEndTells
     DEF ClientRuns, ClientStep, Publisher

LEMMA LayerTells ==
    ASSUME TellInv, LInv, Ample, Announced, [LayerNext]_lvars
    PROVE  TellInv'
<1>1. IsFiniteSet(Path)
  BY DEF Ample
<1>2. CASE UNCHANGED lvars
  BY <1>2, ElsewhereTells DEF lvars, channels
<1>3. CASE ServerRuns
  <2>1. Server \in Process
    BY DEF Process
  <2> QED
    BY <1>1, <1>3, <2>1, EmitTells, HandleTells, FinishTells, TimerTells,
       FinishDisconnectTells, TakeTells DEF ServerRuns, ServerStep
<1> QED
  BY <1>1, <1>2, <1>3, SubscriberTells, ClientTells, DisconnectTells,
     ServerPublisherTells DEF LayerNext

LEMMA TellBegins ==
    ASSUME LayerInit
    PROVE  TellInv
<1>1. DOMAIN <<>> = {}
  BY EmptyQueue
<1>2. /\ handles = [a \in Process |-> <<>>]
      /\ forceChangeCount = [a \in Process |-> 0]
      /\ toEmit = [a \in Process |-> {}]
      /\ emitting = [a \in Process |-> FALSE]
      /\ half = [a \in Process |-> "no"]
      /\ version = [n \in Node |-> 0] /\ creation = [n \in Node |-> 0]
      /\ tick = 0 /\ timers = 0 /\ index = {} /\ work = NoWork
      /\ tree = EmptyTree /\ connections = Client
  BY DEF LayerInit, TreeInit
<1>3. EmitShape
  <2>1. 0 \in 0 .. 0
    OBVIOUS
  <2>2. tree.watches = [p \in Node |-> <<>>]
    BY <1>2 DEF EmptyTree
  <2> QED
    BY <1>2, <2>1, <2>2 DEF EmitShape, NoWork
<1>4. Present = Process
  BY <1>2 DEF Present, Process
<1>5. ASSUME NEW a \in Process PROVE ProcessInv(a)
  <2>1. handles[a] = <<>> /\ toEmit[a] = {} /\ forceChangeCount[a] = 0
    BY <1>2
  <2>2. Forced(handles[a]) = {}
    BY <1>1, <2>1 DEF Forced
  <2>3. Cardinality(Forced(handles[a])) = 0
    BY <2>2, FS_EmptySet
  <2>4. Cardinality(Forced(handles[a])) <= forceChangeCount[a]
    BY <2>1, <2>3
  <2> QED
    BY <1>1, <2>1, <2>4 DEF ProcessInv
<1> QED
  BY <1>3, <1>4, <1>5 DEF TellInv

\* When everything has come to rest each subscriber has been notified since the
\* last change at or below its path, through all races of refreshes, packets,
\* bitmaps and clients that go; provided that no client with an attached bitmap
\* is preempted between two bits of it, and that the server does not publish
\* while there are such clients.
THEOREM AllAreTold ==
    ASSUME Ample, Announced
    PROVE  LayerSpec => []QuietMeansTold
<1>1. LayerInit => LInv /\ TellInv
  BY LayerBegin, TellBegins
<1>2. (LInv /\ TellInv) /\ [LayerNext]_lvars => (LInv /\ TellInv)'
  BY LayerStep, LayerTells, Ample, Announced
<1>3. LInv /\ TellInv => QuietMeansTold
  <2> SUFFICES ASSUME LInv, TellInv, Quiet, NEW a \in Present,
                      NEW p \in DOMAIN handles[a]
               PROVE  handles[a][p].told = Content(p)
    BY DEF QuietMeansTold, Present
  <2>1. PICK h : h = handles[a][p]
    OBVIOUS
  <2>2. /\ EmitShape /\ Linked(tree) /\ a \in Process /\ ProcessInv(a)
        /\ HandleInv(a, h, p) /\ p \in Node
    <3>1. a \in Process
      BY AllHere
    <3> QED
      BY <2>1, <3>1, HandleHere
  <2>3. ~emitting[a] /\ half[a] = "no"
    BY <2>2 DEF Quiet
  <2>4. ~Coming(a, h, p)
    BY DEF Coming, Quiet, NoWork, Present
  <2>5. Fresh(h) /\ ~h.force
    BY <2>2, <2>3, <2>4 DEF HandleInv, Owed, Due
  <2>6. ~Pledged(a, h)
    BY <2>3, <2>5 DEF Pledged
  <2>7. CASE h.whole
    BY <2>1, <2>2, <2>5, <2>6, <2>7 DEF HandleInv, Knows
  <2>8. CASE ~h.whole
    <3>1. h.told = Nothing(p)
      BY <2>2, <2>6, <2>8 DEF HandleInv, Knows
    <3>2. Closest(p) # p
      BY <2>2, <2>5, <2>8 DEF HandleInv, Sound
    <3>3. Content(p) = Nothing(p)
      BY <2>2, <3>2, ClosestIs
    <3> QED
      BY <2>1, <3>1, <3>3
  <2> QED
    BY <2>7, <2>8
<1> QED
  BY <1>1, <1>2, <1>3, PTL DEF LayerSpec
=============================================================================
