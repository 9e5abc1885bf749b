----------------------- MODULE QMediaTimeRange_proof -----------------------
(***************************************************************************)
(* Proofs about QMediaTimeRange for every range of times: between two      *)
(* operations the intervals are disjoint, and the range contains exactly   *)
(* what was added and not removed, as long as no interval starts at the    *)
(* least qint64.                                                           *)
(***************************************************************************)
EXTENDS QMediaTimeRange, SequenceTheorems, TLAPS

-----------------------------------------------------------------------------
(* Lists.                                                                  *)

LEMMA InsertAtElements ==
    ASSUME NEW S, NEW s \in Seq(S), NEW n \in 1 .. Len(s) + 1, NEW e \in S
    PROVE  /\ InsertAt(s, n, e) \in Seq(S)
           /\ Len(InsertAt(s, n, e)) = Len(s) + 1
           /\ \A j \in 1 .. n - 1 : InsertAt(s, n, e)[j] = s[j]
           /\ InsertAt(s, n, e)[n] = e
           /\ \A j \in n .. Len(s) : InsertAt(s, n, e)[j + 1] = s[j]
<1> DEFINE a == SubSeq(s, 1, n - 1)
           b == SubSeq(s, n, Len(s))
<1>1. /\ a \in Seq(S)
      /\ Len(a) = n - 1
      /\ \A j \in 1 .. n - 1 : a[j] = s[j]
  OBVIOUS
<1>2. /\ b \in Seq(S)
      /\ Len(b) = Len(s) - n + 1
      /\ \A j \in 1 .. Len(s) - n + 1 : b[j] = s[j + n - 1]
  OBVIOUS
<1>3. InsertAt(s, n, e) = a \o <<e>> \o b
  BY DEF InsertAt
<1> HIDE DEF a, b
<1>4. /\ a \o <<e>> \in Seq(S)
      /\ Len(a \o <<e>>) = n
      /\ \A j \in 1 .. n - 1 : (a \o <<e>>)[j] = s[j]
      /\ (a \o <<e>>)[n] = e
  BY <1>1
<1> DEFINE c == a \o <<e>>
<1> HIDE DEF c
<1>5. c \in Seq(S) /\ Len(c) = n
  BY <1>4 DEF c
<1>12. /\ c \o b \in Seq(S)
       /\ Len(c \o b) = Len(c) + Len(b)
       /\ \A j \in 1 .. Len(c) + Len(b) :
             (c \o b)[j] = IF j <= Len(c) THEN c[j] ELSE b[j - Len(c)]
  BY <1>2, <1>5, ConcatProperties
<1>6. c \o b \in Seq(S) /\ Len(c \o b) = Len(s) + 1
  BY <1>2, <1>5, <1>12
<1>7. \A j \in 1 .. n : (c \o b)[j] = c[j]
  BY <1>2, <1>5, <1>12
<1>8. ASSUME NEW j \in n .. Len(s) PROVE (c \o b)[j + 1] = s[j]
  <2>1. (c \o b)[j + 1] = b[j + 1 - n]
    BY <1>2, <1>5, <1>12
  <2>2. j + 1 - n \in 1 .. Len(s) - n + 1
    OBVIOUS
  <2>3. b[j + 1 - n] = s[(j + 1 - n) + n - 1]
    BY <1>2, <2>2
  <2>4. (j + 1 - n) + n - 1 = j
    OBVIOUS
  <2> QED
    BY <2>1, <2>3, <2>4
<1>9. InsertAt(s, n, e) = c \o b
  BY <1>3 DEF c
<1>10. \A j \in 1 .. n - 1 : c[j] = s[j]
  BY <1>4 DEF c
<1>11. c[n] = e
  BY <1>4 DEF c
<1> QED
  BY <1>6, <1>7, <1>8, <1>9, <1>10, <1>11

LEMMA RemoveAtElements ==
    ASSUME NEW S, NEW s \in Seq(S), NEW n \in 1 .. Len(s)
    PROVE  /\ RemoveAt(s, n) \in Seq(S)
           /\ Len(RemoveAt(s, n)) = Len(s) - 1
           /\ \A j \in 1 .. n - 1 : RemoveAt(s, n)[j] = s[j]
           /\ \A j \in n .. Len(s) - 1 : RemoveAt(s, n)[j] = s[j + 1]
<1> DEFINE a == SubSeq(s, 1, n - 1)
           b == SubSeq(s, n + 1, Len(s))
<1>1. /\ a \in Seq(S)
      /\ Len(a) = n - 1
      /\ \A j \in 1 .. n - 1 : a[j] = s[j]
  OBVIOUS
<1>2. /\ b \in Seq(S)
      /\ Len(b) = Len(s) - n
      /\ \A j \in 1 .. Len(s) - n : b[j] = s[j + n]
  OBVIOUS
<1>3. RemoveAt(s, n) = a \o b
  BY DEF RemoveAt
<1> HIDE DEF a, b
<1> QED
  BY <1>1, <1>2, <1>3

-----------------------------------------------------------------------------
(* The inductive invariant.                                                *)

Has(list, t) == \E j \in DOMAIN list : list[j].s <= t /\ t <= list[j].e

AllNormal(list) == \A j \in DOMAIN list : list[j].s <= list[j].e

\* A time is missing between the interval at j and every later one.
GapAfter(list, j) == \A k \in j + 1 .. Len(list) : list[j].e + 1 < list[k].s

Canonical(list) == AllNormal(list) /\ \A j \in DOMAIN list : GapAfter(list, j)

Ordered(list) ==
    \A j, k \in DOMAIN list : j < k => list[j].s <= list[k].s

\* What merging from n puts in order: the interval at n reaches as far as it
\* will, or it reaches the next one, and that one as far as it will.
Mergeable(list, n) ==
    /\ AllNormal(list)
    /\ Ordered(list)
    /\ n \in DOMAIN list
    /\ \/ \A j \in DOMAIN list \ {n} : GapAfter(list, j)
       \/ /\ n < Len(list)
          /\ list[n + 1].s <= list[n].e + 1
          /\ \A j \in DOMAIN list \ {n, n + 1} : GapAfter(list, j)

IdleInv ==
    pc = "idle" => /\ Canonical(intervals)
                   /\ \A t \in Time : t \in covered <=> Has(intervals, t)

MergeInv ==
    pc = "merge" => /\ Mergeable(intervals, i)
                    /\ \A t \in Time : t \in covered <=> Has(intervals, t)

\* The times to remove have left covered at once, and the list behind i.
RemoveInv ==
    pc = "remove" =>
        /\ Canonical(intervals)
        /\ i <= Len(intervals) + 1
        /\ \A j \in 1 .. i - 1 : intervals[j].e < interval.s
        /\ interval.s <= interval.e
        /\ \A t \in Time :
              t \in covered <=>
                  Has(intervals, t) /\ ~(interval.s <= t /\ t <= interval.e)

TInv == RangeTypeOK /\ IdleInv /\ MergeInv /\ RemoveInv

LEMMA CanonicalOrdered ==
    ASSUME NEW list \in Seq(Interval), Canonical(list)
    PROVE  Ordered(list)
<1> SUFFICES ASSUME NEW j \in DOMAIN list, NEW k \in DOMAIN list, j < k
             PROVE  list[j].s <= list[k].s
  BY DEF Ordered
<1>1. list[j].s <= list[j].e
  BY DEF Canonical, AllNormal
<1>2. list[j].e + 1 < list[k].s
  BY DEF Canonical, GapAfter
<1>3. list[j] \in Interval /\ list[k] \in Interval
  OBVIOUS
<1> QED
  BY <1>1, <1>2, <1>3, TimeAssumption DEF Interval, Time

\* A list with one interval inserted can be put in order by merging.
LEMMA InsertMergeable ==
    ASSUME NEW list \in Seq(Interval), Canonical(list),
           NEW r \in Interval, isNormal(r),
           NEW n \in 1 .. Len(list) + 1, PlaceFor(list, r, n),
           NEW new, new = InsertAt(list, n, r),
           NEW m, m = IF n > 1 /\ Touches(list, n - 1, r.s - 1)
                      THEN n - 1 ELSE n
    PROVE  /\ new \in Seq(Interval)
           /\ Mergeable(new, m)
           /\ \A t \in Time :
                 Has(new, t) <=> Has(list, t) \/ (r.s <= t /\ t <= r.e)
<1>1. /\ new \in Seq(Interval)
      /\ Len(new) = Len(list) + 1
      /\ \A j \in 1 .. n - 1 : new[j] = list[j]
      /\ new[n] = r
      /\ \A j \in n .. Len(list) : new[j + 1] = list[j]
  BY InsertAtElements
<1>2. \A j \in n + 1 .. Len(new) : new[j] = list[j - 1]
  <2> SUFFICES ASSUME NEW j \in n + 1 .. Len(new) PROVE new[j] = list[j - 1]
    OBVIOUS
  <2>1. j - 1 \in n .. Len(list) /\ (j - 1) + 1 = j
    BY <1>1
  <2> QED
    BY <1>1, <2>1
<1>3. \A j \in 1 .. Len(list) : /\ list[j].s \in Int /\ list[j].e \in Int
                               /\ list[j].s <= list[j].e
  <2> SUFFICES ASSUME NEW j \in 1 .. Len(list)
               PROVE  /\ list[j].s \in Int /\ list[j].e \in Int
                      /\ list[j].s <= list[j].e
    OBVIOUS
  <2>1. list[j] \in Interval /\ j \in DOMAIN list
    OBVIOUS
  <2>2. list[j].s \in Int /\ list[j].e \in Int
    BY <2>1, TimeAssumption DEF Interval, Time
  <2>3. list[j].s <= list[j].e
    BY <2>1 DEF Canonical, AllNormal
  <2> QED
    BY <2>2, <2>3
<1>4. r.s \in Int /\ r.e \in Int /\ r.s <= r.e
  BY TimeAssumption DEF Interval, Time, isNormal
<1>5. \A j, k \in 1 .. Len(list) : j < k => list[j].e + 1 < list[k].s
  BY DEF Canonical, GapAfter
<1>6. \A j \in 1 .. n - 1 : list[j].s <= r.s
  BY DEF PlaceFor
<1>7. \A j \in n .. Len(list) : r.s < list[j].s
  <2>1. n <= Len(list) => r.s < list[n].s
    BY DEF PlaceFor
  <2> SUFFICES ASSUME NEW j \in n .. Len(list) PROVE r.s < list[j].s
    OBVIOUS
  <2>2. n \in 1 .. Len(list) /\ j \in 1 .. Len(list)
    OBVIOUS
  <2>3. r.s < list[n].s
    BY <2>1, <2>2
  <2>4. CASE j = n
    BY <2>3, <2>4
  <2>5. CASE n < j
    <3>1. list[n].e + 1 < list[j].s
      BY <1>5, <2>2, <2>5
    <3> QED
      BY <1>3, <1>4, <2>2, <2>3, <3>1
  <2> QED
    BY <2>4, <2>5
<1>8. AllNormal(new)
  <2> SUFFICES ASSUME NEW j \in 1 .. Len(new) PROVE new[j].s <= new[j].e
    BY <1>1 DEF AllNormal
  <2>1. CASE j < n
    BY <1>1, <1>3, <2>1
  <2>2. CASE j = n
    BY <1>1, <1>4, <2>2
  <2>3. CASE j > n
    <3>1. new[j] = list[j - 1] /\ j - 1 \in 1 .. Len(list)
      BY <1>1, <1>2, <2>3
    <3> QED
      BY <1>3, <3>1
  <2> QED
    BY <1>1, <2>1, <2>2, <2>3
<1>9. Ordered(new)
  <2> SUFFICES ASSUME NEW j \in 1 .. Len(new), NEW k \in 1 .. Len(new), j < k
               PROVE  new[j].s <= new[k].s
    BY <1>1 DEF Ordered
  <2>1. \A a, b \in 1 .. Len(list) : a < b => list[a].s <= list[b].s
    BY <1>3, <1>5
  <2>2. CASE j < n /\ k < n
    <3>1. new[j] = list[j] /\ new[k] = list[k]
      BY <1>1, <2>2
    <3>2. j \in 1 .. Len(list) /\ k \in 1 .. Len(list)
      BY <2>2
    <3> QED
      BY <2>1, <3>1, <3>2
  <2>3. CASE j < n /\ k = n
    BY <1>1, <1>6, <2>3
  <2>4. CASE j < n /\ k > n
    <3>0. j \in 1 .. n - 1 /\ k \in n + 1 .. Len(new)
      BY <1>1, <2>4
    <3>1. new[j] = list[j] /\ new[k] = list[k - 1]
      BY <1>1, <1>2, <3>0
    <3>2. j \in 1 .. Len(list) /\ k - 1 \in 1 .. Len(list) /\ j <= k - 1
      BY <1>1, <2>4
    <3> QED
      BY <1>3, <2>1, <3>1, <3>2
  <2>5. CASE j = n
    <3>1. k - 1 \in n .. Len(list) /\ new[k] = list[k - 1]
      BY <1>1, <1>2, <2>5
    <3>2. r.s < list[k - 1].s
      BY <1>7, <3>1
    <3>3. k - 1 \in 1 .. Len(list)
      BY <3>1
    <3> QED
      BY <1>1, <1>3, <1>4, <2>5, <3>1, <3>2, <3>3
  <2>6. CASE j > n
    <3>1. new[j] = list[j - 1] /\ new[k] = list[k - 1]
      BY <1>1, <1>2, <2>6
    <3>2. j - 1 \in 1 .. Len(list) /\ k - 1 \in 1 .. Len(list) /\ j - 1 < k - 1
      BY <1>1, <2>6
    <3> QED
      BY <2>1, <3>1, <3>2
  <2> QED
    BY <1>1, <2>2, <2>3, <2>4, <2>5, <2>6
<1>10. \A j \in 1 .. n - 2 : GapAfter(new, j)
  <2> SUFFICES ASSUME NEW j \in 1 .. n - 2, NEW k \in j + 1 .. Len(new)
               PROVE  new[j].e + 1 < new[k].s
    BY DEF GapAfter
  <2>1. new[j] = list[j] /\ j \in 1 .. Len(list)
    BY <1>1
  <2>2. CASE k < n
    BY <1>1, <1>5, <2>1, <2>2
  <2>3. CASE k = n
    <3>1. n - 1 \in 1 .. Len(list) /\ j < n - 1
      BY <1>1
    <3>2. list[j].e + 1 < list[n - 1].s
      BY <1>5, <2>1, <3>1
    <3>3. list[n - 1].s <= r.s
      BY <1>6, <3>1
    <3> QED
      BY <1>1, <1>3, <1>4, <2>1, <2>3, <3>1, <3>2, <3>3
  <2>4. CASE k > n
    <3>1. new[k] = list[k - 1] /\ k - 1 \in 1 .. Len(list) /\ j < k - 1
      BY <1>1, <1>2, <2>4
    <3> QED
      BY <1>5, <2>1, <3>1
  <2> QED
    BY <1>1, <2>2, <2>3, <2>4
<1>11. \A j \in n + 1 .. Len(new) : GapAfter(new, j)
  <2> SUFFICES ASSUME NEW j \in n + 1 .. Len(new), NEW k \in j + 1 .. Len(new)
               PROVE  new[j].e + 1 < new[k].s
    BY DEF GapAfter
  <2>1. new[j] = list[j - 1] /\ new[k] = list[k - 1]
    BY <1>1, <1>2
  <2>2. j - 1 \in 1 .. Len(list) /\ k - 1 \in 1 .. Len(list) /\ j - 1 < k - 1
    BY <1>1
  <2> QED
    BY <1>5, <2>1, <2>2
<1>12. ASSUME n > 1
       PROVE  \A k \in n + 1 .. Len(new) : new[n - 1].e + 1 < new[k].s
  <2> SUFFICES ASSUME NEW k \in n + 1 .. Len(new)
               PROVE  new[n - 1].e + 1 < new[k].s
    OBVIOUS
  <2>1. new[n - 1] = list[n - 1] /\ new[k] = list[k - 1]
    BY <1>1, <1>2, <1>12
  <2>2. n - 1 \in 1 .. Len(list) /\ k - 1 \in 1 .. Len(list) /\ n - 1 < k - 1
    BY <1>1, <1>12
  <2> QED
    BY <1>5, <2>1, <2>2
<1>13. Mergeable(new, m)
  <2>1. CASE n > 1 /\ Touches(list, n - 1, r.s - 1)
    <3>1. m = n - 1 /\ m \in DOMAIN new /\ m < Len(new)
      BY <1>1, <2>1
    <3>2. list[n - 1].e >= r.s - 1
      BY <2>1 DEF Touches
    <3>3. n - 1 \in 1 .. Len(list)
      BY <2>1
    <3>4. new[m + 1].s <= new[m].e + 1
      BY <1>1, <1>3, <1>4, <3>1, <3>2, <3>3
    <3>5. \A j \in DOMAIN new \ {m, m + 1} : GapAfter(new, j)
      BY <1>1, <1>10, <1>11, <3>1
    <3> QED
      BY <1>8, <1>9, <3>1, <3>4, <3>5 DEF Mergeable
  <2>2. CASE ~(n > 1 /\ Touches(list, n - 1, r.s - 1))
    <3>1. m = n /\ m \in DOMAIN new
      BY <1>1, <2>2
    <3>2. ASSUME n > 1 PROVE GapAfter(new, n - 1)
      <4>1. ~(list[n - 1].e >= r.s - 1)
        BY <2>2, <3>2 DEF Touches
      <4>2. n - 1 \in 1 .. Len(list)
        BY <3>2
      <4>3. list[n - 1].e + 1 < r.s
        BY <1>3, <1>4, <4>1, <4>2
      <4>4. new[n - 1] = list[n - 1]
        BY <1>1, <3>2
      <4>5. \A k \in n + 1 .. Len(new) : new[n - 1].e + 1 < new[k].s
        BY <1>12, <3>2
      <4>6. new[n - 1].e + 1 < new[n].s
        BY <1>1, <4>3, <4>4
      <4> QED
        BY <1>1, <4>5, <4>6 DEF GapAfter
    <3>3. \A j \in DOMAIN new \ {m} : GapAfter(new, j)
      BY <1>1, <1>10, <1>11, <3>1, <3>2
    <3> QED
      BY <1>8, <1>9, <3>1, <3>3 DEF Mergeable
  <2> QED
    BY <2>1, <2>2
<1>14. ASSUME NEW t \in Time
       PROVE  Has(new, t) <=> Has(list, t) \/ (r.s <= t /\ t <= r.e)
  <2>1. ASSUME NEW j \in 1 .. Len(new), new[j].s <= t, t <= new[j].e
        PROVE  Has(list, t) \/ (r.s <= t /\ t <= r.e)
    <3>1. CASE j < n
      BY <1>1, <2>1, <3>1 DEF Has
    <3>2. CASE j = n
      BY <1>1, <2>1, <3>2
    <3>3. CASE j > n
      <4>1. new[j] = list[j - 1] /\ j - 1 \in 1 .. Len(list)
        BY <1>1, <1>2, <3>3
      <4> QED
        BY <2>1, <4>1 DEF Has
    <3> QED
      BY <3>1, <3>2, <3>3
  <2>2. ASSUME NEW j \in 1 .. Len(list), list[j].s <= t, t <= list[j].e
        PROVE  Has(new, t)
    <3>1. CASE j < n
      BY <1>1, <2>2, <3>1 DEF Has
    <3>2. CASE j >= n
      <4>1. new[j + 1] = list[j] /\ j + 1 \in 1 .. Len(new)
        BY <1>1, <3>2
      <4> QED
        BY <1>1, <2>2, <4>1 DEF Has
    <3> QED
      BY <3>1, <3>2
  <2>3. ASSUME r.s <= t, t <= r.e PROVE Has(new, t)
    BY <1>1, <2>3 DEF Has
  <2>4. DOMAIN new = 1 .. Len(new) /\ DOMAIN list = 1 .. Len(list)
    BY <1>1
  <2> QED
    BY <2>1, <2>2, <2>3, <2>4 DEF Has
<1> QED
  BY <1>1, <1>13, <1>14

\* Facts about a list that are used below.
LEMMA ListFacts ==
    ASSUME NEW list \in Seq(Interval)
    PROVE  /\ DOMAIN list = 1 .. Len(list)
           /\ Len(list) \in Nat
           /\ \A j \in 1 .. Len(list) : /\ list[j] \in Interval
                                       /\ list[j].s \in Int
                                       /\ list[j].e \in Int
<1>1. ASSUME NEW j \in 1 .. Len(list)
      PROVE  list[j] \in Interval /\ list[j].s \in Int /\ list[j].e \in Int
  <2>1. list[j] \in Interval
    OBVIOUS
  <2> QED
    BY <2>1, TimeAssumption DEF Interval, Time
<1> QED
  BY <1>1

\* The place of the interval that starts like the one at j after a merge at n.
Shifted(n, j) == IF j <= n THEN j ELSE j + 1

\* The list after two neighbours were merged.
LEMMA MergedElements ==
    ASSUME NEW list \in Seq(Interval), NEW n \in 1 .. Len(list) - 1,
           NEW x \in Interval,
           NEW mid \in Seq(Interval), Len(mid) = Len(list), mid[n] = x,
           \A j \in 1 .. Len(list) : j # n => mid[j] = list[j]
    PROVE  /\ RemoveAt(mid, n + 1) \in Seq(Interval)
           /\ Len(RemoveAt(mid, n + 1)) = Len(list) - 1
           /\ RemoveAt(mid, n + 1)[n] = x
           /\ \A j \in 1 .. n : j # n => RemoveAt(mid, n + 1)[j] = list[j]
           /\ \A j \in n + 1 .. Len(list) - 1 :
                 RemoveAt(mid, n + 1)[j] = list[j + 1]
<1> DEFINE new == RemoveAt(mid, n + 1)
<1>1. Len(list) \in Nat /\ n + 1 \in 1 .. Len(mid) /\ (n + 1) - 1 = n
  BY ListFacts
<1>2. /\ new \in Seq(Interval)
      /\ Len(new) = Len(mid) - 1
      /\ \A j \in 1 .. (n + 1) - 1 : new[j] = mid[j]
      /\ \A j \in n + 1 .. Len(mid) - 1 : new[j] = mid[j + 1]
  BY <1>1, RemoveAtElements
<1> HIDE DEF new
<1>3. \A j \in 1 .. n : new[j] = mid[j]
  BY <1>1, <1>2
<1>4. new[n] = x
  BY <1>1, <1>3
<1>5. ASSUME NEW j \in 1 .. n, j # n PROVE new[j] = list[j]
  <2>1. j \in 1 .. Len(list)
    BY <1>1
  <2> QED
    BY <1>3, <1>5, <2>1
<1>6. ASSUME NEW j \in n + 1 .. Len(list) - 1 PROVE new[j] = list[j + 1]
  <2>1. j + 1 \in 1 .. Len(list) /\ j + 1 # n
    BY <1>1
  <2> QED
    BY <1>2, <2>1
<1>7. new \in Seq(Interval) /\ Len(new) = Len(list) - 1
  BY <1>2
<1> QED
  BY <1>4, <1>5, <1>6, <1>7 DEF new

\* Merging two intervals that touch keeps the list mergeable and its times.
LEMMA MergeMergeable ==
    ASSUME NEW list \in Seq(Interval), NEW n \in 1 .. Len(list) - 1,
           Mergeable(list, n), list[n].e >= list[n + 1].s - 1,
           NEW x \in Interval, x.s = list[n].s,
           x.e = Later(list[n].e, list[n + 1].e),
           NEW new \in Seq(Interval),
           Len(new) = Len(list) - 1,
           new[n] = x,
           \A j \in 1 .. n : j # n => new[j] = list[j],
           \A j \in n + 1 .. Len(list) - 1 : new[j] = list[j + 1]
    PROVE  /\ Mergeable(new, n)
           /\ \A t \in Time : Has(new, t) <=> Has(list, t)
<1>5. /\ DOMAIN new = 1 .. Len(new)
      /\ Len(new) = Len(list) - 1
      /\ DOMAIN list = 1 .. Len(list)
      /\ Len(list) \in Nat
      /\ n \in 1 .. Len(new)
      /\ new[n] = x
  BY ListFacts
<1>6. ASSUME NEW j \in 1 .. Len(new), j < n
      PROVE  new[j] = list[j] /\ j \in 1 .. Len(list)
  <2>1. j \in 1 .. n /\ j \in 1 .. Len(list) /\ j # n
    BY <1>5, <1>6
  <2> QED
    BY <2>1
<1>7. ASSUME NEW j \in 1 .. Len(new), n < j
      PROVE  new[j] = list[j + 1] /\ j + 1 \in 1 .. Len(list)
  <2>1. j \in n + 1 .. Len(list) - 1 /\ j + 1 \in 1 .. Len(list)
    BY <1>5, <1>7
  <2> QED
    BY <2>1
<1>8. \A j \in 1 .. Len(list) : /\ list[j].s \in Int /\ list[j].e \in Int
                               /\ list[j].s <= list[j].e
  BY ListFacts DEF Mergeable, AllNormal
<1>9. \A j, k \in 1 .. Len(list) : j < k => list[j].s <= list[k].s
  BY <1>5 DEF Mergeable, Ordered
<1>10. \A j, k \in 1 .. Len(list) :
          j < k /\ j # n /\ j # n + 1 => list[j].e + 1 < list[k].s
  <2> SUFFICES ASSUME NEW j \in 1 .. Len(list), NEW k \in 1 .. Len(list),
                      j < k, j # n, j # n + 1
               PROVE  list[j].e + 1 < list[k].s
    OBVIOUS
  <2>1. GapAfter(list, j)
    BY <1>5 DEF Mergeable
  <2>2. k \in j + 1 .. Len(list)
    BY <1>5
  <2> QED
    BY <2>1, <2>2 DEF GapAfter
<1>11. /\ n \in 1 .. Len(list) /\ n + 1 \in 1 .. Len(list)
       /\ x.s \in Int /\ x.e \in Int /\ x.s <= x.e
       /\ list[n].e <= x.e /\ list[n + 1].e <= x.e
       /\ x.e = list[n].e \/ x.e = list[n + 1].e
  <2>1. n \in 1 .. Len(list) /\ n + 1 \in 1 .. Len(list)
    BY <1>5
  <2>2. /\ x.e \in Int /\ list[n].e <= x.e /\ list[n + 1].e <= x.e
        /\ x.e = list[n].e \/ x.e = list[n + 1].e
    BY <1>8, <2>1 DEF Later
  <2>3. x.s \in Int /\ x.s <= x.e
    BY <1>8, <2>1, <2>2
  <2> QED
    BY <2>1, <2>2, <2>3
<1>12. AllNormal(new)
  <2> SUFFICES ASSUME NEW j \in 1 .. Len(new) PROVE new[j].s <= new[j].e
    BY <1>5 DEF AllNormal
  <2>1. CASE j < n
    BY <1>6, <1>8, <2>1
  <2>2. CASE j = n
    BY <1>5, <1>11, <2>2
  <2>3. CASE j > n
    BY <1>7, <1>8, <2>3
  <2> QED
    BY <1>5, <2>1, <2>2, <2>3
<1>20. \A j \in 1 .. Len(new) :
          /\ j < n => Shifted(n, j) = j /\ j # n /\ j # n + 1
          /\ j = n => Shifted(n, j) = n
          /\ n < j => Shifted(n, j) = j + 1 /\ j + 1 # n /\ j + 1 # n + 1
  <2> SUFFICES ASSUME NEW j \in 1 .. Len(new)
               PROVE  /\ j < n => Shifted(n, j) = j /\ j # n /\ j # n + 1
                      /\ j = n => Shifted(n, j) = n
                      /\ n < j => /\ Shifted(n, j) = j + 1
                                  /\ j + 1 # n /\ j + 1 # n + 1
    OBVIOUS
  <2>1. j \in Int /\ n \in Int
    BY <1>5
  <2> QED
    BY <2>1 DEF Shifted
<1>13. \A j \in 1 .. Len(new) :
          Shifted(n, j) \in 1 .. Len(list) /\ new[j].s = list[Shifted(n, j)].s
  <2> SUFFICES ASSUME NEW j \in 1 .. Len(new)
               PROVE  Shifted(n, j) \in 1 .. Len(list) /\ new[j].s = list[Shifted(n, j)].s
    OBVIOUS
  <2>1. CASE j < n
    <3>1. Shifted(n, j) = j
      BY <1>20, <2>1
    <3> QED
      BY <1>6, <2>1, <3>1
  <2>2. CASE j = n
    <3>1. Shifted(n, j) = n
      BY <1>20, <2>2
    <3> QED
      BY <1>5, <1>11, <2>2, <3>1
  <2>3. CASE n < j
    <3>1. Shifted(n, j) = j + 1
      BY <1>20, <2>3
    <3> QED
      BY <1>7, <2>3, <3>1
  <2> QED
    BY <1>5, <2>1, <2>2, <2>3
<1>14. \A j, k \in 1 .. Len(new) : j < k => Shifted(n, j) < Shifted(n, k)
  BY <1>5 DEF Shifted
<1>19. ASSUME NEW j \in 1 .. Len(new), j # n
       PROVE  new[j] = list[Shifted(n, j)] /\ Shifted(n, j) # n /\ Shifted(n, j) # n + 1
  <2>1. CASE j < n
    <3>1. Shifted(n, j) = j /\ j # n + 1
      BY <1>20, <2>1
    <3> QED
      BY <1>6, <1>19, <2>1, <3>1
  <2>2. CASE n < j
    <3>1. Shifted(n, j) = j + 1 /\ j + 1 # n /\ j + 1 # n + 1
      BY <1>20, <2>2
    <3> QED
      BY <1>7, <2>2, <3>1
  <2> QED
    BY <1>5, <1>19, <2>1, <2>2
<1>15. Ordered(new)
  <2> SUFFICES ASSUME NEW j \in 1 .. Len(new), NEW k \in 1 .. Len(new), j < k
               PROVE  new[j].s <= new[k].s
    BY <1>5 DEF Ordered
  <2> QED
    BY <1>9, <1>13, <1>14
<1>16. ASSUME NEW j \in DOMAIN new \ {n} PROVE GapAfter(new, j)
  <2>1. new[j].e = list[Shifted(n, j)].e
    BY <1>5, <1>19
  <2>2. Shifted(n, j) # n /\ Shifted(n, j) # n + 1
    BY <1>5, <1>19
  <2>3. ASSUME NEW k \in j + 1 .. Len(new) PROVE new[j].e + 1 < new[k].s
    <3>1. k \in 1 .. Len(new) /\ j < k /\ j \in 1 .. Len(new)
      BY <1>5
    <3> QED
      BY <1>10, <1>13, <1>14, <2>1, <2>2, <3>1
  <2> QED
    BY <2>3 DEF GapAfter
<1>17. Mergeable(new, n)
  BY <1>5, <1>12, <1>15, <1>16 DEF Mergeable
<1>18. ASSUME NEW t \in Time PROVE Has(new, t) <=> Has(list, t)
  <2>0. t \in Int
    BY TimeAssumption DEF Time
  <2>1. ASSUME NEW j \in 1 .. Len(new), new[j].s <= t, t <= new[j].e
        PROVE  Has(list, t)
    <3>1. CASE j # n
      <4>1. new[j] = list[Shifted(n, j)]
        BY <1>19, <3>1
      <4> QED
        BY <1>5, <1>13, <2>1, <4>1 DEF Has
    <3>2. CASE j = n
      <4>1. x.s <= t /\ t <= x.e
        BY <1>5, <2>1, <3>2
      <4>2. (list[n].s <= t /\ t <= list[n].e)
              \/ (list[n + 1].s <= t /\ t <= list[n + 1].e)
        BY <1>8, <1>11, <2>0, <4>1
      <4> QED
        BY <1>5, <1>11, <4>2 DEF Has
    <3> QED
      BY <3>1, <3>2
  <2>2. ASSUME NEW j \in 1 .. Len(list), list[j].s <= t, t <= list[j].e
        PROVE  Has(new, t)
    <3>1. CASE j < n
      <4>0. j \in 1 .. Len(new)
        BY <1>5, <3>1
      <4>1. new[j] = list[j] /\ j \in 1 .. Len(new)
        BY <1>6, <3>1, <4>0
      <4> QED
        BY <1>5, <2>2, <4>1 DEF Has
    <3>2. CASE j > n + 1
      <4>1. j - 1 \in 1 .. Len(new) /\ n < j - 1 /\ (j - 1) + 1 = j
        BY <1>5, <3>2
      <4>2. new[j - 1] = list[j] /\ j - 1 \in 1 .. Len(new)
        BY <1>5, <1>7, <4>1
      <4> QED
        BY <1>5, <2>2, <4>2 DEF Has
    <3>3. CASE j = n \/ j = n + 1
      <4>1. x.s <= list[j].s /\ list[j].e <= x.e
        BY <1>8, <1>9, <1>11, <3>3
      <4>2. x.s <= t /\ t <= x.e
        BY <1>8, <1>11, <2>0, <2>2, <4>1
      <4> QED
        BY <1>5, <4>2 DEF Has
    <3> QED
      BY <1>5, <3>1, <3>2, <3>3
  <2> QED
    BY <1>5, <2>1, <2>2 DEF Has
<1> QED
  BY <1>17, <1>18
\* What a canonical list says of two of its intervals.
LEMMA CanonicalFacts ==
    ASSUME NEW list \in Seq(Interval), Canonical(list)
    PROVE  /\ \A j \in 1 .. Len(list) : list[j].s <= list[j].e
           /\ \A j, k \in 1 .. Len(list) :
                 j < k => list[j].e + 1 < list[k].s
<1>1. DOMAIN list = 1 .. Len(list) /\ Len(list) \in Nat
  BY ListFacts
<1>2. \A j \in 1 .. Len(list) : list[j].s <= list[j].e
  BY <1>1 DEF Canonical, AllNormal
<1>3. ASSUME NEW j \in 1 .. Len(list), NEW k \in 1 .. Len(list), j < k
      PROVE  list[j].e + 1 < list[k].s
  <2>1. GapAfter(list, j)
    BY <1>1 DEF Canonical
  <2>2. k \in j + 1 .. Len(list)
    BY <1>1, <1>3
  <2> QED
    BY <2>1, <2>2 DEF GapAfter
<1> QED
  BY <1>2, <1>3

LEMMA CanonicalIntro ==
    ASSUME NEW list \in Seq(Interval),
           \A j \in 1 .. Len(list) : list[j].s <= list[j].e,
           \A j, k \in 1 .. Len(list) : j < k => list[j].e + 1 < list[k].s
    PROVE  Canonical(list)
<1>1. DOMAIN list = 1 .. Len(list) /\ Len(list) \in Nat
  BY ListFacts
<1>2. ASSUME NEW j \in 1 .. Len(list), NEW k \in j + 1 .. Len(list)
      PROVE  list[j].e + 1 < list[k].s
  <2>1. k \in 1 .. Len(list) /\ j < k
    BY <1>1
  <2> QED
    BY <2>1
<1> QED
  BY <1>1, <1>2 DEF Canonical, AllNormal, GapAfter

\* A time of a canonical list is in one of its intervals.
LEMMA OneInterval ==
    ASSUME NEW list \in Seq(Interval), Canonical(list), NEW t \in Time,
           NEW j \in 1 .. Len(list), NEW k \in 1 .. Len(list),
           list[j].s <= t, t <= list[j].e, list[k].s <= t, t <= list[k].e
    PROVE  j = k
<1>1. t \in Int
  BY TimeAssumption DEF Time
<1>2. /\ list[j].s \in Int /\ list[j].e \in Int
      /\ list[k].s \in Int /\ list[k].e \in Int
  BY ListFacts
<1>3. ~(j < k)
  BY <1>1, <1>2, CanonicalFacts
<1>4. ~(k < j)
  BY <1>1, <1>2, CanonicalFacts
<1>5. j \in Int /\ k \in Int
  BY ListFacts
<1> QED
  BY <1>3, <1>4, <1>5

\* An interval of a canonical list can be made smaller.
LEMMA CutCanonical ==
    ASSUME NEW list \in Seq(Interval), Canonical(list), NEW n \in 1 .. Len(list),
           NEW x \in Interval, x.s <= x.e,
           list[n].s <= x.s, x.e <= list[n].e,
           NEW new \in Seq(Interval), Len(new) = Len(list), new[n] = x,
           \A j \in 1 .. Len(list) : j # n => new[j] = list[j]
    PROVE  /\ Canonical(new)
           /\ \A t \in Time :
                 Has(new, t) <=>
                     \/ Has(list, t) /\ ~(list[n].s <= t /\ t <= list[n].e)
                     \/ x.s <= t /\ t <= x.e
<1>1. /\ new \in Seq(Interval)
      /\ Len(new) = Len(list)
      /\ new[n] = x
      /\ \A j \in 1 .. Len(list) : j # n => new[j] = list[j]
  OBVIOUS
<1>2. /\ \A j \in 1 .. Len(list) : list[j].s <= list[j].e
      /\ \A j, k \in 1 .. Len(list) : j < k => list[j].e + 1 < list[k].s
  BY CanonicalFacts
<1>3. /\ \A j \in 1 .. Len(list) : list[j].s \in Int /\ list[j].e \in Int
      /\ Len(list) \in Nat
      /\ x.s \in Int /\ x.e \in Int
      /\ DOMAIN list = 1 .. Len(list) /\ DOMAIN new = 1 .. Len(list)
  <2>1. x.s \in Int /\ x.e \in Int
    BY TimeAssumption DEF Interval, Time
  <2> QED
    BY <1>1, <2>1, ListFacts
<1>4. ASSUME NEW j \in 1 .. Len(new) PROVE new[j].s <= new[j].e
  BY <1>1, <1>2
<1>5. ASSUME NEW j \in 1 .. Len(new), NEW k \in 1 .. Len(new), j < k
      PROVE  new[j].e + 1 < new[k].s
  <2>1. j \in 1 .. Len(list) /\ k \in 1 .. Len(list) /\ j \in Int /\ k \in Int
    BY <1>1, <1>3
  <2>2. list[j].e + 1 < list[k].s
    BY <1>2, <1>5, <2>1
  <2>3. new[j].e \in Int /\ new[j].e <= list[j].e
    BY <1>1, <1>3, <2>1
  <2>4. new[k].s \in Int /\ list[k].s <= new[k].s
    BY <1>1, <1>3, <2>1
  <2> QED
    BY <1>3, <2>1, <2>2, <2>3, <2>4
<1>6. Canonical(new)
  BY <1>1, <1>4, <1>5, CanonicalIntro
<1>7. ASSUME NEW t \in Time
      PROVE  Has(new, t) <=>
                 \/ Has(list, t) /\ ~(list[n].s <= t /\ t <= list[n].e)
                 \/ x.s <= t /\ t <= x.e
  <2>1. ASSUME NEW j \in 1 .. Len(list), j # n, list[j].s <= t, t <= list[j].e
        PROVE  ~(list[n].s <= t /\ t <= list[n].e)
    BY <2>1, OneInterval
  <2>2. ASSUME NEW j \in 1 .. Len(list), new[j].s <= t, t <= new[j].e
        PROVE  \/ Has(list, t) /\ ~(list[n].s <= t /\ t <= list[n].e)
               \/ x.s <= t /\ t <= x.e
    <3>1. CASE j = n
      BY <1>1, <2>2, <3>1
    <3>2. CASE j # n
      <4>1. list[j].s <= t /\ t <= list[j].e
        BY <1>1, <2>2, <3>2
      <4>2. Has(list, t)
        BY <1>3, <4>1 DEF Has
      <4> QED
        BY <2>1, <3>2, <4>1, <4>2
    <3> QED
      BY <3>1, <3>2
  <2>3. ASSUME NEW j \in 1 .. Len(list), list[j].s <= t, t <= list[j].e,
               ~(list[n].s <= t /\ t <= list[n].e)
        PROVE  Has(new, t)
    <3>1. j # n
      BY <2>3
    <3>2. new[j].s <= t /\ t <= new[j].e
      BY <1>1, <2>3, <3>1
    <3> QED
      BY <1>3, <3>2 DEF Has
  <2>4. ASSUME x.s <= t, t <= x.e PROVE Has(new, t)
    BY <1>1, <1>3, <2>4 DEF Has
  <2>5. (\E j \in 1 .. Len(list) : new[j].s <= t /\ t <= new[j].e) <=> Has(new, t)
    BY <1>3 DEF Has
  <2>6. (\E j \in 1 .. Len(list) : list[j].s <= t /\ t <= list[j].e) <=> Has(list, t)
    BY <1>3 DEF Has
  <2> QED
    BY <2>2, <2>3, <2>4, <2>5, <2>6
<1> QED
  BY <1>6, <1>7

\* An interval of a canonical list can be taken out.
LEMMA DeleteCanonical ==
    ASSUME NEW list \in Seq(Interval), Canonical(list), NEW n \in 1 .. Len(list),
           NEW new \in Seq(Interval), Len(new) = Len(list) - 1,
           \A j \in 1 .. n - 1 : new[j] = list[j],
           \A j \in n .. Len(list) - 1 : new[j] = list[j + 1]
    PROVE  /\ Canonical(new)
           /\ \A t \in Time :
                 Has(new, t) <=>
                     Has(list, t) /\ ~(list[n].s <= t /\ t <= list[n].e)
<1>1. /\ new \in Seq(Interval)
      /\ Len(new) = Len(list) - 1
      /\ \A j \in 1 .. n - 1 : new[j] = list[j]
      /\ \A j \in n .. Len(list) - 1 : new[j] = list[j + 1]
  OBVIOUS
<1>2. /\ \A j \in 1 .. Len(list) : list[j].s <= list[j].e
      /\ \A j, k \in 1 .. Len(list) : j < k => list[j].e + 1 < list[k].s
  BY CanonicalFacts
<1>3. /\ Len(list) \in Nat /\ n \in Int
      /\ DOMAIN list = 1 .. Len(list) /\ DOMAIN new = 1 .. Len(new)
  BY <1>1, ListFacts
<1>4. ASSUME NEW j \in 1 .. Len(new)
      PROVE  /\ Shifted(n - 1, j) \in 1 .. Len(list)
             /\ Shifted(n - 1, j) # n
             /\ new[j] = list[Shifted(n - 1, j)]
  <2>1. CASE j < n
    <3>1. Shifted(n - 1, j) = j /\ j \in 1 .. n - 1 /\ j \in 1 .. Len(list)
      BY <1>1, <1>3, <2>1 DEF Shifted
    <3> QED
      BY <1>1, <2>1, <3>1
  <2>2. CASE j >= n
    <3>1. /\ Shifted(n - 1, j) = j + 1
          /\ j \in n .. Len(list) - 1
          /\ j + 1 \in 1 .. Len(list)
          /\ j + 1 # n
      BY <1>1, <1>3, <2>2 DEF Shifted
    <3> QED
      BY <1>1, <3>1
  <2> QED
    BY <1>1, <1>3, <2>1, <2>2
<1>5. ASSUME NEW j \in 1 .. Len(new), NEW k \in 1 .. Len(new), j < k
      PROVE  Shifted(n - 1, j) < Shifted(n - 1, k)
  BY <1>1, <1>3, <1>5 DEF Shifted
<1>6. ASSUME NEW j \in 1 .. Len(list), j # n
      PROVE  \E k \in 1 .. Len(new) : new[k] = list[j]
  <2>1. CASE j < n
    <3>1. j \in 1 .. n - 1 /\ j \in 1 .. Len(new)
      BY <1>1, <1>3, <2>1
    <3> QED
      BY <1>1, <3>1
  <2>2. CASE j > n
    <3>1. j - 1 \in n .. Len(list) - 1 /\ j - 1 \in 1 .. Len(new) /\ (j - 1) + 1 = j
      BY <1>1, <1>3, <2>2
    <3> QED
      BY <1>1, <3>1
  <2> QED
    BY <1>3, <1>6, <2>1, <2>2
<1>7. Canonical(new)
  <2>1. \A j \in 1 .. Len(new) : new[j].s <= new[j].e
    BY <1>2, <1>4
  <2>2. \A j, k \in 1 .. Len(new) : j < k => new[j].e + 1 < new[k].s
    BY <1>2, <1>4, <1>5
  <2> QED
    BY <1>1, <2>1, <2>2, CanonicalIntro
<1>8. ASSUME NEW t \in Time
      PROVE  Has(new, t) <=> Has(list, t) /\ ~(list[n].s <= t /\ t <= list[n].e)
  <2>1. ASSUME NEW j \in 1 .. Len(list), j # n, list[j].s <= t, t <= list[j].e
        PROVE  ~(list[n].s <= t /\ t <= list[n].e)
    BY <2>1, OneInterval
  <2>2. ASSUME NEW j \in 1 .. Len(new), new[j].s <= t, t <= new[j].e
        PROVE  Has(list, t) /\ ~(list[n].s <= t /\ t <= list[n].e)
    <3>1. PICK k \in 1 .. Len(list) : k # n /\ new[j] = list[k]
      BY <1>4
    <3>2. list[k].s <= t /\ t <= list[k].e
      BY <2>2, <3>1
    <3> QED
      BY <1>3, <2>1, <3>1, <3>2 DEF Has
  <2>3. ASSUME NEW j \in 1 .. Len(list), list[j].s <= t, t <= list[j].e,
               ~(list[n].s <= t /\ t <= list[n].e)
        PROVE  Has(new, t)
    <3>1. j # n
      BY <2>3
    <3>2. PICK k \in 1 .. Len(new) : new[k] = list[j]
      BY <1>6, <3>1
    <3> QED
      BY <1>3, <2>3, <3>2 DEF Has
  <2> QED
    BY <1>3, <2>2, <2>3 DEF Has
<1> QED
  BY <1>7, <1>8
-----------------------------------------------------------------------------
(* Every step keeps the invariant.                                         *)

LEMMA PredecessorOf ==
    ASSUME MinTime < Start, NEW t \in Time, NEW p \in Predecessor(t)
    PROVE  p = t - 1
BY TimeAssumption DEF Predecessor, Time

\* The predecessor exists, so that one branch or the other is taken.
LEMMA PredecessorExists ==
    ASSUME MinTime < Start, NEW t \in Time
    PROVE  t - 1 \in Predecessor(t)
BY DEF Predecessor

LEMMA InsertStep ==
    ASSUME MinTime < Start,
           NEW list \in Seq(Interval), Canonical(list),
           NEW r \in Interval, isNormal(r), Insert(list, r)
    PROVE  /\ intervals' \in Seq(Interval)
           /\ pc' = "merge"
           /\ i' \in Nat \ {0}
           /\ Mergeable(intervals', i')
           /\ \A t \in Time :
                 Has(intervals', t) <=> Has(list, t) \/ (r.s <= t /\ t <= r.e)
<1>1. PICK n \in 1 .. Len(list) + 1, p \in Predecessor(r.s) :
          /\ PlaceFor(list, r, n)
          /\ intervals' = InsertAt(list, n, r)
          /\ i' = IF n > 1 /\ Touches(list, n - 1, p) THEN n - 1 ELSE n
          /\ pc' = "merge"
  BY DEF Insert
<1>2. r.s \in Time
  BY DEF Interval
<1>3. p = r.s - 1
  BY <1>2, PredecessorOf
<1>4. i' = IF n > 1 /\ Touches(list, n - 1, r.s - 1) THEN n - 1 ELSE n
  BY <1>1, <1>3
<1>5. /\ intervals' \in Seq(Interval)
      /\ Mergeable(intervals', i')
      /\ \A t \in Time :
            Has(intervals', t) <=> Has(list, t) \/ (r.s <= t /\ t <= r.e)
  BY <1>1, <1>4, InsertMergeable
<1>6. i' \in Nat \ {0}
  <2>1. i' \in DOMAIN intervals'
    BY <1>5 DEF Mergeable
  <2> QED
    BY <1>5, <2>1
<1> QED
  BY <1>1, <1>5, <1>6

LEMMA OneIntervalCanonical ==
    ASSUME NEW r \in Interval, isNormal(r)
    PROVE  /\ <<r>> \in Seq(Interval)
           /\ Canonical(<<r>>)
           /\ \A t \in Time : Has(<<r>>, t) <=> t \in r.s .. r.e
<1>1. <<r>> \in Seq(Interval) /\ Len(<<r>>) = 1 /\ <<r>>[1] = r /\ DOMAIN <<r>> = {1}
  OBVIOUS
<1>2. r.s \in Int /\ r.e \in Int /\ r.s <= r.e
  BY TimeAssumption DEF Interval, Time, isNormal
<1>3. Canonical(<<r>>)
  BY <1>1, <1>2 DEF Canonical, AllNormal, GapAfter
<1>4. ASSUME NEW t \in Time PROVE Has(<<r>>, t) <=> t \in r.s .. r.e
  <2>1. t \in Int
    BY TimeAssumption DEF Time
  <2>2. Has(<<r>>, t) <=> r.s <= t /\ t <= r.e
    BY <1>1 DEF Has
  <2> QED
    BY <1>2, <2>1, <2>2
<1> QED
  BY <1>1, <1>3, <1>4

LEMMA EmptyCanonical ==
    /\ <<>> \in Seq(Interval)
    /\ Canonical(<<>>)
    /\ \A t \in Time : ~Has(<<>>, t)
BY DEF Canonical, AllNormal, Has

LEMMA InitTInv == Init => TInv
<1> SUFFICES ASSUME Init PROVE TInv
  OBVIOUS
<1>1. pc = "idle" /\ i = 1 /\ i \in Nat \ {0} /\ interval \in Interval
  BY DEF Init
<1>2. /\ intervals \in Seq(Interval)
      /\ Canonical(intervals)
      /\ covered \subseteq Time
      /\ \A t \in Time : t \in covered <=> Has(intervals, t)
  <2>1. CASE intervals = <<>> /\ covered = {}
    BY <2>1, EmptyCanonical
  <2>2. ASSUME NEW r \in Interval, isNormal(r),
               intervals = <<r>>, covered = r.s .. r.e
        PROVE  /\ intervals \in Seq(Interval)
               /\ Canonical(intervals)
               /\ covered \subseteq Time
               /\ \A t \in Time : t \in covered <=> Has(intervals, t)
    <3>1. r.s .. r.e \subseteq Time
      BY TimeAssumption DEF Interval, Time
    <3> QED
      BY <2>2, <3>1, OneIntervalCanonical
  <2> QED
    BY <2>1, <2>2 DEF Init
<1> QED
  BY <1>1, <1>2 DEF TInv, RangeTypeOK, IdleInv, MergeInv, RemoveInv

\* What a step to "idle", to "merge" or to "remove" has to establish.
LEMMA TInvIdle ==
    ASSUME pc' = "idle", i' \in Nat \ {0}, interval' \in Interval,
           covered' \subseteq Time, intervals' \in Seq(Interval),
           Canonical(intervals'),
           \A t \in Time : t \in covered' <=> Has(intervals', t)
    PROVE  TInv'
BY DEF TInv, RangeTypeOK, IdleInv, MergeInv, RemoveInv

LEMMA TInvMerge ==
    ASSUME pc' = "merge", i' \in Nat \ {0}, interval' \in Interval,
           covered' \subseteq Time, intervals' \in Seq(Interval),
           Mergeable(intervals', i'),
           \A t \in Time : t \in covered' <=> Has(intervals', t)
    PROVE  TInv'
BY DEF TInv, RangeTypeOK, IdleInv, MergeInv, RemoveInv

LEMMA TInvRemove ==
    ASSUME pc' = "remove", i' \in Nat \ {0}, interval' \in Interval,
           covered' \subseteq Time, intervals' \in Seq(Interval),
           Canonical(intervals'),
           i' <= Len(intervals') + 1,
           \A j \in 1 .. i' - 1 : intervals'[j].e < interval'.s,
           interval'.s <= interval'.e,
           \A t \in Time :
              t \in covered' <=>
                  Has(intervals', t) /\ ~(interval'.s <= t /\ t <= interval'.e)
    PROVE  TInv'
BY DEF TInv, RangeTypeOK, IdleInv, MergeInv, RemoveInv

LEMMA IdleSteps ==
    ASSUME MinTime < Start, TInv, NEW r \in Interval,
           addInterval(r) \/ removeInterval(r) \/ assign(r) \/ clear
    PROVE  TInv'
<1>1. /\ pc = "idle" /\ i \in Nat \ {0} /\ interval \in Interval
      /\ covered \subseteq Time /\ intervals \in Seq(Interval)
      /\ Canonical(intervals)
      /\ \A t \in Time : t \in covered <=> Has(intervals, t)
  BY DEF TInv, RangeTypeOK, IdleInv, addInterval, removeInterval, assign, clear
<1>2. /\ r.s \in Int /\ r.e \in Int
      /\ r.s .. r.e \subseteq Time
      /\ \A t \in Time : t \in r.s .. r.e <=> r.s <= t /\ t <= r.e
  BY TimeAssumption DEF Interval, Time
<1>3. CASE addInterval(r)
  <2>1. /\ isNormal(r) /\ Insert(intervals, r)
        /\ covered' = covered \cup r.s .. r.e /\ interval' = interval
    BY <1>3 DEF addInterval
  <2>2. /\ intervals' \in Seq(Interval) /\ pc' = "merge" /\ i' \in Nat \ {0}
        /\ Mergeable(intervals', i')
        /\ \A t \in Time :
              Has(intervals', t) <=> Has(intervals, t) \/ (r.s <= t /\ t <= r.e)
    BY <1>1, <2>1, InsertStep
  <2>3. covered' \subseteq Time
    BY <1>1, <1>2, <2>1
  <2>4. \A t \in Time : t \in covered' <=> Has(intervals', t)
    BY <1>1, <1>2, <2>1, <2>2
  <2> QED
    BY <1>1, <2>1, <2>2, <2>3, <2>4, TInvMerge
<1>4. CASE removeInterval(r)
  <2>1. /\ isNormal(r) /\ pc' = "remove" /\ i' = 1 /\ interval' = r
        /\ covered' = covered \ (r.s .. r.e) /\ intervals' = intervals
    BY <1>4 DEF removeInterval
  <2>2. /\ covered' \subseteq Time /\ i' \in Nat \ {0} /\ i' <= Len(intervals') + 1
        /\ \A j \in 1 .. i' - 1 : intervals'[j].e < interval'.s
        /\ interval'.s <= interval'.e
    BY <1>1, <2>1 DEF isNormal
  <2>3. \A t \in Time :
          t \in covered' <=>
              Has(intervals', t) /\ ~(interval'.s <= t /\ t <= interval'.e)
    BY <1>1, <1>2, <2>1
  <2>4. /\ interval' \in Interval /\ intervals' \in Seq(Interval)
        /\ Canonical(intervals')
    BY <1>1, <2>1
  <2> QED
    BY <2>1, <2>2, <2>3, <2>4, TInvRemove
<1>5. CASE assign(r)
  <2>1. /\ intervals' = IF isNormal(r) THEN <<r>> ELSE <<>>
        /\ covered' = IF isNormal(r) THEN r.s .. r.e ELSE {}
        /\ pc' = "idle" /\ i' = i /\ interval' = interval
    BY <1>1, <1>5 DEF assign
  <2>2. CASE isNormal(r)
    <3>1. intervals' = <<r>> /\ covered' = r.s .. r.e
      BY <2>1, <2>2
    <3>2. /\ intervals' \in Seq(Interval) /\ Canonical(intervals')
          /\ \A t \in Time : t \in covered' <=> Has(intervals', t)
      BY <2>2, <3>1, OneIntervalCanonical
    <3> QED
      BY <1>1, <1>2, <2>1, <3>1, <3>2, TInvIdle
  <2>3. CASE ~isNormal(r)
    <3>1. intervals' = <<>> /\ covered' = {}
      BY <2>1, <2>3
    <3>2. /\ intervals' \in Seq(Interval) /\ Canonical(intervals')
          /\ \A t \in Time : t \in covered' <=> Has(intervals', t)
      BY <3>1, EmptyCanonical
    <3>3. covered' \subseteq Time
      BY <3>1
    <3> QED
      BY <1>1, <2>1, <3>2, <3>3, TInvIdle
  <2> QED
    BY <2>2, <2>3
<1>6. CASE clear
  <2>1. /\ intervals' = <<>> /\ covered' = {}
        /\ pc' = "idle" /\ i' = i /\ interval' = interval
    BY <1>1, <1>6 DEF clear
  <2>2. /\ intervals' \in Seq(Interval) /\ Canonical(intervals')
        /\ \A t \in Time : t \in covered' <=> Has(intervals', t)
    BY <2>1, EmptyCanonical
  <2>3. covered' \subseteq Time
    BY <2>1
  <2> QED
    BY <1>1, <2>1, <2>2, <2>3, TInvIdle
<1> QED
  BY <1>3, <1>4, <1>5, <1>6

LEMMA MergeSteps ==
    ASSUME MinTime < Start, TInv, Merge \/ MergeEnds
    PROVE  TInv'
<1>1. /\ pc = "merge" /\ i \in Nat \ {0} /\ interval \in Interval
      /\ covered \subseteq Time /\ intervals \in Seq(Interval)
      /\ Mergeable(intervals, i)
      /\ \A t \in Time : t \in covered <=> Has(intervals, t)
  BY DEF TInv, RangeTypeOK, MergeInv, Merge, MergeEnds
<1>2. /\ DOMAIN intervals = 1 .. Len(intervals) /\ Len(intervals) \in Nat
      /\ \A j \in 1 .. Len(intervals) : /\ intervals[j] \in Interval
                                       /\ intervals[j].s \in Int
                                       /\ intervals[j].e \in Int
  BY <1>1, ListFacts
<1>3. i \in 1 .. Len(intervals)
  BY <1>1, <1>2 DEF Mergeable
<1>4. ASSUME i < Len(intervals)
      PROVE  /\ i + 1 \in 1 .. Len(intervals)
             /\ i \in 1 .. Len(intervals) - 1
             /\ intervals[i + 1].s \in Time
  <2>1. i + 1 \in 1 .. Len(intervals) /\ i \in 1 .. Len(intervals) - 1
    BY <1>2, <1>3, <1>4
  <2>2. intervals[i + 1] \in Interval
    BY <1>2, <2>1
  <2> QED
    BY <2>1, <2>2 DEF Interval
<1>5. CASE Merge
  <2> DEFINE x == [s |-> intervals[i].s,
                   e |-> Later(intervals[i].e, intervals[i + 1].e)]
  <2>1. /\ i < Len(intervals)
        /\ intervals' = RemoveAt([intervals EXCEPT ![i] = x], i + 1)
        /\ pc' = "merge" /\ i' = i /\ interval' = interval /\ covered' = covered
    BY <1>1, <1>5 DEF Merge
  <2>2. PICK p \in Predecessor(intervals[i + 1].s) : Touches(intervals, i, p)
    BY <1>5 DEF Merge
  <2>3. p = intervals[i + 1].s - 1
    BY <1>4, <2>1, PredecessorOf
  <2>4. intervals[i].e >= intervals[i + 1].s - 1
    BY <2>2, <2>3 DEF Touches
  <2>5. intervals[i] \in Interval /\ intervals[i + 1] \in Interval
    BY <1>2, <1>3, <1>4, <2>1
  <2>6. /\ x \in Interval
        /\ x.s = intervals[i].s
        /\ x.e = Later(intervals[i].e, intervals[i + 1].e)
    BY <2>5 DEF Interval, Later
  <2> HIDE DEF x
  <2>8. i \in 1 .. Len(intervals) - 1
    BY <1>4, <2>1
  <2>9. /\ intervals \in Seq(Interval)
        /\ Mergeable(intervals, i)
    BY <1>1
  <2>10. /\ intervals' \in Seq(Interval)
         /\ Len(intervals') = Len(intervals) - 1
         /\ intervals'[i] = x
         /\ \A j \in 1 .. i : j # i => intervals'[j] = intervals[j]
         /\ \A j \in i + 1 .. Len(intervals) - 1 :
               intervals'[j] = intervals[j + 1]
    <3> DEFINE mid == [intervals EXCEPT ![i] = x]
    <3>1. /\ mid \in Seq(Interval)
          /\ Len(mid) = Len(intervals)
          /\ mid[i] = x
          /\ \A j \in 1 .. Len(intervals) : j # i => mid[j] = intervals[j]
      BY <1>2, <1>3, <2>6, <2>9
    <3> HIDE DEF mid
    <3>2. intervals' = RemoveAt(mid, i + 1)
      BY <2>1 DEF mid
    <3>3. x \in Interval
      BY <2>6
    <3> HIDE DEF x
    <3>4. /\ RemoveAt(mid, i + 1) \in Seq(Interval)
          /\ Len(RemoveAt(mid, i + 1)) = Len(intervals) - 1
          /\ RemoveAt(mid, i + 1)[i] = x
          /\ \A j \in 1 .. i : j # i => RemoveAt(mid, i + 1)[j] = intervals[j]
          /\ \A j \in i + 1 .. Len(intervals) - 1 :
                RemoveAt(mid, i + 1)[j] = intervals[j + 1]
      BY <2>8, <2>9, <3>1, <3>3, MergedElements
    <3> QED
      BY <3>2, <3>4
  <2>7. /\ Mergeable(intervals', i)
        /\ \A t \in Time : Has(intervals', t) <=> Has(intervals, t)
    BY <2>4, <2>6, <2>8, <2>9, <2>10, MergeMergeable
  <2> QED
    BY <1>1, <2>1, <2>7, <2>10, TInvMerge
<1>6. CASE MergeEnds
  <2>1. /\ pc' = "idle" /\ i' = 1 /\ intervals' = intervals
        /\ interval' = interval /\ covered' = covered
    BY <1>6 DEF MergeEnds
  <2>2. ASSUME i < Len(intervals)
        PROVE  intervals[i].e + 1 < intervals[i + 1].s
    <3>1. PICK p \in Predecessor(intervals[i + 1].s) : ~Touches(intervals, i, p)
      BY <1>6, <2>2 DEF MergeEnds
    <3>2. p = intervals[i + 1].s - 1
      BY <1>4, <2>2, PredecessorOf
    <3>3. ~(intervals[i].e >= intervals[i + 1].s - 1)
      BY <3>1, <3>2 DEF Touches
    <3>4. /\ intervals[i].e \in Int /\ intervals[i + 1].s \in Int
      BY <1>2, <1>3, <1>4, <2>2
    <3> QED
      BY <3>3, <3>4
  <2>3. \A j \in 1 .. Len(intervals) : j # i => GapAfter(intervals, j)
    <3>1. CASE \A j \in DOMAIN intervals \ {i} : GapAfter(intervals, j)
      BY <1>2, <3>1
    <3>2. CASE i < Len(intervals) /\ intervals[i + 1].s <= intervals[i].e + 1
      <4>1. intervals[i].e + 1 < intervals[i + 1].s
        BY <2>2, <3>2
      <4>2. intervals[i].e \in Int /\ intervals[i + 1].s \in Int
        BY <1>2, <1>3, <1>4, <3>2
      <4> QED
        BY <3>2, <4>1, <4>2
    <3> QED
      BY <1>1, <3>1, <3>2 DEF Mergeable
  <2>4. GapAfter(intervals, i)
    <3> SUFFICES ASSUME NEW k \in i + 1 .. Len(intervals)
                 PROVE  intervals[i].e + 1 < intervals[k].s
      BY DEF GapAfter
    <3>1. /\ i < Len(intervals) /\ k \in 1 .. Len(intervals)
          /\ i + 1 \in 1 .. Len(intervals)
          /\ k = i + 1 \/ i + 1 < k
      BY <1>2, <1>3
    <3>2. intervals[i + 1].s <= intervals[k].s
      <4>1. CASE k = i + 1
        BY <1>2, <3>1, <4>1
      <4>2. CASE i + 1 < k
        BY <1>1, <1>2, <3>1, <4>2 DEF Mergeable, Ordered
      <4> QED
        BY <3>1, <4>1, <4>2
    <3>3. intervals[i].e + 1 < intervals[i + 1].s
      BY <2>2, <3>1
    <3>4. /\ intervals[i].e \in Int /\ intervals[i + 1].s \in Int
          /\ intervals[k].s \in Int
      BY <1>2, <1>3, <3>1
    <3> QED
      BY <3>2, <3>3, <3>4
  <2>5. Canonical(intervals)
    BY <1>1, <1>2, <2>3, <2>4 DEF Canonical, Mergeable
  <2> QED
    BY <1>1, <2>1, <2>5, TInvIdle
<1> QED
  BY <1>5, <1>6
LEMMA RemoveSteps ==
    ASSUME MinTime < Start, TInv,
           PassOver \/ RemoveEnds \/ Split \/ TrimTail \/ TrimHead \/ Delete
    PROVE  TInv'
<1> DEFINE r == intervals[i]
<1>1. /\ pc = "remove" /\ i \in Nat \ {0} /\ interval \in Interval
      /\ covered \subseteq Time /\ intervals \in Seq(Interval)
      /\ Canonical(intervals) /\ i <= Len(intervals) + 1
      /\ \A j \in 1 .. i - 1 : intervals[j].e < interval.s
      /\ interval.s <= interval.e
      /\ \A t \in Time :
            t \in covered <=>
                Has(intervals, t) /\ ~(interval.s <= t /\ t <= interval.e)
  BY DEF TInv, RangeTypeOK, RemoveInv, PassOver, RemoveEnds, Split, TrimTail,
         TrimHead, Delete, Removing
<1>2. /\ DOMAIN intervals = 1 .. Len(intervals) /\ Len(intervals) \in Nat
      /\ \A j \in 1 .. Len(intervals) : /\ intervals[j] \in Interval
                                       /\ intervals[j].s \in Int
                                       /\ intervals[j].e \in Int
  BY <1>1, ListFacts
<1>3. /\ \A j \in 1 .. Len(intervals) : intervals[j].s <= intervals[j].e
      /\ \A j, k \in 1 .. Len(intervals) :
            j < k => intervals[j].e + 1 < intervals[k].s
  BY <1>1, CanonicalFacts
<1>4. interval.s \in Int /\ interval.e \in Int
  BY <1>1, TimeAssumption DEF Interval, Time
<1>5. \A t \in Time : t \in Int
  BY TimeAssumption DEF Time
<1>6. ASSUME i <= Len(intervals)
      PROVE  /\ i \in 1 .. Len(intervals)
             /\ r \in Interval /\ r.s \in Int /\ r.e \in Int /\ r.s <= r.e
  <2>1. i \in 1 .. Len(intervals)
    BY <1>1, <1>2, <1>6
  <2> QED
    BY <1>2, <1>3, <2>1
<1>7. \A a, b \in Int : a \in Time /\ b \in Time =>
          \A c \in Int : a <= c /\ c <= b => c \in Time
  BY TimeAssumption DEF Time
<1>8. CASE PassOver
  <2>1. /\ i <= Len(intervals) /\ r.e < interval.s
        /\ i' = i + 1 /\ intervals' = intervals /\ pc' = "remove"
        /\ interval' = interval /\ covered' = covered
    BY <1>1, <1>8 DEF PassOver, Removing
  <2>2. i' \in Nat \ {0} /\ i' <= Len(intervals') + 1
    BY <1>1, <1>2, <2>1
  <2>3. ASSUME NEW j \in 1 .. i' - 1 PROVE intervals'[j].e < interval'.s
    <3>1. j \in 1 .. i - 1 \/ j = i
      BY <1>1, <2>1
    <3> QED
      BY <1>1, <2>1, <3>1
  <2> QED
    BY <1>1, <2>1, <2>2, <2>3, TInvRemove
<1>9. CASE RemoveEnds
  <2>1. /\ i <= Len(intervals) => interval.e < intervals[i].s
        /\ i' = 1 /\ intervals' = intervals /\ pc' = "idle"
        /\ interval' = interval /\ covered' = covered
    BY <1>9 DEF RemoveEnds
  <2>2. ASSUME NEW t \in Time, Has(intervals, t)
        PROVE  ~(interval.s <= t /\ t <= interval.e)
    <3>1. PICK j \in 1 .. Len(intervals) : intervals[j].s <= t /\ t <= intervals[j].e
      BY <1>2, <2>2 DEF Has
    <3>2. CASE j < i
      <4>1. j \in 1 .. i - 1
        BY <1>1, <1>2, <3>2
      <4>2. intervals[j].e < interval.s
        BY <1>1, <4>1
      <4> QED
        BY <1>2, <1>4, <1>5, <3>1, <4>2
    <3>3. CASE j >= i
      <4>1. i \in 1 .. Len(intervals)
        BY <1>1, <1>2, <3>3
      <4>2. interval.e < intervals[i].s
        BY <2>1, <4>1
      <4>3. intervals[i].s <= intervals[j].s
        <5>1. CASE j = i
          BY <1>2, <5>1
        <5>2. CASE i < j
          <6>1. intervals[i].e + 1 < intervals[j].s /\ intervals[i].s <= intervals[i].e
            BY <1>3, <4>1, <5>2
          <6> QED
            BY <1>2, <4>1, <6>1
        <5> QED
          BY <1>1, <1>2, <3>3, <5>1, <5>2
      <4> QED
        BY <1>2, <1>4, <1>5, <3>1, <4>1, <4>2, <4>3
    <3> QED
      BY <1>1, <1>2, <3>2, <3>3
  <2>3. \A t \in Time : t \in covered' <=> Has(intervals', t)
    BY <1>1, <2>1, <2>2
  <2>4. /\ i' \in Nat \ {0} /\ interval' \in Interval /\ covered' \subseteq Time
        /\ intervals' \in Seq(Interval) /\ Canonical(intervals')
    BY <1>1, <2>1
  <2> QED
    BY <2>1, <2>3, <2>4, TInvIdle
<1>10. CASE Split
  <2> DEFINE x == [s |-> r.s, e |-> interval.s - 1]
             mid == [intervals EXCEPT ![i] = x]
             y == Rest(r, interval)
  <2>1. /\ i <= Len(intervals) /\ r.s < interval.s /\ interval.e < r.e
        /\ Insert(mid, y)
        /\ interval' = interval /\ covered' = covered
    BY <1>10 DEF Split, Removing
  <2>2. i \in 1 .. Len(intervals) /\ r \in Interval /\ r.s \in Int /\ r.e \in Int
    BY <1>6, <2>1
  <2>3. /\ x \in Interval /\ x.s = r.s /\ x.e = interval.s - 1
        /\ x.s <= x.e /\ x.e <= r.e
    <3>1. r.s \in Time /\ interval.s \in Time
      BY <1>1, <2>2 DEF Interval
    <3>3. /\ interval.s - 1 \in Int /\ r.s <= interval.s - 1
          /\ interval.s - 1 <= interval.s
      BY <1>4, <2>1, <2>2
    <3>2. interval.s - 1 \in Time
      BY <1>4, <1>7, <2>2, <3>1, <3>3
    <3> QED
      BY <1>1, <1>4, <2>1, <2>2, <3>1, <3>2 DEF Interval
  <2>4. /\ y \in Interval /\ y.s = interval.e + 1 /\ y.e = r.e /\ isNormal(y)
    <3>1. r.e \in Time /\ interval.e \in Time
      BY <1>1, <2>2 DEF Interval
    <3>2. interval.e + 1 \in Int /\ interval.e <= interval.e + 1 /\ interval.e + 1 <= r.e
      BY <1>4, <2>1, <2>2
    <3>3. interval.e + 1 \in Time
      BY <1>4, <1>7, <2>2, <3>1, <3>2
    <3> QED
      BY <3>1, <3>2, <3>3 DEF Rest, Interval, isNormal
  <2>10. r.s <= x.s
    BY <2>2, <2>3
  <2> HIDE DEF x, y
  <2>5. /\ mid \in Seq(Interval)
        /\ Len(mid) = Len(intervals)
        /\ mid[i] = x
        /\ \A j \in 1 .. Len(intervals) : j # i => mid[j] = intervals[j]
    BY <1>1, <1>2, <2>2, <2>3
  <2> HIDE DEF mid
  <2>6. /\ mid \in Seq(Interval)
        /\ Canonical(mid)
        /\ \A t \in Time :
              Has(mid, t) <=> \/ Has(intervals, t) /\ ~(r.s <= t /\ t <= r.e)
                              \/ x.s <= t /\ t <= x.e
    BY <1>1, <2>2, <2>3, <2>5, <2>10, CutCanonical
  <2>7. /\ intervals' \in Seq(Interval) /\ pc' = "merge" /\ i' \in Nat \ {0}
        /\ Mergeable(intervals', i')
        /\ \A t \in Time :
              Has(intervals', t) <=> Has(mid, t) \/ (y.s <= t /\ t <= y.e)
    BY <2>1, <2>4, <2>6, InsertStep
  <2>8. ASSUME NEW t \in Time PROVE t \in covered' <=> Has(intervals', t)
    <3>1. (r.s <= t /\ t <= r.e) => Has(intervals, t)
      BY <1>2, <2>2 DEF Has
    <3>2. (interval.s <= t /\ t <= interval.e) => (r.s <= t /\ t <= r.e)
      BY <1>4, <1>5, <2>1, <2>2
    <3>3. Has(intervals', t) <=>
              \/ Has(intervals, t) /\ ~(r.s <= t /\ t <= r.e)
              \/ x.s <= t /\ t <= x.e
              \/ y.s <= t /\ t <= y.e
      BY <2>6, <2>7
    <3>4. (x.s <= t /\ t <= x.e) \/ (y.s <= t /\ t <= y.e) <=>
              (r.s <= t /\ t <= r.e) /\ ~(interval.s <= t /\ t <= interval.e)
      BY <1>1, <1>4, <1>5, <2>1, <2>2, <2>3, <2>4
    <3>5. t \in covered' <=>
              Has(intervals, t) /\ ~(interval.s <= t /\ t <= interval.e)
      BY <1>1, <2>1
    <3> QED
      BY <3>1, <3>2, <3>3, <3>4, <3>5
  <2>9. interval' \in Interval /\ covered' \subseteq Time
    BY <1>1, <2>1
  <2> QED
    BY <2>7, <2>8, <2>9, TInvMerge
<1>11. CASE TrimTail
  <2> DEFINE x == [s |-> r.s, e |-> interval.s - 1]
  <2>1. /\ i <= Len(intervals) /\ r.s < interval.s /\ interval.s <= r.e
        /\ r.e <= interval.e
        /\ intervals' = [intervals EXCEPT ![i] = x]
        /\ i' = i + 1 /\ pc' = "remove"
        /\ interval' = interval /\ covered' = covered
    BY <1>1, <1>11 DEF TrimTail, Removing
  <2>2. i \in 1 .. Len(intervals) /\ r \in Interval /\ r.s \in Int /\ r.e \in Int
    BY <1>6, <2>1
  <2>3. /\ x \in Interval /\ x.s = r.s /\ x.e = interval.s - 1
        /\ x.s <= x.e /\ x.e <= r.e /\ r.s <= x.s
    <3>1. r.s \in Time /\ interval.s \in Time
      BY <1>1, <2>2 DEF Interval
    <3>3. /\ interval.s - 1 \in Int /\ r.s <= interval.s - 1
          /\ interval.s - 1 <= interval.s
      BY <1>4, <2>1, <2>2
    <3>2. interval.s - 1 \in Time
      BY <1>4, <1>7, <2>2, <3>1, <3>3
    <3> QED
      BY <1>1, <1>4, <2>1, <2>2, <3>1, <3>2 DEF Interval
  <2> HIDE DEF x
  <2>8. /\ intervals' \in Seq(Interval)
        /\ Len(intervals') = Len(intervals)
        /\ intervals'[i] = x
        /\ \A j \in 1 .. Len(intervals) : j # i => intervals'[j] = intervals[j]
    BY <1>1, <1>2, <2>1, <2>2, <2>3
  <2>4. /\ intervals' \in Seq(Interval)
        /\ Len(intervals') = Len(intervals)
        /\ intervals'[i] = x
        /\ \A j \in 1 .. Len(intervals) : j # i => intervals'[j] = intervals[j]
        /\ Canonical(intervals')
        /\ \A t \in Time :
              Has(intervals', t) <=> \/ Has(intervals, t) /\ ~(r.s <= t /\ t <= r.e)
                                     \/ x.s <= t /\ t <= x.e
    BY <1>1, <2>2, <2>3, <2>8, CutCanonical
  <2>5. ASSUME NEW t \in Time
        PROVE  t \in covered' <=>
                   Has(intervals', t) /\ ~(interval'.s <= t /\ t <= interval'.e)
    <3>1. (r.s <= t /\ t <= r.e) => Has(intervals, t)
      BY <1>2, <2>2 DEF Has
    <3>2. (x.s <= t /\ t <= x.e) /\ ~(interval.s <= t /\ t <= interval.e) <=>
              (r.s <= t /\ t <= r.e) /\ ~(interval.s <= t /\ t <= interval.e)
      BY <1>1, <1>4, <1>5, <2>1, <2>2, <2>3
    <3>3. t \in covered' <=>
              Has(intervals, t) /\ ~(interval.s <= t /\ t <= interval.e)
      BY <1>1, <2>1
    <3> QED
      BY <2>1, <2>4, <3>1, <3>2, <3>3
  <2>6. ASSUME NEW j \in 1 .. i' - 1 PROVE intervals'[j].e < interval'.s
    <3>1. CASE j = i
      BY <1>4, <2>1, <2>3, <2>4, <3>1
    <3>2. CASE j # i
      <4>1. j \in 1 .. i - 1 /\ j \in 1 .. Len(intervals)
        BY <1>1, <1>2, <2>1, <2>2, <3>2
      <4> QED
        BY <1>1, <2>1, <2>4, <3>2, <4>1
    <3> QED
      BY <3>1, <3>2
  <2>7. /\ i' \in Nat \ {0} /\ i' <= Len(intervals') + 1
        /\ interval' \in Interval /\ covered' \subseteq Time
        /\ interval'.s <= interval'.e
    BY <1>1, <1>2, <2>1, <2>4
  <2> QED
    BY <2>1, <2>4, <2>5, <2>6, <2>7, TInvRemove
<1>12. CASE TrimHead
  <2> DEFINE x == Rest(r, interval)
  <2>1. /\ i <= Len(intervals) /\ interval.s <= r.s /\ r.s <= interval.e
        /\ interval.e < r.e
        /\ intervals' = [intervals EXCEPT ![i] = x]
        /\ i' = 1 /\ pc' = "idle"
        /\ interval' = interval /\ covered' = covered
    BY <1>12 DEF TrimHead, Removing
  <2>2. i \in 1 .. Len(intervals) /\ r \in Interval /\ r.s \in Int /\ r.e \in Int
    BY <1>6, <2>1
  <2>3. /\ x \in Interval /\ x.s = interval.e + 1 /\ x.e = r.e
        /\ x.s <= x.e /\ x.e <= r.e /\ r.s <= x.s
    <3>1. r.e \in Time /\ interval.e \in Time
      BY <1>1, <2>2 DEF Interval
    <3>2. interval.e + 1 \in Int /\ interval.e <= interval.e + 1 /\ interval.e + 1 <= r.e
      BY <1>4, <2>1, <2>2
    <3>3. interval.e + 1 \in Time
      BY <1>4, <1>7, <2>2, <3>1, <3>2
    <3>4. r.s <= interval.e + 1
      BY <1>4, <2>1, <2>2
    <3>5. r.e <= r.e
      BY <2>2
    <3> QED
      BY <3>1, <3>2, <3>3, <3>4, <3>5 DEF Rest, Interval
  <2> HIDE DEF x
  <2>8. /\ intervals' \in Seq(Interval)
        /\ Len(intervals') = Len(intervals)
        /\ intervals'[i] = x
        /\ \A j \in 1 .. Len(intervals) : j # i => intervals'[j] = intervals[j]
    BY <1>1, <1>2, <2>1, <2>2, <2>3
  <2>4. /\ intervals' \in Seq(Interval)
        /\ Canonical(intervals')
        /\ \A t \in Time :
              Has(intervals', t) <=> \/ Has(intervals, t) /\ ~(r.s <= t /\ t <= r.e)
                                     \/ x.s <= t /\ t <= x.e
    BY <1>1, <2>2, <2>3, <2>8, CutCanonical
  <2>5. ASSUME NEW t \in Time, Has(intervals, t), interval.s <= t, t <= interval.e
        PROVE  r.s <= t /\ t <= r.e
    <3>1. PICK j \in 1 .. Len(intervals) : intervals[j].s <= t /\ t <= intervals[j].e
      BY <1>2, <2>5 DEF Has
    <3>2. ~(j < i)
      <4>1. SUFFICES ASSUME j < i PROVE FALSE
        OBVIOUS
      <4>2. j \in 1 .. i - 1
        BY <1>1, <1>2, <4>1
      <4>3. intervals[j].e < interval.s
        BY <1>1, <4>2
      <4> QED
        BY <1>2, <1>4, <1>5, <2>5, <3>1, <4>3
    <3>3. ~(i < j)
      <4>1. SUFFICES ASSUME i < j PROVE FALSE
        OBVIOUS
      <4>2. intervals[i].e + 1 < intervals[j].s
        BY <1>3, <2>2, <4>1
      <4> QED
        BY <1>2, <1>4, <1>5, <2>1, <2>2, <2>5, <3>1, <4>2
    <3>4. j = i
      BY <1>1, <1>2, <3>2, <3>3
    <3> QED
      BY <3>1, <3>4
  <2>6. ASSUME NEW t \in Time PROVE t \in covered' <=> Has(intervals', t)
    <3>1. (r.s <= t /\ t <= r.e) => Has(intervals, t)
      BY <1>2, <2>2 DEF Has
    <3>2. (x.s <= t /\ t <= x.e) <=>
              (r.s <= t /\ t <= r.e) /\ ~(interval.s <= t /\ t <= interval.e)
      BY <1>1, <1>4, <1>5, <2>1, <2>2, <2>3
    <3>3. t \in covered' <=>
              Has(intervals, t) /\ ~(interval.s <= t /\ t <= interval.e)
      BY <1>1, <2>1
    <3> QED
      BY <2>4, <2>5, <3>1, <3>2, <3>3
  <2>7. i' \in Nat \ {0} /\ interval' \in Interval /\ covered' \subseteq Time
    BY <1>1, <2>1
  <2> QED
    BY <2>1, <2>4, <2>6, <2>7, TInvIdle
<1>13. CASE Delete
  <2>1. /\ i <= Len(intervals) /\ interval.s <= r.s /\ r.e <= interval.e
        /\ intervals' = RemoveAt(intervals, i)
        /\ i' = i /\ pc' = "remove"
        /\ interval' = interval /\ covered' = covered
    BY <1>1, <1>13 DEF Delete, Removing
  <2>2. i \in 1 .. Len(intervals) /\ r.s \in Int /\ r.e \in Int
    BY <1>6, <2>1
  <2>7. /\ intervals' \in Seq(Interval)
        /\ Len(intervals') = Len(intervals) - 1
        /\ \A j \in 1 .. i - 1 : intervals'[j] = intervals[j]
        /\ \A j \in i .. Len(intervals) - 1 : intervals'[j] = intervals[j + 1]
    BY <1>1, <2>1, <2>2, RemoveAtElements
  <2>3. /\ intervals' \in Seq(Interval)
        /\ Len(intervals') = Len(intervals) - 1
        /\ \A j \in 1 .. i - 1 : intervals'[j] = intervals[j]
        /\ Canonical(intervals')
        /\ \A t \in Time :
              Has(intervals', t) <=> Has(intervals, t) /\ ~(r.s <= t /\ t <= r.e)
    BY <1>1, <2>2, <2>7, DeleteCanonical
  <2>4. ASSUME NEW t \in Time
        PROVE  t \in covered' <=>
                   Has(intervals', t) /\ ~(interval'.s <= t /\ t <= interval'.e)
    <3>1. (r.s <= t /\ t <= r.e) => (interval.s <= t /\ t <= interval.e)
      BY <1>4, <1>5, <2>1, <2>2
    <3>2. t \in covered' <=>
              Has(intervals, t) /\ ~(interval.s <= t /\ t <= interval.e)
      BY <1>1, <2>1
    <3> QED
      BY <2>1, <2>3, <3>1, <3>2
  <2>5. ASSUME NEW j \in 1 .. i' - 1 PROVE intervals'[j].e < interval'.s
    <3>1. j \in 1 .. i - 1
      BY <2>1
    <3> QED
      BY <1>1, <2>1, <2>3, <3>1
  <2>6. /\ i' \in Nat \ {0} /\ i' <= Len(intervals') + 1
        /\ interval' \in Interval /\ covered' \subseteq Time
        /\ interval'.s <= interval'.e
    BY <1>1, <1>2, <2>1, <2>2, <2>3
  <2> QED
    BY <2>1, <2>3, <2>4, <2>5, <2>6, TInvRemove
<1> QED
  BY <1>8, <1>9, <1>10, <1>11, <1>12, <1>13

LEMMA NextTInv ==
    ASSUME MinTime < Start, TInv, [Next]_vars
    PROVE  TInv'
<1>1. CASE UNCHANGED vars
  BY <1>1 DEF TInv, RangeTypeOK, IdleInv, MergeInv, RemoveInv, vars
<1>2. ASSUME NEW r \in Interval, addInterval(r) \/ removeInterval(r) \/ assign(r)
      PROVE  TInv'
  BY <1>2, IdleSteps
<1>3. CASE clear
  <2>1. interval \in Interval
    BY DEF TInv, RangeTypeOK
  <2> QED
    BY <1>3, <2>1, IdleSteps
<1>4. CASE Merge \/ MergeEnds
  BY <1>4, MergeSteps
<1>5. CASE PassOver \/ RemoveEnds \/ Split \/ TrimTail \/ TrimHead \/ Delete
  BY <1>5, RemoveSteps
<1> QED
  BY <1>1, <1>2, <1>3, <1>4, <1>5 DEF Next

\* The invariant: merging and removing leave the list as their loops need it.
THEOREM RangeInvariant ==
    ASSUME MinTime < Start
    PROVE  Spec => []TInv
<1>1. Init => TInv
  BY InitTInv
<1>2. TInv /\ [Next]_vars => TInv'
  BY NextTInv
<1> QED
  BY <1>1, <1>2, PTL DEF Spec

\* The list has its type: trimming, splitting and merging compute no time
\* outside of the range of times.
THEOREM RangeTypes ==
    ASSUME MinTime < Start
    PROVE  Spec => []RangeTypeOK
<1>1. TInv => RangeTypeOK
  BY DEF TInv
<1> QED
  BY <1>1, RangeInvariant, PTL

LEMMA TInvDisjoint == TInv => Disjoint
<1> SUFFICES ASSUME TInv, pc = "idle"
             PROVE  /\ \A j \in DOMAIN intervals : isNormal(intervals[j])
                    /\ \A j, k \in DOMAIN intervals :
                          j < k => intervals[j].e + 1 < intervals[k].s
  BY DEF Disjoint
<1>1. intervals \in Seq(Interval) /\ Canonical(intervals)
  BY DEF TInv, RangeTypeOK, IdleInv
<1> QED
  BY <1>1, CanonicalFacts, ListFacts DEF isNormal

\* Between two operations no two intervals overlap or touch, however many
\* there are and whatever was added and removed.
THEOREM IntervalsAreDisjoint ==
    ASSUME MinTime < Start
    PROVE  Spec => []Disjoint
<1>1. TInv => Disjoint
  BY TInvDisjoint
<1> QED
  BY <1>1, RangeInvariant, PTL

LEMMA TInvExact == TInv => Exact
<1> SUFFICES ASSUME TInv, pc = "idle"
             PROVE  /\ covered = {t \in Time : contains(intervals, t)}
                    /\ covered # {} =>
                          /\ {earliestTime(intervals), latestTime(intervals)}
                                \subseteq covered
                          /\ covered \subseteq
                                earliestTime(intervals) .. latestTime(intervals)
  BY DEF Exact
<1>1. /\ intervals \in Seq(Interval) /\ Canonical(intervals)
      /\ covered \subseteq Time
      /\ \A t \in Time : t \in covered <=> Has(intervals, t)
  BY DEF TInv, RangeTypeOK, IdleInv
<1>2. /\ DOMAIN intervals = 1 .. Len(intervals) /\ Len(intervals) \in Nat
      /\ \A j \in 1 .. Len(intervals) : /\ intervals[j] \in Interval
                                       /\ intervals[j].s \in Int
                                       /\ intervals[j].e \in Int
  BY <1>1, ListFacts
<1>3. /\ \A j \in 1 .. Len(intervals) : intervals[j].s <= intervals[j].e
      /\ \A j, k \in 1 .. Len(intervals) :
            j < k => intervals[j].e + 1 < intervals[k].s
  BY <1>1, CanonicalFacts
<1>4. \A t \in Time : t \in Int
  BY TimeAssumption DEF Time
<1>5. ASSUME NEW t \in Time PROVE contains(intervals, t) <=> Has(intervals, t)
  <2>1. ASSUME NEW j \in 1 .. Len(intervals), intervals[j].s <= t,
               NEW k \in 1 .. j - 1
        PROVE  intervals[k].s <= t
    <3>1. k \in 1 .. Len(intervals) /\ k < j
      BY <1>2
    <3>2. intervals[k].s <= intervals[k].e /\ intervals[k].e + 1 < intervals[j].s
      BY <1>3, <3>1
    <3> QED
      BY <1>2, <1>4, <2>1, <3>1, <3>2
  <2> QED
    BY <1>2, <2>1 DEF contains, Has
<1>6. covered = {t \in Time : contains(intervals, t)}
  BY <1>1, <1>5
<1>7. ASSUME covered # {}
      PROVE  /\ {earliestTime(intervals), latestTime(intervals)} \subseteq covered
             /\ covered \subseteq earliestTime(intervals) .. latestTime(intervals)
  <2> DEFINE n == Len(intervals)
  <2>1. PICK t0 \in Time : Has(intervals, t0)
    BY <1>1, <1>7
  <2>2. 1 \in 1 .. n /\ n \in 1 .. n /\ intervals # <<>>
    <3>1. PICK j \in 1 .. n : TRUE
      BY <1>2, <2>1 DEF Has
    <3> QED
      BY <1>2, <3>1
  <2>3. earliestTime(intervals) = intervals[1].s /\ latestTime(intervals) = intervals[n].e
    BY <2>2 DEF earliestTime, latestTime
  <2>4. intervals[1].s \in Time /\ intervals[n].e \in Time
    BY <1>2, <2>2 DEF Interval
  <2>5. Has(intervals, intervals[1].s) /\ Has(intervals, intervals[n].e)
    <3>1. /\ intervals[1].s <= intervals[1].s /\ intervals[1].s <= intervals[1].e
          /\ intervals[n].s <= intervals[n].e /\ intervals[n].e <= intervals[n].e
      BY <1>2, <1>3, <2>2
    <3> QED
      BY <1>2, <2>2, <3>1 DEF Has
  <2>6. ASSUME NEW t \in covered
        PROVE  intervals[1].s <= t /\ t <= intervals[n].e
    <3>1. t \in Time /\ t \in Int /\ Has(intervals, t)
      BY <1>1, <1>4
    <3>2. PICK j \in 1 .. n : intervals[j].s <= t /\ t <= intervals[j].e
      BY <1>2, <3>1 DEF Has
    <3>3. intervals[1].s <= intervals[j].s
      <4>1. CASE j = 1
        BY <1>2, <2>2, <4>1
      <4>2. CASE 1 < j
        <5>1. intervals[1].s <= intervals[1].e /\ intervals[1].e + 1 < intervals[j].s
          BY <1>3, <2>2, <4>2
        <5> QED
          BY <1>2, <2>2, <5>1
      <4> QED
        BY <1>2, <4>1, <4>2
    <3>4. intervals[j].e <= intervals[n].e
      <4>1. CASE j = n
        BY <1>2, <2>2, <4>1
      <4>2. CASE j < n
        <5>1. intervals[n].s <= intervals[n].e /\ intervals[j].e + 1 < intervals[n].s
          BY <1>3, <2>2, <4>2
        <5> QED
          BY <1>2, <2>2, <5>1
      <4> QED
        BY <1>2, <4>1, <4>2
    <3> QED
      BY <1>2, <2>2, <3>1, <3>2, <3>3, <3>4
  <2>7. \A t \in covered : t \in intervals[1].s .. intervals[n].e
    BY <1>1, <1>2, <1>4, <2>2, <2>6
  <2>8. intervals[1].s \in covered /\ intervals[n].e \in covered
    BY <1>1, <2>4, <2>5
  <2> QED
    BY <2>3, <2>7, <2>8
<1> QED
  BY <1>6, <1>7

\* Between two operations the range answers with exactly the times that were
\* added and not removed.
THEOREM RangeIsExact ==
    ASSUME MinTime < Start
    PROVE  Spec => []Exact
<1>1. TInv => Exact
  BY TInvExact
<1> QED
  BY <1>1, RangeInvariant, PTL
=============================================================================
