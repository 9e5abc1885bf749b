-------------------------- MODULE QMediaTimeRange --------------------------
(***************************************************************************)
(* The list of intervals in a QMediaTimeRange                              *)
(* (src/src/multimedia/qmediatimerange.cpp): addInterval inserts one in    *)
(* order of its start and merges what has come to overlap or touch;        *)
(* removeInterval trims, splits and deletes.  One step per turn of their   *)
(* loops.                                                                  *)
(*                                                                         *)
(* Times are qint64.  An interval is its first and last time, so that the  *)
(* code looks for a neighbour at s - 1: that is undefined for the least    *)
(* qint64, where the subtraction either wraps around or is folded into the *)
(* comparison.                                                             *)
(***************************************************************************)
EXTENDS Integers, Sequences, SequencesExt

CONSTANTS
    MinTime, MaxTime,   \* the least and the greatest qint64
    Start               \* no interval starts earlier

ASSUME TimeAssumption ==
    /\ {MinTime, MaxTime, Start} \subseteq Int
    /\ MinTime <= Start
    /\ Start <= MaxTime

VARIABLES
    intervals,      \* of the range
    pc,             \* "idle", or the loop that runs
    i,              \* its index
    interval,       \* the interval to remove
    covered         \* history: the times that were added and not removed

vars == <<intervals, pc, i, interval, covered>>

Time == Start .. MaxTime
Interval == [s : Time, e : Time]
isNormal(r) == r.s <= r.e

\* The results that t - 1 may have.
Predecessor(t) == IF t = MinTime THEN {MaxTime, t - 1} ELSE {t - 1}

RangeTypeOK ==
    /\ intervals \in Seq(Interval)
    /\ pc \in {"idle", "merge", "remove"}
    /\ i \in Nat \ {0}
    /\ interval \in Interval
    /\ covered \subseteq Time

\* The constructors: of an empty range, and of one interval, which is dropped
\* if it is not normal.
Init ==
    /\ \/ intervals = <<>> /\ covered = {}
       \/ \E r \in Interval :
             IF isNormal(r) THEN intervals = <<r>> /\ covered = r.s .. r.e
                            ELSE intervals = <<>> /\ covered = {}
    /\ pc = "idle"
    /\ i = 1
    /\ interval \in {r \in Interval : r.s = Start /\ r.e = Start}

-----------------------------------------------------------------------------
(* Mutants: plausible slips in the code below.                             *)

\* Intervals that only touch are not merged.
Overlap(list, j, p) == list[j].e > p

\* The earlier end wins.
Former(a, b) == a

-----------------------------------------------------------------------------
(* QMediaTimeRangePrivate::addInterval                                     *)

\* Whether the interval at j reaches up to the one whose start has p before it.
Touches(list, j, p) == list[j].e >= p

Later(a, b) == IF a > b THEN a ELSE b

\* The place before the first interval that starts later, or the end.
PlaceFor(list, r, k) ==
    /\ \A j \in 1 .. k - 1 : list[j].s <= r.s
    /\ k <= Len(list) => r.s < list[k].s

\* The interval is inserted; merging begins there or one place before.
Insert(list, r) ==
    \E k \in 1 .. Len(list) + 1, p \in Predecessor(r.s) :
        /\ PlaceFor(list, r, k)
        /\ intervals' = InsertAt(list, k, r)
        /\ i' = IF k > 1 /\ Touches(list, k - 1, p) THEN k - 1 ELSE k
        /\ pc' = "merge"

addInterval(r) ==
    /\ pc = "idle"
    /\ isNormal(r)
    /\ Insert(intervals, r)
    /\ covered' = covered \cup r.s .. r.e
    /\ UNCHANGED interval

Merge ==
    /\ pc = "merge"
    /\ i < Len(intervals)
    /\ \E p \in Predecessor(intervals[i + 1].s) : Touches(intervals, i, p)
    /\ intervals' = RemoveAt(
           [intervals EXCEPT ![i] =
               [s |-> intervals[i].s,
                e |-> Later(intervals[i].e, intervals[i + 1].e)]],
           i + 1)
    /\ UNCHANGED <<pc, i, interval, covered>>

MergeEnds ==
    /\ pc = "merge"
    /\ i < Len(intervals) =>
          \E p \in Predecessor(intervals[i + 1].s) : ~Touches(intervals, i, p)
    /\ pc' = "idle"
    /\ i' = 1
    /\ UNCHANGED <<intervals, interval, covered>>

-----------------------------------------------------------------------------
(* QMediaTimeRangePrivate::removeInterval                                  *)

removeInterval(r) ==
    /\ pc = "idle"
    /\ isNormal(r)
    /\ pc' = "remove"
    /\ i' = 1
    /\ interval' = r
    /\ covered' = covered \ (r.s .. r.e)
    /\ UNCHANGED intervals

Removing == pc = "remove" /\ i <= Len(intervals)

\* The next interval ends before the one to remove.
PassOver ==
    /\ Removing
    /\ intervals[i].e < interval.s
    /\ i' = i + 1
    /\ UNCHANGED <<intervals, pc, interval, covered>>

\* It begins after it, or there is none.
RemoveEnds ==
    /\ pc = "remove"
    /\ i <= Len(intervals) => interval.e < intervals[i].s
    /\ pc' = "idle"
    /\ i' = 1
    /\ UNCHANGED <<intervals, interval, covered>>

\* What is left behind the removed part.
Rest(r, cut) == [s |-> cut.e + 1, e |-> r.e]

\* It has a part before and one behind, which is added as a new interval.
Split ==
    LET r == intervals[i]
    IN  /\ Removing
        /\ r.s < interval.s /\ interval.e < r.e
        /\ Insert([intervals EXCEPT ![i] = [s |-> r.s, e |-> interval.s - 1]],
                  Rest(r, interval))
        /\ UNCHANGED <<interval, covered>>

TrimTail ==
    LET r == intervals[i]
    IN  /\ Removing
        /\ r.s < interval.s /\ interval.s <= r.e /\ r.e <= interval.e
        /\ intervals' = [intervals EXCEPT ![i] = [s |-> r.s, e |-> interval.s - 1]]
        /\ i' = i + 1
        /\ UNCHANGED <<pc, interval, covered>>

TrimHead ==
    LET r == intervals[i]
    IN  /\ Removing
        /\ interval.s <= r.s /\ r.s <= interval.e /\ interval.e < r.e
        /\ intervals' = [intervals EXCEPT ![i] = Rest(r, interval)]
        /\ pc' = "idle"
        /\ i' = 1
        /\ UNCHANGED <<interval, covered>>

\* It is covered completely.
Delete ==
    /\ Removing
    /\ interval.s <= intervals[i].s /\ intervals[i].e <= interval.e
    /\ intervals' = RemoveAt(intervals, i)
    /\ UNCHANGED <<pc, i, interval, covered>>

clear ==
    /\ pc = "idle"
    /\ intervals' = <<>>
    /\ covered' = {}
    /\ UNCHANGED <<pc, i, interval>>

\* operator=, which makes a new list of the one interval.
assign(r) ==
    /\ pc = "idle"
    /\ intervals' = IF isNormal(r) THEN <<r>> ELSE <<>>
    /\ covered' = IF isNormal(r) THEN r.s .. r.e ELSE {}
    /\ UNCHANGED <<pc, i, interval>>

-----------------------------------------------------------------------------
Next ==
    \/ \E r \in Interval : addInterval(r) \/ removeInterval(r) \/ assign(r)
    \/ Merge \/ MergeEnds
    \/ PassOver \/ RemoveEnds \/ Split \/ TrimTail \/ TrimHead \/ Delete
    \/ clear

Spec == Init /\ [][Next]_vars

-----------------------------------------------------------------------------
(* Queries.                                                                *)

\* The loop stops at the first interval that has the time or starts after it.
contains(list, t) ==
    \E j \in DOMAIN list : /\ list[j].s <= t /\ t <= list[j].e
                           /\ \A k \in 1 .. j - 1 : list[k].s <= t

earliestTime(list) == IF list # <<>> THEN list[1].s ELSE 0
latestTime(list) == IF list # <<>> THEN list[Len(list)].e ELSE 0

-----------------------------------------------------------------------------
(* Properties.                                                             *)

\* Between two operations the intervals are normal and in order, and between
\* any two a time is missing: whatever overlaps or touches was merged.
\* Equality of ranges, which compares the lists, depends on it.
Disjoint ==
    pc = "idle" =>
        /\ \A j \in DOMAIN intervals : isNormal(intervals[j])
        /\ \A j, k \in DOMAIN intervals :
              j < k => intervals[j].e + 1 < intervals[k].s

\* Between two operations the range answers with the times that were added and
\* not removed since: contains() with those and no other, and the bounds with
\* the first and the last of them.
Exact ==
    pc = "idle" =>
        /\ covered = {t \in Time : contains(intervals, t)}
        /\ covered # {} =>
              /\ {earliestTime(intervals), latestTime(intervals)} \subseteq covered
              /\ covered \subseteq earliestTime(intervals) .. latestTime(intervals)
=============================================================================
