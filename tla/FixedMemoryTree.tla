--------------------------- MODULE FixedMemoryTree ---------------------------
(***************************************************************************)
(* The tree of the value space in shared memory (class FixedMemoryTree of  *)
(* src/src/publishsubscribe/sharedmemorylayer.cpp): insertion and removal  *)
(* of values and watches, with the version bumps that tell the subscribers *)
(* what changed.                                                           *)
(*                                                                         *)
(* A node is named by its path.  Its slot in the version table is only     *)
(* counted: the table has MaxEntries slots besides the one of the root.    *)
(* The operators work on a tree record and return the record after the     *)
(* call, so that SharedMemoryLayer can use them too:                       *)
(*   live     the nodes linked into the tree                               *)
(*   data     the data list of a node, its default datum first             *)
(*   watches  the watch list of a node                                     *)
(*   room     the nodes whose block has room for a datum                   *)
(*   free     the length of the free list of version table entries         *)
(*   bumped   the nodes whose version the last call has incremented        *)
(*   rv       what the last call returned                                  *)
(*                                                                         *)
(* Values are never empty and all of one size.  A node that carries values *)
(* and watches at once lays them out by byte offsets that the code does    *)
(* not always keep; here no path has both (the guards of insert and        *)
(* addWatch).                                                              *)
(***************************************************************************)
EXTENDS Naturals, Sequences, FiniteSets, SequencesExt

CONSTANTS
    Path,           \* the paths in use: non-empty sequences of names
    Owner,          \* the NodeOwners: [data1 |-> connection, data2 |-> publisher]
    WatchPath,      \* the paths at which watches are set
    Watcher,        \* the NodeWatches: connections and publishers too
    Value,
    MaxEntries,     \* VERSION_TABLE_ENTRIES - 1
    MaxWatch        \* bound: watches on one node

Root == <<>>
Node == Path \cup {Root}
Ancestors(p) == Prefixes(p) \ {p}

ASSUME TreeAssumption ==
    /\ Root \notin Path
    /\ \A p \in Path : p \in Seq(ToSet(p))
    /\ \A p \in Path : Prefixes(p) \subseteq Node
    /\ WatchPath \subseteq Node
    /\ MaxEntries \in Nat

\* The data2 that stands for every publisher of a connection.
Everyone == "0xFFFFFFFF"

Conn == {o.data1 : o \in Owner \cup Watcher}
Datum == [owner : Owner, value : Value]

VARIABLE tree

EmptyTree ==
    [live    |-> {Root},
     data    |-> [p \in Node |-> <<>>],
     watches |-> [p \in Node |-> <<>>],
     room    |-> {},
     free    |-> MaxEntries,
     bumped  |-> {},
     rv      |-> FALSE]

Subtree(t, p) == {q \in t.live : p \in Prefixes(q)}

\* The datum that data() returns and subscribers read.
Default(t, p) == IF t.data[p] = <<>> THEN {} ELSE {t.data[p][1].value}

Bare(t, p) == t.data[p] = <<>> /\ t.watches[p] = <<>>

-----------------------------------------------------------------------------
(* Mutants: plausible slips in the operations below.                       *)

\* A removal that compares only the publisher, or only the connection.
SameOwnerAnywhere(o, who) == who.data2 = Everyone \/ o.data2 = who.data2

SameOwnerStrict(o, who) == o.data1 = who.data1 /\ o.data2 = who.data2

\* A removal that unlinks ancestors without a look at their other children.
ClimbRegardless(t, p) ==
    LET bare == {a \in Ancestors(p) \ {Root} : Bare(t, a)}
    IN  [t EXCEPT !.live   = @ \ bare,
                  !.room   = @ \ bare,
                  !.bumped = @ \cup Ancestors(p)]

\* A removal that stops bumping at the parent.
ClimbUnseen(t, p) == [t EXCEPT !.bumped = @ \cup {Front(p)}]

-----------------------------------------------------------------------------
(* Creation of the missing nodes of a path, top down, until the free list  *)
(* is exhausted (newNode returns ROOT_VERSION_ENTRY).  A new node bumps    *)
(* itself and every node above it.                                         *)

Grow(t, p) ==
    LET missing == Prefixes(p) \ t.live
        given   == IF Cardinality(missing) <= t.free
                   THEN Cardinality(missing) ELSE t.free
        created == {q \in missing :
                        Len(q) <= Len(p) - Cardinality(missing) + given}
    IN  [t EXCEPT !.live   = @ \cup created,
                  !.free   = @ - given,
                  !.bumped = IF created = {} THEN {}
                             ELSE Prefixes(p) \cap (t.live \cup created),
                  !.rv     = created # {}]

-----------------------------------------------------------------------------
(* insert                                                                  *)

\* setData on a node with no datum, or with a single one of the same owner.  A
\* block without room is replaced by a larger one, but dataCount is then set in
\* the old block: the new one keeps the dataCount it was copied with.
SetOnly(t, p, d) ==
    [t EXCEPT !.data[p] = IF p \in t.room \/ @ # <<>> THEN <<d>> ELSE <<>>,
              !.room    = @ \cup {p},
              !.bumped  = {p},
              !.rv      = TRUE]

\* setData on a node that has data of another owner: only a change of the
\* first datum is reported, and no version is incremented here.
SetInList(t, p, d) ==
    LET mine == {i \in DOMAIN t.data[p] : t.data[p][i].owner = d.owner}
    IN  [t EXCEPT !.data[p] = IF mine = {} THEN Append(@, d)
                              ELSE [i \in DOMAIN @ |->
                                       IF i \in mine THEN d ELSE @[i]],
                  !.bumped  = {},
                  !.rv      = 1 \in mine]

setData(t, p, d) ==
    IF t.data[p] = <<>> \/ (Len(t.data[p]) = 1 /\ t.data[p][1].owner = d.owner)
    THEN SetOnly(t, p, d)
    ELSE SetInList(t, p, d)

Inserted(t, p, d) ==
    IF p \in t.live
    THEN LET s == setData(t, p, d)
         IN  IF s.rv THEN [s EXCEPT !.bumped = @ \cup Ancestors(p)] ELSE s
    ELSE LET s == Grow(t, p)
         IN  IF p \in s.live
             THEN [s EXCEPT !.data[p] = <<d>>, !.room = @ \cup {p}]
             ELSE s

-----------------------------------------------------------------------------
(* remove                                                                  *)

SameOwner(o, who) ==
    o.data1 = who.data1 /\ (who.data2 = Everyone \/ o.data2 = who.data2)

\* The items of a list at the places that are not marked as removed, moved
\* together in their order.
Kept(list, places) ==
    LET rank(i) == Cardinality({k \in places : k <= i})
    IN  [j \in 1 .. Cardinality(places) |->
            list[CHOOSE i \in places : rank(i) = j]]

\* What is left of a node's data.  For a single datum the code tests
\* "owner.data2 = 0xFFFFFFFF && ...": an assignment, so that the publisher does
\* not matter.
DataLeft(data, who) ==
    Kept(data, {i \in DOMAIN data :
                   IF Len(data) = 1 THEN data[i].owner.data1 # who.data1
                                    ELSE ~SameOwner(data[i].owner, who)})

WatchesLeft(watches, who) ==
    Kept(watches, {i \in DOMAIN watches : ~SameOwner(watches[i], who)})

\* removeRecur(node, owner): strips the whole subtree and unlinks the nodes
\* that have become bare; their entries go back to the free list.  A node that
\* loses data but stays is not reported.
RemoveSubtree(t, p, who) ==
    LET sub     == Subtree(t, p)
        data    == [q \in Node |-> IF q \in sub THEN DataLeft(t.data[q], who)
                                                ELSE t.data[q]]
        watches == [q \in Node |-> IF q \in sub
                                   THEN WatchesLeft(t.watches[q], who)
                                   ELSE t.watches[q]]
        gone    == {q \in sub \ {Root} :
                        \A r \in Subtree(t, q) :
                            data[r] = <<>> /\ watches[r] = <<>>}
        inlined == {q \in sub : Len(t.data[q]) > 1 /\ Len(data[q]) = 1}
    IN  [live    |-> t.live \ gone,
         data    |-> data,
         watches |-> watches,
         room    |-> t.room \ gone,
         free    |-> t.free + Cardinality(gone),
         bumped  |-> inlined \cup
                     {q \in sub : \E g \in gone : q \in Prefixes(g)},
         rv      |-> gone # {}]

\* The ancestors of a path from which a node was unlinked: all are bumped, and
\* those that have become invalid are unlinked in turn.  Their entries do not
\* go back to the free list.
Climb(t, p) ==
    LET bare == {a \in Ancestors(p) \ {Root} :
                    \A r \in Subtree(t, a) : r \in Ancestors(p) /\ Bare(t, r)}
    IN  [t EXCEPT !.live   = @ \ bare,
                  !.room   = @ \ bare,
                  !.bumped = @ \cup Ancestors(p)]

Removed(t, p, who) ==
    IF p \notin t.live
    THEN [t EXCEPT !.bumped = {}, !.rv = FALSE]
    ELSE LET s == RemoveSubtree(t, p, who)
         IN  IF s.rv THEN Climb(s, p) ELSE s

-----------------------------------------------------------------------------
(* addWatch and remWatch                                                   *)

Watched(t, p, w) ==
    LET s == IF p \in t.live
             THEN [t EXCEPT !.bumped = Ancestors(p), !.rv = TRUE]
             ELSE Grow(t, p)
    IN  IF p \in s.live THEN [s EXCEPT !.watches[p] = Append(@, w)] ELSE s

\* remWatch(node, owner).  Of two watches the first one always stays
\* ("(ii = 0)?1:0" is an assignment).  Of more than two the list is shifted,
\* but watchCount is not decremented, so that the last watch is counted twice.
WatchListWithout(list, w) ==
    LET at == {i \in DOMAIN list : list[i] = w}
        ii == CHOOSE i \in at : \A j \in at : i <= j
    IN  CASE at = {}        -> list
          [] Len(list) = 1  -> <<>>
          [] Len(list) = 2  -> <<list[1]>>
          [] OTHER          -> [i \in DOMAIN list |->
                                  IF i >= ii /\ i < Len(list)
                                  THEN list[i + 1] ELSE list[i]]

\* The unlinked leaf keeps its version table entry, and so do its ancestors.
Unwatched(t, p, w) ==
    IF p \notin t.live \/ w \notin ToSet(t.watches[p])
    THEN [t EXCEPT !.bumped = {}, !.rv = FALSE]
    ELSE LET s == [t EXCEPT !.watches[p] = WatchListWithout(@, w),
                            !.bumped = {}, !.rv = TRUE]
         IN  CASE p = Root -> s
               [] p # Root /\ Bare(s, p) /\ Subtree(s, p) = {p} ->
                    Climb([s EXCEPT !.live = @ \ {p}, !.room = @ \ {p}], p)
               [] OTHER ->
                    [s EXCEPT !.bumped = {Front(p)}, !.rv = FALSE]

-----------------------------------------------------------------------------
(* The tree as a state machine: the calls the server makes on it.          *)

insert(p, o, v) ==
    /\ tree.watches[p] = <<>>
    /\ tree' = Inserted(tree, p, [owner |-> o, value |-> v])

remove(p, o) == tree' = Removed(tree, p, o)

addWatch(p, w) ==
    /\ tree.data[p] = <<>>
    /\ Len(tree.watches[p]) < MaxWatch
    /\ tree' = Watched(tree, p, w)

remWatch(p, w) == tree' = Unwatched(tree, p, w)

\* disconnected(): remove("/", {protocol, 0xFFFFFFFF}).
removeAll(c) ==
    tree' = Removed(tree, Root, [data1 |-> c, data2 |-> Everyone])

By(c) ==
    \/ \E o \in Owner, p \in Path :
          /\ o.data1 = c
          /\ remove(p, o) \/ \E v \in Value : insert(p, o, v)
    \/ \E w \in Watcher, p \in WatchPath :
          /\ w.data1 = c
          /\ addWatch(p, w) \/ remWatch(p, w)
    \/ removeAll(c)

TreeInit == tree = EmptyTree
TreeNext == \E c \in Conn : By(c)
TreeSpec == TreeInit /\ [][TreeNext]_tree

-----------------------------------------------------------------------------
(* Properties.                                                             *)

TreeTypeOK ==
    /\ tree.live \subseteq Node
    /\ \A p \in Node : tree.data[p] \in Seq(Datum)
                    /\ tree.watches[p] \in Seq(Watcher)
    /\ tree.room \subseteq Node
    /\ tree.free \in 0 .. MaxEntries
    /\ tree.bumped \subseteq Node
    /\ tree.rv \in BOOLEAN

\* Whatever is inserted and removed in whatever order, every node that holds a
\* value, a watch or another node is linked to the root, and the linked nodes
\* never take more entries than the version table has left.
LinkedToRoot ==
    /\ \A p \in Node : p \in tree.live => Prefixes(p) \subseteq tree.live
    /\ \A p \in Node : ~Bare(tree, p) => p \in tree.live
    /\ Cardinality(tree.live) - 1 + tree.free <= MaxEntries

\* A subscriber that polls the version of a node misses no node that appears
\* or disappears anywhere below it.
ChildrenVersioned ==
    [][\A p \in tree.live \cap tree'.live :
          Subtree(tree, p) # Subtree(tree', p) => p \in tree'.bumped]_tree

ValuesNotOf(t, c) ==
    [p \in Node |-> Kept(t.data[p], {i \in DOMAIN t.data[p] :
                                        t.data[p][i].owner.data1 # c})]

\* No call made for one connection changes, hides or reorders the values that
\* another connection has published.
ForeignValuesKept ==
    [][\A c \in Conn :
          ValuesNotOf(tree', c) # ValuesNotOf(tree, c) => ~By(c)]_tree

\* After a client has disconnected nothing in the tree refers to its
\* connection: no value, and no watch through which the server would later
\* write to the deleted protocol object.
DisconnectForgets ==
    [][\A c \in Conn : removeAll(c) =>
          \A p \in Node :
             /\ \A d \in ToSet(tree'.data[p]) : d.owner.data1 # c
             /\ \A w \in ToSet(tree'.watches[p]) : w.data1 # c]_tree

\* "Returns true if the tree has visibly changed": a value inserted into a node
\* without data, with result true, is there to be read.
InsertIsVisible ==
    [][\A p \in Path, o \in Owner, v \in Value :
          insert(p, o, v) /\ tree.data[p] = <<>> /\ tree'.rv
             /\ tree.free >= Len(p)
             => Default(tree', p) = {v}]_tree

\* "Returns true if the version number of node has increased to handle this
\* set": when insert reports a set that changes what is read at an existing
\* node, the version of that node has moved too.
ReportedSetBumpsNode ==
    [][\A p \in Path, o \in Owner, v \in Value :
          /\ insert(p, o, v)
          /\ p \in tree.live
          /\ tree'.rv
          /\ Default(tree, p) # {} /\ Default(tree', p) = {v}
          /\ Default(tree, p) # {v}
             => p \in tree'.bumped]_tree
==============================================================================
