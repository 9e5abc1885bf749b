---------------------- MODULE SharedMemoryLayerInterest ----------------------
(***************************************************************************)
(* Interest notification in the shared memory layer of the value space     *)
(* (src/src/publishsubscribe/sharedmemorylayer.cpp): the server counts the *)
(* subscribers of each process at each path, and tells the publishers that *)
(* watch a path at or above it whether somebody is interested.  A client   *)
(* tells the server of its subscribers and watches, and is told in turn,   *)
(* by packets on its connection.                                           *)
(*                                                                         *)
(* The requests of a packet are taken one by one here, which allows more   *)
(* than the server does; their order is kept.  A watch is in the tree at   *)
(* the path of its publisher; no two publishers have the same path, so     *)
(* that no node has two watches (FixedMemoryTree.tla has what the code     *)
(* does then).  An address is not used for a publisher again.              *)
(***************************************************************************)
EXTENDS Integers, Sequences, FiniteSets, SequencesExt

CONSTANTS
    Client,         \* the client processes
    Server,         \* the server process, with publishers and subscribers too
    Path,           \* the paths of interest, as sequences of names
    Publisher,      \* QValueSpacePublisher objects
    ProcessOf,      \* the process a publisher lives in
    PathOf,         \* and its path
    Subscribe,      \* who may be interested in what: pairs <<process, path>>
    Mortal,         \* the clients that may go away
    MaxInterest,    \* bound: subscribers of one process at one path
    MaxQueue        \* bound: packets of one client under way, either way

Process == Client \cup {Server}

ASSUME InterestAssumption ==
    /\ Server \notin Client
    /\ ProcessOf \in [Publisher -> Process]
    /\ PathOf \in [Publisher -> Path]
    /\ \A x, y \in Publisher : PathOf[x] = PathOf[y] => x = y
    /\ Subscribe \subseteq Process \X Path
    /\ Mortal \subseteq Client
    /\ MaxInterest \in Nat /\ MaxQueue \in Nat

VARIABLES
    subscribers,        \* how many subscribers a process has at a path
    pathsOfInterest,    \* server: what it has counted of that
    watches,            \* server: the publishers with a watch in the tree
    watchObjects,       \* the publishers that doClientNotify knows
    retired,            \* the publishers that have been destroyed
    connections,        \* the connected clients
    toServer,           \* the requests on their way from a client
    toClient,           \* the NOTIFY packets on their way to a client
    belief              \* what a publisher was last told of a path

ivars == <<subscribers, pathsOfInterest, watches, watchObjects, retired,
           connections, toServer, toClient, belief>>

InterestOp(p, yes) == [op |-> "NOTIFY", path |-> p, interested |-> yes]
WatchOp(op, w) == [op |-> op, watch |-> w]
Told(w, p, yes) == [watch |-> w, path |-> p, interested |-> yes]

Requests == {InterestOp(p, yes) : p \in Path, yes \in BOOLEAN}
            \cup {WatchOp(op, w) : op \in {"ADDWATCH", "REMWATCH"}, w \in Publisher}

InterestTypeOK ==
    /\ subscribers \in [Process -> [Path -> 0 .. MaxInterest]]
    /\ pathsOfInterest \in [Path -> [Process -> 0 .. MaxInterest]]
    /\ watches \subseteq Publisher
    /\ watchObjects \subseteq Publisher
    /\ connections \subseteq Client
    /\ \A c \in Client : toServer[c] \in Seq(Requests)
    /\ belief \in [Publisher -> [Path -> BOOLEAN]]

InterestInit ==
    /\ subscribers = [a \in Process |-> [p \in Path |-> 0]]
    /\ pathsOfInterest = [p \in Path |-> [a \in Process |-> 0]]
    /\ watches = {}
    /\ watchObjects = {}
    /\ retired = {}
    /\ connections = Client
    /\ toServer = [c \in Client |-> <<>>]
    /\ toClient = [c \in Client |-> <<>>]
    /\ belief = [w \in Publisher |-> [p \in Path |-> FALSE]]

-----------------------------------------------------------------------------
(* Server: who is told.                                                    *)

\* watchers(): the watches at the path and above it.
watchers(present, p) == {w \in present : IsPrefix(PathOf[w], p)}

\* Of the watches of one client only the first is told, the one nearest to the
\* path; those of the server's own publishers are told each.
FirstOfEach(found) ==
    {w \in found :
        ProcessOf[w] # Server =>
            \A x \in found : ProcessOf[x] = ProcessOf[w] =>
                                 Len(PathOf[x]) <= Len(PathOf[w])}

\* emitInterestChanged: a publisher hears of it, if it still exists.
Hears(what) ==
    belief' = [w \in Publisher |-> [p \in Path |->
                  IF w \in watchObjects' /\ \E n \in what : n.watch = w /\ n.path = p
                  THEN (CHOOSE n \in what : n.watch = w /\ n.path = p).interested
                  ELSE belief[w][p]]]

\* Publishers in the server hear of it at once, the others by a packet.
Announce(queues, news) ==
    /\ Hears({n \in news : ProcessOf[n.watch] = Server})
    /\ toClient' = [c \in Client |->
                       queues[c] \o SetToSeq({n \in news : ProcessOf[n.watch] = c})]

-----------------------------------------------------------------------------
(* Mutants: plausible slips in the server.                                 *)

\* Every subscriber that goes ends the interest of its process.
CountdownToZero(p, a, yes) ==
    pathsOfInterest' = [pathsOfInterest EXCEPT ![p][a] = IF yes THEN @ + 1 ELSE 0]

\* A new watch is not told of the interest there is.
doNotifyNobody(w) == {}

-----------------------------------------------------------------------------
(* Server: doNotify, doSetWatch, doRemWatch.                               *)

\* The counter of the process, kept while it is not zero.
Recount(p, a, yes) ==
    pathsOfInterest' = [pathsOfInterest EXCEPT ![p][a] = IF yes THEN @ + 1 ELSE @ - 1]

\* Mutant: the publishers are told only when a first subscriber comes.
doNotifyOfFirst(queues, p, a, yes) ==
    /\ Recount(p, a, yes)
    /\ Announce(queues, {Told(w, p, TRUE) :
                            w \in {x \in FirstOfEach(watchers(watches, p)) : yes}})
    /\ UNCHANGED watches

\* The publishers are told when the first subscriber of a process comes, and
\* when its last one goes.
doNotify(queues, p, a, yes) ==
    /\ Recount(p, a, yes)
    /\ Announce(queues,
                IF pathsOfInterest'[p][a] = (IF yes THEN 1 ELSE 0)
                THEN {Told(w, p, yes) : w \in FirstOfEach(watchers(watches, p))}
                ELSE {})
    /\ UNCHANGED watches

\* A new watch is told of all that is of interest at its path and below.
doNotifyObject(w) ==
    {Told(w, p, TRUE) : p \in {q \in Path : /\ IsPrefix(PathOf[w], q)
                                            /\ \E a \in Process : pathsOfInterest[q][a] > 0}}

doSetWatch(queues, w) ==
    /\ watches' = watches \cup {w}
    /\ Announce(queues, doNotifyObject(w))
    /\ UNCHANGED pathsOfInterest

doRemWatch(queues, w) ==
    /\ watches' = watches \ {w}
    /\ Announce(queues, {})
    /\ UNCHANGED pathsOfInterest

Serve(queues, a, r) ==
    /\ \A c \in Client : Len(queues[c]) < MaxQueue
    /\ \/ r.op = "NOTIFY" /\ doNotify(queues, r.path, a, r.interested)
       \/ r.op = "ADDWATCH" /\ doSetWatch(queues, r.watch)
       \/ r.op = "REMWATCH" /\ doRemWatch(queues, r.watch)

\* A call in the server process is served at once, one in a client is sent.
Call(a, r) ==
    IF a = Server
    THEN Serve(toClient, Server, r) /\ UNCHANGED toServer
    ELSE /\ a \in connections
         /\ Len(toServer[a]) < MaxQueue
         /\ toServer' = [toServer EXCEPT ![a] = Append(@, r)]
         /\ UNCHANGED <<pathsOfInterest, watches, toClient, belief>>

-----------------------------------------------------------------------------
(* Calls of subscribers and publishers.                                    *)

\* A QValueSpaceSubscriber is constructed.
subscribe(a, p) ==
    /\ <<a, p>> \in Subscribe
    /\ subscribers[a][p] < MaxInterest
    /\ subscribers' = [subscribers EXCEPT ![a][p] = @ + 1]
    /\ UNCHANGED <<watchObjects, retired, connections>>
    /\ Call(a, InterestOp(p, TRUE))

\* One is destroyed.
unsubscribe(a, p) ==
    /\ subscribers[a][p] > 0
    /\ subscribers' = [subscribers EXCEPT ![a][p] = @ - 1]
    /\ UNCHANGED <<watchObjects, retired, connections>>
    /\ Call(a, InterestOp(p, FALSE))

\* connectNotify: somebody connects to a publisher's signal.
addWatch(w) ==
    /\ w \notin watchObjects \cup retired
    /\ watchObjects' = watchObjects \cup {w}
    /\ UNCHANGED <<subscribers, retired, connections>>
    /\ Call(ProcessOf[w], WatchOp("ADDWATCH", w))

\* The publisher is destroyed.
removeWatches(w) ==
    /\ w \in watchObjects
    /\ watchObjects' = watchObjects \ {w}
    /\ retired' = retired \cup {w}
    /\ UNCHANGED <<subscribers, connections>>
    /\ Call(ProcessOf[w], WatchOp("REMWATCH", w))

-----------------------------------------------------------------------------
(* Packets.                                                                *)

ServerReadyRead(c) ==
    /\ toServer[c] # <<>>
    /\ toServer' = [toServer EXCEPT ![c] = Tail(@)]
    /\ UNCHANGED <<subscribers, watchObjects, retired, connections>>
    /\ Serve(toClient, c, Head(toServer[c]))

ClientReadyRead(c) ==
    /\ toClient[c] # <<>>
    /\ toClient' = [toClient EXCEPT ![c] = Tail(@)]
    /\ UNCHANGED watchObjects
    /\ Hears({Head(toClient[c])})
    /\ UNCHANGED <<subscribers, pathsOfInterest, watches, retired, connections, toServer>>

\* disconnected(): the client's watches go with the values it has published;
\* then its interest goes, and of the watches on a path that is of interest to
\* nobody any more those of the client that is gone are told.
disconnected(c) ==
    LET left == {w \in watches : ProcessOf[w] # c}
        ended == {p \in Path : /\ pathsOfInterest[p][c] > 0
                               /\ \A a \in Process \ {c} : pathsOfInterest[p][a] = 0}
        news == {Told(w, p, FALSE) : w \in left, p \in ended}
    IN  /\ c \in connections \cap Mortal
        /\ connections' = connections \ {c}
        /\ watches' = left
        /\ pathsOfInterest' = [p \in Path |-> [pathsOfInterest[p] EXCEPT ![c] = 0]]
        /\ toServer' = [toServer EXCEPT ![c] = <<>>]
        /\ subscribers' = [subscribers EXCEPT ![c] = [p \in Path |-> 0]]
        /\ watchObjects' = {w \in watchObjects : ProcessOf[w] # c}
        /\ retired' = retired \cup {w \in Publisher : ProcessOf[w] = c}
        /\ Announce([toClient EXCEPT ![c] = <<>>],
                    {n \in news : /\ IsPrefix(PathOf[n.watch], n.path)
                                  /\ ProcessOf[n.watch] = c})

-----------------------------------------------------------------------------
InterestNext ==
    \/ \E a \in Process, p \in Path : subscribe(a, p) \/ unsubscribe(a, p)
    \/ \E w \in Publisher : addWatch(w) \/ removeWatches(w)
    \/ \E c \in Client : ServerReadyRead(c) \/ ClientReadyRead(c) \/ disconnected(c)

InterestSpec == InterestInit /\ [][InterestNext]_ivars

-----------------------------------------------------------------------------
(* Properties.                                                             *)

Interested(p) == \E a \in Process : subscribers[a][p] > 0

Settled == \A c \in connections : toServer[c] = <<>> /\ toClient[c] = <<>>

\* "If interested is true at least one QValueSpaceSubscriber is interested": when
\* nothing is under way, a publisher that was last told so is right.
TrueMeansSomebody ==
    Settled => \A w \in watchObjects, p \in Path : belief[w][p] => Interested(p)

\* And it has been told, if there is a subscriber at its path or below, whoever
\* came first, and although it may have been told that another one has gone.
SomebodyIsKnown ==
    Settled => \A w \in watchObjects, p \in Path :
                   Interested(p) /\ IsPrefix(PathOf[w], p) => belief[w][p]

\* Both together: at rest a publisher knows just whether anybody is interested,
\* whatever notifications, registrations and disconnections have crossed.
InterestKnown == TrueMeansSomebody /\ SomebodyIsKnown

\* The server's counters and the requests under way add up to the subscribers
\* that exist: no subscriber is counted twice, or still counted when it is gone.
Pending(c, p, yes) ==
    Cardinality({k \in 1 .. Len(toServer[c]) : toServer[c][k] = InterestOp(p, yes)})

InterestCounted ==
    \A p \in Path :
        /\ pathsOfInterest[p][Server] = subscribers[Server][p]
        /\ \A c \in Client : pathsOfInterest[p][c] + Pending(c, p, TRUE)
                                 = subscribers[c][p] + Pending(c, p, FALSE)
==============================================================================
