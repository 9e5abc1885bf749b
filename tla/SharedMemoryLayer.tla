--------------------------- MODULE SharedMemoryLayer ---------------------------
(***************************************************************************)
(* The shared memory layer of the value space (class SharedMemoryLayer of  *)
(* src/src/publishsubscribe/sharedmemorylayer.cpp): one server process     *)
(* that owns the tree of FixedMemoryTree, and client processes that read   *)
(* it directly and change it by packets to the server.                     *)
(*                                                                         *)
(* Every section of the code between lockForRead or lockForWrite and       *)
(* unlock is one step: QSystemReadWriteLock.tla says why that is right.    *)
(* What the code does without the lock is a step of its own.               *)
(*                                                                         *)
(* A version is the number of the tree call that bumped the node last and  *)
(* a creation id the number of the call that created it: the code never    *)
(* compares either for anything but equality.                              *)
(*                                                                         *)
(* Here every path has one publisher, and only paths directly below the    *)
(* root are withdrawn, so that no intermediate node is unlinked by Climb   *)
(* (its entry would keep pointing to freed memory).  Watches and the       *)
(* NOTIFY packets they cause are left out; a NOTIFY request changes        *)
(* nothing here but takes its place among the packets.                     *)
(***************************************************************************)
EXTENDS FixedMemoryTree

CONSTANTS
    Client,         \* the client processes
    Server,         \* the server process: publishes and subscribes too
    Indexed,        \* the clients whose bitmap the server can attach
    Preemptible,    \* those that may be preempted between decNode and incNode
    Mortal,         \* those that may disconnect
    Publish,        \* who publishes which path: pairs <<process, path>>
    Withdraw,       \* who removes its values below which path
    Subscribe,      \* who may subscribe to which path
    Drop,           \* the subscriptions that may end again
    MaxCalls        \* bound: publisher calls and subscriptions in a behaviour

Process == Client \cup {Server}

OwnerOf(a) == [data1 |-> a, data2 |-> "publisher"]

ASSUME LayerAssumption ==
    /\ Server \notin Client
    /\ Indexed \subseteq Client
    /\ Preemptible \subseteq Client
    /\ Mortal \subseteq Client
    /\ Publish \subseteq Process \X Path
    /\ Withdraw \subseteq Process \X {p \in Path : Len(p) = 1}
    /\ Drop \subseteq Subscribe
    /\ Owner = {OwnerOf(a) : a \in Process}
    /\ \A x \in Publish, y \in Publish : x[2] = y[2] => x = y

VARIABLES
    version,        \* the version of each node, and its creation id
    creation,
    tick,           \* the number of tree calls so far
    changedNodes,   \* server: nodes bumped since the last reset
    work,           \* server: what its event loop is in the middle of
    timers,         \* server: posted QTimerEvents
    connections,    \* server: the connected clients
    index,          \* server: the clients whose bitmap is attached
    toServer,       \* the packets on their way from a client
    toClient,       \* the SYNC ids on their way to a client
    todo,           \* client: the requests collected for the next packet
    lastSentId,     \* client: the id of the last packet begun
    lastRecvId,     \* client: the id of the last packet acknowledged
    syncing,        \* client: the id doClientSync waits for, or 0
    handles,        \* the ReadHandles of each process
    forceChangeCount,
    toEmit,         \* the handles doClientEmit has still to refresh
    emitting,       \* doClientEmit is running
    half,           \* what a preempted refresh is part of, or "no"
    want,           \* history: what each client has published, by its calls
    calls           \* bound

space      == <<tree, version, creation, tick>>
serverVars == <<changedNodes, work, timers, connections, index>>
channels   == <<toServer, toClient>>
packets    == <<todo, lastSentId, lastRecvId, syncing>>
emission   == <<forceChangeCount, toEmit, emitting, half>>
history    == <<want, calls>>
lvars      == <<space, serverVars, channels, packets, handles, emission, history>>

NoWork == [kind |-> "idle", from |-> Server, id |-> 0, ops |-> <<>>,
           changed |-> FALSE]

Request(op, p, v) == [op |-> op, path |-> p, value |-> v]
Requests == [op : {"ADD", "REM", "NOTIFY", "SUBINDEX"}, path : Node,
             value : SUBSET Value]

\* What a subscriber to p can see: the values at and below p.
Content(p) == [q \in {r \in Path : p \in Prefixes(r)} |-> Default(tree, q)]

DataOf(c, p) == {d.value : d \in {e \in ToSet(tree.data[p]) : e.owner.data1 = c}}

\* Mutant: no bit is set for a handle that waits at an ancestor.
InterestOfWhole(c) == {handles[c][p].node :
                    p \in {q \in DOMAIN handles[c] : handles[c][q].whole}}

\* The nodes whose bits are set in the bitmap of a client (m_nodeInterest).
Interest(c) == {handles[c][p].node :
                    p \in {q \in DOMAIN handles[c] : handles[c][q].counted}}

LayerInit ==
    /\ TreeInit
    /\ version = [n \in Node |-> 0]
    /\ creation = [n \in Node |-> 0]
    /\ tick = 0
    /\ changedNodes = {}
    /\ work = NoWork
    /\ timers = 0
    /\ connections = Client
    /\ index = {}
    /\ toServer = [c \in Client |-> << [id |-> 0,
                        ops |-> <<Request("SUBINDEX", Root, {})>>] >>]
    /\ toClient = [c \in Client |-> <<>>]
    /\ todo = [c \in Client |-> <<>>]
    /\ lastSentId = [c \in Client |-> 0]
    /\ lastRecvId = [c \in Client |-> 0]
    /\ syncing = [c \in Client |-> 0]
    /\ handles = [a \in Process |-> <<>>]
    /\ forceChangeCount = [a \in Process |-> 0]
    /\ toEmit = [a \in Process |-> {}]
    /\ emitting = [a \in Process |-> FALSE]
    /\ half = [a \in Process |-> "no"]
    /\ want = [c \in Client |-> [p \in Path |-> {}]]
    /\ calls = 0

\* A process whose call of value() is in the middle of its refresh holds the
\* lock for reading.
NoReader == \A a \in Process : half[a] # "read"

\* The single thread of a process may call into the layer: between two events,
\* or in a slot called by doClientEmit.
MayCall(a) ==
    /\ half[a] = "no"
    /\ IF a = Server THEN work = NoWork
       ELSE a \in connections /\ (syncing[a] = 0 \/ emitting[a])
    /\ calls < MaxCalls

Called == calls' = calls + 1

\* The event loop of a process is free to take the next event.
Free(a) ==
    /\ ~emitting[a]
    /\ half[a] = "no"
    /\ IF a = Server THEN work = NoWork ELSE a \in connections

-----------------------------------------------------------------------------
(* Calls on the tree by the server.  Those of publishers take the lock     *)
(* for writing.                                                            *)

Store(t) ==
    LET now == IF t.bumped = {} THEN tick ELSE tick + 1
    IN  /\ tree' = [t EXCEPT !.bumped = {}, !.rv = FALSE]
        /\ version' = [n \in Node |-> IF n \in t.bumped THEN now ELSE version[n]]
        /\ creation' = [n \in Node |-> IF n \in t.live \ tree.live
                                       THEN now ELSE creation[n]]
        /\ tick' = now
        /\ changedNodes' = changedNodes \cup t.bumped

\* Mutant: a client's value is inserted as the server's own.
doSetItemAsServer(a, p, v) ==
    Inserted(tree, p, [owner |-> OwnerOf(Server), value |-> v])

doSetItem(a, p, v) ==
    Inserted(tree, p, [owner |-> OwnerOf(a), value |-> v])

doRemItems(a, p) == Removed(tree, p, OwnerOf(a))

-----------------------------------------------------------------------------
(* doClientEmit: every handle is refreshed, one after the other and        *)
(* without the lock, and handleChanged is emitted for those that changed.  *)

\* The call itself; the steps that follow are RefreshOne to EmitDone.
StartEmit(a) ==
    LET due == DOMAIN handles[a] # {} \/ forceChangeCount[a] > 0
    IN  /\ emitting' = [emitting EXCEPT ![a] = due]
        /\ toEmit' = [toEmit EXCEPT ![a] = DOMAIN handles[a]]
        /\ UNCHANGED <<forceChangeCount, half>>

Alive(h) == h.node \in tree.live /\ creation[h.node] = h.creation

\* findClosest, and what refreshHandle takes from the node it finds.
Closest(p) == CHOOSE n \in Prefixes(p) \cap tree.live :
                  \A m \in Prefixes(p) \cap tree.live : Len(m) <= Len(n)

Placed(h, p) ==
    LET n == Closest(p)
    IN  [h EXCEPT !.node = n, !.whole = (n = p), !.version = version[n],
                  !.creation = creation[n]]

refreshHandle(h, p) ==
    CASE ~Alive(h) -> Placed(h, p)
      [] Alive(h) /\ h.whole -> [h EXCEPT !.version = version[h.node]]
      [] Alive(h) /\ ~h.whole /\ h.version # version[h.node] -> Placed(h, p)
      [] OTHER -> h


\* Mutant: a handle that loses its node is moved up without a word.
HandleChangedIfWhole(old, new) == new.whole /\ new # old

\* Its result: "returns true if a handleChanged() signal is needed".
HandleChanged(old, new) == IF new.whole THEN new # old ELSE old.whole

\* refreshHandle clears one bit of the bitmap and sets another (or the same one
\* again, for a node that was removed and created anew).
Moves(h, n) == n.node # h.node \/ ~Alive(h)

\* handleChanged is emitted: the subscriber sees what its handle leads to, which
\* is nothing if it is left at an ancestor.  (A read that finds more refreshes
\* the handle, and is announced in its turn: ReadHandle.)
Tell(h, p) ==
    [h EXCEPT !.told = IF h.whole /\ Alive(h) THEN Content(p)
                       ELSE [q \in DOMAIN Content(p) |-> {}]]


\* One round of the first loop.  A client that moves its handle does so in two
\* steps, RefreshBegin and RefreshEnd, if it can be preempted between them.
RefreshOne(a, p) ==
    LET h == handles[a][p]
        n == refreshHandle(h, p)
        forced == IF h.force THEN 1 ELSE 0
    IN  /\ p \in toEmit[a]
        /\ half[a] = "no"
        /\ a \notin Preemptible \/ ~Moves(h, n)
        /\ toEmit' = [toEmit EXCEPT ![a] = @ \ {p}]
        /\ forceChangeCount' = [forceChangeCount EXCEPT ![a] = @ - forced]
        /\ handles' = [handles EXCEPT ![a][p] =
                          IF HandleChanged(h, n) \/ h.force
                          THEN Tell([n EXCEPT !.force = FALSE], p) ELSE n]
        /\ UNCHANGED <<emitting, half, space, serverVars, channels, packets, history>>

RefreshBegin(a, p) ==
    LET h == handles[a][p]
        n == refreshHandle(h, p)
    IN  /\ p \in toEmit[a]
        /\ half[a] = "no"
        /\ a \in Preemptible
        /\ Moves(h, n)
        /\ handles' = [handles EXCEPT ![a][p] = [n EXCEPT !.counted = FALSE]]
        /\ half' = [half EXCEPT ![a] = IF HandleChanged(h, n) \/ h.force
                                       THEN "changed" ELSE "same"]
        /\ UNCHANGED <<forceChangeCount, toEmit, emitting>>
        /\ UNCHANGED <<space, serverVars, channels, packets, history>>

RefreshEnd(a, p) ==
    LET h == handles[a][p]
        forced == IF h.force THEN 1 ELSE 0
    IN  /\ p \in toEmit[a]
        /\ ~h.counted
        /\ half[a] \in {"changed", "same"}
        /\ toEmit' = [toEmit EXCEPT ![a] = @ \ {p}]
        /\ forceChangeCount' = [forceChangeCount EXCEPT ![a] = @ - forced]
        /\ handles' = [handles EXCEPT ![a][p] =
              LET n == [h EXCEPT !.counted = TRUE, !.force = FALSE]
              IN  IF half[a] = "changed" THEN Tell(n, p) ELSE n]
        /\ half' = [half EXCEPT ![a] = "no"]
        /\ UNCHANGED <<emitting, space, serverVars, channels, packets, history>>

\* One round of the loops that follow, for a handle that a slot has read: they
\* go on until forceChangeCount is 0.
EmitForced(a, p) ==
    /\ emitting[a]
    /\ toEmit[a] = {}
    /\ half[a] = "no"
    /\ forceChangeCount[a] > 0
    /\ handles[a][p].force
    /\ handles' = [handles EXCEPT ![a][p] = Tell([@ EXCEPT !.force = FALSE], p)]
    /\ forceChangeCount' = [forceChangeCount EXCEPT ![a] = @ - 1]
    /\ UNCHANGED <<toEmit, emitting, half, space, serverVars, channels, packets, history>>

EmitDone(a) ==
    /\ emitting[a]
    /\ toEmit[a] = {}
    /\ half[a] = "no"
    /\ forceChangeCount[a] = 0
    /\ emitting' = [emitting EXCEPT ![a] = FALSE]
    /\ UNCHANGED <<forceChangeCount, toEmit, half>>
    /\ UNCHANGED <<space, serverVars, channels, packets, handles, history>>

-----------------------------------------------------------------------------
(* Subscribers.                                                            *)

\* Mutant: the packet keeps the id of the one before.
PostSameId(c, op) ==
    /\ todo' = [todo EXCEPT ![c] = Append(@, op)]
    /\ UNCHANGED <<lastSentId, lastRecvId, syncing>>

\* A client's request goes into the packet it collects, which gets its id with
\* the first request; the timer event that sends the packet is posted too.
Post(c, op) ==
    /\ todo' = [todo EXCEPT ![c] = Append(@, op)]
    /\ lastSentId' = [lastSentId EXCEPT ![c] = IF todo[c] = <<>> THEN @ + 1 ELSE @]
    /\ UNCHANGED <<lastRecvId, syncing>>

notifyInterest(a) ==
    IF a = Server THEN UNCHANGED packets
    ELSE Post(a, Request("NOTIFY", Root, {}))

\* A subscriber is constructed and reads what is there.
item(a, p) ==
    LET h == [node |-> Root, whole |-> FALSE, version |-> 0, creation |-> 0,
              force |-> FALSE, counted |-> TRUE, told |-> Content(p)]
    IN  /\ MayCall(a) /\ ~emitting[a]
        /\ p \notin DOMAIN handles[a]
        /\ handles' = [handles EXCEPT ![a] =
                          [q \in DOMAIN @ \cup {p} |-> IF q = p THEN Placed(h, p)
                                                                ELSE @[q]]]
        /\ notifyInterest(a)
        /\ Called
        /\ UNCHANGED <<want, space, serverVars, channels, emission>>

\* A subscriber is destroyed.  forceChangeCount keeps counting its handle.
removeHandle(a, p) ==
    /\ MayCall(a) /\ ~emitting[a]
    /\ p \in DOMAIN handles[a]
    /\ handles' = [handles EXCEPT ![a] =
                      [q \in DOMAIN @ \ {p} |-> @[q]]]
    /\ notifyInterest(a)
    /\ Called
    /\ UNCHANGED <<want, space, serverVars, channels, emission>>

\* value() and children(), with the lock held for reading: a handle that does
\* not point to its path, or to a node that is gone, is refreshed, and if that
\* changed it doClientEmit is to report it.
ReadHandle(a, p) ==
    LET h == handles[a][p]
        n == refreshHandle(h, p)
        hit == HandleChanged(h, n)
    IN  /\ p \in DOMAIN handles[a]
        /\ half[a] = "no"
        /\ a # Server => a \in connections
        /\ a # Server /\ syncing[a] # 0 => emitting[a]
        /\ ~(h.whole /\ Alive(h))
        /\ n # h
        /\ LET split == a \in Preemptible /\ Moves(h, n)
           IN  /\ handles' = [handles EXCEPT ![a][p] =
                      [n EXCEPT !.force = h.force \/ hit, !.counted = ~split]]
               /\ half' = [half EXCEPT ![a] = IF split THEN "read" ELSE "no"]
        /\ forceChangeCount' = [forceChangeCount EXCEPT ![a] =
                                   IF hit /\ ~h.force THEN @ + 1 ELSE @]
        /\ UNCHANGED <<toEmit, emitting, space, serverVars, channels, packets, history>>

ReadEnd(a, p) ==
    /\ half[a] = "read"
    /\ ~handles[a][p].counted
    /\ handles' = [handles EXCEPT ![a][p].counted = TRUE]
    /\ half' = [half EXCEPT ![a] = "no"]
    /\ UNCHANGED <<forceChangeCount, toEmit, emitting>>
    /\ UNCHANGED <<space, serverVars, channels, packets, history>>

-----------------------------------------------------------------------------
(* The client: publishing, the timer event, sync, and packets received.    *)

setItem(c, p, v) ==
    /\ <<c, p>> \in Publish
    /\ MayCall(c)
    /\ Post(c, Request("ADD", p, {v}))
    /\ want' = [want EXCEPT ![c][p] = {v}]
    /\ Called
    /\ UNCHANGED <<space, serverVars, channels, handles, emission>>

remItems(c, p) ==
    /\ <<c, p>> \in Withdraw
    /\ MayCall(c)
    /\ Post(c, Request("REM", p, {}))
    /\ want' = [want EXCEPT ![c] =
                   [q \in Path |-> IF p \in Prefixes(q) THEN {} ELSE @[q]]]
    /\ Called
    /\ UNCHANGED <<space, serverVars, channels, handles, emission>>

\* Mutant: the requests are cleared before they are sent.
TransmitNothing(c) ==
    /\ todo' = [todo EXCEPT ![c] = <<>>]
    /\ UNCHANGED toServer

Transmit(c) ==
    /\ toServer' = IF todo[c] = <<>> THEN toServer
                   ELSE [toServer EXCEPT ![c] =
                            Append(@, [id |-> lastSentId[c], ops |-> todo[c]])]
    /\ todo' = [todo EXCEPT ![c] = <<>>]

\* timerEvent: every request has posted one, so one is due while there are
\* requests; one that finds none does nothing.
doClientTransmit(c) ==
    /\ Free(c)
    /\ syncing[c] = 0
    /\ todo[c] # <<>>
    /\ Transmit(c)
    /\ UNCHANGED <<lastSentId, lastRecvId, syncing, toClient>>
    /\ UNCHANGED <<space, serverVars, handles, emission, history>>

\* doClientSync returns at once if all has been acknowledged.
doClientSync(c) ==
    /\ Free(c)
    /\ syncing[c] = 0
    /\ lastRecvId[c] < lastSentId[c]
    /\ Transmit(c)
    /\ syncing' = [syncing EXCEPT ![c] = lastSentId[c]]
    /\ UNCHANGED <<lastSentId, lastRecvId, toClient>>
    /\ UNCHANGED <<space, serverVars, handles, emission, history>>

SyncReturn(c) ==
    /\ Free(c)
    /\ syncing[c] # 0
    /\ lastRecvId[c] >= syncing[c]
    /\ syncing' = [syncing EXCEPT ![c] = 0]
    /\ UNCHANGED <<todo, lastSentId, lastRecvId>>
    /\ UNCHANGED <<space, serverVars, channels, handles, emission, history>>

\* readyRead of a client, also from within doClientSync.
ReceiveSync(c) ==
    /\ Free(c)
    /\ toClient[c] # <<>>
    /\ LET recvId == Head(toClient[c])
       IN  lastRecvId' = [lastRecvId EXCEPT ![c] = IF recvId # 0 THEN recvId ELSE @]
    /\ toClient' = [toClient EXCEPT ![c] = Tail(@)]
    /\ StartEmit(c)
    /\ UNCHANGED <<toServer, todo, lastSentId, syncing>>
    /\ UNCHANGED <<space, serverVars, handles, history>>

-----------------------------------------------------------------------------
(* The server: packets received, its own publishers, and clients that go.  *)

\* readyRead of the server takes a packet, and forgets what has changed.
TakePacket(c) ==
    /\ Free(Server)
    /\ c \in connections
    /\ toServer[c] # <<>>
    /\ LET pack == Head(toServer[c])
       IN  work' = [kind |-> "packet", from |-> c, id |-> pack.id,
                    ops |-> pack.ops, changed |-> FALSE]
    /\ toServer' = [toServer EXCEPT ![c] = Tail(@)]
    /\ changedNodes' = {}
    /\ UNCHANGED <<timers, connections, index, toClient>>
    /\ UNCHANGED <<space, packets, handles, emission, history>>

\* The next request of the packet.
HandleRequest ==
    LET c == work.from
        r == Head(work.ops)
        t == CASE r.op = "ADD" -> doSetItem(c, r.path, CHOOSE v \in r.value : TRUE)
               [] r.op = "REM" -> doRemItems(c, r.path)
               [] OTHER -> [tree EXCEPT !.bumped = {}, !.rv = FALSE]
    IN  /\ work.kind = "packet"
        /\ work.ops # <<>>
        /\ NoReader
        /\ Store(t)
        /\ work' = [work EXCEPT !.ops = Tail(@), !.changed = @ \/ t.rv]
        /\ index' = IF r.op = "SUBINDEX" THEN index \cup ({c} \cap Indexed) ELSE index
        /\ UNCHANGED <<timers, connections, channels, packets, handles, emission, history>>

\* Mutant: a client whose bitmap is not attached is never told.
ConcernedIfIndexed(c) == c \in index /\ Interest(c) \cap changedNodes # {}

\* doServerTransmit: SYNC(0) to the clients that are interested in a changed
\* node, and to those whose bitmap is not attached; then the server's own
\* subscribers.
Concerned(c) == c \notin index \/ Interest(c) \cap changedNodes # {}

Synced(clients, id) ==
    [c \in Client |-> IF c \in clients THEN Append(toClient[c], id) ELSE toClient[c]]

doServerTransmit(queues) ==
    /\ toClient' = [c \in Client |-> IF c \in connections /\ Concerned(c)
                                     THEN Append(queues[c], 0) ELSE queues[c]]
    /\ changedNodes' = {}
    /\ StartEmit(Server)

\* The end of the packet: it is acknowledged, and what has changed is announced.
FinishPacket ==
    /\ work.kind = "packet"
    /\ work.ops = <<>>
    /\ LET causal == Synced({work.from}, work.id)
       IN  IF work.changed THEN doServerTransmit(causal)
           ELSE toClient' = causal /\ UNCHANGED <<changedNodes, emission>>
    /\ work' = NoWork
    /\ UNCHANGED <<timers, connections, index, toServer>>
    /\ UNCHANGED <<space, packets, handles, history>>

\* setItem and remItems in the server process: the tree is changed at once, and
\* announced by the timer event.
ServerCall(t) ==
    /\ MayCall(Server)
    /\ NoReader
    /\ Store(t)
    /\ timers' = IF t.rv THEN timers + 1 ELSE timers
    /\ Called
    /\ UNCHANGED <<want, work, connections, index, channels, packets, handles, emission>>

ServerSetItem(p, v) ==
    <<Server, p>> \in Publish /\ ServerCall(doSetItem(Server, p, v))

ServerRemItems(p) ==
    <<Server, p>> \in Withdraw /\ ServerCall(doRemItems(Server, p))

ServerTimer ==
    /\ Free(Server)
    /\ timers > 0
    /\ timers' = timers - 1
    /\ doServerTransmit(toClient)
    /\ UNCHANGED <<work, connections, index, toServer>>
    /\ UNCHANGED <<space, packets, handles, history>>

\* Mutant: what is removed is what the server owns.
ClearedServer(c) == Removed(tree, Root, OwnerOf(Server))

\* disconnected(): the client is gone, and with it what it was about to send;
\* its values are removed from the whole tree, here without the lock.
Cleared(c) == Removed(tree, Root, [data1 |-> c, data2 |-> Everyone])

Disconnect(c) ==
    LET t == Cleared(c)
    IN  /\ Free(Server)
        /\ c \in connections \cap Mortal
        /\ connections' = connections \ {c}
        /\ index' = index \ {c}
        /\ toServer' = [toServer EXCEPT ![c] = <<>>]
        /\ toClient' = [toClient EXCEPT ![c] = <<>>]
        /\ todo' = [todo EXCEPT ![c] = <<>>]
        /\ syncing' = [syncing EXCEPT ![c] = 0]
        /\ handles' = [handles EXCEPT ![c] = <<>>]
        /\ emitting' = [emitting EXCEPT ![c] = FALSE]
        /\ toEmit' = [toEmit EXCEPT ![c] = {}]
        /\ half' = [half EXCEPT ![c] = "no"]
        /\ Store(t)
        /\ work' = [NoWork EXCEPT !.kind = "gone", !.from = c, !.changed = t.rv]
        /\ UNCHANGED <<timers, lastSentId, lastRecvId, forceChangeCount, history>>

\* Whoever is left is told, whatever its bitmap says.
FinishDisconnect ==
    /\ work.kind = "gone"
    /\ work' = NoWork
    /\ IF work.changed
       THEN toClient' = Synced(connections, 0) /\ StartEmit(Server)
       ELSE UNCHANGED <<toClient, emission>>
    /\ UNCHANGED <<changedNodes, timers, connections, index, toServer>>
    /\ UNCHANGED <<space, packets, handles, history>>

-----------------------------------------------------------------------------
Emit(a) ==
    \/ \E p \in DOMAIN handles[a] :
          \/ RefreshOne(a, p)
          \/ RefreshBegin(a, p)
          \/ RefreshEnd(a, p)
          \/ EmitForced(a, p)
    \/ EmitDone(a)

Subscriber(a) ==
    \/ \E p \in Path : \/ <<a, p>> \in Subscribe /\ item(a, p)
                       \/ <<a, p>> \in Drop /\ removeHandle(a, p)
                       \/ ReadHandle(a, p)

ClientStep(c) == doClientTransmit(c) \/ ReceiveSync(c) \/ SyncReturn(c)

Publisher(c) ==
    \/ doClientSync(c)
    \/ \E p \in Path : remItems(c, p) \/ \E v \in Value : setItem(c, p, v)

ServerStep ==
    \/ HandleRequest
    \/ FinishPacket
    \/ ServerTimer
    \/ FinishDisconnect
    \/ \E c \in Client : TakePacket(c)

ServerPublisher ==
    \E p \in Path : ServerRemItems(p) \/ \E v \in Value : ServerSetItem(p, v)

\* Every process runs its event loop, and what it has begun goes on: weak
\* fairness for a process as a whole, which may prefer one event to another.
ClientRuns(c) == Emit(c) \/ ClientStep(c) \/ \E p \in DOMAIN handles[c] : ReadEnd(c, p)
ServerRuns == Emit(Server) \/ ServerStep

LayerNext ==
    \/ \E a \in Process : Subscriber(a)
    \/ \E c \in Client : ClientRuns(c) \/ Publisher(c) \/ Disconnect(c)
    \/ ServerRuns
    \/ ServerPublisher

LayerFairness ==
    /\ \A c \in Client : WF_lvars(ClientRuns(c))
    /\ WF_lvars(ServerRuns)

LayerSpec == LayerInit /\ [][LayerNext]_lvars
LayerFairSpec == LayerSpec /\ LayerFairness

-----------------------------------------------------------------------------
(* Properties.                                                             *)

Handle == [node : Node, whole : BOOLEAN, version : Nat, creation : Nat,
           force : BOOLEAN, counted : BOOLEAN]

LayerTypeOK ==
    /\ TreeTypeOK
    /\ tick \in Nat /\ timers \in Nat
    /\ version \in [Node -> 0 .. tick] /\ creation \in [Node -> 0 .. tick]
    /\ changedNodes \subseteq Node
    /\ work.from \in Process /\ work.ops \in Seq(Requests)
    /\ connections \subseteq Client /\ index \subseteq connections \cap Indexed
    /\ \A c \in Client :
          /\ \A i \in DOMAIN toServer[c] : toServer[c][i].ops \in Seq(Requests)
          /\ toClient[c] \in Seq(0 .. lastSentId[c])
          /\ todo[c] \in Seq(Requests)
          /\ lastRecvId[c] \in 0 .. lastSentId[c]
          /\ syncing[c] \in 0 .. lastSentId[c]
    /\ \A a \in Process :
          /\ DOMAIN handles[a] \subseteq Path
          /\ \A p \in DOMAIN handles[a] : handles[a][p].node \in Prefixes(p)
          /\ toEmit[a] \subseteq DOMAIN handles[a]
          /\ half[a] \in {"no", "read", "changed", "same"}

\* Nothing is under way that could still tell anybody anything.
Quiet ==
    /\ work = NoWork
    /\ timers = 0
    /\ \A c \in connections : /\ toServer[c] = <<>>
                              /\ toClient[c] = <<>>
                              /\ todo[c] = <<>>
    /\ \A a \in Process : ~emitting[a] /\ half[a] = "no"

\* "Emitted whenever any value under the current path changes": when everything
\* has come to rest, each subscriber has been notified since the last change at
\* or below its path, through all races of refreshes, packets and bitmaps.
QuietMeansTold ==
    Quiet => \A a \in connections \cup {Server} :
                 \A p \in DOMAIN handles[a] : handles[a][p].told = Content(p)

\* sync(): once a client's last packet is acknowledged (which is when
\* doClientSync returns), the tree that all processes read holds what the client
\* has published and nothing it has withdrawn.
AckedIsApplied ==
    \A c \in connections :
        lastRecvId[c] = lastSentId[c] =>
            \A p \in Path : DataOf(c, p) = want[c][p]

\* The values of a client that has disconnected are gone, and no packet of it
\* that comes late brings them back.
GoneOwnsNothing ==
    \A c \in Client \ connections, p \in Path : DataOf(c, p) = {}

\* A client that is blocked in sync() comes out of it.
SyncReturns == \A c \in Client : syncing[c] # 0 ~> syncing[c] = 0

\* "Emitted whenever any value under the current path changes", and not only
\* if everything comes to rest: a subscriber whose last notification is out of
\* date gets another one, or is destroyed.
UpToDate(a, p) ==
    a \in connections \cup {Server} /\ p \in DOMAIN handles[a] =>
        handles[a][p].told = Content(p)

ToldEventually ==
    \A s \in Subscribe : ~UpToDate(s[1], s[2]) ~> UpToDate(s[1], s[2])
================================================================================
