--------------------------- MODULE InstanceManager ---------------------------
(***************************************************************************)
(* Remote services (src/src/serviceframework/ipc): the server processes    *)
(* that a client starts on demand, the local socket they listen on, the    *)
(* service objects they create for their clients, and their end when the   *)
(* last object is closed.  The model follows proxyForService on the side   *)
(* of a client, processIncoming, objectRequest and disconnected of the     *)
(* end points on the side of a server, and InstanceManager between them.   *)
(*                                                                         *)
(* A client stands for one connection, from loadInterface to the release   *)
(* of the proxy; it may be used again.  The calls made through a proxy are *)
(* the subject of ObjectEndPoint.                                          *)
(***************************************************************************)
EXTENDS Integers, FiniteSets

CONSTANTS
    Client,         \* connections of client processes
    Server,         \* processes that serve: each is started once
    None,           \* no process
    Entry,          \* the registered services
    GlobalEntry,    \* those registered as GlobalInstance
    Mortal,         \* the servers that may crash
    MaxInstances    \* bound: service objects that are created

ASSUME InstanceAssumption ==
    /\ IsFiniteSet(Client)
    /\ None \notin Server
    /\ GlobalEntry \subseteq Entry
    /\ Mortal \subseteq Server
    /\ MaxInstances \in Nat

VARIABLES
    process,    \* the state of each server process
    listener,   \* whose socket the file of the service's name is
    metaMap,    \* InstanceManager of each server: descriptor of each entry
    created,    \* how many identifiers createUuid has given out
    client,     \* the state of each connection at the client
    link,       \* whom it is connected to, and what it asked for
    package,    \* the package that is under way on it
    endPoint    \* serviceInstanceId of its end point in the server, or 0

serverVars == <<process, listener>>
vars == <<process, listener, metaMap, created, client, link, package, endPoint>>

\* "binding" is between removeServer and listen; a process that could not
\* listen is "up" as well, but no client will find it.
ProcessState == {"absent", "starting", "binding", "up", "gone"}

\* "polling" has started a server and tries to connect, "waiting" is in
\* constructProxy, "proxy" has its proxy, "abandoned" got none and keeps the
\* connection, "closed" has closed it, "lost" was left by the server.
ClientState == {"idle", "polling", "waiting", "proxy", "abandoned", "closed",
                "lost"}
Connected == {"waiting", "proxy", "abandoned", "closed"}

Unused == [globalInstance |-> 0, globalRefCount |-> 0,
           individualInstances |-> {}]

Listening == listener # None /\ process[listener] = "up"

\* The end points of server s that refer to an instance of entry e.
Users(s, e) ==
    {c \in Client : link[c].server = s /\ link[c].entry = e /\ endPoint[c] # 0}

\* totalInstances of a descriptor map.
totalInstances(map) ==
    {e \in Entry : map[e].globalRefCount > 0 \/ map[e].individualInstances # {}}

IMTypeOK ==
    /\ process \in [Server -> ProcessState]
    /\ listener \in Server \cup {None}
    /\ metaMap \in [Server -> [Entry -> [globalInstance : Nat,
                                         globalRefCount : Nat,
                                         individualInstances : SUBSET Nat]]]
    /\ created \in Nat
    /\ client \in [Client -> ClientState]
    /\ link \in [Client -> [server : Server \cup {None}, entry : Entry]]
    /\ package \in [Client -> {"none", "request", "success", "failed"}]
    /\ endPoint \in [Client -> Nat]

Init ==
    /\ process = [s \in Server |-> "absent"]
    /\ listener = None
    /\ metaMap = [s \in Server |-> [e \in Entry |-> Unused]]
    /\ created = 0
    /\ client = [c \in Client |-> "idle"]
    /\ link \in [Client -> [server : {None}, entry : Entry]]
    /\ package = [c \in Client |-> "none"]
    /\ endPoint = [c \in Client |-> 0]

-----------------------------------------------------------------------------
(* Mutants: plausible slips in the code below.                             *)

\* A shared instance that is handed out without being counted.
ShareUncounted(d, id) ==
    IF d.globalInstance # 0 THEN d
    ELSE [d EXCEPT !.globalInstance = id, !.globalRefCount = 1]

\* The first of several users takes the shared instance with it.
ReleaseAll(d) == [d EXCEPT !.globalInstance = 0, !.globalRefCount = 0]

\* A client that takes every answer for a proxy.
ProxyForAny(c) ==
    /\ client[c] = "waiting"
    /\ package[c] \in {"success", "failed"}
    /\ client' = [client EXCEPT ![c] = "proxy"]
    /\ package' = [package EXCEPT ![c] = "none"]
    /\ UNCHANGED <<process, listener, metaMap, created, link, endPoint>>

-----------------------------------------------------------------------------
(* The descriptors of InstanceManager, as functions of a descriptor.       *)

\* createObjectInstance for a GlobalInstance and for a PrivateInstance: id
\* is the identifier a new object would get.
ShareGlobal(d, id) ==
    IF d.globalInstance # 0
    THEN [d EXCEPT !.globalRefCount = @ + 1]
    ELSE [d EXCEPT !.globalInstance = id, !.globalRefCount = 1]

AddIndividual(d, id) == [d EXCEPT !.individualInstances = @ \cup {id}]

createObjectInstance(d, e, id) ==
    IF e \in GlobalEntry THEN ShareGlobal(d, id) ELSE AddIndividual(d, id)

\* The identifier the caller gets.
instanceIdOf(d, e, id) ==
    IF e \in GlobalEntry /\ d.globalInstance # 0 THEN d.globalInstance ELSE id

\* removeObjectInstance.
ReleaseGlobal(d) ==
    CASE d.globalRefCount < 1 -> d
      [] d.globalRefCount = 1 ->
            [d EXCEPT !.globalInstance = 0, !.globalRefCount = 0]
      [] OTHER -> [d EXCEPT !.globalRefCount = @ - 1]

TakeIndividual(d, id) == [d EXCEPT !.individualInstances = @ \ {id}]

removeObjectInstance(d, e, id) ==
    IF e \in GlobalEntry THEN ReleaseGlobal(d) ELSE TakeIndividual(d, id)

-----------------------------------------------------------------------------
(* The client: proxyForService and constructProxy.                         *)

\* connectToServer succeeds, and constructProxy writes its request.
ConnectTo(c, e) ==
    /\ Listening
    /\ client' = [client EXCEPT ![c] = "waiting"]
    /\ link' = [link EXCEPT ![c] = [server |-> listener, entry |-> e]]
    /\ package' = [package EXCEPT ![c] = "request"]
    /\ UNCHANGED <<serverVars, metaMap, created, endPoint>>

Connect(c, e) == client[c] = "idle" /\ ConnectTo(c, e)

\* Nobody listens: start the service as a detached process.
StartServer(c, e, s) ==
    /\ client[c] = "idle"
    /\ ~Listening
    /\ process[s] = "absent"
    /\ process' = [process EXCEPT ![s] = "starting"]
    /\ client' = [client EXCEPT ![c] = "polling"]
    /\ link' = [link EXCEPT ![c].entry = e]
    /\ UNCHANGED <<listener, metaMap, created, package, endPoint>>

\* One of the thousand attempts succeeds, or all have failed.
PollConnects(c) == client[c] = "polling" /\ ConnectTo(c, link[c].entry)

PollGivesUp(c) ==
    /\ client[c] = "polling"
    /\ client' = [client EXCEPT ![c] = "idle"]
    /\ UNCHANGED <<serverVars, metaMap, created, link, package, endPoint>>

\* The answer to the request ends waitForResponse.  Without a proxy the end
\* point and its socket have no owner: the connection stays.
ProxyReady(c) ==
    /\ client[c] = "waiting"
    /\ package[c] \in {"success", "failed"}
    /\ client' = [client EXCEPT ![c] = IF package[c] = "success" THEN "proxy"
                                       ELSE "abandoned"]
    /\ package' = [package EXCEPT ![c] = "none"]
    /\ UNCHANGED <<serverVars, metaMap, created, link, endPoint>>

\* Thirty seconds have passed.
RequestTimesOut(c) ==
    /\ client[c] = "waiting"
    /\ client' = [client EXCEPT ![c] = "abandoned"]
    /\ UNCHANGED <<serverVars, metaMap, created, link, package, endPoint>>

\* An answer after that makes a proxy nobody knows of.
LateAnswer(c) ==
    /\ client[c] = "abandoned"
    /\ package[c] \in {"success", "failed"}
    /\ package' = [package EXCEPT ![c] = "none"]
    /\ UNCHANGED <<serverVars, metaMap, created, client, link, endPoint>>

\* The proxy is deleted, or the client process ends.
Close(c) ==
    /\ client[c] \in {"waiting", "proxy", "abandoned"}
    /\ client' = [client EXCEPT ![c] = "closed"]
    /\ UNCHANGED <<serverVars, metaMap, created, link, package, endPoint>>

\* The owner of a lost proxy gives it up and may ask again.
GiveUpProxy(c) ==
    /\ client[c] = "lost"
    /\ client' = [client EXCEPT ![c] = "idle"]
    /\ UNCHANGED <<serverVars, metaMap, created, link, package, endPoint>>

-----------------------------------------------------------------------------
(* The server.                                                             *)

\* createServiceEndPoint: removeServer, whoever listens there, ...
RemoveServer(s) ==
    /\ process[s] = "starting"
    /\ process' = [process EXCEPT ![s] = "binding"]
    /\ listener' = None
    /\ UNCHANGED <<metaMap, created, client, link, package, endPoint>>

\* ... and listen, which fails when another process was faster.
Listen(s) ==
    /\ process[s] = "binding"
    /\ process' = [process EXCEPT ![s] = "up"]
    /\ listener' = IF listener = None THEN s ELSE listener
    /\ UNCHANGED <<metaMap, created, client, link, package, endPoint>>

\* objectRequest creates the instance and answers.
ServeRequest(c) ==
    LET s == link[c].server
        e == link[c].entry
        d == metaMap[s][e]
    IN  /\ client[c] \in Connected
        /\ package[c] = "request"
        /\ instanceIdOf(d, e, created + 1) <= MaxInstances
        /\ metaMap' = [metaMap EXCEPT
                        ![s][e] = createObjectInstance(d, e, created + 1)]
        /\ endPoint' = [endPoint EXCEPT
                        ![c] = instanceIdOf(d, e, created + 1)]
        /\ created' = IF instanceIdOf(d, e, created + 1) = created + 1
                      THEN created + 1 ELSE created
        /\ package' = [package EXCEPT ![c] = "success"]
        /\ UNCHANGED <<serverVars, client, link>>

\* The constructor of the service object returns no object.
RefuseRequest(c) ==
    LET e == link[c].entry
    IN  /\ client[c] \in Connected
        /\ package[c] = "request"
        /\ e \in GlobalEntry => metaMap[link[c].server][e].globalInstance = 0
        /\ package' = [package EXCEPT ![c] = "failed"]
        /\ UNCHANGED <<serverVars, metaMap, created, client, link, endPoint>>

\* What becomes of the connections of a server that ends.
LeaveClients(s) ==
    LET left == {c \in Client : client[c] \in Connected /\ link[c].server = s}
    IN  /\ client' = [c \in Client |->
                        IF c \notin left THEN client[c]
                        ELSE IF client[c] = "closed" THEN "idle" ELSE "lost"]
        /\ package' = [c \in Client |-> IF c \in left THEN "none" ELSE package[c]]
        /\ endPoint' = [c \in Client |-> IF c \in left THEN 0 ELSE endPoint[c]]
        /\ link' = [c \in Client |->
                        IF c \in left THEN [link[c] EXCEPT !.server = None]
                        ELSE link[c]]

\* The descriptors of server s after the end point of c is gone.
Without(c) ==
    LET s == link[c].server
        e == link[c].entry
    IN  IF endPoint[c] = 0 THEN metaMap[s]
        ELSE [metaMap[s] EXCEPT
                ![e] = removeObjectInstance(metaMap[s][e], e, endPoint[c])]

\* allInstancesClosed is emitted.  An end point that never got an instance
\* has no entry, and removeObjectInstance returns at once.
LastInstanceCloses(c) == endPoint[c] # 0 /\ totalInstances(Without(c)) = {}

\* Mutant: an end point without an instance is kept.
KeepUnserved(c) ==
    /\ client[c] = "closed"
    /\ package[c] # "request" /\ endPoint[c] # 0
    /\ ~LastInstanceCloses(c)
    /\ metaMap' = [metaMap EXCEPT ![link[c].server] = Without(c)]
    /\ client' = [client EXCEPT ![c] = "idle"]
    /\ package' = [package EXCEPT ![c] = "none"]
    /\ endPoint' = [endPoint EXCEPT ![c] = 0]
    /\ link' = [link EXCEPT ![c].server = None]
    /\ UNCHANGED <<serverVars, created>>

\* disconnected, when other instances are open.
Disconnected(c) ==
    /\ client[c] = "closed"
    /\ package[c] # "request"
    /\ ~LastInstanceCloses(c)
    /\ metaMap' = [metaMap EXCEPT ![link[c].server] = Without(c)]
    /\ client' = [client EXCEPT ![c] = "idle"]
    /\ package' = [package EXCEPT ![c] = "none"]
    /\ endPoint' = [endPoint EXCEPT ![c] = 0]
    /\ link' = [link EXCEPT ![c].server = None]
    /\ UNCHANGED <<serverVars, created>>

\* disconnected of the last one: the service process quits, and removes the
\* file of its name if it destroys its QLocalServer, whosever it is by then.
QuitOnLastInstance(c) ==
    LET s == link[c].server
    IN  /\ client[c] = "closed"
        /\ package[c] # "request"
        /\ LastInstanceCloses(c)
        /\ process' = [process EXCEPT ![s] = "gone"]
        /\ listener' \in {listener, None}
        /\ metaMap' = [metaMap EXCEPT ![s] = [e \in Entry |-> Unused]]
        /\ LeaveClients(s)
        /\ UNCHANGED created

\* A server that crashes leaves the file.
Crash(s) ==
    /\ s \in Mortal
    /\ process[s] \in {"starting", "binding", "up"}
    /\ process' = [process EXCEPT ![s] = "gone"]
    /\ metaMap' = [metaMap EXCEPT ![s] = [e \in Entry |-> Unused]]
    /\ LeaveClients(s)
    /\ UNCHANGED <<listener, created>>

-----------------------------------------------------------------------------
Next ==
    \/ \E c \in Client, e \in Entry :
          Connect(c, e) \/ \E s \in Server : StartServer(c, e, s)
    \/ \E c \in Client :
          \/ PollConnects(c) \/ PollGivesUp(c)
          \/ ProxyReady(c) \/ RequestTimesOut(c) \/ LateAnswer(c)
          \/ Close(c) \/ GiveUpProxy(c)
          \/ ServeRequest(c) \/ RefuseRequest(c)
          \/ Disconnected(c) \/ QuitOnLastInstance(c)
    \/ \E s \in Server : RemoveServer(s) \/ Listen(s) \/ Crash(s)

Spec == Init /\ [][Next]_vars

\* The event loop of a server runs: it answers what is asked and hears of
\* every connection that is closed.  A client that waits is ended by a timer.
FairSpec ==
    /\ Spec
    /\ \A c \in Client :
          /\ WF_vars(ServeRequest(c) \/ RefuseRequest(c))
          /\ WF_vars(Disconnected(c) \/ QuitOnLastInstance(c))
          /\ WF_vars(ProxyReady(c) \/ RequestTimesOut(c))

-----------------------------------------------------------------------------
(* Properties.                                                             *)

\* Descriptor d of entry e accounts for the end points in users, where ids
\* gives the identifier each of them has.
Counts(d, e, users, ids) ==
    IF e \in GlobalEntry
    THEN /\ d.globalRefCount = Cardinality(users)
         /\ d.globalInstance = 0 <=> users = {}
         /\ d.individualInstances = {}
         /\ \A c \in users : ids[c] = d.globalInstance
    ELSE /\ d.globalRefCount = 0
         /\ d.globalInstance = 0
         /\ d.individualInstances = {ids[c] : c \in users}
         /\ \A b, c \in users : ids[b] = ids[c] => b = c

\* What a server has counted is what its clients hold: the reference count
\* of a shared instance is the number of end points that refer to it, each
\* of them to the instance that exists now, and every private instance has
\* one end point.  So no end point refers to a deleted object, and no object
\* outlives its clients.
InstancesCounted ==
    \A s \in Server, e \in Entry :
        Counts(metaMap[s][e], e, Users(s, e), endPoint)

\* A proxy refers to an instance of a server that runs.
ProxyHasInstance ==
    \A c \in Client : client[c] = "proxy" =>
        /\ endPoint[c] # 0
        /\ process[link[c].server] = "up"

\* A server that ends of its own accord leaves no client with a proxy of it:
\* allInstancesClosed is emitted when the last instance closes, and then only.
QuitOnlyWhenUnused ==
    [][\A s \in Server :
          process[s] = "up" /\ process'[s] = "gone" /\ s \notin Mortal =>
              \A c \in Client : link[c].server = s => client[c] # "proxy"]_vars

\* The instance of a client that has closed its connection, by crash or by
\* deleting its proxy, is given back by the server in the end.
InstanceReleased ==
    \A c \in Client : client[c] = "closed" ~> client[c] # "closed"

\* "New requests for a service gets the same service instance" (the
\* documentation of GlobalInstance, qremoteserviceregister.cpp:252): all
\* proxies of a shared service are proxies of one object of one process.
OneGlobalInstance ==
    \A b, c \in Client :
        /\ client[b] = "proxy" /\ client[c] = "proxy"
        /\ link[b].entry = link[c].entry /\ link[b].entry \in GlobalEntry
        => link[b].server = link[c].server /\ endPoint[b] = endPoint[c]
=============================================================================
