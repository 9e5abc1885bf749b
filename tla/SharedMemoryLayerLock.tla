------------------------ MODULE SharedMemoryLayerLock ------------------------
(***************************************************************************)
(* How the shared memory layer of the value space uses the constructor and *)
(* destructor of QSystemReadWriteLock (SharedMemoryLayer::startup and its  *)
(* destructor, src/src/publishsubscribe/sharedmemorylayer.cpp).  The       *)
(* server listens on its socket, then constructs the lock with mode Create *)
(* and destroys it when it ends in order.  A client connects first, then   *)
(* constructs the lock with mode Open and never destroys it: it ends, with *)
(* qFatal, when its event loop finds that the server has gone.             *)
(*                                                                         *)
(* The constructors of the server and of its clients overlap in any way,   *)
(* and every process may end at any step of them.                          *)
(***************************************************************************)
EXTENDS QSystemReadWriteLockInstances

CONSTANTS Server, Client

ASSUME LayerLockAssumption ==
    /\ Server \notin Client
    /\ Proc = Client \cup {Server}
    /\ Creating = {Server}
    /\ Destroying = {Server}

VARIABLE connected      \* the clients connected to the server that runs

lvars == <<ivars, connected>>

LayerLockInit == InstancesInit /\ connected = {}

-----------------------------------------------------------------------------
\* startup(Server): listen, then begin the lock's constructor.
\* It is assumed that no client is still in its constructor then: a server that
\* went away in the middle of it has not been replaced before it is through.
ServerStarts ==
    /\ pc[Server] = "out"
    /\ \A c \in Client : pc[c] \notin Constructing
    /\ createUnixKeyFile(Server)
    /\ connected' = {}

\* startup(Client): connectToServer, then begin the lock's constructor.
ClientStarts(c) ==
    /\ pc[c] = "out"
    /\ pc[Server] \notin {"out", "gone"}
    /\ connected' = connected \cup {c}
    /\ createUnixKeyFile(c)

\* The rest of a constructor, whether or not the server is still there.
Constructs(p) ==
    /\ pc[p] \notin {"out", "failed"}
    /\ Construct(p)
    /\ UNCHANGED connected

\* ~SharedMemoryLayer: the server's sockets are closed after the lock has been
\* destroyed.
ServerDestroys ==
    /\ Destruct(Server)
    /\ connected' = IF pc'[Server] = "out" THEN {} ELSE connected

\* A process ends; when it is the server, its connections go with it.
Ends(p) ==
    /\ pc[p] # "gone"
    /\ End(p)
    /\ connected' = IF p = Server THEN {} ELSE connected \ {p}

Starts(p) == Start(p) /\ UNCHANGED connected

LayerLockNext ==
    \/ ServerStarts
    \/ ServerDestroys
    \/ \E c \in Client : ClientStarts(c)
    \/ \E p \in Proc : Constructs(p) \/ Ends(p) \/ Starts(p)

LayerLockSpec == LayerLockInit /\ [][LayerLockNext]_lvars

-----------------------------------------------------------------------------
(* Properties.                                                             *)

\* The server, once it has constructed its lock, and every client connected to
\* it that has constructed its own use one semaphore set, which has not been
\* removed and whose semaphores have their initial values or what the calls on
\* the locks have made of them, although their constructors race for the
\* creation of the key file and the set, and whatever an earlier server and its
\* clients have left behind, removed or not.
ConnectedShareOneSet ==
    pc[Server] = "in" =>
        /\ Exists(semId[Server])
        /\ semId[Server] \in ready
        /\ \A c \in connected : pc[c] = "in" => semId[c] = semId[Server]

\* NumInstances never makes the server believe in more clients than there are,
\* after any crash or reset: so nothing but a client that is there, or has not
\* yet been undone, keeps it from removing the set.
CountsNoGhosts ==
    pc[Server] = "in" =>
        num[semId[Server]] <= Cardinality({p \in Proc :
                                  pc[p] = "in" /\ semId[p] = semId[Server]})
==============================================================================
