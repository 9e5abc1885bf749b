--------------------------- MODULE ObjectEndPoint ---------------------------
(***************************************************************************)
(* The client's end of a remote service (src/src/serviceframework/ipc/     *)
(* objectendpoint.cpp).  A call of a method with a result, a read of a     *)
(* property and the construction of the proxy write a package and wait in  *)
(* an event loop of their own until the answer is there or 30 seconds have *)
(* passed.  That loop delivers every event of the process, so that the     *)
(* application, or a slot connected to a signal of the service, may call   *)
(* again while a call waits: the waiting calls form a stack, and only the  *)
(* innermost can go on.                                                    *)
(*                                                                         *)
(* The service answers requests in the order they were written, and emits  *)
(* signals when it likes.  Calls without a result do not wait: they change *)
(* nothing here.  Requests are numbered: a number stands for the           *)
(* messageId, and the payload of an answer is the number of its request.   *)
(***************************************************************************)
EXTENDS Integers, Sequences, FiniteSets, SequencesExt

CONSTANTS
    MaxCalls,       \* bound: requests the client makes
    MaxSignals,     \* bound: signals the service emits
    Slow,           \* whether the service may need more than 30 seconds
    ServiceEnds     \* whether the service may end

ASSUME EndPointAssumption ==
    /\ MaxCalls \in Nat \ {0}
    /\ MaxSignals \in Nat
    /\ {Slow, ServiceEnds} \subseteq BOOLEAN

VARIABLES
    issued,         \* requests made so far
    openRequests,   \* the requests in the table of responses
    response,       \* the Response of each request
    stack,          \* the functions of the end point that are running
    service,        \* the end point's pointer to its proxy
    toServer,       \* requests the service has not answered
    toClient,       \* packages in the socket
    incoming,       \* packages read from the socket
    posted,         \* queued calls of newPackageReady
    finishing,      \* timers that will emit pendingRequestFinished
    signals,        \* signals emitted so far
    state,          \* of the end point
    disturbed       \* history: not just one call after another, each answered

queues == <<toServer, toClient, incoming, posted>>
epVars == <<issued, openRequests, response, stack, service, toServer,
            toClient, incoming, posted, finishing, signals, state, disturbed>>

Id == 1 .. MaxCalls
Kind == {"object", "method", "property"}
Package == [kind : Kind \cup {"signal"}, id : 0 .. MaxCalls, ok : BOOLEAN]

\* "wait" is a waitForResponse in its loop, "drain" a newPackageReady.
Frame == [run : {"wait", "drain"}, kind : Kind, id : 0 .. MaxCalls,
          quit : BOOLEAN, timedOut : BOOLEAN]

Wait(kind, id) == [run |-> "wait", kind |-> kind, id |-> id, quit |-> FALSE,
                   timedOut |-> FALSE]
Drain == [run |-> "drain", kind |-> "object", id |-> 0, quit |-> FALSE,
          timedOut |-> FALSE]

Waiting == {i \in DOMAIN stack : stack[i].run = "wait"}
WaitsFor(id) == \E i \in Waiting : stack[i].id = id

\* The process is in an event loop, its own or the innermost waiting one.
Dispatching ==
    /\ state = "alive"
    /\ stack # <<>> => Last(stack).run = "wait" /\ ~Last(stack).quit

Reading == state = "alive" /\ stack # <<>> /\ Last(stack).run = "drain"

EPTypeOK ==
    /\ issued \in 0 .. MaxCalls
    /\ openRequests \subseteq Id
    /\ response \in [Id -> [isFinished : BOOLEAN, result : 0 .. MaxCalls]]
    /\ stack \in Seq(Frame)
    /\ service \in {"null", "proxy"}
    /\ toServer \in Seq([kind : Kind, id : Id])
    /\ toClient \in Seq(Package)
    /\ incoming \in Seq(Package)
    /\ posted \in 0 .. MaxCalls + MaxSignals
    /\ finishing \in 0 .. MaxCalls
    /\ signals \in 0 .. MaxSignals
    /\ state \in {"alive", "deleted", "crashed"}
    /\ disturbed \in BOOLEAN

EPInit ==
    /\ issued = 0
    /\ openRequests = {}
    /\ response = [id \in Id |-> [isFinished |-> FALSE, result |-> 0]]
    /\ stack = <<>>
    /\ service = "null"
    /\ toServer = <<>>
    /\ toClient = <<>>
    /\ incoming = <<>>
    /\ posted = 0
    /\ finishing = 0
    /\ signals = 0
    /\ state = "alive"
    /\ disturbed = FALSE

-----------------------------------------------------------------------------
(* Mutants: plausible slips in the code below.                             *)

\* An answer that is taken for the one of the innermost call.
FinishInnermost(id, result) ==
    response' = [response EXCEPT
        ![Max({stack[i].id : i \in Waiting} \cup {1})] =
            [isFinished |-> TRUE, result |-> result]]

\* A call that leaves its entry behind when it was not answered.
CloseFinished(kind, id) ==
    openRequests' = IF response[id].isFinished THEN openRequests \ {id}
                    ELSE openRequests

\* Two timers for one answer.
WakeTwice == finishing' = finishing + 2

\* A loop without a timer.
NoTimer(i) == FALSE /\ UNCHANGED epVars

-----------------------------------------------------------------------------
(* The client's calls.                                                     *)

\* invokeRemote and invokeRemoteProperty with a result, and constructProxy:
\* insert a Response, write the package, wait.
Request(kind, below) ==
    LET id == issued + 1
    IN  /\ issued < MaxCalls
        /\ issued' = id
        /\ openRequests' = openRequests \cup {id}
        /\ toServer' = Append(toServer, [kind |-> kind, id |-> id])
        /\ stack' = Append(below, Wait(kind, id))

\* proxyForService calls constructProxy on a new end point.
constructProxy ==
    /\ Dispatching
    /\ issued = 0
    /\ Request("object", stack)
    /\ UNCHANGED <<response, service, toClient, incoming, posted, finishing,
                   signals, state, disturbed>>

\* The application uses the proxy, in an event handler: perhaps one that a
\* waiting call has delivered the event to.
invokeRemote(kind) ==
    /\ Dispatching
    /\ service = "proxy"
    /\ kind \in {"method", "property"}
    /\ Request(kind, stack)
    /\ disturbed' = (disturbed \/ stack # <<>>)
    /\ UNCHANGED <<response, service, toClient, incoming, posted, finishing,
                   signals, state>>

\* What a call does to the table of responses when its loop has ended: only
\* a constructProxy without an answer leaves its entry behind.
CloseRequest(kind, id) ==
    openRequests' = IF kind = "object" /\ ~response[id].isFinished
                    THEN openRequests ELSE openRequests \ {id}

\* The loop of the innermost call has been quit: the call returns.
WaitReturns ==
    LET call == Last(stack)
    IN  /\ state = "alive"
        /\ stack # <<>> /\ call.run = "wait" /\ call.quit
        /\ stack' = Front(stack)
        /\ CloseRequest(call.kind, call.id)
        /\ service' = IF call.kind = "object" /\ response[call.id].result # 0
                      THEN "proxy" ELSE service
        /\ UNCHANGED <<issued, response, queues, finishing, signals, state,
                       disturbed>>

-----------------------------------------------------------------------------
(* The service.                                                            *)

\* It answers the oldest request, or says that it has failed.
Answer(ok) ==
    /\ toServer # <<>>
    /\ toClient' = Append(toClient, [kind |-> Head(toServer).kind,
                                     id |-> Head(toServer).id, ok |-> ok])
    /\ toServer' = Tail(toServer)
    /\ UNCHANGED <<issued, openRequests, response, stack, service, incoming,
                   posted, finishing, signals, state, disturbed>>

\* Its object, which exists since the first request was answered, emits a
\* signal: the intercepter sends it to the client.
EmitSignal ==
    /\ signals < MaxSignals
    /\ issued > 0 /\ \A i \in DOMAIN toServer : toServer[i].kind # "object"
    /\ signals' = signals + 1
    /\ toClient' = Append(toClient, [kind |-> "signal", id |-> 0, ok |-> TRUE])
    /\ UNCHANGED <<issued, openRequests, response, stack, service, toServer,
                   incoming, posted, finishing, state, disturbed>>

-----------------------------------------------------------------------------
(* The events of the client's loops.                                       *)

\* readIncoming takes what the socket has, and posts a call.
readIncoming(n) ==
    /\ Dispatching
    /\ n \in 1 .. Len(toClient)
    /\ incoming' = incoming \o SubSeq(toClient, 1, n)
    /\ toClient' = SubSeq(toClient, n + 1, Len(toClient))
    /\ posted' = posted + 1
    /\ UNCHANGED <<issued, openRequests, response, stack, service, toServer,
                   finishing, signals, state, disturbed>>

newPackageReady ==
    /\ Dispatching
    /\ posted > 0
    /\ posted' = posted - 1
    /\ stack' = Append(stack, Drain)
    /\ UNCHANGED <<issued, openRequests, response, service, toServer, toClient,
                   incoming, finishing, signals, state, disturbed>>

\* The signal pendingRequestFinished reaches every loop there is.
pendingRequestFinished ==
    /\ Dispatching
    /\ finishing > 0
    /\ finishing' = finishing - 1
    /\ stack' = [i \in DOMAIN stack |->
                    IF i \in Waiting THEN [stack[i] EXCEPT !.quit = TRUE]
                    ELSE stack[i]]
    /\ UNCHANGED <<issued, openRequests, response, service, queues, signals,
                   state, disturbed>>

\* The 30 seconds of the i-th function have passed.
TimerQuits(i) ==
    /\ Slow
    /\ Dispatching
    /\ i \in Waiting
    /\ stack' = [stack EXCEPT ![i].quit = TRUE, ![i].timedOut = TRUE]
    /\ disturbed' = TRUE
    /\ UNCHANGED <<issued, openRequests, response, service, queues, finishing,
                   signals, state>>

\* The service is gone.  disconnected has the end point deleted in the loop
\* that delivers the event: the waiting loops are its children, and go with
\* it while they run.
disconnected ==
    /\ Dispatching
    /\ ServiceEnds
    /\ issued > 0
    /\ state' = IF Waiting = {} THEN "deleted" ELSE "crashed"
    /\ disturbed' = TRUE
    /\ UNCHANGED <<issued, openRequests, response, stack, service, queues,
                   finishing, signals>>

-----------------------------------------------------------------------------
(* The loop of newPackageReady.                                            *)

\* Nothing is left to read.
DrainEnds ==
    /\ Reading
    /\ incoming = <<>>
    /\ stack' = Front(stack)
    /\ UNCHANGED <<issued, openRequests, response, service, queues, finishing,
                   signals, state, disturbed>>

NextIs(kinds) == Reading /\ incoming # <<>> /\ Head(incoming).kind \in kinds

\* objectRequest, methodCall and propertyCall find the Response by the id of
\* the package.
Finish(id, result) ==
    response' = [response EXCEPT ![id] = [isFinished |-> TRUE, result |-> result]]

\* A zero timer emits pendingRequestFinished.
Wake == finishing' = finishing + 1

TakeAnswer ==
    /\ NextIs(Kind)
    /\ Head(incoming).id \in openRequests
    /\ incoming' = Tail(incoming)
    /\ Finish(Head(incoming).id, IF Head(incoming).ok THEN Head(incoming).id ELSE 0)
    /\ Wake
    /\ UNCHANGED <<issued, openRequests, stack, service, toServer, toClient,
                   posted, signals, state, disturbed>>

\* The answer to a call that has returned: methodCall looks whether there is
\* a Response, propertyCall does not.
TakeLateAnswer ==
    /\ NextIs(Kind)
    /\ Head(incoming).id \notin openRequests
    /\ incoming' = Tail(incoming)
    /\ state' = IF Head(incoming).kind = "method" THEN state ELSE "crashed"
    /\ UNCHANGED <<issued, openRequests, response, stack, service, toServer,
                   toClient, posted, finishing, signals, disturbed>>

\* A signal: methodCall asks the proxy for its meta object, and then runs the
\* slots connected to it, one of which may use the proxy.
TakeSignal ==
    /\ NextIs({"signal"})
    /\ service = "proxy"
    /\ incoming' = Tail(incoming)
    /\ disturbed' = TRUE
    /\ \/ UNCHANGED <<issued, openRequests, toServer, stack>>
       \/ \E kind \in {"method", "property"} : Request(kind, stack)
    /\ UNCHANGED <<response, service, toClient, posted, finishing, signals, state>>

\* There is no proxy yet, or never.
TakeEarlySignal ==
    /\ NextIs({"signal"})
    /\ service = "null"
    /\ incoming' = Tail(incoming)
    /\ disturbed' = TRUE
    /\ state' = "crashed"
    /\ UNCHANGED <<issued, openRequests, response, stack, service, toServer,
                   toClient, posted, finishing, signals>>

-----------------------------------------------------------------------------
EPNext ==
    \/ constructProxy
    \/ \E kind \in Kind : invokeRemote(kind)
    \/ WaitReturns
    \/ \E ok \in BOOLEAN : Answer(ok)
    \/ EmitSignal
    \/ \E n \in 1 .. Len(toClient) : readIncoming(n)
    \/ newPackageReady
    \/ pendingRequestFinished
    \/ \E i \in Waiting : TimerQuits(i)
    \/ disconnected
    \/ DrainEnds \/ TakeAnswer \/ TakeLateAnswer
    \/ TakeSignal \/ TakeEarlySignal

EPSpec == EPInit /\ [][EPNext]_epVars

\* The client runs its handlers to their ends, and every loop has a timer.
EPFairSpec ==
    /\ EPSpec
    /\ WF_epVars(WaitReturns)
    /\ WF_epVars(DrainEnds \/ TakeAnswer \/ TakeLateAnswer \/ TakeSignal
                 \/ TakeEarlySignal)
    /\ WF_epVars(\E i \in Waiting : ~stack[i].quit /\ TimerQuits(i))

-----------------------------------------------------------------------------
(* Properties.                                                             *)

\* Whatever the order in which nested calls are answered, a result is the
\* answer to the request it is returned for.
AnswerIsOwn ==
    \A id \in Id : response[id].result \in {0, id}

\* The table of responses holds the calls that wait, whose Response their
\* answers will be written to, and nothing else, but for a constructProxy
\* that was not answered in time.
RequestsAccounted ==
    LET leaked == {1} \cap {id \in 1 .. issued : service = "null"}
    IN  {stack[i].id : i \in Waiting} \subseteq openRequests
        /\ openRequests \subseteq {stack[i].id : i \in Waiting} \cup leaked

\* A client that makes one call after another, gets each of them answered in
\* time and receives no signal never crashes, and no call returns without its
\* answer: no wake-up is left over from an earlier call.
SequentialIsSafe ==
    ~disturbed =>
        /\ state = "alive"
        /\ \A i \in Waiting : stack[i].quit => response[stack[i].id].isFinished
        /\ finishing > 0 => Waiting # {}

\* Every call returns, or the process has crashed.
CallReturns ==
    \A id \in Id : WaitsFor(id) ~> (~WaitsFor(id) \/ state = "crashed")

\* "Will block if return value expected" (objectendpoint.cpp:514 and 566), and
\* "create response and block for answer": a call returns with its answer, or
\* after the 30 seconds it gives the service.
BlocksUntilAnswered ==
    [][WaitReturns => response[Last(stack).id].isFinished
                      \/ Last(stack).timedOut]_epVars
=============================================================================
