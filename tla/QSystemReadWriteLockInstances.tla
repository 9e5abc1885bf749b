-------------------- MODULE QSystemReadWriteLockInstances --------------------
(***************************************************************************)
(* The lifetime of the semaphore set behind a QSystemReadWriteLock: its    *)
(* constructor and destructor (src/src/publishsubscribe/                   *)
(* qsystemreadwritelock_unix.cpp), one step per system call.  The set is   *)
(* found by the key that ftok() computes from the inode of a key file; the *)
(* file and the set are removed by whoever takes NumInstances to zero.     *)
(*                                                                         *)
(* What the semaphores do once a lock is constructed is the subject of     *)
(* QSystemReadWriteLock.tla; here only NumInstances counts, and whether    *)
(* the other three have been given their initial values.                   *)
(***************************************************************************)
EXTENDS Integers, FiniteSets

CONSTANTS
    Proc,           \* the processes, with one lock each at a time
    Creating,       \* those that pass AccessMode Create; the others pass Open
    Destroying,     \* those that destroy their lock
    Mortal,         \* those that may end at any time
    Inode,          \* the inodes that a new key file can get
    NoFile,         \* the key file does not exist
    MaxSets         \* bound: semaphore sets created in a behaviour

ASSUME InstancesAssumption ==
    /\ IsFiniteSet(Proc)
    /\ Creating \subseteq Proc
    /\ Destroying \subseteq Proc
    /\ Mortal \subseteq Proc
    /\ NoFile \notin Inode
    /\ MaxSets \in Nat

VARIABLES
    file,           \* the inode of the key file, or NoFile
    sets,           \* the semaphore set that each key leads to, 0 if none
    made,           \* the sets created so far: semids are never used again
    num,            \* the semaphore NumInstances of each set
    ready,          \* the sets whose other semaphores have been initialised
    adj,            \* semadj of NumInstances: what the end of a process adds
    id,             \* the key a process got from ftok
    semId,          \* the set a process uses, 0 if none
    pc              \* where a process is in constructor or destructor

kernel == <<file, sets, made, num, ready, adj>>
ivars == <<file, sets, made, num, ready, adj, id, semId, pc>>

SetId == 1 .. MaxSets

\* "key" to "count" are the calls of the constructor; "in" is a lock that it
\* has made, and "failed" one whose semId it has left at -1, for which the
\* destructor has nothing to do; "uncount" to "unlink" are the destructor's.
InstanceLabel == {"out", "key", "semget", "attach", "reset", "zero", "count",
                  "in", "failed", "uncount", "rmid", "unlink", "gone"}

Constructing == {"key", "semget", "attach", "reset", "zero", "count"}
HasSet == {"reset", "zero", "count", "in", "uncount", "rmid"}

\* IPC_RMID removes a set from its key, and every later call on it fails.
Exists(s) == \E i \in Inode : sets[i] = s

Goes(p, label) == pc' = [pc EXCEPT ![p] = label]

InstancesTypeOK ==
    /\ file \in Inode \cup {NoFile}
    /\ sets \in [Inode -> 0 .. MaxSets]
    /\ made \in 0 .. MaxSets
    /\ num \in [SetId -> Nat]
    /\ ready \subseteq SetId
    /\ adj \in [Proc -> [SetId -> Int]]
    /\ id \in [Proc -> Inode \cup {NoFile}]
    /\ semId \in [Proc -> 0 .. MaxSets]
    /\ pc \in [Proc -> InstanceLabel]
    /\ \A p \in Proc :
          /\ pc[p] \in HasSet => semId[p] # 0
          /\ pc[p] \in {"semget", "attach"} => id[p] \in Inode

InstancesInit ==
    /\ file = NoFile
    /\ sets = [i \in Inode |-> 0]
    /\ made = 0
    /\ num = [s \in SetId |-> 0]
    /\ ready = {}
    /\ adj = [p \in Proc |-> [s \in SetId |-> 0]]
    /\ id = [p \in Proc |-> NoFile]
    /\ semId = [p \in Proc |-> 0]
    /\ pc = [p \in Proc |-> "out"]

-----------------------------------------------------------------------------
(* Mutants: plausible slips in the constructor and the destructor.         *)

\* The key file is always made anew.
NewKeyFile(p) ==
    /\ pc[p] \in {"out", "failed"}
    /\ file' \in Inode \ {file}
    /\ Goes(p, "key")
    /\ UNCHANGED <<sets, made, num, ready, adj, id, semId>>

\* A set that exists is taken over without a reset, whatever the mode.
AttachAsIs(p) ==
    LET s == sets[id[p]]
    IN  /\ pc[p] = "attach"
        /\ s # 0
        /\ semId' = [semId EXCEPT ![p] = s]
        /\ Goes(p, "count")
        /\ UNCHANGED <<kernel, id>>

\* NumInstances is incremented without SEM_UNDO.
CountForEver(p) ==
    /\ pc[p] = "count"
    /\ Exists(semId[p])
    /\ num' = [num EXCEPT ![semId[p]] = @ + 1]
    /\ Goes(p, "in")
    /\ UNCHANGED <<file, sets, made, ready, adj, id, semId>>

-----------------------------------------------------------------------------
(* The constructor.                                                        *)

\* createUnixKeyFile: the file that is there, or a new one.
createUnixKeyFile(p) ==
    /\ pc[p] \in {"out", "failed"}
    /\ file' \in IF file = NoFile THEN Inode ELSE {file}
    /\ Goes(p, "key")
    /\ UNCHANGED <<sets, made, num, ready, adj, id, semId>>

\* ftok fails if the file has been removed in between.
ftok(p) ==
    /\ pc[p] = "key"
    /\ id' = [id EXCEPT ![p] = file]
    /\ Goes(p, IF file = NoFile THEN "failed" ELSE "semget")
    /\ UNCHANGED <<kernel, semId>>

NewSet(p, next) ==
    /\ made < MaxSets
    /\ made' = made + 1
    /\ sets' = [sets EXCEPT ![id[p]] = made + 1]
    /\ semId' = [semId EXCEPT ![p] = made + 1]
    /\ Goes(p, next)
    /\ UNCHANGED <<file, num, ready, adj, id>>

\* semget(IPC_CREAT | IPC_EXCL): a new set, or EEXIST.
semget(p) ==
    /\ pc[p] = "semget"
    /\ IF sets[id[p]] = 0
       THEN NewSet(p, "reset")
       ELSE Goes(p, "attach") /\ UNCHANGED <<kernel, id, semId>>

\* semget of the set that was there: for mode Create it makes a new one if the
\* set has gone since, for mode Open it fails.
Attach(p) ==
    LET s == sets[id[p]]
    IN  /\ pc[p] = "attach"
        /\ IF s = 0 /\ p \in Creating
           THEN NewSet(p, "reset")
           ELSE /\ semId' = [semId EXCEPT ![p] = s]
                /\ Goes(p, CASE s = 0 -> "failed"
                             [] s # 0 /\ p \in Creating -> "reset"
                             [] s # 0 /\ p \notin Creating -> "count")
                /\ UNCHANGED <<kernel, id>>

\* SETVAL of ActiveReaders, TotalWriters and ActiveWriterSem.
ResetLock(p) ==
    /\ pc[p] = "reset"
    /\ Exists(semId[p])
    /\ ready' = ready \cup {semId[p]}
    /\ Goes(p, "zero")
    /\ UNCHANGED <<file, sets, made, num, adj, id, semId>>

\* SETVAL of NumInstances, which also clears the semadj of every process.
ResetCount(p) ==
    LET s == semId[p]
    IN  /\ pc[p] = "zero"
        /\ Exists(s)
        /\ num' = [num EXCEPT ![s] = 0]
        /\ adj' = [q \in Proc |-> [adj[q] EXCEPT ![s] = 0]]
        /\ Goes(p, "count")
        /\ UNCHANGED <<file, sets, made, ready, id, semId>>

\* A SETVAL fails because the set is gone: the key file goes too.
ResetFails(p) ==
    /\ pc[p] \in {"reset", "zero"}
    /\ ~Exists(semId[p])
    /\ file' = NoFile
    /\ semId' = [semId EXCEPT ![p] = 0]
    /\ Goes(p, "failed")
    /\ UNCHANGED <<sets, made, num, ready, adj, id>>

Count(p) ==
    LET s == semId[p]
    IN  /\ pc[p] = "count"
        /\ Exists(s)
        /\ num' = [num EXCEPT ![s] = @ + 1]
        /\ adj' = [adj EXCEPT ![p][s] = @ - 1]
        /\ Goes(p, "in")
        /\ UNCHANGED <<file, sets, made, ready, id, semId>>

CountFails(p) ==
    /\ pc[p] = "count"
    /\ ~Exists(semId[p])
    /\ semId' = [semId EXCEPT ![p] = 0]
    /\ Goes(p, "failed")
    /\ UNCHANGED <<kernel, id>>

Construct(p) ==
    \/ createUnixKeyFile(p) \/ ftok(p) \/ semget(p) \/ Attach(p)
    \/ ResetLock(p) \/ ResetCount(p) \/ ResetFails(p)
    \/ Count(p) \/ CountFails(p)

-----------------------------------------------------------------------------
(* The destructor.                                                         *)

\* Decrement and test for zero, in one semop that does both or nothing.
CountDown(p) ==
    LET s == semId[p]
    IN  /\ p \in Destroying
        /\ pc[p] = "in"
        /\ IF Exists(s) /\ num[s] = 1
           THEN /\ num' = [num EXCEPT ![s] = 0]
                /\ adj' = [adj EXCEPT ![p][s] = @ + 1]
                /\ Goes(p, "rmid")
           ELSE Goes(p, "uncount") /\ UNCHANGED <<num, adj>>
        /\ UNCHANGED <<file, sets, made, ready, id, semId>>

\* It was not the last one (or the call failed): decrement, or fail again.
Uncount(p) ==
    LET s == semId[p]
    IN  /\ pc[p] = "uncount"
        /\ IF Exists(s) /\ num[s] > 0
           THEN /\ num' = [num EXCEPT ![s] = @ - 1]
                /\ adj' = [adj EXCEPT ![p][s] = @ + 1]
           ELSE UNCHANGED <<num, adj>>
        /\ semId' = [semId EXCEPT ![p] = 0]
        /\ Goes(p, "out")
        /\ UNCHANGED <<file, sets, made, ready, id>>

\* IPC_RMID: what is left of the semadj of any process goes with the set.
RemoveSet(p) ==
    LET s == semId[p]
    IN  /\ pc[p] = "rmid"
        /\ sets' = [i \in Inode |-> IF sets[i] = s THEN 0 ELSE sets[i]]
        /\ adj' = [q \in Proc |-> [adj[q] EXCEPT ![s] = 0]]
        /\ semId' = [semId EXCEPT ![p] = 0]
        /\ Goes(p, "unlink")
        /\ UNCHANGED <<file, made, num, ready, id>>

RemoveFile(p) ==
    /\ pc[p] = "unlink"
    /\ file' = NoFile
    /\ Goes(p, "out")
    /\ UNCHANGED <<sets, made, num, ready, adj, id, semId>>

Destruct(p) == CountDown(p) \/ Uncount(p) \/ RemoveSet(p) \/ RemoveFile(p)

-----------------------------------------------------------------------------
(* The end of a process, by exit or crash: the kernel adds its semadj, and *)
(* takes a semaphore that would become negative to zero.                   *)

Adjusted(n, a) == IF n + a < 0 THEN 0 ELSE n + a

End(p) ==
    /\ p \in Mortal
    /\ num' = [s \in SetId |-> Adjusted(num[s], adj[p][s])]
    /\ adj' = [adj EXCEPT ![p] = [s \in SetId |-> 0]]
    /\ semId' = [semId EXCEPT ![p] = 0]
    /\ Goes(p, "gone")
    /\ UNCHANGED <<file, sets, made, ready, id>>

\* Another process takes the place of the one that ended.
Start(p) ==
    /\ pc[p] = "gone"
    /\ Goes(p, "out")
    /\ UNCHANGED <<kernel, id, semId>>

InstancesNext ==
    \E p \in Proc : \/ Construct(p) \/ Destruct(p)
                    \/ pc[p] # "gone" /\ End(p)
                    \/ Start(p)

InstancesSpec == InstancesInit /\ [][InstancesNext]_ivars

-----------------------------------------------------------------------------
(* Properties.                                                             *)

\* "Read-write locking between processes": the locks constructed with one key
\* are one lock.  It does not hold of the class on its own: between IPC_RMID and
\* the removal of the key file another constructor finds the file, and makes a
\* set whose key no later constructor will find.
SharesOneSet ==
    \A p, q \in Proc :
        pc[p] = "in" /\ pc[q] = "in" => semId[p] = semId[q]

\* "The system resources are cleaned up when the last QSystemReadWriteLock
\* instance is destroyed": two destructors at a time leave them behind.
CleanedUp ==
    (\A p \in Proc : pc[p] = "out") => \A s \in SetId : ~Exists(s)
=============================================================================
