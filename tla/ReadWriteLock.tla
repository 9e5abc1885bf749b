---------------------------- MODULE ReadWriteLock ----------------------------
(***************************************************************************)
(* What a read-write lock between processes promises: any number of        *)
(* readers or a single writer, and no new reader while a writer waits.     *)
(* This is the contract of the class documentation of QSystemReadWriteLock,*)
(* stated without semaphores; QSystemReadWriteLock.tla implements it.      *)
(***************************************************************************)
CONSTANT Proc

VARIABLES
    readers,    \* the processes that hold the lock for reading
    writers,    \* the processes that hold it for writing: never more than one
    waiting     \* the processes whose lockForWrite has not returned

rwvars == <<readers, writers, waiting>>

Init ==
    /\ readers = {}
    /\ writers = {}
    /\ waiting = {}

\* A process asks for the write lock, or gives up before it has obtained it.
Request(p) ==
    /\ p \notin readers \cup writers \cup waiting
    /\ waiting' = waiting \cup {p}
    /\ UNCHANGED <<readers, writers>>

Withdraw(p) ==
    /\ p \in waiting
    /\ waiting' = waiting \ {p}
    /\ UNCHANGED <<readers, writers>>

\* Writers take precedence: nobody starts to read while one waits.
AcquireRead(p) ==
    /\ p \notin readers \cup writers \cup waiting
    /\ writers = {}
    /\ waiting = {}
    /\ readers' = readers \cup {p}
    /\ UNCHANGED <<writers, waiting>>

AcquireWrite(p) ==
    /\ p \in waiting
    /\ readers = {}
    /\ writers = {}
    /\ writers' = {p}
    /\ waiting' = waiting \ {p}
    /\ UNCHANGED readers

\* unlock, or the end of a process that held the lock.
ReleaseRead(p) ==
    /\ p \in readers
    /\ readers' = readers \ {p}
    /\ UNCHANGED <<writers, waiting>>

ReleaseWrite(p) ==
    /\ p \in writers
    /\ writers' = writers \ {p}
    /\ UNCHANGED <<readers, waiting>>

Next ==
    \E p \in Proc :
        \/ Request(p)
        \/ Withdraw(p)
        \/ AcquireRead(p)
        \/ AcquireWrite(p)
        \/ ReleaseRead(p)
        \/ ReleaseWrite(p)

Spec == Init /\ [][Next]_rwvars

==============================================================================
