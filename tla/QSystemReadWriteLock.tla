------------------------ MODULE QSystemReadWriteLock ------------------------
(***************************************************************************)
(* The System V implementation of the lock that guards the shared memory   *)
(* of the value space (src/src/publishsubscribe/                           *)
(* qsystemreadwritelock_unix.cpp).  Every call of semop() is one atomic    *)
(* step, as the kernel guarantees; a method that makes several calls is as *)
(* many steps.  The kernel's per-process undo list (SEM_UNDO) is part of   *)
(* the state, because it is what releases the lock of a process that ends. *)
(*                                                                         *)
(* The lifetime of the semaphore set (constructor, destructor) is not part *)
(* of this module: here the set exists.                                    *)
(***************************************************************************)
EXTENDS Integers, FiniteSets

CONSTANTS
    Proc,           \* the processes that use the lock
    Interrupted,    \* those to which signals are delivered (semop: EINTR)
    Mortal,         \* those that may exit or crash, and be started again
    MaxUndo         \* bound: undo entries a process may leave behind

ASSUME ProcAssumption ==
    /\ IsFiniteSet(Proc)
    /\ Interrupted \subseteq Proc
    /\ Mortal \subseteq Proc
    /\ MaxUndo \in Nat

VARIABLES
    activeReaders,      \* the semaphore ActiveReaders
    totalWriters,       \* the semaphore TotalWriters
    activeWriterSem,    \* the semaphore ActiveWriterSem
    undo,               \* semadj: what the kernel adds when a process ends
    pc                  \* where each process is

sems == <<activeReaders, totalWriters, activeWriterSem>>
vars == <<activeReaders, totalWriters, activeWriterSem, undo, pc>>

\* "rdwait" is blocked in the semop of lockForRead; "drain" and "activate" in
\* the second and third semop of lockForWrite; "rollbackDrain" and
\* "rollbackActivate" are about to decrement TotalWriters after one of them
\* failed; "release" is between the two semops of unlock.
Label == {"idle", "rdwait", "reading", "drain", "activate", "rollbackDrain",
          "rollbackActivate", "writing", "release", "gone"}

Waiting == {"drain", "activate", "rollbackDrain", "rollbackActivate"}
Holding == {"writing", "release"}

At(labels) == {p \in Proc : pc[p] \in labels}

NoUndo == [readers |-> 0, writers |-> 0, active |-> 0]

Goto(p, label) == pc' = [pc EXCEPT ![p] = label]

TypeOK ==
    /\ activeReaders \in Nat
    /\ totalWriters \in Nat
    /\ activeWriterSem \in Nat
    /\ undo \in [Proc -> [readers : Int, writers : Int, active : Int]]
    /\ pc \in [Proc -> Label]

Init ==
    /\ activeReaders = 0
    /\ totalWriters = 0
    /\ activeWriterSem = 1
    /\ undo = [p \in Proc |-> NoUndo]
    /\ pc = [p \in Proc |-> "idle"]

-----------------------------------------------------------------------------
(* Mutants: plausible slips in the semaphore calls below.                  *)

\* lockForRead that looks at the wrong semaphore, or at none.
EnterReadAtOnce(p) ==
    /\ pc[p] = "rdwait"
    /\ activeReaders' = activeReaders + 1
    /\ undo' = [undo EXCEPT ![p].readers = @ - 1]
    /\ Goto(p, "reading")
    /\ UNCHANGED <<totalWriters, activeWriterSem>>

EnterReadPastWaiting(p) == EnterReadAtOnce(p) /\ activeWriterSem = 1

\* A crash while reading leaves the reader behind.
EnterReadNoUndo(p) ==
    /\ pc[p] = "rdwait"
    /\ totalWriters = 0
    /\ activeReaders' = activeReaders + 1
    /\ Goto(p, "reading")
    /\ UNCHANGED <<totalWriters, activeWriterSem, undo>>

\* unlock that forgets to free the writer slot.
ReleaseWriterKeepsSlot(p) ==
    /\ pc[p] = "release"
    /\ totalWriters > 0
    /\ totalWriters' = totalWriters - 1
    /\ undo' = [undo EXCEPT ![p].writers = @ + 1]
    /\ Goto(p, "idle")
    /\ UNCHANGED <<activeReaders, activeWriterSem>>

-----------------------------------------------------------------------------
(* lockForRead: one semop that waits for TotalWriters = 0 and increments   *)
(* ActiveReaders, atomically.                                              *)

lockForRead(p) ==
    /\ pc[p] = "idle"
    /\ Goto(p, "rdwait")
    /\ UNCHANGED <<sems, undo>>

EnterRead(p) ==
    /\ pc[p] = "rdwait"
    /\ totalWriters = 0
    /\ activeReaders' = activeReaders + 1
    /\ undo' = [undo EXCEPT ![p].readers = @ - 1]
    /\ Goto(p, "reading")
    /\ UNCHANGED <<totalWriters, activeWriterSem>>

\* EINTR: a signal wakes a process that is blocked, and lockForRead returns
\* false.
InterruptRead(p) ==
    /\ p \in Interrupted
    /\ pc[p] = "rdwait"
    /\ totalWriters # 0
    /\ Goto(p, "idle")
    /\ UNCHANGED <<sems, undo>>

-----------------------------------------------------------------------------
(* lockForWrite: announce the writer, wait for the readers to leave, take  *)
(* the single writer slot.                                                 *)

lockForWrite(p) ==
    /\ pc[p] = "idle"
    /\ totalWriters' = totalWriters + 1
    /\ undo' = [undo EXCEPT ![p].writers = @ - 1]
    /\ Goto(p, "drain")
    /\ UNCHANGED <<activeReaders, activeWriterSem>>

Drained(p) ==
    /\ pc[p] = "drain"
    /\ activeReaders = 0
    /\ Goto(p, "activate")
    /\ UNCHANGED <<sems, undo>>

EnterWrite(p) ==
    /\ pc[p] = "activate"
    /\ activeWriterSem > 0
    /\ activeWriterSem' = activeWriterSem - 1
    /\ undo' = [undo EXCEPT ![p].active = @ + 1]
    /\ Goto(p, "writing")
    /\ UNCHANGED <<activeReaders, totalWriters>>

InterruptWrite(p) ==
    /\ p \in Interrupted
    /\ \/ /\ pc[p] = "drain"
          /\ activeReaders # 0
          /\ Goto(p, "rollbackDrain")
       \/ /\ pc[p] = "activate"
          /\ activeWriterSem = 0
          /\ undo[p].writers >= -MaxUndo
          /\ Goto(p, "rollbackActivate")
    /\ UNCHANGED <<sems, undo>>

\* The wait for the readers failed: TotalWriters is decremented with SEM_UNDO,
\* which cancels the undo entry of the increment.
RollbackDrain(p) ==
    /\ pc[p] = "rollbackDrain"
    /\ totalWriters > 0
    /\ totalWriters' = totalWriters - 1
    /\ undo' = [undo EXCEPT ![p].writers = @ + 1]
    /\ Goto(p, "idle")
    /\ UNCHANGED <<activeReaders, activeWriterSem>>

\* The wait for the writer slot failed: TotalWriters is decremented with
\* sem_flg = 0, so the undo entry of the increment stays.
RollbackActivate(p) ==
    /\ pc[p] = "rollbackActivate"
    /\ totalWriters > 0
    /\ totalWriters' = totalWriters - 1
    /\ Goto(p, "idle")
    /\ UNCHANGED <<activeReaders, activeWriterSem, undo>>

-----------------------------------------------------------------------------
(* unlock does not know how the lock is held: it first tries to give back  *)
(* a reader, and takes EAGAIN to mean that the caller is the writer.       *)

unlock(p) ==
    /\ pc[p] \in {"reading", "writing"}
    /\ \/ /\ activeReaders > 0
          /\ activeReaders' = activeReaders - 1
          /\ undo' = [undo EXCEPT ![p].readers = @ + 1]
          /\ Goto(p, "idle")
       \/ /\ activeReaders = 0
          /\ Goto(p, "release")
          /\ UNCHANGED <<activeReaders, undo>>
    /\ UNCHANGED <<totalWriters, activeWriterSem>>

\* EAGAIN here means that ActiveWriterSem is not 0, "indicating there is no
\* current writer, so nothing needs to be done".
ReleaseWriter(p) ==
    /\ pc[p] = "release"
    /\ IF activeWriterSem = 0
       THEN /\ totalWriters > 0
            /\ activeWriterSem' = 1
            /\ totalWriters' = totalWriters - 1
            /\ undo' = [undo EXCEPT ![p].active = @ - 1, ![p].writers = @ + 1]
       ELSE UNCHANGED <<activeWriterSem, totalWriters, undo>>
    /\ Goto(p, "idle")
    /\ UNCHANGED activeReaders

-----------------------------------------------------------------------------
(* The end of a process: the kernel adds its undo entries, and never lets  *)
(* a semaphore become negative.                                            *)

Undone(value, adjustment) ==
    IF value + adjustment < 0 THEN 0 ELSE value + adjustment

Exit(p) ==
    /\ p \in Mortal
    /\ pc[p] # "gone"
    /\ activeReaders' = Undone(activeReaders, undo[p].readers)
    /\ totalWriters' = Undone(totalWriters, undo[p].writers)
    /\ activeWriterSem' = Undone(activeWriterSem, undo[p].active)
    /\ undo' = [undo EXCEPT ![p] = NoUndo]
    /\ Goto(p, "gone")

Restart(p) ==
    /\ pc[p] = "gone"
    /\ Goto(p, "idle")
    /\ UNCHANGED <<sems, undo>>

-----------------------------------------------------------------------------
Read(p)  == lockForRead(p) \/ EnterRead(p) \/ InterruptRead(p)
Write(p) == \/ lockForWrite(p) \/ Drained(p) \/ EnterWrite(p)
            \/ InterruptWrite(p) \/ RollbackDrain(p) \/ RollbackActivate(p)
Leave(p) == unlock(p) \/ ReleaseWriter(p)

Next ==
    \E p \in Proc :
        Read(p) \/ Write(p) \/ Leave(p) \/ Exit(p) \/ Restart(p)

\* The process that runs a critical section ends it, a runnable system call
\* returns, and the kernel serves the waiters of a semaphore in FIFO order, so
\* none of them is passed over for ever.
Fairness ==
    \A p \in Proc :
        /\ WF_vars(unlock(p))
        /\ WF_vars(ReleaseWriter(p))
        /\ WF_vars(RollbackDrain(p) \/ RollbackActivate(p))
        /\ WF_vars(Drained(p))
        /\ SF_vars(EnterWrite(p))

Spec == Init /\ [][Next]_vars
FairSpec == Spec /\ Fairness

-----------------------------------------------------------------------------
(* Properties.                                                             *)

\* Readers share the lock and a writer has it alone: while a process is in its
\* write section (up to the semop of unlock that gives it back) no other
\* process is in a section of either kind.  A crash, a signal or a restart of
\* another process does not break this.
MutualExclusion ==
    \A p \in At(Holding), q \in Proc :
        pc[q] \in Holding \cup {"reading"} => q = p

\* When no process is inside the lock, whatever crashed or was interrupted on
\* the way, the semaphores are back at their initial values: nothing is leaked
\* that would later block everyone or admit a second writer.
QuiescentIsFree ==
    (\A p \in Proc : pc[p] \in {"idle", "rdwait", "gone"}) =>
        activeReaders = 0 /\ totalWriters = 0 /\ activeWriterSem = 1

\* unlock's guess is right: a reader never finds ActiveReaders at 0 and so
\* never goes on to release the writer slot of another process, and a writer
\* never finds the slot already free.
UnlockGivesBackOwn ==
    \A p \in Proc :
        /\ pc[p] = "reading" => activeReaders > 0
        /\ pc[p] = "writing" => activeReaders = 0
        /\ pc[p] = "release" => activeWriterSem = 0 /\ totalWriters > 0

\* The semaphores implement the read-write lock of the class documentation,
\* with the precedence of writers: no reader gets in while a writer waits.
RWLock == INSTANCE ReadWriteLock WITH
    readers <- At({"reading"}),
    writers <- At(Holding),
    waiting <- At(Waiting)

ImplementsReadWriteLock == RWLock!Spec

\* A writer is never starved, neither by readers nor by other writers: its
\* lockForWrite returns (it may return false after a signal).
WriterIsServed ==
    \A p \in Proc :
        pc[p] \in Waiting ~> pc[p] \in {"writing", "idle", "gone"}
=============================================================================
