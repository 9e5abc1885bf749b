--------------------- MODULE QSystemReadWriteLock_proof ---------------------
(***************************************************************************)
(* Proofs about QSystemReadWriteLock, for any finite set of processes:     *)
(* the typing invariant, mutual exclusion, the state of the idle lock and  *)
(* the refinement of ReadWriteLock.  All but the first need the hypothesis *)
(* UndoIsKept: a process that may be hit by a signal does not end.         *)
(***************************************************************************)
EXTENDS QSystemReadWriteLock, FiniteSetTheorems, TLAPS

UndoIsKept == Interrupted \cap Mortal = {}

-----------------------------------------------------------------------------
(* The inductive invariant: each semaphore counts the processes whose      *)
(* program counter says that they have moved it.                           *)

CountReaders == activeReaders = Cardinality(At({"reading"}))

CountWriters == totalWriters = Cardinality(At(Waiting \cup Holding))

\* ActiveWriterSem is 1 exactly when nobody is past it, and one process is.
SlotOfHolder ==
    /\ activeWriterSem \in {0, 1}
    /\ activeWriterSem = 1 <=> \A p \in Proc : pc[p] \notin Holding
    /\ \A p, q \in Proc : pc[p] \in Holding /\ pc[q] \in Holding => p = q

\* Once a writer has seen ActiveReaders = 0 no reader has come in.
ReadersStayOut ==
    \A p, q \in Proc :
        pc[p] = "reading" =>
            pc[q] \notin {"activate", "rollbackActivate"} \cup Holding

\* The kernel's undo entries of a process that may end are those that give
\* back exactly what it holds.
UndoExact ==
    \A p \in Mortal :
        /\ pc[p] # "rollbackActivate"
        /\ undo[p].readers = IF pc[p] = "reading" THEN -1 ELSE 0
        /\ undo[p].writers = IF pc[p] \in Waiting \cup Holding THEN -1 ELSE 0
        /\ undo[p].active = IF pc[p] \in Holding THEN 1 ELSE 0

IInv ==
    /\ TypeOK
    /\ CountReaders
    /\ CountWriters
    /\ SlotOfHolder
    /\ ReadersStayOut
    /\ UndoExact

-----------------------------------------------------------------------------
(* Moving one process changes the population of a set of labels by at most *)
(* one.                                                                    *)

LEMMA AtIsFinite ==
    ASSUME NEW L
    PROVE  /\ IsFiniteSet(At(L))
           /\ Cardinality(At(L)) \in Nat
           /\ Cardinality(At(L)) = 0 <=> At(L) = {}
BY ProcAssumption, FS_Subset, FS_CardinalityType, FS_EmptySet DEF At

LEMMA AtMove ==
    ASSUME NEW p \in Proc, pc \in [Proc -> Label],
           NEW label, Goto(p, label), NEW L
    PROVE  /\ At(L)' = IF label \in L THEN At(L) \cup {p} ELSE At(L) \ {p}
           /\ Cardinality(At(L))' =
                IF label \in L
                THEN IF pc[p] \in L THEN Cardinality(At(L))
                                    ELSE Cardinality(At(L)) + 1
                ELSE IF pc[p] \in L THEN Cardinality(At(L)) - 1
                                    ELSE Cardinality(At(L))
<1>1. /\ IsFiniteSet(At(L))
      /\ Cardinality(At(L)) \in Nat
  BY AtIsFinite
<1>2. At(L)' = IF label \in L THEN At(L) \cup {p} ELSE At(L) \ {p}
  BY DEF At, Goto
<1>3. p \in At(L) <=> pc[p] \in L
  BY DEF At
<1>4. /\ Cardinality(At(L) \cup {p}) =
             IF p \in At(L) THEN Cardinality(At(L)) ELSE Cardinality(At(L)) + 1
      /\ Cardinality(At(L) \ {p}) =
             IF p \in At(L) THEN Cardinality(At(L)) - 1 ELSE Cardinality(At(L))
  BY <1>1, FS_AddElement, FS_RemoveElement
<1>5. Cardinality(At(L))' = Cardinality(At(L)')
  OBVIOUS
<1>6. QED
  BY <1>2, <1>3, <1>4, <1>5

-----------------------------------------------------------------------------
\* Every state is well typed: no sequence of calls, signals and crashes makes
\* a semaphore negative.  No hypothesis on signals is needed.
THEOREM TypeCorrect == Spec => []TypeOK
<1>1. Init => TypeOK
  BY DEF Init, TypeOK, NoUndo, Label
<1>2. TypeOK /\ [Next]_vars => TypeOK'
  <2> SUFFICES ASSUME TypeOK, [Next]_vars PROVE TypeOK'
    OBVIOUS
  <2> USE DEF TypeOK, Label, Goto, sems
  <2>1. ASSUME NEW p \in Proc, Read(p) PROVE TypeOK'
    BY <2>1 DEF Read, lockForRead, EnterRead, InterruptRead
  <2>2. ASSUME NEW p \in Proc, Write(p) PROVE TypeOK'
    <3>1. CASE lockForWrite(p)
      BY <3>1 DEF lockForWrite
    <3>2. CASE Drained(p)
      BY <3>2 DEF Drained
    <3>3. CASE EnterWrite(p)
      BY <3>3 DEF EnterWrite
    <3>4. CASE InterruptWrite(p)
      BY <3>4 DEF InterruptWrite
    <3>5. CASE RollbackDrain(p)
      BY <3>5 DEF RollbackDrain
    <3>6. CASE RollbackActivate(p)
      BY <3>6 DEF RollbackActivate
    <3>7. QED
      BY <2>2, <3>1, <3>2, <3>3, <3>4, <3>5, <3>6 DEF Write
  <2>3. ASSUME NEW p \in Proc, Leave(p) PROVE TypeOK'
    <3>1. CASE unlock(p)
      BY <3>1 DEF unlock
    <3>2. CASE ReleaseWriter(p)
      BY <3>2 DEF ReleaseWriter
    <3>3. QED
      BY <2>3, <3>1, <3>2 DEF Leave
  <2>4. ASSUME NEW p \in Proc, Exit(p) PROVE TypeOK'
    BY <2>4 DEF Exit, Undone, NoUndo
  <2>5. ASSUME NEW p \in Proc, Restart(p) PROVE TypeOK'
    BY <2>5 DEF Restart
  <2>6. CASE UNCHANGED vars
    BY <2>6 DEF vars
  <2>7. QED
    BY <2>1, <2>2, <2>3, <2>4, <2>5, <2>6 DEF Next
<1>3. QED
  BY <1>1, <1>2, PTL DEF Spec

-----------------------------------------------------------------------------
(* The inductive step, one lemma for each group of actions.                *)

\* What one moving process does to the three counted populations.
LEMMA Populations ==
    ASSUME IInv, NEW p \in Proc, NEW label \in Label, Goto(p, label)
    PROVE  /\ pc' \in [Proc -> Label]
           /\ Cardinality(At({"reading"}))' =
                IF label = "reading"
                THEN IF pc[p] = "reading" THEN activeReaders
                                          ELSE activeReaders + 1
                ELSE IF pc[p] = "reading" THEN activeReaders - 1
                                          ELSE activeReaders
           /\ Cardinality(At(Waiting \cup Holding))' =
                IF label \in Waiting \cup Holding
                THEN IF pc[p] \in Waiting \cup Holding THEN totalWriters
                                                      ELSE totalWriters + 1
                ELSE IF pc[p] \in Waiting \cup Holding THEN totalWriters - 1
                                                      ELSE totalWriters
<1>1. pc \in [Proc -> Label]
  BY DEF IInv, TypeOK
<1>2. pc' \in [Proc -> Label]
  BY <1>1 DEF Goto
<1>3. Cardinality(At({"reading"}))' =
        IF label \in {"reading"}
        THEN IF pc[p] \in {"reading"} THEN Cardinality(At({"reading"}))
                                      ELSE Cardinality(At({"reading"})) + 1
        ELSE IF pc[p] \in {"reading"} THEN Cardinality(At({"reading"})) - 1
                                      ELSE Cardinality(At({"reading"}))
  BY <1>1, AtMove
<1>4. Cardinality(At(Waiting \cup Holding))' =
        IF label \in Waiting \cup Holding
        THEN IF pc[p] \in Waiting \cup Holding
             THEN Cardinality(At(Waiting \cup Holding))
             ELSE Cardinality(At(Waiting \cup Holding)) + 1
        ELSE IF pc[p] \in Waiting \cup Holding
             THEN Cardinality(At(Waiting \cup Holding)) - 1
             ELSE Cardinality(At(Waiting \cup Holding))
  BY <1>1, AtMove
<1>5. QED
  BY <1>2, <1>3, <1>4 DEF IInv, CountReaders, CountWriters

\* What the semaphores say about who is where.
LEMMA SemaphoresTell ==
    ASSUME IInv, NEW p \in Proc
    PROVE  /\ activeReaders = 0 => pc[p] # "reading"
           /\ totalWriters = 0 => pc[p] \notin Waiting \cup Holding
<1>1. /\ Cardinality(At({"reading"})) = 0 <=> At({"reading"}) = {}
      /\ Cardinality(At(Waiting \cup Holding)) = 0
            <=> At(Waiting \cup Holding) = {}
  BY AtIsFinite
<1>2. /\ p \in At({"reading"}) <=> pc[p] = "reading"
      /\ p \in At(Waiting \cup Holding) <=> pc[p] \in Waiting \cup Holding
  BY DEF At
<1>3. QED
  BY <1>1, <1>2 DEF IInv, CountReaders, CountWriters

LEMMA ReadStep ==
    ASSUME IInv, TypeOK', NEW p \in Proc, Read(p)
    PROVE  IInv'
<1> USE DEF IInv, TypeOK, Waiting, Holding, Label
<1>1. CASE lockForRead(p)
  <2>1. CountReaders' /\ CountWriters'
    BY <1>1, Populations DEF lockForRead, CountReaders, CountWriters, sems
  <2>2. SlotOfHolder' /\ ReadersStayOut'
    BY <1>1 DEF lockForRead, SlotOfHolder, ReadersStayOut, Goto, sems
  <2>3. UndoExact'
    BY <1>1, ProcAssumption DEF lockForRead, UndoExact, Goto, sems
  <2>4. QED
    BY <2>1, <2>2, <2>3
<1>2. CASE EnterRead(p)
  <2>1. CountReaders' /\ CountWriters'
    BY <1>2, Populations DEF EnterRead, CountReaders, CountWriters
  <2>2. \A q \in Proc : pc[q] \notin Waiting \cup Holding
    BY <1>2, SemaphoresTell DEF EnterRead
  <2>3. SlotOfHolder' /\ ReadersStayOut'
    BY <1>2, <2>2 DEF EnterRead, SlotOfHolder, ReadersStayOut, Goto
  <2>4. UndoExact'
    BY <1>2, ProcAssumption DEF EnterRead, UndoExact, Goto
  <2>5. QED
    BY <2>1, <2>3, <2>4
<1>3. CASE InterruptRead(p)
  <2>1. CountReaders' /\ CountWriters'
    BY <1>3, Populations DEF InterruptRead, CountReaders, CountWriters, sems
  <2>2. SlotOfHolder' /\ ReadersStayOut'
    BY <1>3 DEF InterruptRead, SlotOfHolder, ReadersStayOut, Goto, sems
  <2>3. UndoExact'
    BY <1>3, ProcAssumption DEF InterruptRead, UndoExact, Goto, sems
  <2>4. QED
    BY <2>1, <2>2, <2>3
<1>4. QED
  BY <1>1, <1>2, <1>3 DEF Read

LEMMA WriteStep ==
    ASSUME UndoIsKept, IInv, TypeOK', NEW p \in Proc, Write(p)
    PROVE  IInv'
<1> USE DEF IInv, TypeOK, Waiting, Holding, Label
<1>1. CASE lockForWrite(p)
  <2>1. CountReaders' /\ CountWriters'
    BY <1>1, Populations DEF lockForWrite, CountReaders, CountWriters
  <2>2. SlotOfHolder' /\ ReadersStayOut'
    BY <1>1 DEF lockForWrite, SlotOfHolder, ReadersStayOut, Goto
  <2>3. UndoExact'
    BY <1>1, ProcAssumption DEF lockForWrite, UndoExact, Goto
  <2>4. QED
    BY <2>1, <2>2, <2>3
<1>2. CASE Drained(p)
  <2>1. CountReaders' /\ CountWriters'
    BY <1>2, Populations DEF Drained, CountReaders, CountWriters, sems
  <2>2. \A q \in Proc : pc[q] # "reading"
    BY <1>2, SemaphoresTell DEF Drained
  <2>3. SlotOfHolder' /\ ReadersStayOut'
    BY <1>2, <2>2 DEF Drained, SlotOfHolder, ReadersStayOut, Goto, sems
  <2>4. UndoExact'
    BY <1>2, ProcAssumption DEF Drained, UndoExact, Goto, sems
  <2>5. QED
    BY <2>1, <2>3, <2>4
<1>3. CASE EnterWrite(p)
  <2>1. CountReaders' /\ CountWriters'
    BY <1>3, Populations DEF EnterWrite, CountReaders, CountWriters
  <2>2. /\ activeWriterSem = 1
        /\ \A q \in Proc : pc[q] \notin Holding
    BY <1>3 DEF EnterWrite, SlotOfHolder
  <2>3. SlotOfHolder' /\ ReadersStayOut'
    BY <1>3, <2>2 DEF EnterWrite, SlotOfHolder, ReadersStayOut, Goto
  <2>4. UndoExact'
    BY <1>3, ProcAssumption DEF EnterWrite, UndoExact, Goto
  <2>5. QED
    BY <2>1, <2>3, <2>4
<1>4. CASE InterruptWrite(p)
  <2>1. CountReaders' /\ CountWriters'
    <3>1. \/ pc[p] = "drain" /\ Goto(p, "rollbackDrain")
          \/ pc[p] = "activate" /\ Goto(p, "rollbackActivate")
      BY <1>4 DEF InterruptWrite
    <3>2. QED
      BY <1>4, <3>1, Populations
         DEF InterruptWrite, CountReaders, CountWriters, sems
  <2>2. SlotOfHolder' /\ ReadersStayOut'
    BY <1>4 DEF InterruptWrite, SlotOfHolder, ReadersStayOut, Goto, sems
  <2>3. UndoExact'
    <3>1. p \notin Mortal
      BY <1>4 DEF InterruptWrite, UndoIsKept
    <3>2. \A q \in Mortal : pc'[q] = pc[q] /\ undo'[q] = undo[q]
      BY <1>4, <3>1, ProcAssumption DEF InterruptWrite, Goto
    <3>3. QED
      BY <3>2 DEF UndoExact
  <2>4. QED
    BY <2>1, <2>2, <2>3
<1>5. CASE RollbackDrain(p)
  <2>1. CountReaders' /\ CountWriters'
    BY <1>5, Populations DEF RollbackDrain, CountReaders, CountWriters
  <2>2. SlotOfHolder' /\ ReadersStayOut'
    BY <1>5 DEF RollbackDrain, SlotOfHolder, ReadersStayOut, Goto
  <2>3. UndoExact'
    BY <1>5, ProcAssumption DEF RollbackDrain, UndoExact, Goto
  <2>4. QED
    BY <2>1, <2>2, <2>3
<1>6. CASE RollbackActivate(p)
  <2>1. CountReaders' /\ CountWriters'
    BY <1>6, Populations DEF RollbackActivate, CountReaders, CountWriters
  <2>2. SlotOfHolder' /\ ReadersStayOut'
    BY <1>6 DEF RollbackActivate, SlotOfHolder, ReadersStayOut, Goto
  <2>3. UndoExact'
    BY <1>6, ProcAssumption DEF RollbackActivate, UndoExact, Goto
  <2>4. QED
    BY <2>1, <2>2, <2>3
<1>7. QED
  BY <1>1, <1>2, <1>3, <1>4, <1>5, <1>6 DEF Write

LEMMA LeaveStep ==
    ASSUME IInv, TypeOK', NEW p \in Proc, Leave(p)
    PROVE  IInv'
<1> USE DEF IInv, TypeOK, Waiting, Holding, Label
<1>1. CASE unlock(p)
  <2>1. \/ /\ pc[p] = "reading"
           /\ activeReaders > 0
           /\ activeReaders' = activeReaders - 1
           /\ undo' = [undo EXCEPT ![p].readers = @ + 1]
           /\ Goto(p, "idle")
        \/ /\ pc[p] = "writing"
           /\ Goto(p, "release")
           /\ UNCHANGED <<activeReaders, undo>>
    <3>1. CASE activeReaders = 0
      BY <1>1, <3>1, SemaphoresTell DEF unlock
    <3>2. CASE activeReaders > 0
      <4>1. PICK q \in Proc : pc[q] = "reading"
        <5>1. At({"reading"}) # {}
          BY <3>2, AtIsFinite DEF CountReaders
        <5>2. QED
          BY <5>1 DEF At
      <4>2. pc[p] # "writing"
        BY <4>1 DEF ReadersStayOut
      <4>3. QED
        BY <1>1, <3>2, <4>2 DEF unlock
    <3>3. QED
      BY <3>1, <3>2
  <2>2. CountReaders' /\ CountWriters'
    BY <1>1, <2>1, Populations DEF unlock, CountReaders, CountWriters
  <2>3. SlotOfHolder' /\ ReadersStayOut'
    BY <1>1, <2>1 DEF unlock, SlotOfHolder, ReadersStayOut, Goto
  <2>4. UndoExact'
    BY <2>1, ProcAssumption DEF UndoExact, Goto
  <2>5. QED
    BY <2>2, <2>3, <2>4
<1>2. CASE ReleaseWriter(p)
  <2>1. activeWriterSem = 0
    BY <1>2 DEF ReleaseWriter, SlotOfHolder
  <2>2. CountReaders' /\ CountWriters'
    BY <1>2, <2>1, Populations DEF ReleaseWriter, CountReaders, CountWriters
  <2>3. SlotOfHolder' /\ ReadersStayOut'
    BY <1>2, <2>1 DEF ReleaseWriter, SlotOfHolder, ReadersStayOut, Goto
  <2>4. UndoExact'
    BY <1>2, <2>1, ProcAssumption DEF ReleaseWriter, UndoExact, Goto
  <2>5. QED
    BY <2>2, <2>3, <2>4
<1>3. QED
  BY <1>1, <1>2 DEF Leave

LEMMA ExitStep ==
    ASSUME IInv, TypeOK', NEW p \in Proc, Exit(p)
    PROVE  IInv'
<1> USE DEF IInv, TypeOK, Waiting, Holding, Label
<1>1. /\ pc[p] # "gone"
      /\ Goto(p, "gone")
  BY DEF Exit, UndoExact
<1>2. /\ activeReaders' = IF pc[p] = "reading" THEN activeReaders - 1
                                               ELSE activeReaders
      /\ totalWriters' = IF pc[p] \in Waiting \cup Holding
                         THEN totalWriters - 1 ELSE totalWriters
      /\ activeWriterSem' = IF pc[p] \in Holding
                            THEN activeWriterSem + 1 ELSE activeWriterSem
  BY <1>1, SemaphoresTell DEF Exit, UndoExact, SlotOfHolder, Undone
<1>3. CountReaders' /\ CountWriters'
  BY <1>1, <1>2, Populations DEF CountReaders, CountWriters
<1>4. SlotOfHolder' /\ ReadersStayOut'
  BY <1>1, <1>2 DEF SlotOfHolder, ReadersStayOut, Goto
<1>5. UndoExact'
  BY <1>1, ProcAssumption DEF Exit, UndoExact, NoUndo, Goto
<1>6. QED
  BY <1>3, <1>4, <1>5

LEMMA RestartStep ==
    ASSUME IInv, TypeOK', NEW p \in Proc, Restart(p)
    PROVE  IInv'
<1> USE DEF IInv, TypeOK, Waiting, Holding, Label, Restart, sems
<1>1. CountReaders' /\ CountWriters'
  BY Populations DEF CountReaders, CountWriters
<1>2. SlotOfHolder' /\ ReadersStayOut'
  BY DEF SlotOfHolder, ReadersStayOut, Goto
<1>3. UndoExact'
  BY ProcAssumption DEF UndoExact, Goto
<1>4. QED
  BY <1>1, <1>2, <1>3

LEMMA InitIInv == Init => IInv
<1> SUFFICES ASSUME Init PROVE IInv
  OBVIOUS
<1>1. TypeOK
  BY DEF Init, TypeOK, NoUndo, Label
<1>2. At({"reading"}) = {} /\ At(Waiting \cup Holding) = {}
  BY DEF Init, At, Waiting, Holding
<1>3. CountReaders /\ CountWriters
  BY <1>2, FS_EmptySet DEF Init, CountReaders, CountWriters
<1>4. SlotOfHolder /\ ReadersStayOut
  BY DEF Init, SlotOfHolder, ReadersStayOut, Holding
<1>5. UndoExact
  BY ProcAssumption DEF Init, UndoExact, NoUndo, Waiting, Holding
<1>6. QED
  BY <1>1, <1>3, <1>4, <1>5 DEF IInv

LEMMA NextIInv ==
    ASSUME UndoIsKept, IInv, TypeOK', [Next]_vars
    PROVE  IInv'
<1>1. ASSUME NEW p \in Proc, Read(p) PROVE IInv'
  BY <1>1, ReadStep
<1>2. ASSUME NEW p \in Proc, Write(p) PROVE IInv'
  BY <1>2, WriteStep
<1>3. ASSUME NEW p \in Proc, Leave(p) PROVE IInv'
  BY <1>3, LeaveStep
<1>4. ASSUME NEW p \in Proc, Exit(p) PROVE IInv'
  BY <1>4, ExitStep
<1>5. ASSUME NEW p \in Proc, Restart(p) PROVE IInv'
  BY <1>5, RestartStep
<1>6. CASE UNCHANGED vars
  <2>1. CountReaders' /\ CountWriters'
    BY <1>6 DEF vars, IInv, CountReaders, CountWriters, At
  <2>2. SlotOfHolder' /\ ReadersStayOut' /\ UndoExact'
    BY <1>6 DEF vars, IInv, SlotOfHolder, ReadersStayOut, UndoExact
  <2>3. QED
    BY <2>1, <2>2 DEF IInv
<1>7. QED
  BY <1>1, <1>2, <1>3, <1>4, <1>5, <1>6 DEF Next

\* The semaphores count the processes that have moved them, in every reachable
\* state: the inductive invariant of lock, unlock, signals and crashes.
THEOREM Invariance ==
    ASSUME UndoIsKept
    PROVE  Spec => []IInv
<1>1. Init => IInv
  BY InitIInv
<1>2. IInv /\ TypeOK' /\ [Next]_vars => IInv'
  BY NextIInv
<1>3. QED
  BY <1>1, <1>2, TypeCorrect, PTL DEF Spec

\* A writer is alone in the lock, whatever processes crash and whatever
\* other processes are interrupted by signals.
THEOREM MutualExclusionHolds ==
    ASSUME UndoIsKept
    PROVE  Spec => []MutualExclusion
<1>1. IInv => MutualExclusion
  BY DEF IInv, MutualExclusion, SlotOfHolder, ReadersStayOut, At
<1>2. QED
  BY <1>1, Invariance, PTL

\* Crashes and interrupted calls leak nothing: with nobody inside, all
\* semaphores have their initial values.
THEOREM QuiescentIsFreeHolds ==
    ASSUME UndoIsKept
    PROVE  Spec => []QuiescentIsFree
<1>1. IInv => QuiescentIsFree
  <2> SUFFICES ASSUME IInv,
                      \A p \in Proc : pc[p] \in {"idle", "rdwait", "gone"}
               PROVE  /\ activeReaders = 0
                      /\ totalWriters = 0
                      /\ activeWriterSem = 1
    BY DEF QuiescentIsFree
  <2>1. At({"reading"}) = {} /\ At(Waiting \cup Holding) = {}
    BY DEF At, Waiting, Holding
  <2>2. activeReaders = 0 /\ totalWriters = 0
    BY <2>1, FS_EmptySet DEF IInv, CountReaders, CountWriters
  <2>3. activeWriterSem = 1
    BY DEF IInv, SlotOfHolder, Holding
  <2>4. QED
    BY <2>2, <2>3
<1>2. QED
  BY <1>1, Invariance, PTL

\* unlock never gives back what another process holds.
THEOREM UnlockGivesBackOwnHolds ==
    ASSUME UndoIsKept
    PROVE  Spec => []UnlockGivesBackOwn
<1>1. IInv => UnlockGivesBackOwn
  <2> SUFFICES ASSUME IInv, NEW p \in Proc
               PROVE  /\ pc[p] = "reading" => activeReaders > 0
                      /\ pc[p] = "writing" => activeReaders = 0
                      /\ pc[p] = "release" =>
                            activeWriterSem = 0 /\ totalWriters > 0
    BY DEF UnlockGivesBackOwn
  <2> USE DEF IInv, Holding, Waiting
  <2>1. activeReaders \in Nat /\ totalWriters \in Nat
    BY DEF TypeOK
  <2>2. pc[p] = "reading" => activeReaders > 0
    BY <2>1, SemaphoresTell
  <2>3. ASSUME pc[p] = "writing" PROVE activeReaders = 0
    <3>1. At({"reading"}) = {}
      BY <2>3 DEF ReadersStayOut, At
    <3>2. QED
      BY <3>1, FS_EmptySet DEF CountReaders
  <2>4. pc[p] = "release" => activeWriterSem = 0 /\ totalWriters > 0
    BY <2>1, SemaphoresTell DEF SlotOfHolder
  <2>5. QED
    BY <2>2, <2>3, <2>4
<1>2. QED
  BY <1>1, Invariance, PTL

-----------------------------------------------------------------------------
(* Refinement: each step of the semaphores is a step of the abstract lock  *)
(* or leaves it alone.                                                     *)

LEMMA InitRefines == Init => RWLock!Init
BY DEF Init, RWLock!Init, At, Waiting, Holding

\* How the abstract sets change when one process moves.
LEMMA AbstractMove ==
    ASSUME pc \in [Proc -> Label], NEW p \in Proc, NEW label, Goto(p, label)
    PROVE  /\ p \in At({"reading"}) <=> pc[p] = "reading"
           /\ p \in At(Holding) <=> pc[p] \in Holding
           /\ p \in At(Waiting) <=> pc[p] \in Waiting
           /\ At({"reading"})' = IF label = "reading"
                                 THEN At({"reading"}) \cup {p}
                                 ELSE At({"reading"}) \ {p}
           /\ At(Holding)' = IF label \in Holding THEN At(Holding) \cup {p}
                                                 ELSE At(Holding) \ {p}
           /\ At(Waiting)' = IF label \in Waiting THEN At(Waiting) \cup {p}
                                                 ELSE At(Waiting) \ {p}
<1>1. At({"reading"})' = IF label \in {"reading"} THEN At({"reading"}) \cup {p}
                                                 ELSE At({"reading"}) \ {p}
  BY AtMove
<1>2. At(Holding)' = IF label \in Holding THEN At(Holding) \cup {p}
                                         ELSE At(Holding) \ {p}
  BY AtMove
<1>3. At(Waiting)' = IF label \in Waiting THEN At(Waiting) \cup {p}
                                         ELSE At(Waiting) \ {p}
  BY AtMove
<1>4. /\ p \in At({"reading"}) <=> pc[p] = "reading"
      /\ p \in At(Holding) <=> pc[p] \in Holding
      /\ p \in At(Waiting) <=> pc[p] \in Waiting
  BY DEF At
<1>5. QED
  BY <1>1, <1>2, <1>3, <1>4

LEMMA NextRefines ==
    ASSUME IInv, [Next]_vars
    PROVE  [RWLock!Next]_(RWLock!rwvars)
<1> DEFINE Abstract == [RWLock!Next]_(RWLock!rwvars)
<1>1. pc \in [Proc -> Label]
  BY DEF IInv, TypeOK
<1>2. ASSUME At({"reading"})' = At({"reading"}),
             At(Holding)' = At(Holding),
             At(Waiting)' = At(Waiting)
      PROVE  Abstract
  BY <1>2 DEF RWLock!rwvars
<1>3. ASSUME NEW p \in Proc, NEW label, Goto(p, label),
             label = "reading" <=> pc[p] = "reading",
             label \in Holding <=> pc[p] \in Holding,
             label \in Waiting <=> pc[p] \in Waiting
      PROVE  Abstract
  BY <1>1, <1>2, <1>3, AbstractMove
<1>4. ASSUME NEW p \in Proc, NEW label, Goto(p, label),
             label \notin {"reading"} \cup Waiting \cup Holding
      PROVE  Abstract
  <2>1. /\ pc[p] = "reading" => pc[p] \notin Waiting \cup Holding
        /\ pc[p] \in Waiting => pc[p] \notin Holding
    BY DEF Waiting, Holding
  <2>2. /\ pc[p] # "reading" => At({"reading"})' = At({"reading"})
        /\ pc[p] \notin Holding => At(Holding)' = At(Holding)
        /\ pc[p] \notin Waiting => At(Waiting)' = At(Waiting)
    <3>1. /\ At({"reading"})' = At({"reading"}) \ {p}
          /\ At(Holding)' = At(Holding) \ {p}
          /\ At(Waiting)' = At(Waiting) \ {p}
      BY <1>1, <1>4, AbstractMove
    <3>2. /\ p \in At({"reading"}) <=> pc[p] = "reading"
          /\ p \in At(Holding) <=> pc[p] \in Holding
          /\ p \in At(Waiting) <=> pc[p] \in Waiting
      BY <1>1, <1>4, AbstractMove
    <3>3. \A S : p \notin S => S \ {p} = S
      OBVIOUS
    <3>4. QED
      BY <3>1, <3>2, <3>3
  <2>3. CASE pc[p] = "reading"
    <3>1. RWLock!ReleaseRead(p)
      BY <1>1, <1>4, <2>1, <2>2, <2>3, AbstractMove DEF RWLock!ReleaseRead
    <3>2. QED
      BY <3>1 DEF RWLock!Next
  <2>4. CASE pc[p] \in Holding
    <3>1. RWLock!ReleaseWrite(p)
      BY <1>1, <1>4, <2>1, <2>2, <2>4, AbstractMove DEF RWLock!ReleaseWrite
    <3>2. QED
      BY <3>1 DEF RWLock!Next
  <2>5. CASE pc[p] \in Waiting
    <3>1. RWLock!Withdraw(p)
      BY <1>1, <1>4, <2>1, <2>2, <2>5, AbstractMove DEF RWLock!Withdraw
    <3>2. QED
      BY <3>1 DEF RWLock!Next
  <2>6. CASE pc[p] \notin {"reading"} \cup Waiting \cup Holding
    BY <1>3, <1>4, <2>6
  <2>7. QED
    BY <2>3, <2>4, <2>5, <2>6
<1>5. ASSUME NEW p \in Proc, Read(p) PROVE Abstract
  <2>1. CASE lockForRead(p)
    BY <2>1, <1>3 DEF Waiting, Holding, lockForRead
  <2>2. CASE EnterRead(p)
    <3>1. At(Holding) = {} /\ At(Waiting) = {}
      BY <2>2, SemaphoresTell DEF EnterRead, At
    <3>2. RWLock!AcquireRead(p)
      BY <2>2, <3>1, <1>1, AbstractMove DEF Waiting, Holding, EnterRead, RWLock!AcquireRead
    <3>3. QED
      BY <3>2 DEF RWLock!Next
  <2>3. CASE InterruptRead(p)
    BY <2>3, <1>3 DEF Waiting, Holding, InterruptRead
  <2>4. QED
    BY <1>5, <2>1, <2>2, <2>3 DEF Read
<1>6. ASSUME NEW p \in Proc, Write(p) PROVE Abstract
  <2>1. CASE lockForWrite(p)
    <3>1. RWLock!Request(p)
      BY <2>1, <1>1, AbstractMove DEF Waiting, Holding, lockForWrite, RWLock!Request
    <3>2. QED
      BY <3>1 DEF RWLock!Next
  <2>2. CASE Drained(p)
    BY <2>2, <1>3 DEF Waiting, Holding, Drained
  <2>3. CASE EnterWrite(p)
    <3>1. At({"reading"}) = {} /\ At(Holding) = {}
      BY <2>3 DEF EnterWrite, IInv, SlotOfHolder, ReadersStayOut, At
    <3>2. RWLock!AcquireWrite(p)
      BY <2>3, <3>1, <1>1, AbstractMove DEF Waiting, Holding, EnterWrite, RWLock!AcquireWrite
    <3>3. QED
      BY <3>2 DEF RWLock!Next
  <2>4. CASE InterruptWrite(p)
    BY <2>4, <1>3 DEF Waiting, Holding, InterruptWrite
  <2>5. CASE RollbackDrain(p) \/ RollbackActivate(p)
    BY <2>5, <1>4 DEF RollbackDrain, RollbackActivate, Waiting, Holding
  <2>6. QED
    BY <1>6, <2>1, <2>2, <2>3, <2>4, <2>5 DEF Write
<1>7. ASSUME NEW p \in Proc, Leave(p) PROVE Abstract
  <2>1. CASE unlock(p) /\ pc[p] = "reading"
    <3>1. Goto(p, "idle")
      BY <2>1, SemaphoresTell DEF unlock
    <3>2. QED
      BY <3>1, <1>4 DEF Waiting, Holding
  <2>2. CASE unlock(p) /\ pc[p] = "writing"
    <3>1. At({"reading"}) = {}
      BY <2>2 DEF IInv, ReadersStayOut, At, Holding
    <3>2. activeReaders = 0
      BY <3>1, FS_EmptySet DEF IInv, CountReaders
    <3>3. Goto(p, "release")
      BY <2>2, <3>2 DEF unlock
    <3>4. QED
      BY <2>2, <3>3, <1>3 DEF Waiting, Holding
  <2>3. CASE ReleaseWriter(p)
    BY <2>3, <1>4 DEF ReleaseWriter, Waiting, Holding
  <2>4. QED
    BY <1>7, <2>1, <2>2, <2>3 DEF Leave, unlock
<1>8. ASSUME NEW p \in Proc, Exit(p) PROVE Abstract
  BY <1>8, <1>4 DEF Exit, Waiting, Holding
<1>9. ASSUME NEW p \in Proc, Restart(p) PROVE Abstract
  BY <1>9, <1>3 DEF Waiting, Holding, Restart
<1>10. CASE UNCHANGED vars
  BY <1>10, <1>2 DEF vars, At
<1>11. QED
  BY <1>5, <1>6, <1>7, <1>8, <1>9, <1>10 DEF Next

\* The semaphore implementation is a read-write lock whose writers take
\* precedence over readers.
THEOREM Refinement ==
    ASSUME UndoIsKept
    PROVE  Spec => ImplementsReadWriteLock
<1>1. IInv /\ [Next]_vars => [RWLock!Next]_(RWLock!rwvars)
  BY NextRefines
<1>2. QED
  BY <1>1, InitRefines, Invariance, PTL
     DEF Spec, ImplementsReadWriteLock, RWLock!Spec
=============================================================================
