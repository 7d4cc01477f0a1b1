-------------------------- MODULE IndexLockProofs ---------------------------
(***************************************************************************)
(* Proofs about IndexLock, for any set of threads and processes:           *)
(*   - the type invariant, signals included;                               *)
(*   - without signals, mutual exclusion inside every process, through the *)
(*     inductive invariant Held: a thread in its section holds the flag of *)
(*     its process and nobody else does;                                   *)
(*   - without signals, and in one process, that the runs and deletions    *)
(*     implement RunMutex.                                                 *)
(***************************************************************************)
EXTENDS IndexLock, TLAPS

(* Every state has the types of TypeOK, and a thread that publishes, runs or *)
(* retracts a pipeline has one: nothing the signal handler does breaks that. *)
THEOREM TypeCorrect == Spec => []TypeOK
<1> USE RolesAssumption DEF Pcs, Idle, HandlerPcs, Threads, ServerProcs
<1>1. Init => TypeOK
  BY DEF Init, TypeOK
<1>2. TypeOK /\ [Next]_vars => TypeOK'
  <2> SUFFICES ASSUME TypeOK, [Next]_vars PROVE TypeOK'
    OBVIOUS
  <2> USE DEF TypeOK, threadVars, sigVars, Goto, HGoto, NewPipeline
  <2>1. ASSUME NEW t \in Threads, StartIndex(t) PROVE TypeOK'
    BY <2>1 DEF StartIndex
  <2>2. ASSUME NEW t \in Threads, StartDelete(t) PROVE TypeOK'
    BY <2>2 DEF StartDelete
  <2>3. ASSUME NEW t \in Threads, TryLock(t) PROVE TypeOK'
    <3>1. CASE NewPipeline(t) /\ Goto(t, "run")
      BY <2>3, <3>1 DEF TryLock
    <3>2. CASE Goto(t, "unlock") /\ UNCHANGED <<live, cancelled>>
      BY <2>3, <3>2 DEF TryLock
    <3> QED BY <2>3, <3>1, <3>2 DEF TryLock
  <2>4. ASSUME NEW t \in Threads, Lock(t) PROVE TypeOK'
    BY <2>4 DEF Lock
  <2>5. ASSUME NEW t \in Threads, Publish(t) PROVE TypeOK'
    BY <2>5 DEF Publish
  <2>6. ASSUME NEW t \in Threads, RunEnds(t) PROVE TypeOK'
    BY <2>6 DEF RunEnds
  <2>7. ASSUME NEW t \in Threads, Retract(t) PROVE TypeOK'
    BY <2>7 DEF Retract
  <2>8. ASSUME NEW t \in Threads, Unlink(t) PROVE TypeOK'
    BY <2>8 DEF Unlink
  <2>9. ASSUME NEW t \in Threads, Unlock(t) PROVE TypeOK'
    BY <2>9 DEF Unlock
  <2>10. ASSUME NEW t \in Threads, FreePipeline(t) PROVE TypeOK'
    BY <2>10 DEF FreePipeline
  <2>11. ASSUME NEW p \in Procs, SignalArrives(p) PROVE TypeOK'
    BY <2>11 DEF SignalArrives
  <2>12. ASSUME NEW p \in Procs, HandlerReads(p) PROVE TypeOK'
    BY <2>12 DEF HandlerReads
  <2>13. ASSUME NEW p \in Procs, HandlerCancels(p) PROVE TypeOK'
    BY <2>13 DEF HandlerCancels
  <2>14. ASSUME NEW p \in Procs, HandlerUnlocks(p) PROVE TypeOK'
    BY <2>14 DEF HandlerUnlocks
  <2>15. ASSUME NEW p \in Procs, HandlerStops(p) PROVE TypeOK'
    BY <2>15 DEF HandlerStops
  <2>16. CASE UNCHANGED vars
    BY <2>16 DEF vars
  <2> QED
    BY <2>1, <2>2, <2>3, <2>4, <2>5, <2>6, <2>7, <2>8, <2>9, <2>10, <2>11,
       <2>12, <2>13, <2>14, <2>15, <2>16 DEF Next, Thread, Handler
<1>3. QED
  BY <1>1, <1>2, PTL DEF Spec

-----------------------------------------------------------------------------
(* Without signals                                                           *)

NoSignals == MaxSignals = 0

\* A thread in its section holds the flag, and only a server's own run is shown
\* as active.
Held ==
  /\ \A p \in Procs : hpc[p] = "off"
  /\ \A t \in Threads : InSection(t) => busy[ProcOf[t]]
  /\ \A t \in Threads : pc[t] = "publish" => t \in RpcThreads
  /\ \A t \in Threads : active[t] => t \in RpcThreads /\ pc[t] \in {"run", "retract"}

LockInv == TypeOK /\ Held /\ Exclusion

LEMMA InitEstablishesLockInv == Init => LockInv
BY RolesAssumption
   DEF Init, LockInv, Held, Exclusion, InSection, TypeOK, Pcs, Idle, HandlerPcs

(* The handler cannot start, so its steps are impossible.                    *)
LEMMA HandlerIsOff ==
  ASSUME NoSignals, TypeOK, Held, NEW p \in Procs
  PROVE  ~Handler(p)
BY DEF NoSignals, TypeOK, Held, Handler, SignalArrives, HandlerReads,
       HandlerCancels, HandlerUnlocks, HandlerStops

(* A step that takes the lock finds no thread of its process in its section. *)
LEMMA LockInvInductive ==
  ASSUME NoSignals, LockInv, [Next]_vars, TypeOK'
  PROVE  LockInv'
<1> USE RolesAssumption DEF LockInv, Held, Exclusion, InSection, Idle, Goto,
        sigVars, NewPipeline
<1>1. ASSUME NEW t \in Threads, StartIndex(t) PROVE LockInv'
  BY <1>1 DEF StartIndex, TypeOK
<1>2. ASSUME NEW t \in Threads, StartDelete(t) PROVE LockInv'
  BY <1>2 DEF StartDelete, TypeOK
<1>3. ASSUME NEW t \in Threads, TryLock(t) PROVE LockInv'
  <2>1. CASE Goto(t, "run")
    BY <1>3, <2>1 DEF TryLock, TypeOK
  <2>2. CASE Goto(t, "unlock")
    BY <1>3, <2>2 DEF TryLock, TypeOK
  <2> QED BY <1>3, <2>1, <2>2 DEF TryLock
<1>4. ASSUME NEW t \in Threads, Lock(t) PROVE LockInv'
  BY <1>4 DEF Lock, TypeOK
<1>5. ASSUME NEW t \in Threads, Publish(t) PROVE LockInv'
  BY <1>5 DEF Publish, TypeOK
<1>6. ASSUME NEW t \in Threads, RunEnds(t) PROVE LockInv'
  BY <1>6 DEF RunEnds, TypeOK
<1>7. ASSUME NEW t \in Threads, Retract(t) PROVE LockInv'
  BY <1>7 DEF Retract, TypeOK
<1>8. ASSUME NEW t \in Threads, Unlink(t) PROVE LockInv'
  BY <1>8 DEF Unlink, TypeOK
<1>9. ASSUME NEW t \in Threads, Unlock(t) PROVE LockInv'
  BY <1>9 DEF Unlock, TypeOK
<1>10. ASSUME NEW t \in Threads, FreePipeline(t) PROVE LockInv'
  BY <1>10 DEF FreePipeline, TypeOK
<1>11. ASSUME NEW p \in ServerProcs, Handler(p) PROVE LockInv'
  BY <1>11, HandlerIsOff DEF ServerProcs, Threads
<1>12. CASE UNCHANGED vars
  BY <1>12 DEF vars, threadVars
<1> QED
  BY <1>1, <1>2, <1>3, <1>4, <1>5, <1>6, <1>7, <1>8, <1>9, <1>10, <1>11,
     <1>12 DEF Next, Thread

LEMMA LockInvHolds == ASSUME NoSignals PROVE Spec => []LockInv
<1>1. LockInv /\ [Next]_vars /\ TypeOK' => LockInv'
  BY LockInvInductive
<1> QED
  BY <1>1, InitEstablishesLockInv, TypeCorrect, PTL DEF Spec

(* In every process at most one thread at a time runs a pipeline or deletes  *)
(* a database, as long as no signal arrives.                                 *)
THEOREM MutualExclusion == ASSUME NoSignals PROVE Spec => []Exclusion
<1>1. LockInv => Exclusion
  BY DEF LockInv
<1> QED
  BY <1>1, LockInvHolds, PTL

(* What a server shows as active is allocated, is run under the lock, and is *)
(* the only one its process shows.                                           *)
THEOREM ActivePipelineIsLive == ASSUME NoSignals PROVE Spec => []ActiveIsTheRunner
<1>1. LockInv => ActiveIsTheRunner
  BY DEF LockInv, Held, Exclusion, InSection, TypeOK, ActiveIsTheRunner
<1> QED
  BY <1>1, LockInvHolds, PTL

-----------------------------------------------------------------------------
(* Refinement, for the threads of one process                                *)

OneProcess == \A p, q \in Procs : p = q

\* Exclusion makes the CHOOSE in Holder a function of the section.
LEMMA HolderIsInSection ==
  ASSUME OneProcess, LockInv
  PROVE  /\ \A t \in Threads : InSection(t) => Holder = t
         /\ (\A t \in Threads : ~InSection(t)) => Holder = NoThread
<1>1. \A t, u \in Threads : InSection(t) /\ InSection(u) => t = u
  BY RolesAssumption DEF OneProcess, LockInv, Exclusion
<1>2. ASSUME NEW t \in Threads, InSection(t) PROVE Holder = t
  <2>1. \E u \in Threads : InSection(u)
    BY <1>2
  <2>2. /\ (CHOOSE u \in Threads : InSection(u)) \in Threads
        /\ InSection(CHOOSE u \in Threads : InSection(u))
    BY <2>1
  <2> QED BY <1>1, <1>2, <2>1, <2>2 DEF Holder
<1> QED BY <1>2 DEF Holder

\* The same fact about the state after a step.
LEMMA HolderIsInSectionNext ==
  ASSUME OneProcess, LockInv'
  PROVE  /\ \A t \in Threads : InSection(t)' => Holder' = t
         /\ (\A t \in Threads : ~InSection(t)') => Holder' = NoThread
<1>1. \A t, u \in Threads : InSection(t)' /\ InSection(u)' => t = u
  BY RolesAssumption DEF OneProcess, LockInv, Exclusion
<1>2. ASSUME NEW t \in Threads, InSection(t)' PROVE Holder' = t
  <2>1. \E u \in Threads : InSection(u)'
    BY <1>2
  <2>2. /\ (CHOOSE u \in Threads : InSection(u)') \in Threads
        /\ (CHOOSE u \in Threads : InSection(u)') \in {v \in Threads : InSection(v)'}
    BY <2>1
  <2> QED BY <1>1, <1>2, <2>1, <2>2 DEF Holder
<1> QED BY <1>2 DEF Holder

\* A step that moves no thread into or out of its section leaves the holder.
LEMMA SameSectionsSameHolder ==
  ASSUME OneProcess, LockInv, LockInv',
         \A t \in Threads : InSection(t)' <=> InSection(t)
  PROVE  Holder' = Holder
<1>1. CASE \E t \in Threads : InSection(t)
  <2>1. PICK t \in Threads : InSection(t)
    BY <1>1
  <2>2. Holder = t
    BY <2>1, HolderIsInSection
  <2>3. Holder' = t
    BY <2>1, HolderIsInSectionNext
  <2> QED BY <2>2, <2>3
<1>2. CASE \A t \in Threads : ~InSection(t)
  BY <1>2, HolderIsInSection, HolderIsInSectionNext
<1> QED BY <1>1, <1>2

LEMMA EveryStepRefines ==
  ASSUME NoSignals, OneProcess, LockInv, LockInv', [Next]_vars
  PROVE  [RM!Next]_Holder
<1> DEFINE Same == \A t \in Threads : InSection(t)' <=> InSection(t)
<1> SUFFICES Same \/ RM!Next
  BY SameSectionsSameHolder
<1>0. pc \in [Threads -> Pcs]
  BY DEF LockInv, TypeOK
<1>a. \A t \in Threads, to \in Pcs :
        Goto(t, to) => pc'[t] = to /\ \A u \in Threads \ {t} : pc'[u] = pc[u]
  BY <1>0 DEF Goto
<1> USE DEF InSection, Pcs, Idle
<1>1. ASSUME NEW t \in Threads, Lock(t) \/ TryLock(t) PROVE RM!Next
  <2>1. \A u \in Threads : ~InSection(u)
    BY <1>1, RolesAssumption DEF Lock, TryLock, LockInv, Held, OneProcess
  <2>2. InSection(t)'
    BY <1>1, <1>a DEF Lock, TryLock
  <2>3. Holder = NoThread /\ Holder' = t
    BY <2>1, <2>2, HolderIsInSection, HolderIsInSectionNext
  <2> QED BY <2>3 DEF RM!Next, RM!Enter
<1>2. ASSUME NEW t \in Threads, Unlock(t) PROVE RM!Next
  <2>1. InSection(t) /\ ~InSection(t)' /\ \A u \in Threads \ {t} : pc'[u] = pc[u]
    BY <1>2, <1>a DEF Unlock
  <2>2. \A u \in Threads : ~InSection(u)'
    BY <2>1, RolesAssumption DEF LockInv, Exclusion, OneProcess
  <2>3. Holder = t /\ Holder' = NoThread
    BY <2>1, <2>2, HolderIsInSection, HolderIsInSectionNext
  <2> QED BY <2>3 DEF RM!Next, RM!Leave
<1>3. ASSUME NEW t \in Threads, StartIndex(t) \/ StartDelete(t) \/ FreePipeline(t)
      PROVE Same
  BY <1>3, <1>a DEF StartIndex, StartDelete, FreePipeline
<1>4. ASSUME NEW t \in Threads, Publish(t) \/ RunEnds(t) \/ Retract(t) \/ Unlink(t)
      PROVE Same
  BY <1>4, <1>a DEF Publish, RunEnds, Retract, Unlink
<1>5. ASSUME NEW p \in ServerProcs, Handler(p) PROVE FALSE
  BY <1>5, HandlerIsOff, RolesAssumption DEF LockInv, ServerProcs, Threads
<1>6. CASE UNCHANGED vars
  BY <1>6 DEF vars, threadVars
<1> QED
  BY <1>1, <1>2, <1>3, <1>4, <1>5, <1>6 DEF Next, Thread

(* The indexing runs and deletions of one process implement RunMutex: the    *)
(* right to touch the database is taken when free and handed over only by    *)
(* being released.                                                           *)
THEOREM ImplementsRunMutex ==
  ASSUME NoSignals, OneProcess PROVE Spec => RunsOneAtATime
<1>1. Init => RM!Init
  <2> SUFFICES ASSUME Init PROVE Holder = NoThread
    BY DEF RM!Init
  <2> QED BY DEF Init, InSection, Holder, Idle
<1>2. LockInv /\ LockInv' /\ [Next]_vars => [RM!Next]_Holder
  BY EveryStepRefines
<1> QED
  BY <1>1, <1>2, LockInvHolds, PTL DEF Spec, RunsOneAtATime, RM!Spec
=============================================================================
