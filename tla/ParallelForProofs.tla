-------------------------- MODULE ParallelForProofs --------------------------
(***************************************************************************)
(* Theorems about ParallelFor for every number of iterations and workers.  *)
(* The inductive invariant says what the atomic counter stands for: the    *)
(* indices below it, and no others, have been claimed, each by one call,   *)
(* and a claimed index that is not finished is in the hands of a thread.   *)
(***************************************************************************)
EXTENDS ParallelFor, TLAPS

CounterMeansBegun == \A i \in Indices : begun[i] = IF i < next THEN 1 ELSE 0

InHands(t) ==
  pc[t] = "fn" => idx[t] < next /\ finished[idx[t]] = 0

OneHolder ==
  \A t, u \in Threads : pc[t] = "fn" /\ pc[u] = "fn" /\ idx[t] = idx[u] => t = u

OthersFinished ==
  \A i \in Indices :
    \/ finished[i] = IF i < next THEN 1 ELSE 0
    \/ /\ finished[i] = 0
       /\ \E t \in Threads : pc[t] = "fn" /\ idx[t] = i

GoneMeansPastEnd ==
  /\ \A t \in Threads : pc[t] = "exited" => next >= Count
  /\ pc[Caller] \in {"join", "returned"} => next >= Count
  /\ pc[Caller] \in {"call", "returned"} => joined = started

JoinedExited == \A t \in Workers : t <= joined => pc[t] = "exited"

IInv ==
  /\ TypeOK
  /\ CounterMeansBegun
  /\ \A t \in Threads : InHands(t)
  /\ OneHolder
  /\ OthersFinished
  /\ GoneMeansPastEnd
  /\ JoinedExited

USE ParallelForAssumption

\* The types are kept by every step.
LEMMA TypesKept == TypeOK /\ [Next]_vars => TypeOK'
<1>. SUFFICES ASSUME TypeOK, [Next]_vars PROVE TypeOK'
  OBVIOUS
<1>. USE DEF TypeOK, Goto, Threads, Workers, Caller
<1>1. CASE Call
  BY <1>1 DEF Call
<1>2. CASE Create
  BY <1>2 DEF Create
<1>3. CASE Spawned
  BY <1>3 DEF Spawned
<1>4. ASSUME NEW t \in Threads, Claim(t) PROVE TypeOK'
  <2>1. next \in Indices /\ begun[next] + 1 \in Nat
    BY <1>4 DEF Claim, PastEnd, Indices
  <2>2. begun' \in [Indices -> Nat]
    BY <1>4, <2>1 DEF Claim
  <2>3. /\ pc' = [pc EXCEPT ![t] = "fn"] /\ idx' = [idx EXCEPT ![t] = next]
        /\ next' = next + 1 /\ UNCHANGED <<started, joined, finished>>
        /\ pc[t] = "pull"
    BY <1>4 DEF Claim, AfterClaim
  <2>. QED
    BY <2>1, <2>2, <2>3
<1>5. ASSUME NEW t \in Threads, ClaimNothing(t) PROVE TypeOK'
  BY <1>5 DEF ClaimNothing, PastEnd, AfterClaim
<1>6. ASSUME NEW t \in Threads, FnReturns(t) PROVE TypeOK'
  <2>1. idx[t] \in Indices /\ finished[idx[t]] + 1 \in Nat
    BY <1>6 DEF FnReturns
  <2>2. finished' \in [Indices -> Nat]
    BY <1>6, <2>1 DEF FnReturns
  <2>3. /\ pc' = [pc EXCEPT ![t] = "pull"] /\ pc[t] = "fn"
        /\ UNCHANGED <<idx, next, started, joined, begun>>
    BY <1>6 DEF FnReturns
  <2>. QED
    BY <2>2, <2>3
<1>7. CASE Join
  BY <1>7 DEF Join
<1>8. CASE Return
  BY <1>8 DEF Return, AllJoined
<1>9. CASE UNCHANGED vars
  BY <1>9 DEF vars
<1>. QED
  BY <1>1, <1>2, <1>3, <1>4, <1>5, <1>6, <1>7, <1>8, <1>9
     DEF Next, CallerStep, ThreadStep

\* TypeOK: the workers that run are the ones that were started, and every call of fn
\* is for an index of the dispatch.
THEOREM TypeCorrect == Spec => []TypeOK
<1>1. Init => TypeOK
  BY DEF Init, TypeOK, Threads, Workers, Caller, Indices
<1>. QED
  BY <1>1, TypesKept, PTL DEF Spec

\* The inductive invariant holds at first and is kept by every step.
LEMMA InvInit == Init => IInv
BY DEF Init, IInv, TypeOK, CounterMeansBegun, InHands, OneHolder,
       OthersFinished, GoneMeansPastEnd, JoinedExited, Threads, Workers,
       Caller, Indices

LEMMA InvKept == IInv /\ [Next]_vars => IInv'
<1>. SUFFICES ASSUME IInv, [Next]_vars PROVE IInv'
  OBVIOUS
<1>0. TypeOK /\ TypeOK'
  BY TypesKept DEF IInv
<1>. USE <1>0 DEF IInv, TypeOK, CounterMeansBegun, InHands, OneHolder,
                  OthersFinished, GoneMeansPastEnd, JoinedExited, Goto,
                  Threads, Workers, Caller
<1>1. CASE Call
  BY <1>1 DEF Call, Indices
<1>2. CASE Create
  BY <1>2 DEF Create
<1>3. CASE Spawned
  BY <1>3 DEF Spawned
<1>4. ASSUME NEW t \in Threads, Claim(t) PROVE IInv'
  <2>1. /\ pc' = [pc EXCEPT ![t] = "fn"] /\ idx' = [idx EXCEPT ![t] = next]
        /\ next' = next + 1 /\ UNCHANGED <<started, joined, finished>>
        /\ begun' = [begun EXCEPT ![next] = begun[next] + 1]
        /\ pc[t] = "pull" /\ next < Count /\ next \in Indices
    BY <1>4 DEF Claim, AfterClaim, PastEnd, Indices
  <2>2. CounterMeansBegun'
    <3>. SUFFICES ASSUME NEW i \in Indices
                  PROVE begun'[i] = IF i < next' THEN 1 ELSE 0
      OBVIOUS
    <3>1. CASE i = next
      BY <2>1, <3>1
    <3>2. CASE i # next
      BY <2>1, <3>2 DEF Indices
    <3>. QED
      BY <3>1, <3>2
  <2>3. finished[next] = 0
    BY <2>1
  <2>4. ASSUME NEW u \in Threads PROVE InHands(u)'
    BY <2>1, <2>3 DEF Indices
  <2>5. OneHolder'
    BY <2>1
  <2>6. OthersFinished'
    <3>. SUFFICES ASSUME NEW i \in Indices
                  PROVE \/ finished[i] = IF i < next + 1 THEN 1 ELSE 0
                        \/ /\ finished[i] = 0
                           /\ \E u \in Threads : pc'[u] = "fn" /\ idx'[u] = i
      BY <2>1
    <3>1. CASE i = next
      BY <2>1, <2>3, <3>1
    <3>2. CASE i # next
      BY <2>1, <3>2 DEF Indices
    <3>. QED
      BY <3>1, <3>2
  <2>7. GoneMeansPastEnd' /\ JoinedExited'
    BY <2>1
  <2>. QED
    BY <2>2, <2>4, <2>5, <2>6, <2>7
<1>5. ASSUME NEW t \in Threads, ClaimNothing(t) PROVE IInv'
  <2>1. /\ next' = next + 1 /\ next >= Count /\ pc[t] = "pull"
        /\ pc' = [pc EXCEPT ![t] = IF t = Caller THEN "join" ELSE "exited"]
        /\ UNCHANGED <<idx, started, joined, begun, finished>>
    BY <1>5 DEF ClaimNothing, AfterClaim, PastEnd
  <2>2. CounterMeansBegun'
    BY <2>1 DEF Indices
  <2>3. OthersFinished'
    <3>1. \A u \in Threads : pc[u] = "fn" => pc'[u] = "fn"
      BY <2>1
    <3>. QED
      BY <2>1, <3>1 DEF Indices
  <2>4. (\A u \in Threads : InHands(u)') /\ OneHolder'
    BY <2>1
  <2>5. GoneMeansPastEnd' /\ JoinedExited'
    BY <2>1
  <2>. QED
    BY <2>2, <2>3, <2>4, <2>5
<1>6. ASSUME NEW t \in Threads, FnReturns(t) PROVE IInv'
  <2>. QED
    BY <1>6 DEF FnReturns
<1>7. CASE Join
  BY <1>7 DEF Join
<1>8. CASE Return
  BY <1>8 DEF Return, AllJoined
<1>9. CASE UNCHANGED vars
  BY <1>9 DEF vars
<1>. QED
  BY <1>1, <1>2, <1>3, <1>4, <1>5, <1>6, <1>7, <1>8, <1>9
     DEF Next, CallerStep, ThreadStep

\* The inductive invariant holds throughout.
LEMMA InvHolds == Spec => []IInv
BY InvInit, InvKept, PTL DEF Spec

\* OneVisitEach: no index is given to two threads, or twice.
THEOREM NoIndexTwice == Spec => []OneVisitEach
<1>1. IInv => OneVisitEach
  BY DEF IInv, TypeOK, CounterMeansBegun, OneHolder, OneVisitEach
<1>. QED
  BY <1>1, InvHolds, PTL

\* After the return no callback is running.
LEMMA NobodyRuns ==
  IInv /\ pc[Caller] = "returned" => \A t \in Threads : pc[t] # "fn"
BY DEF IInv, TypeOK, GoneMeansPastEnd, JoinedExited, Threads, Workers, Caller

\* When the caller has joined its workers, every index is finished.
LEMMA NothingMissing ==
  ASSUME IInv, next >= Count, \A t \in Threads : pc[t] # "fn"
  PROVE  \A i \in Indices : begun[i] = 1 /\ finished[i] = 1
BY DEF IInv, TypeOK, CounterMeansBegun, OthersFinished, Indices

\* ReturnsWhenDone: the dispatch blocks until all iterations are complete, whichever
\* threads could be created.
THEOREM BlocksUntilDone == Spec => []ReturnsWhenDone
<1>1. IInv => ReturnsWhenDone
  BY NobodyRuns, NothingMissing DEF IInv, GoneMeansPastEnd, ReturnsWhenDone
<1>. QED
  BY <1>1, InvHolds, PTL

(***************************************************************************)
(* The dispatch implements the contract.                                   *)
(***************************************************************************)
LEMMA InitImplements == Init => Promise!Init
BY DEF Init, Promise!Init, Indices, Promise!Indices, Caller, Threads, Workers

\* Every step is a step of the contract or leaves what it talks about alone.
LEMMA StepImplements ==
  IInv /\ [Next]_vars => [Promise!Next]_(Promise!vars)
<1>. SUFFICES ASSUME IInv, [Next]_vars PROVE [Promise!Next]_(Promise!vars)
  OBVIOUS
<1>0. TypeOK
  BY DEF IInv
<1>. USE DEF Goto, Promise!vars, Promise!Indices, Indices
<1>1. CASE Call
  <2>1. CASE Count = 0 /\ pc' = [pc EXCEPT ![Caller] = "returned"]
    <3>1. Promise!Return
      BY <1>1, <2>1, <1>0 DEF Call, Promise!Return, TypeOK, Threads, Caller
    <3>. QED
      BY <3>1 DEF Promise!Next
  <2>2. CASE pc'[Caller] # "returned"
    BY <1>1, <2>2 DEF Call
  <2>. QED
    BY <1>1, <2>1, <2>2, <1>0 DEF Call, TypeOK, Threads, Caller
<1>2. CASE Create
  BY <1>2, <1>0 DEF Create, TypeOK, Threads, Workers, Caller
<1>3. CASE Spawned
  BY <1>3, <1>0 DEF Spawned, TypeOK, Threads, Caller
<1>4. ASSUME NEW t \in Threads, Claim(t) PROVE Promise!Next
  <2>1. next \in Indices /\ begun[next] = 0
    BY <1>4, <1>0 DEF Claim, PastEnd, IInv, CounterMeansBegun, TypeOK
  <2>2. pc'[Caller] = "returned" <=> pc[Caller] = "returned"
    BY <1>4, <1>0 DEF Claim, TypeOK, Threads, Caller
  <2>3. Promise!Begin(next)
    BY <1>4, <2>1, <2>2 DEF Claim, Promise!Begin
  <2>. QED
    BY <2>1, <2>3 DEF Promise!Next
<1>5. ASSUME NEW t \in Threads, ClaimNothing(t) PROVE UNCHANGED Promise!vars
  BY <1>5, <1>0 DEF ClaimNothing, TypeOK, Threads, Caller
<1>6. ASSUME NEW t \in Threads, FnReturns(t) PROVE Promise!Next
  <2>1. idx[t] \in Indices /\ finished[idx[t]] = 0 /\ begun[idx[t]] = 1
    BY <1>6, <1>0 DEF FnReturns, IInv, InHands, CounterMeansBegun, TypeOK
  <2>2. pc'[Caller] = "returned" <=> pc[Caller] = "returned"
    BY <1>6, <1>0 DEF FnReturns, TypeOK, Threads, Caller
  <2>3. Promise!Finish(idx[t])
    BY <1>6, <2>1, <2>2 DEF FnReturns, Promise!Finish
  <2>. QED
    BY <2>1, <2>3 DEF Promise!Next
<1>7. CASE Join
  BY <1>7 DEF Join
<1>8. CASE Return
  <2>1. \A i \in Indices : finished[i] = 1
    <3>1. \A t \in Threads : pc[t] # "fn"
      BY <1>8, <1>0 DEF Return, AllJoined, TypeOK, IInv, JoinedExited, Threads,
                        Workers, Caller
    <3>2. next >= Count
      BY <1>8 DEF Return, IInv, GoneMeansPastEnd
    <3>. QED
      BY <3>1, <3>2, NothingMissing
  <2>2. Promise!Return
    BY <1>8, <2>1, <1>0 DEF Return, Promise!Return, TypeOK, Threads, Caller
  <2>. QED
    BY <2>2 DEF Promise!Next
<1>9. CASE UNCHANGED vars
  BY <1>9 DEF vars
<1>. QED
  BY <1>1, <1>2, <1>3, <1>4, <1>5, <1>6, <1>7, <1>8, <1>9
     DEF Next, CallerStep, ThreadStep

\* VisitsEachOnce: cbm_parallel_for implements "Each index is visited exactly once.
\* Blocks until all iterations complete."
THEOREM ImplementsForAll == Spec => VisitsEachOnce
BY InitImplements, StepImplements, InvHolds, PTL
   DEF Spec, VisitsEachOnce, Promise!Spec
=============================================================================
