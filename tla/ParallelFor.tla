----------------------------- MODULE ParallelFor -----------------------------
(***************************************************************************)
(* cbm_parallel_for of pipeline/worker_pool.c: the caller starts workers,  *)
(* all of them and the caller claim indices from one atomic counter, and   *)
(* the caller joins the workers it started. Thread creation may fail at    *)
(* any worker and the allocation of the handles may fail; with one worker, *)
(* one index or no memory the caller does everything by itself.            *)
(***************************************************************************)
EXTENDS Naturals

CONSTANTS
  Count,      \* count, the number of iterations
  NWorkers    \* nworkers, after the defaults of cbm_parallel_for

ASSUME ParallelForAssumption == Count \in Nat /\ NWorkers \in Nat \ {0}

VARIABLES
  pc,        \* where each thread is
  idx,       \* the index each thread claimed last
  next,      \* next_idx; in run_serial, its loop variable
  started,   \* the number of workers created
  joined,    \* the number of workers joined
  begun,     \* how often fn was called with each index
  finished   \* how often such a call returned

vars == <<pc, idx, next, started, joined, begun, finished>>

Caller == 0
Workers == 1..NWorkers
Threads == {Caller} \union Workers
Indices == 0..(Count - 1)

\* The types; the counter runs past the end by at most one claim per thread, and
\* only a thread that was started does anything.
TypeOK ==
  /\ pc \in [Threads -> {"unborn", "call", "spawn", "pull", "fn", "exited",
                         "join", "returned"}]
  /\ idx \in [Threads -> Nat]
  /\ next \in Nat
  /\ started \in 0..NWorkers /\ joined \in 0..started
  /\ begun \in [Indices -> Nat] /\ finished \in [Indices -> Nat]
  /\ \A t \in Workers :
       pc[t] \in IF t <= started THEN {"pull", "fn", "exited"} ELSE {"unborn"}
  /\ pc[Caller] \notin {"unborn", "exited"}
  /\ \A t \in Threads : pc[t] = "fn" => idx[t] \in Indices

Init ==
  /\ pc = [t \in Threads |-> IF t = Caller THEN "call" ELSE "unborn"]
  /\ idx = [t \in Threads |-> 0]
  /\ next = 0 /\ started = 0 /\ joined = 0
  /\ begun = [i \in Indices |-> 0]
  /\ finished = [i \in Indices |-> 0]

Goto(t, place) == pc' = [pc EXCEPT ![t] = place]

\* cbm_parallel_for: nothing to do, run_serial, or run_pthreads, which falls back to
\* run_serial when malloc gives no memory for the thread handles.
Call ==
  /\ pc[Caller] = "call"
  /\ \/ Count = 0 /\ Goto(Caller, "returned")
     \/ Count > 0 /\ Goto(Caller, "pull")
     \/ Count > 1 /\ NWorkers > 1 /\ Goto(Caller, "spawn")
  /\ UNCHANGED <<idx, next, started, joined, begun, finished>>

\* cbm_thread_create succeeds for the next worker.
Create ==
  /\ pc[Caller] = "spawn"
  /\ started < NWorkers
  /\ started' = started + 1
  /\ Goto(started', "pull")
  /\ UNCHANGED <<idx, next, joined, begun, finished>>

\* Mutant: the worker whose creation failed is counted.
SpawnedBug ==
  /\ pc[Caller] = "spawn"
  /\ started' = IF started < NWorkers THEN started + 1 ELSE started
  /\ Goto(Caller, "pull")
  /\ UNCHANGED <<idx, next, joined, begun, finished>>

\* All workers run, or one could not be created; the caller takes part now.
Spawned ==
  /\ pc[Caller] = "spawn"
  /\ Goto(Caller, "pull")
  /\ UNCHANGED <<idx, next, started, joined, begun, finished>>

\* What an atomic_fetch_add that returns next leaves in the counter.
AfterClaim == next + 1

\* Mutant: the last index is left out.
PastEndBug(i) == i >= Count - 1

\* The claim is past the end.
PastEnd(i) == i >= Count

\* A thread claims an index and calls fn with it.
Claim(t) ==
  /\ pc[t] = "pull" /\ ~PastEnd(next)
  /\ idx' = [idx EXCEPT ![t] = next]
  /\ next' = AfterClaim
  /\ begun' = [begun EXCEPT ![next] = @ + 1]
  /\ Goto(t, "fn")
  /\ UNCHANGED <<started, joined, finished>>

\* A thread's claim finds nothing left: a worker exits, the caller goes on to join.
ClaimNothing(t) ==
  /\ pc[t] = "pull" /\ PastEnd(next)
  /\ next' = AfterClaim
  /\ Goto(t, IF t = Caller THEN "join" ELSE "exited")
  /\ UNCHANGED <<idx, started, joined, begun, finished>>

\* fn returns.
FnReturns(t) ==
  /\ pc[t] = "fn"
  /\ finished' = [finished EXCEPT ![idx[t]] = @ + 1]
  /\ Goto(t, "pull")
  /\ UNCHANGED <<idx, next, started, joined, begun>>

\* cbm_thread_join returns for the next worker.
Join ==
  /\ pc[Caller] = "join" /\ joined < started
  /\ pc[joined + 1] = "exited"
  /\ joined' = joined + 1
  /\ UNCHANGED <<pc, idx, next, started, begun, finished>>

\* Every worker that was started has been joined.
AllJoined == joined = started

Return ==
  /\ pc[Caller] = "join" /\ AllJoined
  /\ Goto(Caller, "returned")
  /\ UNCHANGED <<idx, next, started, joined, begun, finished>>

ThreadStep(t) == Claim(t) \/ ClaimNothing(t) \/ FnReturns(t)
CallerStep == Call \/ Create \/ Spawned \/ Join \/ Return

Next == CallerStep \/ \E t \in Threads : ThreadStep(t)

\* Every thread that can go on does, and fn returns: an extraction has a budget of
\* its own.
Fairness == WF_vars(CallerStep) /\ \A t \in Threads : WF_vars(ThreadStep(t))

Spec == Init /\ [][Next]_vars /\ Fairness

(***************************************************************************)
(* Properties                                                              *)
(***************************************************************************)

\* Each index is visited at most once, and by one thread at a time: what lets the
\* callbacks of pass_parallel.c own the worker state of their index without a lock.
OneVisitEach ==
  /\ \A i \in Indices : begun[i] <= 1
  /\ \A t, u \in Threads :
       pc[t] = "fn" /\ pc[u] = "fn" /\ idx[t] = idx[u] => t = u

\* When the dispatch has returned no callback is running and none is missing, however
\* many workers could be started: the caller frees the context its workers use.
ReturnsWhenDone ==
  pc[Caller] = "returned" =>
    /\ \A t \in Threads : pc[t] # "fn"
    /\ \A i \in Indices : begun[i] = 1 /\ finished[i] = 1

\* The header's contract as a specification of its own.
Promise == INSTANCE ForAll WITH returned <- pc[Caller] = "returned"

\* The dispatch implements the contract of worker_pool.h: every index exactly once,
\* and it blocks until all are complete.
VisitsEachOnce == Promise!Spec

\* The dispatch returns: no claim is waited for, no thread is joined that was not
\* started or that never exits.
Returns == <>(pc[Caller] = "returned")

=============================================================================
