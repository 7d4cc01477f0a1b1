----------------------------- MODULE IndexLock -----------------------------
(***************************************************************************)
(* The global index lock of the pipeline and everything that uses it:      *)
(*   - index_repository and delete_project, handled by a thread that runs  *)
(*     an MCP server object (the stdio loop, the /rpc endpoint of the HTTP *)
(*     thread, a `cli index_repository` child process);                    *)
(*   - the auto-index thread, started by `initialize`;                     *)
(*   - the watcher thread, which gives up when the lock is taken;          *)
(*   - the signal handler, which cancels and unlocks while others run.     *)
(* The lock is a static variable, so there is one per operating-system     *)
(* process. A pipeline object is named after the thread that made it. The  *)
(* model follows one project, so two threads in their sections are two     *)
(* writers of one database file.                                           *)
(* An operator named ...Bug is a mistake the code does not make; the       *)
(* mutants of PROJECT.json put it in the place of the operator after it.   *)
(***************************************************************************)
EXTENDS Naturals, FiniteSets

CONSTANTS
  RpcThreads,         \* threads that run cbm_mcp_server_handle
  AutoThreads,        \* autoindex_thread instances
  WatcherThreads,    \* watcher_thread instances
  Procs,       \* operating-system processes
  ProcOf,      \* [Threads -> Procs]
  Global,      \* the RpcThreads threads whose server is the g_server of their process
  NoThread,    \* "no pipeline"
  MaxSignals   \* bound: signals delivered to a process

Threads == RpcThreads \union AutoThreads \union WatcherThreads

ASSUME RolesAssumption ==
  /\ RpcThreads \intersect AutoThreads = {} /\ RpcThreads \intersect WatcherThreads = {}
  /\ AutoThreads \intersect WatcherThreads = {}
  /\ ProcOf \in [Threads -> Procs]
  /\ Global \subseteq RpcThreads
  /\ NoThread \notin Threads
  /\ MaxSignals \in Nat

VARIABLES
  busy,      \* g_pipeline_busy of each process
  pc,        \* where each thread is
  op,        \* what the thread wants the lock for
  live,      \* the thread's cbm_pipeline_t is allocated
  active,    \* srv->active_pipeline is the thread's pipeline
  cancelled, \* p->cancelled
  hpc,       \* where the signal handler of each process is
  hpipe,     \* the pipeline the handler read from g_server
  shutdown,  \* g_shutdown
  stopped,   \* watcher and HTTP stop flags raised, stdin closed
  signals    \* signals delivered so far

\* The processes that install the signal handler: a CLI child does not.
ServerProcs == {ProcOf[t] : t \in Global}

threadVars == <<pc, op, live, active, cancelled>>
sigVars == <<hpc, hpipe, shutdown, stopped, signals>>
vars == <<busy, threadVars, sigVars>>

Idle == "idle"
Pcs == {Idle, "spin", "publish", "run", "retract", "unlink", "unlock", "free",
        "ended"}
HandlerPcs == {"off", "cancel", "write", "unlock", "stop"}

\* The types, and that nobody runs, or waits to run, a pipeline it has not got.
TypeOK ==
  /\ busy \in [Procs -> BOOLEAN]
  /\ pc \in [Threads -> Pcs]
  /\ op \in [Threads -> {"none", "index", "delete"}]
  /\ live \in [Threads -> BOOLEAN]
  /\ active \in [Threads -> BOOLEAN]
  /\ cancelled \in [Threads -> BOOLEAN]
  /\ hpc \in [Procs -> HandlerPcs]
  /\ hpipe \in [Procs -> Threads \union {NoThread}]
  /\ shutdown \in [Procs -> BOOLEAN]
  /\ stopped \in [Procs -> BOOLEAN]
  /\ signals \in [Procs -> 0..MaxSignals]
  /\ \A t \in Threads :
       /\ pc[t] \in {"publish", "run", "retract"} => live[t]
       /\ pc[t] = "spin" => op[t] = "delete" \/ live[t]

Init ==
  /\ busy = [p \in Procs |-> FALSE]
  /\ pc = [t \in Threads |-> Idle]
  /\ op = [t \in Threads |-> "none"]
  /\ live = [t \in Threads |-> FALSE]
  /\ active = [t \in Threads |-> FALSE]
  /\ cancelled = [t \in Threads |-> FALSE]
  /\ hpc = [p \in Procs |-> "off"]
  /\ hpipe = [p \in Procs |-> NoThread]
  /\ shutdown = [p \in Procs |-> FALSE]
  /\ stopped = [p \in Procs |-> FALSE]
  /\ signals = [p \in Procs |-> 0]

-----------------------------------------------------------------------------
(* Threads *)

Goto(t, to) == pc' = [pc EXCEPT ![t] = to]

(* cbm_pipeline_new: a fresh object, not cancelled. *)
NewPipeline(t) ==
  /\ live' = [live EXCEPT ![t] = TRUE]
  /\ cancelled' = [cancelled EXCEPT ![t] = FALSE]

(* index_repository and autoindex make the pipeline, then wait for the lock. *)
StartIndex(t) ==
  /\ t \in RpcThreads \union AutoThreads
  /\ pc[t] = Idle
  /\ t \in RpcThreads => ~stopped[ProcOf[t]]
  /\ NewPipeline(t)
  /\ op' = [op EXCEPT ![t] = "index"]
  /\ Goto(t, "spin")
  /\ UNCHANGED <<busy, active, sigVars>>

StartDelete(t) ==
  /\ t \in RpcThreads
  /\ pc[t] = Idle
  /\ ~stopped[ProcOf[t]]
  /\ op' = [op EXCEPT ![t] = "delete"]
  /\ Goto(t, "spin")
  /\ UNCHANGED <<busy, live, active, cancelled, sigVars>>

\* The flag is read and then set, not exchanged: two spinners both see it clear.
LockBug(t) ==
  /\ pc[t] = "spin"
  /\ busy' = [busy EXCEPT ![ProcOf[t]] = TRUE]
  /\ Goto(t, CASE op[t] = "delete" -> "unlink"
               [] op[t] # "delete" /\ t \in RpcThreads -> "publish"
               [] OTHER -> "run")
  /\ UNCHANGED <<op, live, active, cancelled, sigVars>>

(* cbm_pipeline_lock: the atomic exchange that finds the flag clear. *)
Lock(t) ==
  /\ pc[t] = "spin"
  /\ ~busy[ProcOf[t]]
  /\ busy' = [busy EXCEPT ![ProcOf[t]] = TRUE]
  /\ Goto(t, CASE op[t] = "delete" -> "unlink"
               [] op[t] # "delete" /\ t \in RpcThreads -> "publish"
               [] OTHER -> "run")
  /\ UNCHANGED <<op, live, active, cancelled, sigVars>>

\* The result of cbm_pipeline_new is not looked at.
(* watcher_index_fn: skips at shutdown and when the lock is taken, else      *)
(* locks and makes its pipeline.                                             *)
TryLock(t) ==
  /\ t \in WatcherThreads
  /\ pc[t] = Idle
  /\ ~stopped[ProcOf[t]] /\ ~shutdown[ProcOf[t]]
  /\ ~busy[ProcOf[t]]
  /\ busy' = [busy EXCEPT ![ProcOf[t]] = TRUE]
  /\ \/ /\ NewPipeline(t)
        /\ Goto(t, "run")
     \/ /\ Goto(t, "unlock")    \* cbm_pipeline_new failed
        /\ UNCHANGED <<live, cancelled>>
  /\ op' = [op EXCEPT ![t] = "index"]
  /\ UNCHANGED <<active, sigVars>>

Publish(t) ==
  /\ pc[t] = "publish"
  /\ active' = [active EXCEPT ![t] = TRUE]
  /\ Goto(t, "run")
  /\ UNCHANGED <<busy, op, live, cancelled, sigVars>>

(* cbm_pipeline_run returns. The watcher frees its pipeline before it        *)
(* unlocks, the others after.                                                *)
RunEnds(t) ==
  /\ pc[t] = "run"
  /\ IF t \in WatcherThreads
       THEN live' = [live EXCEPT ![t] = FALSE]
       ELSE UNCHANGED live
  /\ Goto(t, IF t \in RpcThreads THEN "retract" ELSE "unlock")
  /\ UNCHANGED <<busy, op, active, cancelled, sigVars>>

\* active_pipeline is left pointing at the pipeline that is about to be freed.
RetractBug(t) ==
  /\ pc[t] = "retract"
  /\ Goto(t, "unlock")
  /\ UNCHANGED <<busy, op, active, live, cancelled, sigVars>>

Retract(t) ==
  /\ pc[t] = "retract"
  /\ active' = [active EXCEPT ![t] = FALSE]
  /\ Goto(t, "unlock")
  /\ UNCHANGED <<busy, op, live, cancelled, sigVars>>

(* handle_delete_project unlinks the database, its -wal and its -shm.        *)
Unlink(t) ==
  /\ pc[t] = "unlink"
  /\ Goto(t, "unlock")
  /\ UNCHANGED <<busy, op, live, active, cancelled, sigVars>>

\* A path that returns without giving the lock back.
UnlockBug(t) ==
  /\ pc[t] = "unlock"
  /\ Goto(t, IF live[t] THEN "free" ELSE Idle)
  /\ op' = [op EXCEPT ![t] = "none"]
  /\ UNCHANGED <<busy, live, active, cancelled, sigVars>>

(* cbm_pipeline_unlock: an unconditional store.                              *)
Unlock(t) ==
  /\ pc[t] = "unlock"
  /\ busy' = [busy EXCEPT ![ProcOf[t]] = FALSE]
  /\ Goto(t, IF live[t] THEN "free" ELSE Idle)
  /\ op' = [op EXCEPT ![t] = "none"]
  /\ UNCHANGED <<live, active, cancelled, sigVars>>

FreePipeline(t) ==
  /\ pc[t] = "free"
  /\ live' = [live EXCEPT ![t] = FALSE]
  /\ Goto(t, IF t \in AutoThreads THEN "ended" ELSE Idle)
  /\ UNCHANGED <<busy, op, active, cancelled, sigVars>>

Thread(t) ==
  \/ StartIndex(t) \/ StartDelete(t) \/ TryLock(t)
  \/ Lock(t) \/ Publish(t) \/ RunEnds(t) \/ Retract(t)
  \/ Unlink(t) \/ Unlock(t) \/ FreePipeline(t)

-----------------------------------------------------------------------------
(* The signal handler of process p. Any thread of the process may be made to *)
(* execute it, so it interleaves with all of them.                           *)

HGoto(p, to) == hpc' = [hpc EXCEPT ![p] = to]

SignalArrives(p) ==
  /\ hpc[p] = "off"
  /\ signals[p] < MaxSignals
  /\ signals' = [signals EXCEPT ![p] = @ + 1]
  /\ shutdown' = [shutdown EXCEPT ![p] = TRUE]
  /\ HGoto(p, "cancel")
  /\ UNCHANGED <<busy, threadVars, hpipe, stopped>>

(* p = cbm_mcp_server_active_pipeline(g_server)                              *)
HandlerReads(p) ==
  /\ hpc[p] = "cancel"
  /\ \E q \in Threads \union {NoThread} :
       /\ IF q = NoThread
            THEN \A t \in Global : ProcOf[t] = p => ~active[t]
            ELSE q \in Global /\ ProcOf[q] = p /\ active[q]
       /\ hpipe' = [hpipe EXCEPT ![p] = q]
  /\ HGoto(p, "write")
  /\ UNCHANGED <<busy, threadVars, shutdown, stopped, signals>>

(* cbm_pipeline_cancel(p)                                                    *)
HandlerCancels(p) ==
  /\ hpc[p] = "write"
  /\ cancelled' = [t \in Threads |-> cancelled[t] \/ t = hpipe[p]]
  /\ hpipe' = [hpipe EXCEPT ![p] = NoThread]
  /\ HGoto(p, "unlock")
  /\ UNCHANGED <<busy, pc, op, live, active, shutdown, stopped, signals>>

(* "Release pipeline lock to prevent stale lock on restart"                  *)
HandlerUnlocks(p) ==
  /\ hpc[p] = "unlock"
  /\ busy' = [busy EXCEPT ![p] = FALSE]
  /\ HGoto(p, "stop")
  /\ UNCHANGED <<threadVars, hpipe, shutdown, stopped, signals>>

\* The handler forgets to stop the loops that start new work.
HandlerStopsBug(p) ==
  /\ hpc[p] = "stop"
  /\ HGoto(p, "off")
  /\ UNCHANGED <<busy, threadVars, hpipe, shutdown, stopped, signals>>

(* cbm_watcher_stop, cbm_http_server_stop, fclose(stdin)                     *)
HandlerStops(p) ==
  /\ hpc[p] = "stop"
  /\ stopped' = [stopped EXCEPT ![p] = TRUE]
  /\ HGoto(p, "off")
  /\ UNCHANGED <<busy, threadVars, hpipe, shutdown, signals>>

Handler(p) ==
  \/ SignalArrives(p) \/ HandlerReads(p) \/ HandlerCancels(p)
  \/ HandlerUnlocks(p) \/ HandlerStops(p)

Next == (\E t \in Threads : Thread(t)) \/ (\E p \in ServerProcs : Handler(p))

Spec == Init /\ [][Next]_vars

(* A thread that was given something to do keeps running, and a spinning     *)
(* thread that finds the flag clear again and again takes it: it retries     *)
(* every 100 ms, the watcher sleeps at least 5 s between two poll cycles.    *)
Progress(t) ==
  \/ Publish(t) \/ RunEnds(t) \/ Retract(t) \/ Unlink(t) \/ Unlock(t)
  \/ FreePipeline(t)

HandlerRuns(p) ==
  \/ HandlerReads(p) \/ HandlerCancels(p) \/ HandlerUnlocks(p)
  \/ HandlerStops(p)

FairSpec ==
  /\ Spec
  /\ \A t \in Threads : WF_vars(Progress(t)) /\ SF_vars(Lock(t))
  /\ \A p \in ServerProcs : WF_vars(HandlerRuns(p))

-----------------------------------------------------------------------------
(* Properties *)

\* t may read, delete or write the project's database files.
InSection(t) == pc[t] \in {"publish", "run", "retract", "unlink", "unlock"}

\* Safety. Inside one process no two threads run a pipeline or delete a
\* database at the same time (the purpose of g_pipeline_busy, pipeline.c:50).
Exclusion ==
  \A t, u \in Threads :
    InSection(t) /\ InSection(u) /\ ProcOf[t] = ProcOf[u] => t = u

\* Safety. The same across processes: the database directory is shared by all
\* of them ("prevents concurrent pipeline runs on same DB", pipeline.h:65).
GlobalExclusion == \A t, u \in Threads : InSection(t) /\ InSection(u) => t = u

\* Safety. What a server object shows as its active pipeline is allocated, is
\* the pipeline of the thread that holds the lock, and is the only one shown:
\* a canceller that looks at the pointer and acts at once is never wrong.
ActiveIsTheRunner ==
  \A t \in Threads :
    active[t] => /\ live[t]
                 /\ busy[ProcOf[t]]
                 /\ \A u \in Threads :
                      active[u] /\ ProcOf[u] = ProcOf[t] => u = t

\* Refinement. Under the lock the runs and deletions of a process are the
\* critical sections of one mutex.
Holder ==
  IF \E t \in Threads : InSection(t)
    THEN CHOOSE t \in Threads : InSection(t)
    ELSE NoThread

RM == INSTANCE RunMutex WITH holder <- Holder

RunsOneAtATime == RM!Spec

\* Liveness. A request, or the auto-index thread, that waits for the lock gets
\* it, however often the watcher finds changes ("wait for busy watcher to
\* finish", pipeline.h:74).
WaitersServed == \A t \in Threads : pc[t] = "spin" ~> InSection(t)

\* Liveness. After a signal the process comes to rest: requests, the auto-index
\* thread and the watcher finish whatever the handler's unlock does to the
\* lock's users, and no new work is begun (main.c then joins them all, lines 418 to 434).
ComesToRest ==
  \A p \in Procs :
    signals[p] > 0 ~> [](\A t \in Threads : ProcOf[t] = p => pc[t] \in {Idle, "ended"})
=============================================================================
