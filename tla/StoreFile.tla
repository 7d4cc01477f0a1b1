----------------------------- MODULE StoreFile -----------------------------
(***************************************************************************)
(* The database file of one project as the threads of a server process     *)
(* share it: the query tools with a connection cached per server object    *)
(* (resolve_store), list_projects and the UI's handlers, which open it     *)
(* briefly, both ways to delete it, and index runs, which replace it.      *)
(*                                                                         *)
(* A path names an inode; an unlinked inode lives on for those who hold    *)
(* it. Only runs and delete_project take the index lock. What a run does   *)
(* inside is the subject of IndexRun: here it reads the sources at one     *)
(* moment and writes the file in the steps others can see.                 *)
(***************************************************************************)
EXTENDS Naturals, FiniteSets

CONSTANTS
  Servers,    \* server objects, each with a thread of its own: stdio, HTTP
  Evicting,   \* those run by the stdio loop, which evicts idle connections
  Runners,    \* threads that only index: the watcher, auto-index
  Inodes,
  MaxEdits,   \* bound: changes of the sources
  MaxCalls,   \* bound: requests and background runs
  MaxKills    \* bound: process deaths

Threads == Servers \cup Runners

ASSUME StoreAssumption ==
  /\ Inodes \subseteq Nat \ {0}
  /\ Evicting \subseteq Servers
  /\ MaxEdits \in Nat /\ MaxCalls \in Nat /\ MaxKills \in Nat

VARIABLES
  src,        \* the state the sources are in, a number that grows
  path,       \* the inode that <project>.db names, 0 for none
  kind,       \* what each inode holds
  gen,        \* the state of the sources that its index is of
  lock,       \* who holds the index lock: {} or {t}
  pc,         \* what each thread is doing
  hold,       \* the inode each thread has open for the moment, 0 for none
  read,       \* the state of the sources the thread's run extracted, 0 if what it
              \* carries on was damaged
  incr,       \* the route the thread's run has taken
  conn,       \* srv->store: the inode behind the cached connection
  touched,    \* history: another thread changed path or the file in this run
  removed,    \* history: delete_project succeeded and no run has begun since
  published, seen,  \* history: see IndexRegister
  edits, calls, kills

fileVars == <<path, kind, gen>>
histVars == <<touched, removed, published, seen>>
boundVars == <<edits, kills>>
vars == <<src, fileVars, lock, pc, hold, read, incr, conn, histVars, boundVars, calls>>

\* empty: fopen has just made it. partial: pages, but no first page. ghost: the
\* schema and no project. torn: two writers have mixed their pages.
Kinds == {"empty", "partial", "ghost", "whole", "torn"}
Gens == 0..(MaxEdits + 1)

Numbers ==
  /\ src = edits + 1 /\ path \in Inodes \cup {0}
  /\ kind \in [Inodes -> Kinds] /\ gen \in [Inodes -> Gens]
  /\ lock \subseteq Threads /\ \A t, u \in lock : t = u
  /\ pc \in [Threads -> {"idle", "verify", "clean", "peek", "peeking", "httpdel",
                         "dellock", "delete", "wait", "route", "extract", "unlink",
                         "create", "flush", "finish", "persist", "unlock"}]
  /\ hold \in [Threads -> Inodes \cup {0}]
  /\ \A t \in Threads : pc[t] \in {"verify", "peeking", "flush", "finish"} => hold[t] # 0
  /\ read \in [Threads -> Gens]
  /\ conn \in [Servers -> Inodes \cup {0}]
  /\ published \subseteq Gens /\ seen \in [Servers -> Gens]
  /\ edits \in 0..MaxEdits /\ calls \in 0..MaxCalls /\ kills \in 0..MaxKills
Flags == touched \in BOOLEAN /\ removed \in BOOLEAN /\ incr \in [Threads -> BOOLEAN]

\* The types, that one thread at most holds the lock, and who has a file open.
TypeOK == Numbers /\ Flags

Init ==
  /\ src = 1
  /\ path = 0 /\ kind = [f \in Inodes |-> "ghost"] /\ gen = [f \in Inodes |-> 0]
  /\ lock = {} /\ pc = [t \in Threads |-> "idle"] /\ hold = [t \in Threads |-> 0]
  /\ read = [t \in Threads |-> 0] /\ incr = [t \in Threads |-> FALSE]
  /\ conn = [s \in Servers |-> 0]
  /\ touched = FALSE /\ removed = FALSE
  /\ published = {} /\ seen = [s \in Servers |-> 0]
  /\ edits = 0 /\ calls = 0 /\ kills = 0

Goto(t, label) == pc' = [pc EXCEPT ![t] = label]
Holds(t, f) == hold' = [hold EXCEPT ![t] = f]
Becomes(f, k) == kind' = [kind EXCEPT ![f] = k]
\* A request or a background run begins.
Called(t) == pc[t] = "idle" /\ calls < MaxCalls /\ calls' = calls + 1

\* Inodes that no name and no descriptor keeps; the file system reuses the first.
Referenced == {path} \cup {hold[t] : t \in Threads} \cup {conn[s] : s \in Servers}
NewInode(f) == f \in Inodes \ Referenced /\ \A g \in Inodes \ Referenced : f <= g

\* Whether t interferes with a run of another thread.
Meddles(t) == touched' = (touched \/ (lock \ {t}) # {})

Edit ==
  /\ edits < MaxEdits
  /\ edits' = edits + 1
  /\ src' = src + 1
  /\ UNCHANGED <<fileVars, lock, pc, hold, read, incr, conn, histVars, calls, kills>>

-----------------------------------------------------------------------------
(* The query tools *)

\* The connection is there: the query goes to whatever inode is behind it.
QueryCached(s) ==
  /\ Called(s)
  /\ conn[s] # 0
  /\ seen' = IF kind[conn[s]] = "whole" THEN [seen EXCEPT ![s] = gen[conn[s]]] ELSE seen
  /\ UNCHANGED <<src, fileVars, lock, pc, hold, read, incr, conn, touched, removed,
                 published, boundVars>>

\* cbm_store_open_path_query; without a first page the file is no database and
\* the open fails, with no file there is nothing to open.
QueryOpen(s) ==
  /\ Called(s)
  /\ conn[s] = 0
  /\ path # 0 /\ kind[path] # "partial"
  /\ Goto(s, "verify") /\ Holds(s, path)
  /\ UNCHANGED <<src, fileVars, lock, read, incr, conn, histVars, boundVars>>

\* The integrity check, which wants a projects table, and the look for the row.
Passes(k) == k \in {"whole", "torn"}
Fails(k) == k \in {"empty", "partial", "torn"}
QueryVerify(s) ==
  /\ pc[s] = "verify"
  /\ Holds(s, 0)
  /\ LET f == hold[s] IN
     \/ /\ Passes(kind[f])
        /\ conn' = [conn EXCEPT ![s] = f]
        /\ seen' = IF kind[f] = "whole" THEN [seen EXCEPT ![s] = gen[f]] ELSE seen
        /\ Goto(s, "idle")
     \/ /\ Fails(kind[f])
        /\ Goto(s, "clean")
        /\ UNCHANGED <<conn, seen>>
     \/ /\ kind[f] = "ghost"
        /\ Goto(s, "idle")
        /\ UNCHANGED <<conn, seen>>
  /\ UNCHANGED <<src, fileVars, lock, read, incr, touched, removed, published,
                 boundVars, calls>>

\* The automatic clean-up: whatever the name means by now is unlinked.
QueryClean(s) ==
  /\ pc[s] = "clean"
  /\ path' = 0
  /\ Meddles(s)
  /\ Goto(s, "idle")
  /\ UNCHANGED <<src, kind, gen, lock, hold, read, incr, conn, removed,
                 published, seen, boundVars, calls>>

\* A query about another project takes the place of the connection.
QueryElsewhere(s) ==
  /\ Called(s)
  /\ conn[s] # 0
  /\ conn' = [conn EXCEPT ![s] = 0]
  /\ UNCHANGED <<src, fileVars, lock, pc, hold, read, incr, histVars, boundVars>>

\* cbm_mcp_server_evict_idle: the stdio loop had nothing to do for long enough.
EvictBug(s) ==
  /\ s \in Evicting
  /\ pc[s] = "idle"
  /\ conn[s] # 0 /\ path # 0
  /\ conn' = [conn EXCEPT ![s] = 0]
  /\ UNCHANGED <<src, fileVars, lock, pc, hold, read, incr, histVars, boundVars, calls>>

Evict(s) ==
  /\ s \in Evicting
  /\ pc[s] = "idle"
  /\ conn[s] # 0
  /\ conn' = [conn EXCEPT ![s] = 0]
  /\ UNCHANGED <<src, fileVars, lock, pc, hold, read, incr, histVars, boundVars, calls>>

-----------------------------------------------------------------------------
(* Short visits: list_projects, and the UI's health, layout and ADR handlers *)

\* list_projects stats the file first, the health and layout handlers too; the
\* ADR handlers of the UI do not.
Visit(s) ==
  /\ Called(s)
  /\ path # 0 \/ s \notin Evicting
  /\ Goto(s, "peek")
  /\ UNCHANGED <<src, fileVars, lock, hold, read, incr, conn, histVars, boundVars>>

\* cbm_store_open_path makes a file that is not there and gives one that is
\* empty a schema, which reaches the file when the visit ends.
Peek(s) ==
  /\ pc[s] = "peek"
  /\ \/ /\ path = 0
        /\ \E f \in Inodes : NewInode(f) /\ path' = f /\ Becomes(f, "ghost")
        /\ Goto(s, "idle") /\ Meddles(s)
        /\ UNCHANGED hold
     \/ /\ path # 0 /\ kind[path] = "empty"
        /\ Holds(s, path)
        /\ Goto(s, "peeking") /\ Meddles(s)
        /\ UNCHANGED <<path, kind>>
     \/ /\ path # 0 /\ kind[path] # "empty"
        /\ Goto(s, "idle")
        /\ UNCHANGED <<path, kind, hold, touched>>
  /\ UNCHANGED <<src, gen, lock, read, incr, conn, removed, published, seen,
                 boundVars, calls>>

\* The checkpoint on close writes its pages over those the dump has written.
PeekCloses(s) ==
  /\ pc[s] = "peeking"
  /\ Becomes(hold[s], IF kind[hold[s]] \in {"empty", "ghost"} THEN "ghost" ELSE "torn")
  /\ Holds(s, 0) /\ Goto(s, "idle")
  /\ Meddles(s)
  /\ UNCHANGED <<src, path, gen, lock, read, incr, conn, removed, published,
                 seen, boundVars, calls>>

-----------------------------------------------------------------------------
(* Deleting the project *)

\* delete_project closes the connection of its own server object only.
DeleteCall(s) ==
  /\ Called(s)
  /\ conn' = [conn EXCEPT ![s] = 0]
  /\ Goto(s, "dellock")
  /\ UNCHANGED <<src, fileVars, lock, hold, read, incr, histVars, boundVars>>

DeleteLockBug(s) ==
  /\ pc[s] = "dellock"
  /\ lock' = lock \cup {s} /\ touched' = FALSE
  /\ Goto(s, "delete")
  /\ UNCHANGED <<src, fileVars, hold, read, incr, conn, removed, published,
                 seen, boundVars, calls>>

DeleteLock(s) ==
  /\ pc[s] = "dellock"
  /\ lock = {}
  /\ lock' = {s} /\ touched' = FALSE
  /\ Goto(s, "delete")
  /\ UNCHANGED <<src, fileVars, hold, read, incr, conn, removed, published,
                 seen, boundVars, calls>>

DeleteUnlink(s) ==
  /\ pc[s] = "delete"
  /\ path' = 0 /\ removed' = (removed \/ path # 0)
  /\ lock' = lock \ {s}
  /\ Goto(s, "idle")
  /\ UNCHANGED <<src, kind, gen, hold, read, incr, conn, touched, published,
                 seen, boundVars, calls>>

\* DELETE /api/project: the UI unlinks without the lock.
HttpDelete(s) ==
  /\ s \notin Evicting
  /\ Called(s)
  /\ path # 0
  /\ Goto(s, "httpdel")
  /\ UNCHANGED <<src, fileVars, lock, hold, read, incr, conn, histVars, boundVars>>

HttpUnlink(s) ==
  /\ pc[s] = "httpdel"
  /\ path' = 0
  /\ Meddles(s)
  /\ Goto(s, "idle")
  /\ UNCHANGED <<src, kind, gen, lock, hold, read, incr, conn, removed,
                 published, seen, boundVars, calls>>

-----------------------------------------------------------------------------
(* Index runs *)

\* index_repository closes its server's connection before it waits; the threads
\* in the background leave the connections of the servers alone.
CloseOwnBug(t) == UNCHANGED conn
CloseOwn(t) == conn' = [s \in Servers |-> IF s = t THEN 0 ELSE conn[s]]

IndexCall(t) ==
  /\ Called(t)
  /\ CloseOwn(t)
  /\ Goto(t, "wait")
  /\ UNCHANGED <<src, fileVars, lock, hold, read, incr, histVars, boundVars>>

RunLock(t) ==
  /\ pc[t] = "wait"
  /\ lock = {}
  /\ lock' = {t} /\ touched' = FALSE /\ removed' = FALSE
  /\ Goto(t, "route")
  /\ UNCHANGED <<src, fileVars, hold, read, incr, conn, published, seen,
                 boundVars, calls>>

\* try_incremental_or_delete_db: a database with rows is kept for the incremental
\* route unless the number of files has grown too much; all else is unlinked.
RunRoute(t) ==
  /\ pc[t] = "route"
  /\ \/ /\ path # 0 /\ kind[path] \in {"whole", "torn"}
        /\ incr' = [incr EXCEPT ![t] = TRUE]
        /\ UNCHANGED path
     \/ /\ incr' = [incr EXCEPT ![t] = FALSE]
        /\ path' = 0
  /\ Goto(t, "extract")
  /\ UNCHANGED <<src, kind, gen, lock, hold, read, conn, histVars, boundVars, calls>>

\* The incremental route ends here when the rows say that nothing has changed. A
\* damaged file may say so too, or it is carried on; if it cannot be loaded, the
\* full route takes over and does not unlink it.
UpToDateBug(t) == incr[t] /\ path # 0 /\ kind[path] = "whole"
UpToDate(t) == incr[t] /\ path # 0 /\ kind[path] = "whole" /\ gen[path] = src
Damaged(t) == incr[t] /\ path # 0 /\ kind[path] = "torn"
RunExtract(t) ==
  /\ pc[t] = "extract"
  /\ \/ /\ ~Damaged(t)
        /\ read' = [read EXCEPT ![t] = src]
        /\ Goto(t, IF UpToDate(t) THEN "unlock" ELSE IF incr[t] THEN "unlink" ELSE "create")
     \/ /\ Damaged(t)
        /\ read' = [read EXCEPT ![t] = 0]
        /\ Goto(t, "unlock") \/ Goto(t, "unlink")
     \/ /\ Damaged(t)
        /\ read' = [read EXCEPT ![t] = src]
        /\ Goto(t, "create")
  /\ UNCHANGED <<src, fileVars, lock, hold, incr, conn, histVars, boundVars, calls>>

\* Only the incremental route unlinks right before the dump.
RunUnlinkBug(t) ==
  /\ pc[t] = "unlink"
  /\ Goto(t, "create")
  /\ UNCHANGED <<src, fileVars, lock, hold, read, incr, conn, histVars, boundVars, calls>>

RunUnlink(t) ==
  /\ pc[t] = "unlink"
  /\ path' = 0
  /\ Goto(t, "create")
  /\ UNCHANGED <<src, kind, gen, lock, hold, read, incr, conn, histVars, boundVars, calls>>

\* fopen(path, "wb"): a new file, or one that others made meanwhile cut to nothing.
DumpOpen(t) ==
  /\ pc[t] = "create"
  /\ \E f \in Inodes :
       /\ IF path = 0 THEN NewInode(f) ELSE f = path
       /\ path' = f /\ Becomes(f, "empty") /\ Holds(t, f)
  /\ Goto(t, "flush")
  /\ UNCHANGED <<src, gen, lock, read, incr, conn, histVars, boundVars, calls>>

DumpFlush(t) ==
  /\ pc[t] = "flush"
  /\ Becomes(hold[t], IF kind[hold[t]] = "empty" THEN "partial" ELSE "torn")
  /\ Goto(t, "finish")
  /\ UNCHANGED <<src, path, gen, lock, hold, read, incr, conn, histVars, boundVars, calls>>

\* The first page comes last. Where a visit has written too, the dump may or may
\* not have covered its pages.
DumpFinish(t) ==
  /\ pc[t] = "finish"
  /\ \/ /\ read[t] # 0
        /\ Becomes(hold[t], "whole")
        /\ gen' = [gen EXCEPT ![hold[t]] = read[t]]
        /\ published' = published \cup {read[t]}
     \/ /\ read[t] = 0 \/ kind[hold[t]] # "partial"
        /\ Becomes(hold[t], "torn")
        /\ UNCHANGED <<gen, published>>
  /\ Holds(t, 0) /\ Goto(t, "persist")
  /\ UNCHANGED <<src, path, lock, read, incr, conn, touched, removed, seen,
                 boundVars, calls>>

\* The rows go to whatever the name means now; cbm_store_open_path makes a file
\* where there is none, and its rows fail for want of a project.
Persist(t) ==
  /\ pc[t] = "persist"
  /\ \/ path # 0 /\ UNCHANGED <<path, kind>>
     \/ path = 0 /\ \E f \in Inodes : NewInode(f) /\ path' = f /\ Becomes(f, "ghost")
  /\ Goto(t, "unlock")
  /\ UNCHANGED <<src, gen, lock, hold, read, incr, conn, histVars, boundVars, calls>>

\* A server tells its client "indexed".
RunUnlock(t) ==
  /\ pc[t] = "unlock"
  /\ lock' = lock \ {t}
  /\ seen' = [s \in Servers |-> IF s = t /\ read[t] \in published THEN read[t] ELSE seen[s]]
  /\ Goto(t, "idle")
  /\ UNCHANGED <<src, fileVars, hold, read, incr, conn, touched, removed,
                 published, boundVars, calls>>

\* The process dies and is started again: the file is as it was left.
Kill ==
  /\ kills < MaxKills
  /\ kills' = kills + 1
  /\ lock' = {} /\ touched' = FALSE
  /\ pc' = [t \in Threads |-> "idle"] /\ hold' = [t \in Threads |-> 0]
  /\ conn' = [s \in Servers |-> 0] /\ seen' = [s \in Servers |-> 0]
  /\ UNCHANGED <<src, fileVars, read, incr, removed, published, edits, calls>>

-----------------------------------------------------------------------------
QueryStep(s) ==
  QueryCached(s) \/ QueryOpen(s) \/ QueryVerify(s) \/ QueryClean(s) \/ QueryElsewhere(s)
VisitStep(s) == Visit(s) \/ Peek(s) \/ PeekCloses(s)
DeleteStep(s) ==
  DeleteCall(s) \/ DeleteLock(s) \/ DeleteUnlink(s) \/ HttpDelete(s) \/ HttpUnlink(s)
RunStep(t) ==
  \/ RunLock(t) \/ RunRoute(t) \/ RunExtract(t) \/ RunUnlink(t) \/ DumpOpen(t)
  \/ DumpFlush(t) \/ DumpFinish(t) \/ Persist(t) \/ RunUnlock(t)

Next ==
  \/ Edit \/ Kill
  \/ \E s \in Servers : QueryStep(s) \/ Evict(s) \/ VisitStep(s) \/ DeleteStep(s)
  \/ \E t \in Threads : IndexCall(t) \/ RunStep(t)

\* Threads run; the stdio loop gets its idle minute once requests stop coming.
Fairness ==
  /\ \A s \in Servers :
       WF_vars(QueryVerify(s) \/ QueryClean(s) \/ Peek(s) \/ PeekCloses(s)
               \/ DeleteLock(s) \/ DeleteUnlink(s) \/ HttpUnlink(s))
  /\ \A t \in Threads : WF_vars(RunStep(t))
  /\ \A s \in Evicting : WF_vars(Evict(s))

Spec == Init /\ [][Next]_vars /\ Fairness
-----------------------------------------------------------------------------
Names(k) == path # 0 /\ kind[path] = k

\* What a query shows is the whole index of some state of the sources, and never
\* takes the client back, whatever is deleted, cleaned, listed, killed or run
\* meanwhile.
MonotoneReads == INSTANCE IndexRegister WITH States <- Gens
Monotone == MonotoneReads!Spec

\* A run that nobody meddled with ends with the index of what it read under the
\* project's name, whatever state the file was in when it began.
RunLeavesIndex ==
  \A t \in Threads :
    pc[t] = "unlock" /\ ~touched /\ read[t] # 0 => Names("whole") /\ gen[path] = read[t]

\* After delete_project no index is under the name until a run begins: it waits
\* for the run in progress, and those who visit the file bring back a schema at most.
DeleteSticks == removed => ~Names("whole")

\* A run never cuts or rewrites a whole file that a cached connection reads from: what
\* is new gets an inode of its own. Only a visit that began while the file was empty
\* can still damage it.
ServedWhole ==
  [][\A s \in Servers :
       conn[s] # 0 /\ kind[conn[s]] = "whole" /\ conn'[s] = conn[s]
         => \/ kind'[conn[s]] = "whole" /\ gen'[conn[s]] = gen[conn[s]]
            \/ \E v \in Servers : PeekCloses(v)]_vars

\* The stdio server lets go of a database that has been replaced or deleted.
StaleLetGo == \A s \in Evicting : conn[s] \notin {0, path} ~> conn[s] \in {0, path}

\* With no run in progress, a query answers from the index that is there.
\* (Fails: background runs do not tell the servers.)
AnswersAreCurrent ==
  lock = {} /\ Names("whole") => \A s \in Servers : conn[s] # 0 => gen[conn[s]] = gen[path]

\* The clean-up unlinks corrupt databases, never one that is whole or being written.
\* (Fails: it unlinks by name, without the lock.)
OnlyCorruptIsCleaned ==
  [][\A s \in Servers : QueryClean(s) => ~Names("whole") /\ lock = {}]_vars
=============================================================================
