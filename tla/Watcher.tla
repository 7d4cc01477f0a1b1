------------------------------- MODULE Watcher -------------------------------
(***************************************************************************)
(* The background watcher on one project: the watch list, the poll loop of *)
(* the watcher thread and its index callback, while the user edits,        *)
(* commits, reverts and checks out, other threads index or delete the      *)
(* project, and the server shuts down.                                     *)
(*                                                                         *)
(* Contents of the working tree are numbered; the tree is dirty when it is *)
(* not what HEAD has. An index run is a read of the tree followed by the   *)
(* replacement of the index; what happens inside it is IndexRun's subject. *)
(***************************************************************************)
EXTENDS Naturals

CONSTANTS
  Scenarios,      \* sets of what else may happen, see Disturbances
  MaxChanges,     \* bound: edits, commits, reverts and checkouts
  MaxRuns,        \* bound: index_repository and delete_project calls
  MaxFailures,    \* bound: runs of the watcher that end with an error
  MaxWatches      \* bound: cbm_watcher_watch calls, hence state objects

Disturbances ==
  {"busy",     \* other threads index the project
   "delete",   \* delete_project removes its database
   "fail",     \* a run of the watcher may fail
   "revert",   \* changes may be taken back, commits left again
   "window",   \* the user works while a poll is going on
   "again",    \* a second session starts and registers the project again
   "early",    \* the user works before the baseline is taken
   "norepo",   \* the root may be missing or no git repository
   "stop"}     \* the server shuts down

ASSUME WatcherAssumption ==
  /\ Scenarios \subseteq SUBSET Disturbances
  /\ MaxChanges \in Nat /\ MaxRuns \in Nat /\ MaxFailures \in Nat
  /\ MaxWatches \in Nat

VARIABLES
  scenario,  \* what may happen in this behaviour besides edits and commits; constant
  tree,      \* the content of the working tree
  head,      \* the commit HEAD is at; the first commit is 1
  content,   \* the content of each commit
  isRepo,    \* the root exists and is a git repository
  indexed,   \* the content the database was made from, 0 for no database
  reading,   \* the content the watcher's run has read, 0 before
  busy,      \* the index lock is taken by another thread
  entry,     \* the state object in w->projects, 0 for none
  state,     \* the fields of each state object
  snap,      \* the object the poll works on
  pc,        \* where the watcher thread is
  stopped,   \* w->stopped and g_shutdown
  changes, runs, failures

envVars == <<scenario, tree, head, content, isRepo>>
pollVars == <<snap, pc, reading>>
vars == <<envVars, indexed, busy, entry, state, pollVars, stopped, changes,
          runs, failures>>

Contents == 0..(MaxChanges + 1)
Objects == 1..MaxWatches
NoHead == 0
NewState == [baseline |-> FALSE, isGit |-> FALSE, lastHead |-> NoHead, due |-> TRUE]
States == [baseline : BOOLEAN, isGit : BOOLEAN, lastHead : Contents, due : BOOLEAN]

World ==
  /\ scenario \in Scenarios
  /\ tree \in Contents /\ head \in Contents /\ content \in [Contents -> Contents]
  /\ indexed \in Contents /\ reading \in Contents
  /\ changes \in 0..MaxChanges /\ runs \in 0..MaxRuns /\ failures \in 0..MaxFailures

Flags == isRepo \in BOOLEAN /\ busy \in BOOLEAN /\ stopped \in BOOLEAN
Polling ==
  /\ entry \in {0} \union Objects /\ snap \in {0} \union Objects
  /\ state \in [Objects -> States]
  /\ pc \in {"sleep", "poll", "dirty", "index", "run", "reread", "ended"}
  /\ pc \in {"poll", "dirty", "index", "run", "reread"} => snap # 0
  /\ pc \in {"dirty", "index", "run", "reread"} => state[snap].baseline /\ state[snap].isGit
  /\ pc = "run" => ~busy

\* The types; a run of the watcher has a project of its own to work on, and only
\* git projects get past the baseline.
TypeOK == World /\ Flags /\ Polling

\* The project is indexed and the server has just started.
Init ==
  /\ scenario \in Scenarios
  /\ tree = 1 /\ head = 1 /\ content = [c \in Contents |-> IF c = 1 THEN 1 ELSE 0]
  /\ isRepo \in IF "norepo" \in scenario THEN BOOLEAN ELSE {TRUE}
  /\ indexed = 1 /\ reading = 0 /\ busy = FALSE
  /\ entry = 0 /\ state = [o \in Objects |-> NewState]
  /\ snap = 0 /\ pc = "sleep" /\ stopped = FALSE
  /\ changes = 0 /\ runs = 0 /\ failures = 0

Dirty == tree # content[head]

-----------------------------------------------------------------------------
(* The user *)

Baselined == entry # 0 /\ state[entry].baseline
MayWork ==
  /\ changes < MaxChanges
  /\ "window" \in scenario \/ pc \in {"sleep", "ended"}
  /\ "early" \in scenario \/ Baselined
  /\ changes' = changes + 1
  /\ UNCHANGED <<scenario, isRepo, indexed, busy, entry, state, pollVars, stopped,
                 runs, failures>>

Edit ==
  /\ MayWork
  /\ tree' = changes + 2
  /\ UNCHANGED <<head, content>>

\* A commit has the number of the change that made it.
NewCommit == changes + 2

Commit ==
  /\ MayWork
  /\ Dirty
  /\ content' = [content EXCEPT ![NewCommit] = tree]
  /\ head' = NewCommit
  /\ UNCHANGED tree

Pull ==
  /\ MayWork
  /\ ~Dirty
  /\ tree' = changes + 2
  /\ content' = [content EXCEPT ![NewCommit] = changes + 2]
  /\ head' = NewCommit

\* git checkout -- . or git stash: the tree is as HEAD has it.
Revert ==
  /\ "revert" \in scenario
  /\ MayWork
  /\ Dirty
  /\ tree' = content[head]
  /\ UNCHANGED <<head, content>>

Checkout(c) ==
  /\ "revert" \in scenario
  /\ MayWork
  /\ ~Dirty
  /\ c # head /\ content[c] # 0
  /\ head' = c
  /\ tree' = content[c]
  /\ UNCHANGED content

\* The root is removed, restored, or turned into a repository.
RepoToggles ==
  /\ "norepo" \in scenario
  /\ changes < MaxChanges
  /\ changes' = changes + 1
  /\ isRepo' = ~isRepo
  /\ UNCHANGED <<scenario, tree, head, content, indexed, busy, entry, state,
                 pollVars, stopped, runs, failures>>

-----------------------------------------------------------------------------
(* Other threads of the server *)

(* cbm_watcher_watch, from maybe_auto_index or the end of autoindex_thread: a *)
(* fresh object replaces the old one, which is freed. Only between polls: the *)
(* poll does not hold the lock, and would go on with the freed object.        *)
Watch ==
  /\ entry = 0 \/ "again" \in scenario
  /\ entry < MaxWatches /\ indexed # 0 /\ ~stopped
  /\ pc = "sleep"
  /\ entry' = entry + 1
  /\ UNCHANGED <<envVars, indexed, busy, state, pollVars, stopped, changes, runs,
                 failures>>

\* index_repository takes the lock, and has read the tree some time before it
\* replaces the index and lets go.
OtherStarts ==
  /\ "busy" \in scenario
  /\ runs < MaxRuns /\ ~busy /\ pc # "run"
  /\ runs' = runs + 1
  /\ busy' = TRUE
  /\ \/ indexed' = tree
     \/ indexed # 0 /\ UNCHANGED indexed
  /\ UNCHANGED <<envVars, entry, state, pollVars, stopped, changes, failures>>

OtherEnds ==
  /\ busy
  /\ busy' = FALSE
  /\ UNCHANGED <<envVars, indexed, entry, state, pollVars, stopped, changes,
                 runs, failures>>

\* The watch list is not told.
DeleteProject ==
  /\ "delete" \in scenario
  /\ runs < MaxRuns /\ ~busy /\ pc # "run"
  /\ indexed # 0
  /\ runs' = runs + 1
  /\ indexed' = 0
  /\ UNCHANGED <<envVars, busy, entry, state, pollVars, stopped, changes,
                 failures>>

(* cbm_watcher_stop and g_shutdown. *)
Stop ==
  /\ "stop" \in scenario
  /\ ~stopped
  /\ stopped' = TRUE
  /\ UNCHANGED <<envVars, indexed, busy, entry, state, pollVars, changes, runs,
                 failures>>

\* The poll interval of a watched project passes.
IntervalPasses ==
  /\ entry # 0
  /\ ~state[entry].due
  /\ state' = [state EXCEPT ![entry].due = TRUE]
  /\ UNCHANGED <<envVars, indexed, busy, entry, pollVars, stopped, changes,
                 runs, failures>>

-----------------------------------------------------------------------------
(* The watcher thread *)

UnchangedByPoll == UNCHANGED <<envVars, entry, stopped, changes, runs>>

\* The loop looks at the flag, and takes the objects under the lock.
Wake ==
  /\ pc = "sleep"
  /\ ~stopped /\ entry # 0
  /\ snap' = entry
  /\ pc' = "poll"
  /\ UNCHANGED <<reading, indexed, busy, state, failures>>
  /\ UnchangedByPoll

End ==
  /\ pc = "sleep" /\ stopped
  /\ pc' = "ended"
  /\ UNCHANGED <<snap, reading, indexed, busy, state, failures>>
  /\ UnchangedByPoll

Sleep == pc' = "sleep" /\ snap' = 0 /\ reading' = 0

(* init_baseline: HEAD is taken as it is, whatever was indexed. *)
Baseline ==
  /\ pc = "poll"
  /\ ~state[snap].baseline
  /\ state' = [state EXCEPT ![snap] =
       [baseline |-> TRUE, isGit |-> isRepo,
        lastHead |-> IF isRepo THEN head ELSE NoHead,
        due |-> FALSE]]
  /\ Sleep
  /\ UNCHANGED <<indexed, busy, failures>>
  /\ UnchangedByPoll

SkipPoll ==
  /\ pc = "poll"
  /\ state[snap].baseline
  /\ ~state[snap].isGit \/ ~state[snap].due
  /\ Sleep
  /\ UNCHANGED <<indexed, busy, state, failures>>
  /\ UnchangedByPoll

\* Mutant: a HEAD that has moved is not a change.
CheckHeadBug ==
  /\ pc = "poll"
  /\ state[snap].baseline /\ state[snap].isGit /\ state[snap].due
  /\ state' = IF isRepo THEN [state EXCEPT ![snap].lastHead = head] ELSE state
  /\ pc' = "dirty"
  /\ UNCHANGED <<snap, reading, indexed, busy, failures>>
  /\ UnchangedByPoll

\* check_changes, first half: the new HEAD replaces the old one whether or not the
\* change gets indexed.
CheckHead ==
  /\ pc = "poll"
  /\ state[snap].baseline /\ state[snap].isGit /\ state[snap].due
  /\ state' = IF isRepo THEN [state EXCEPT ![snap].lastHead = head] ELSE state
  /\ pc' = IF isRepo /\ state[snap].lastHead \notin {NoHead, head}
           THEN "index" ELSE "dirty"
  /\ UNCHANGED <<snap, reading, indexed, busy, failures>>
  /\ UnchangedByPoll

NotDue == state' = [state EXCEPT ![snap].due = FALSE]

\* A tree that was found dirty is not looked at again.
CheckTreeBug ==
  /\ pc = "dirty"
  /\ IF isRepo /\ Dirty /\ indexed = content[head]
     THEN /\ pc' = "index"
          /\ UNCHANGED <<snap, reading, state>>
     ELSE Sleep /\ NotDue
  /\ UNCHANGED <<indexed, busy, failures>>
  /\ UnchangedByPoll
(* check_changes, second half *)
CheckTree ==
  /\ pc = "dirty"
  /\ IF isRepo /\ Dirty
     THEN /\ pc' = "index"
          /\ UNCHANGED <<snap, reading, state>>
     ELSE Sleep /\ NotDue
  /\ UNCHANGED <<indexed, busy, failures>>
  /\ UnchangedByPoll

\* At shutdown the thread waits for a lock nobody gives back.
TryIndexBug ==
  /\ pc = "index"
  /\ ~stopped
  /\ pc' = IF busy THEN "reread" ELSE "run"
  /\ UNCHANGED <<snap, reading, indexed, busy, state, failures>>
  /\ UnchangedByPoll

\* The flag is only looked at by the loop.
TryIndexBlindBug ==
  /\ pc = "index"
  /\ pc' = IF busy THEN "reread" ELSE "run"
  /\ UNCHANGED <<snap, reading, indexed, busy, state, failures>>
  /\ UnchangedByPoll
(* watcher_index_fn: the callback reports success when it indexes nothing. *)
TryIndex ==
  /\ pc = "index"
  /\ pc' = IF stopped \/ busy THEN "reread" ELSE "run"
  /\ UNCHANGED <<snap, reading, indexed, busy, state, failures>>
  /\ UnchangedByPoll

IndexReads ==
  /\ pc = "run" /\ reading = 0
  /\ reading' = tree
  /\ UNCHANGED <<snap, pc, indexed, busy, state, failures>>
  /\ UnchangedByPoll

IndexWrites ==
  /\ pc = "run" /\ reading # 0
  /\ indexed' = reading
  /\ reading' = 0
  /\ pc' = "reread"
  /\ UNCHANGED <<snap, busy, state, failures>>
  /\ UnchangedByPoll

IndexFails ==
  /\ pc = "run"
  /\ "fail" \in scenario /\ failures < MaxFailures
  /\ failures' = failures + 1
  /\ Sleep /\ NotDue
  /\ UNCHANGED <<indexed, busy>>
  /\ UnchangedByPoll

\* "Update HEAD after successful reindex"
RereadHead ==
  /\ pc = "reread"
  /\ state' = [state EXCEPT ![snap].due = FALSE,
                            ![snap].lastHead = IF isRepo THEN head ELSE @]
  /\ Sleep
  /\ UNCHANGED <<indexed, busy, failures>>
  /\ UnchangedByPoll

Poll ==
  \/ Wake \/ End \/ Baseline \/ SkipPoll \/ CheckHead \/ CheckTree
  \/ TryIndex \/ IndexReads \/ IndexWrites \/ IndexFails \/ RereadHead

User ==
  \/ Edit \/ Commit \/ Pull \/ Revert \/ RepoToggles
  \/ \E c \in Contents \ {0} : Checkout(c)

Others == Watch \/ OtherStarts \/ OtherEnds \/ DeleteProject \/ Stop

Next == User \/ Others \/ IntervalPasses \/ Poll

(* The thread runs and time passes, a run of another thread ends, and the    *)
(* server registers a project that has a database when a session starts.     *)
Fairness ==
  /\ WF_vars(Poll) /\ WF_vars(IntervalPasses)
  /\ WF_vars(OtherEnds) /\ WF_vars(Watch)

Spec == Init /\ [][Next]_vars /\ Fairness

-----------------------------------------------------------------------------
(* Properties *)

\* "Background watcher detects file changes and re-indexes automatically": when
\* the user pauses, the index catches up with the tree.
CatchesUp == []<>(indexed = tree)

\* It does, as long as all changes are new work, made between polls and after the
\* only baseline, no run fails and no other thread indexes.
ChangesGetIndexed == scenario = {} => CatchesUp

\* Uncommitted work is caught up with also when runs fail or lose the lock, work
\* is taken back, and the user works at any time: dirtiness is looked at afresh at
\* every poll. Nothing is promised about a clean tree.
DirtyGetsIndexed ==
  scenario \subseteq {"busy", "fail", "revert", "window", "again", "early"} =>
    []<>(~Dirty \/ indexed = tree)

\* Once the server shuts down the thread comes to an end, so that the join in
\* main returns, wherever the poll was and whatever the other threads do.
WatcherStops == [](stopped => <>(pc = "ended"))

\* The callback "skips indexing if shutdown is in progress": the thread starts no
\* run after the server began to shut down.
NoRunAfterStop == [][stopped /\ pc' = "run" => pc = "run"]_vars
=============================================================================
