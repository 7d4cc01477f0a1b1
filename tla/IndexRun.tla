------------------------------ MODULE IndexRun ------------------------------
(***************************************************************************)
(* One index run after another on the database file of one project:        *)
(* cbm_pipeline_run with its two routes, the full one and the incremental  *)
(* one, while the working tree is edited, runs are cancelled and the       *)
(* process is killed.                                                      *)
(*                                                                         *)
(* A version stands for the (mtime, size) pair and for the content a file  *)
(* has with it; 0 is "no file", "no row", "no nodes". The nodes of a file  *)
(* are as good as the version they were extracted from, and the edges are  *)
(* the cross-file ones: <<c, d>> when c calls into d. The holder of the    *)
(* index lock runs alone (module IndexLock), so there is one run at most.  *)
(***************************************************************************)
EXTENDS Naturals, FiniteSets

CONSTANTS
  Files,            \* the source files of the project
  FastSkipped,      \* those under a directory the fast mode does not visit
  Calls,            \* <<c, d>>: the code of c, in any version, calls into d
  MaxEdits,         \* bound: edits and removals
  MaxCancels,       \* bound: cbm_pipeline_cancel calls
  MaxKills,         \* bound: process deaths
  MaxIoErrors       \* bound: failed writes of the database

ASSUME FilesAssumption ==
  /\ IsFiniteSet(Files)
  /\ FastSkipped \subseteq Files
  /\ Calls \subseteq Files \X Files
  /\ MaxEdits \in Nat /\ MaxCancels \in Nat
  /\ MaxKills \in Nat /\ MaxIoErrors \in Nat

VARIABLES
  disk,       \* the version of each file in the working tree
  db,         \* "none", "broken" (no valid first page) or "ok"
  node,       \* the version the nodes of each file in the database are from
  row,        \* the version in the file_hashes row of each file
  edge,       \* the cross-file edges in the database
  pc,         \* where the run is
  mode,       \* p->mode
  path,       \* the route taken: "full" or "incr"
  files,      \* what cbm_discover returned
  changed,    \* the files this run extracts
  kept,       \* the rows of the mode-skipped files
  gnode,      \* node and edge of the graph buffer
  gedge,
  todo,       \* what the current loop has left
  cancelled,  \* p->cancelled
  rc,         \* how the last run ended
  atStart,    \* history: node when the run started
  disturbed,  \* history: a file changed during a run, or a run was cancelled
  edits, cancels, kills, ioErrors

dbVars == <<db, node, row, edge>>
ramVars == <<mode, path, files, changed, kept, gnode, gedge, todo, atStart>>
boundVars == <<disturbed, edits, cancels, kills, ioErrors>>
vars == <<disk, dbVars, pc, ramVars, cancelled, rc, boundVars>>

Versions == 0..(MaxEdits + 1)
Empty == [f \in Files |-> 0]
Has(x) == {f \in Files : x[f] # 0}

\* The types, that only a database with a first page has content, and that only
\* changed files are extracted and visited ones given rows.
TypeOK ==
  /\ disk \in [Files -> Versions]
  /\ db \in {"none", "broken", "ok"}
  /\ node \in [Files -> Versions] /\ row \in [Files -> Versions]
  /\ edge \subseteq Files \X Files
  /\ pc \in {"idle", "discover", "route", "classify", "extract", "resolve",
             "predump", "unlink", "write", "writing", "persist"}
  /\ mode \in {"full", "fast"} /\ path \in {"full", "incr"}
  /\ files \subseteq Files /\ changed \subseteq Files /\ todo \subseteq Files
  /\ kept \in [Files -> Versions] /\ gnode \in [Files -> Versions]
  /\ gedge \subseteq Files \X Files
  /\ cancelled \in BOOLEAN /\ rc \in {"none", "ok", "failed", "killed"}
  /\ atStart \in [Files -> Versions]
  /\ db # "ok" => node = Empty /\ row = Empty /\ edge = {}
  /\ pc = "extract" => todo \subseteq changed
  /\ pc = "persist" => db = "ok" /\ todo \subseteq files
  /\ disturbed \in BOOLEAN
  /\ edits \in 0..MaxEdits /\ cancels \in 0..MaxCancels
  /\ kills \in 0..MaxKills /\ ioErrors \in 0..MaxIoErrors

\* No run: the pipeline object, its buffers and its flag are gone.
NoRun ==
  /\ mode = "full" /\ path = "full" /\ cancelled = FALSE
  /\ files = {} /\ changed = {} /\ todo = {} /\ gedge = {}
  /\ kept = Empty /\ gnode = Empty /\ atStart = Empty

Init ==
  /\ disk = [f \in Files |-> 1]
  /\ db = "none" /\ node = Empty /\ row = Empty /\ edge = {}
  /\ pc = "idle" /\ NoRun
  /\ rc = "none"
  /\ disturbed = FALSE
  /\ edits = 0 /\ cancels = 0 /\ kills = 0 /\ ioErrors = 0

-----------------------------------------------------------------------------
(* The environment *)

\* Every edit gives the file an mtime it never had.
Edit(f) ==
  /\ edits < MaxEdits
  /\ edits' = edits + 1
  /\ disturbed' = (disturbed \/ pc # "idle")
  /\ disk' = [disk EXCEPT ![f] = edits + 2]
  /\ UNCHANGED <<dbVars, pc, ramVars, cancelled, rc, cancels, kills, ioErrors>>

Remove(f) ==
  /\ edits < MaxEdits
  /\ disk[f] # 0
  /\ edits' = edits + 1
  /\ disturbed' = (disturbed \/ pc # "idle")
  /\ disk' = [disk EXCEPT ![f] = 0]
  /\ UNCHANGED <<dbVars, pc, ramVars, cancelled, rc, cancels, kills, ioErrors>>

(* handle_delete_project, or a user, removes the database file. *)
DropDb ==
  /\ pc = "idle" /\ db # "none"
  /\ db' = "none" /\ node' = Empty /\ row' = Empty /\ edge' = {}
  /\ UNCHANGED <<disk, pc, ramVars, cancelled, rc, boundVars>>

Cancel ==
  /\ pc # "idle" /\ ~cancelled
  /\ cancels < MaxCancels
  /\ cancels' = cancels + 1
  /\ cancelled' = TRUE
  /\ disturbed' = TRUE
  /\ UNCHANGED <<disk, dbVars, pc, ramVars, rc, edits, kills, ioErrors>>

\* The pipeline object is freed and its caller told the result.
End(result) ==
  /\ pc' = "idle"
  /\ rc' = result
  /\ mode' = "full" /\ path' = "full" /\ cancelled' = FALSE
  /\ files' = {} /\ changed' = {} /\ todo' = {} /\ gedge' = {}
  /\ kept' = Empty /\ gnode' = Empty /\ atStart' = Empty

\* The process dies: the database stays as it is on the disk.
Kill ==
  /\ pc # "idle"
  /\ kills < MaxKills
  /\ kills' = kills + 1
  /\ End("killed")
  /\ UNCHANGED <<disk, dbVars, disturbed, edits, cancels, ioErrors>>

-----------------------------------------------------------------------------
(* Discovery and routing *)

Start(m) ==
  /\ pc = "idle"
  /\ pc' = "discover"
  /\ mode' = m
  /\ atStart' = node
  /\ rc' = "none"
  /\ UNCHANGED <<disk, dbVars, path, files, changed, kept, gnode, gedge, todo,
                 cancelled, boundVars>>

Discover ==
  /\ pc = "discover"
  /\ IF cancelled
     THEN End("failed")
     ELSE /\ files' = Has(disk) \ (IF mode = "fast" THEN FastSkipped ELSE {})
          /\ pc' = "route"
          /\ UNCHANGED <<mode, path, changed, kept, gnode, gedge, todo, atStart,
                         cancelled, rc>>
  /\ UNCHANGED <<disk, dbVars, boundVars>>

(* hash_count > 0 && file_count <= hash_count + (hash_count / PAIR_LEN) *)
TakesIncremental ==
  LET hashCount == Cardinality(Has(row))
  IN  /\ db = "ok" /\ hashCount > 0
      /\ Cardinality(files) <= hashCount + (hashCount \div 2)

RouteIncremental ==
  /\ pc = "route"
  /\ TakesIncremental
  /\ path' = "incr"
  /\ pc' = "classify"
  /\ UNCHANGED <<disk, dbVars, mode, files, changed, kept, gnode, gedge, todo,
                 atStart, cancelled, rc, boundVars>>

\* The old database is deleted before the new graph exists.
RouteFull ==
  /\ pc = "route"
  /\ ~TakesIncremental
  /\ db' = "none" /\ node' = Empty /\ row' = Empty /\ edge' = {}
  /\ changed' = files
  /\ todo' = files
  /\ pc' = "extract"
  /\ UNCHANGED <<disk, mode, path, files, kept, gnode, gedge, atStart, cancelled,
                 rc, boundVars>>

-----------------------------------------------------------------------------
(* The incremental route up to the extraction *)

\* A file without a row is not taken for new.
ChangedFilesBug == {f \in files : row[f] # 0 /\ disk[f] # row[f]}
(* classify_files: no row, no stat, or another mtime or size. *)
ChangedFiles == {f \in files : row[f] = 0 \/ disk[f] # row[f]}

\* Everything that was not visited is taken for deleted.
DeletedFilesBug == Has(row) \ files
(* find_deleted_files *)
DeletedFiles == {f \in Has(row) \ files : disk[f] = 0}
\* The rows of the files that were not visited are dropped.
KeptRowsBug == Empty
\* The files that were not visited are given the mtime they have now.
KeptRowsFreshBug == [f \in Files |-> IF f \in Has(row) \ files THEN disk[f] ELSE 0]
\* The rows find_deleted_files carries forward.
KeptRows == [f \in Files |->
  IF f \in Has(row) \ files /\ disk[f] # 0 THEN row[f] ELSE 0]

\* Only the edges that leave a purged node go with it.
AmongBug(edges, fs) == {e \in edges : e[1] \in fs}
\* The edges from and to a purged node go with it.
Among(edges, fs) == edges \intersect (fs \X fs)

\* A removed file is not a change.
NoopBug ==
  /\ pc = "classify"
  /\ ChangedFiles = {}
  /\ End("ok")
  /\ UNCHANGED <<disk, dbVars, boundVars>>
Noop ==
  /\ pc = "classify"
  /\ ChangedFiles = {} /\ DeletedFiles = {}
  /\ End("ok")
  /\ UNCHANGED <<disk, dbVars, boundVars>>

\* Every visited file is extracted again, over the nodes it already has.
\* Classify, load the graph of the database, and purge it.
LoadAndPurge ==
  /\ pc = "classify"
  /\ ChangedFiles \union DeletedFiles # {}
  /\ LET stays == Files \ (ChangedFiles \union DeletedFiles)
     IN  /\ gnode' = [f \in Files |-> IF f \in stays THEN node[f] ELSE 0]
         /\ gedge' = Among(edge, stays)
  /\ changed' = ChangedFiles
  /\ kept' = KeptRows
  /\ todo' = ChangedFiles
  /\ pc' = "extract"
  /\ UNCHANGED <<disk, dbVars, mode, path, files, atStart, cancelled, rc,
                 boundVars>>

-----------------------------------------------------------------------------
(* Extraction and resolution, which both routes share *)

\* A file that is gone by now yields nothing.
Extract(f) ==
  /\ pc = "extract" /\ ~cancelled
  /\ f \in todo
  /\ gnode' = [gnode EXCEPT ![f] = disk[f]]
  /\ todo' = todo \ {f}
  /\ UNCHANGED <<disk, dbVars, pc, mode, path, files, changed, kept, gedge,
                 atStart, cancelled, rc, boundVars>>

\* The full run stops at a cancel; the incremental one goes on and writes.
AfterExtraction ==
  /\ pc = "extract"
  /\ cancelled \/ todo = {}
  /\ IF cancelled /\ path = "full"
     THEN End("failed")
     ELSE /\ pc' = "resolve"
          /\ todo' = {}
          /\ UNCHANGED <<mode, path, files, changed, kept, gnode, gedge, atStart,
                         cancelled, rc>>
  /\ UNCHANGED <<disk, dbVars, boundVars>>

\* Calls of the extracted files into whatever the graph buffer has.
Resolved == {e \in Calls : e[1] \in changed /\ gnode[e[1]] # 0 /\ gnode[e[2]] # 0}

Resolve ==
  /\ pc = "resolve"
  /\ IF cancelled /\ path = "full"
     THEN End("failed")
     ELSE /\ gedge' = IF cancelled THEN gedge ELSE gedge \union Resolved
          /\ pc' = IF path = "full" THEN "predump" ELSE "unlink"
          /\ UNCHANGED <<mode, path, files, changed, kept, gnode, todo, atStart,
                         cancelled, rc>>
  /\ UNCHANGED <<disk, dbVars, boundVars>>

\* run_post_extraction: a cancel seen only here skips the dump and leaves rc 0.
Predump ==
  /\ pc = "predump"
  /\ IF cancelled
     THEN End("ok")
     ELSE /\ pc' = "write"
          /\ UNCHANGED <<ramVars, cancelled, rc>>
  /\ UNCHANGED <<disk, dbVars, boundVars>>

-----------------------------------------------------------------------------
(* Dump and hash rows *)

Unlink ==
  /\ pc = "unlink"
  /\ db' = "none" /\ node' = Empty /\ row' = Empty /\ edge' = {}
  /\ pc' = "write"
  /\ UNCHANGED <<disk, ramVars, cancelled, rc, boundVars>>

(* cbm_write_db opens the file itself with "wb" and writes page 1 last. *)
WriteStart ==
  /\ pc = "write"
  /\ db' = "broken" /\ node' = Empty /\ row' = Empty /\ edge' = {}
  /\ pc' = "writing"
  /\ UNCHANGED <<disk, ramVars, cancelled, rc, boundVars>>

WriteDone ==
  /\ pc = "writing"
  /\ db' = "ok"
  /\ node' = gnode
  /\ edge' = gedge
  /\ row' = Empty
  /\ todo' = files
  /\ pc' = "persist"
  /\ UNCHANGED <<disk, mode, path, files, changed, kept, gnode, gedge, atStart,
                 cancelled, rc, boundVars>>

\* The full route reports the error; the incremental one only logs it.
WriteFails ==
  /\ pc = "writing"
  /\ ioErrors < MaxIoErrors
  /\ ioErrors' = ioErrors + 1
  /\ End(IF path = "full" THEN "failed" ELSE "ok")
  /\ UNCHANGED <<disk, dbVars, disturbed, edits, cancels, kills>>

(* One row per visited file, with the mtime and size it has now. *)
PersistRow(f) ==
  /\ pc = "persist"
  /\ f \in todo
  /\ row' = [row EXCEPT ![f] = disk[f]]
  /\ todo' = todo \ {f}
  /\ UNCHANGED <<disk, db, node, edge, pc, mode, path, files, changed, kept,
                 gnode, gedge, atStart, cancelled, rc, boundVars>>

\* Then the rows of the mode-skipped files, as they were.
PersistKept(f) ==
  /\ pc = "persist"
  /\ todo = {}
  /\ kept[f] # 0 /\ row[f] = 0
  /\ row' = [row EXCEPT ![f] = kept[f]]
  /\ UNCHANGED <<disk, db, node, edge, pc, ramVars, cancelled, rc, boundVars>>

Finish ==
  /\ pc = "persist"
  /\ todo = {}
  /\ \A f \in Files : kept[f] # 0 => row[f] # 0
  /\ End("ok")
  /\ UNCHANGED <<disk, dbVars, boundVars>>

Next ==
  \/ \E f \in Files : Edit(f) \/ Remove(f)
  \/ DropDb \/ Cancel \/ Kill
  \/ \E m \in {"full", "fast"} : Start(m)
  \/ Discover \/ RouteIncremental \/ RouteFull
  \/ Noop \/ LoadAndPurge
  \/ \E f \in Files : Extract(f)
  \/ AfterExtraction \/ Resolve \/ Predump
  \/ Unlink \/ WriteStart \/ WriteDone \/ WriteFails
  \/ \E f \in Files : PersistRow(f) \/ PersistKept(f)
  \/ Finish

Spec == Init /\ [][Next]_vars

-----------------------------------------------------------------------------
(* Properties *)

\* A hash row speaks of the version the nodes are from: "changed[i] = true if
\* files[i] needs re-parsing" is decided by the row alone (classify_files).
RowsMatchNodes ==
  db = "ok" => \A f \in Files : row[f] # 0 => row[f] = node[f]

\* It holds in every state a killed run or a failed write leaves behind, until a
\* file is edited during a run or a run is cancelled.
RowsVouch == ~disturbed => RowsMatchNodes

\* The nodes of a file are reachable for a later purge only through its row, so
\* between runs no file has nodes and no row (persist_hashes, mode-skipped part),
\* unless a run was killed between the dump and its last row.
NoOrphans ==
  ~disturbed /\ kills = 0 /\ pc = "idle" /\ db = "ok" =>
    \A f \in Files : node[f] # 0 => row[f] # 0

\* The run ends, and tells its caller that it succeeded.
Succeeds == pc # "idle" /\ pc' = "idle" /\ rc' = "ok"

\* A file that is gone from the disk is gone from the database after the next
\* run that succeeds, in whichever mode it was indexed and is indexed now.
RunPurges ==
  [][Succeeds /\ ~disturbed /\ kills = 0
       => \A f \in Files : disk[f] = 0 => node'[f] = 0]_vars

\* A run that succeeds leaves a readable database in which every file it visits
\* is present as it is on the disk, also after runs that were killed.
RunRefreshes ==
  [][Succeeds /\ ~disturbed /\ ioErrors' = 0
       => /\ db' = "ok"
          /\ \A f \in Has(disk) : ~(mode = "fast" /\ f \in FastSkipped)
                => node'[f] = disk[f]]_vars

\* "Fast-mode reindex after a full-mode index" keeps the nodes of the files that
\* exist on the disk and were not visited.
SkippedSurvive ==
  [][Succeeds /\ ~disturbed
       => \A f \in FastSkipped :
            mode = "fast" /\ disk[f] # 0 => node'[f] = atStart[f]]_vars

\* On the incremental route that holds whatever is edited, removed or cancelled
\* meanwhile: the mode-skipped files end with the nodes and the rows they had.
KeptAsTheyWere ==
  [][pc = "persist" /\ Succeeds /\ path = "incr"
       => \A f \in Has(kept) : node'[f] = atStart[f] /\ row'[f] = kept[f]]_vars

\* No edge of the database hangs in the air, whatever was purged.
EdgesJoinNodes ==
  \A e \in edge : node[e[1]] # 0 /\ node[e[2]] # 0
=============================================================================
