--------------------------- MODULE PipelineProofs ---------------------------
(***************************************************************************)
(* Theorems about a run of the pipeline: what it leaves in the database    *)
(* (IndexRun), for every set of files, call relation and bound; and the    *)
(* graph that it builds in memory (GraphBuffer), for every set of names,   *)
(* workers and stored graphs.                                              *)
(***************************************************************************)
EXTENDS IndexRun, GraphBuffer, TLAPS

(* The steps of the two routes that build the new graph and write it. *)
Building == {"extract", "resolve", "predump", "unlink", "write", "writing",
             "persist"}

-----------------------------------------------------------------------------
(* Types *)

LEMMA EmptyIsVersioned ==
  /\ Empty \in [Files -> Versions]
  /\ 0 \in Versions /\ 1 \in Versions
  /\ \A n \in 0..MaxEdits : n < MaxEdits => n + 2 \in Versions
BY FilesAssumption DEF Empty, Versions

LEMMA TypeInit == Init => TypeOK
<1> SUFFICES ASSUME Init PROVE TypeOK
  OBVIOUS
<1>1. disk \in [Files -> Versions]
  BY EmptyIsVersioned DEF Init
<1>2. /\ edits \in 0..MaxEdits /\ cancels \in 0..MaxCancels
      /\ kills \in 0..MaxKills /\ ioErrors \in 0..MaxIoErrors
  BY FilesAssumption DEF Init
<1> QED
  BY <1>1, <1>2, EmptyIsVersioned DEF Init, NoRun, TypeOK

\* A run may end anywhere, whatever it tells its caller.
LEMMA TypeEnd ==
  ASSUME TypeOK, NEW r \in {"none", "ok", "failed", "killed"}, End(r),
         UNCHANGED <<disk, db, node, row, edge>>,
         disturbed' \in BOOLEAN, edits' \in 0..MaxEdits, cancels' \in 0..MaxCancels,
         kills' \in 0..MaxKills, ioErrors' \in 0..MaxIoErrors
  PROVE  TypeOK'
BY EmptyIsVersioned DEF TypeOK, End

\* The environment and the start of a run.
LEMMA TypeEnvironment ==
  ASSUME TypeOK,
         \/ \E f \in Files : Edit(f) \/ Remove(f)
         \/ DropDb \/ Cancel \/ Kill
         \/ \E m \in {"full", "fast"} : Start(m)
  PROVE  TypeOK'
<1> USE FilesAssumption, EmptyIsVersioned DEF TypeOK, dbVars, ramVars, boundVars
<1>1. ASSUME NEW f \in Files, Edit(f) PROVE TypeOK'
  BY <1>1 DEF Edit
<1>2. ASSUME NEW f \in Files, Remove(f) PROVE TypeOK'
  BY <1>2 DEF Remove
<1>3. CASE DropDb
  BY <1>3 DEF DropDb
<1>4. CASE Cancel
  BY <1>4 DEF Cancel
<1>5. CASE Kill
  BY <1>5, TypeEnd DEF Kill
<1>6. ASSUME NEW m \in {"full", "fast"}, Start(m) PROVE TypeOK'
  BY <1>6 DEF Start
<1> QED
  BY <1>1, <1>2, <1>3, <1>4, <1>5, <1>6

\* From the discovery to the graph in memory.
LEMMA TypeRoute ==
  ASSUME TypeOK,
         \/ Discover \/ RouteIncremental \/ RouteFull \/ Noop \/ LoadAndPurge
  PROVE  TypeOK'
<1> USE FilesAssumption, EmptyIsVersioned DEF TypeOK, dbVars, ramVars, boundVars
<1>1. CASE Discover
  <2>1. CASE cancelled
    BY <1>1, <2>1, TypeEnd DEF Discover
  <2>2. CASE ~cancelled
    BY <1>1, <2>2 DEF Discover, Has
  <2> QED BY <2>1, <2>2
<1>2. CASE RouteIncremental
  BY <1>2 DEF RouteIncremental
<1>3. CASE RouteFull
  BY <1>3 DEF RouteFull
<1>4. CASE Noop
  BY <1>4, TypeEnd DEF Noop
<1>5. CASE LoadAndPurge
  BY <1>5 DEF LoadAndPurge, ChangedFiles, KeptRows, Among, Has
<1> QED
  BY <1>1, <1>2, <1>3, <1>4, <1>5

\* From the extraction to the last hash row.
LEMMA TypeBuild ==
  ASSUME TypeOK,
         \/ \E f \in Files : Extract(f) \/ PersistRow(f) \/ PersistKept(f)
         \/ AfterExtraction \/ Resolve \/ Predump
         \/ Unlink \/ WriteStart \/ WriteDone \/ WriteFails \/ Finish
  PROVE  TypeOK'
<1> USE FilesAssumption, EmptyIsVersioned DEF TypeOK, dbVars, ramVars, boundVars
<1>1. ASSUME NEW f \in Files, Extract(f) PROVE TypeOK'
  BY <1>1 DEF Extract
<1>2. ASSUME NEW f \in Files, PersistRow(f) PROVE TypeOK'
  BY <1>2 DEF PersistRow
<1>3. ASSUME NEW f \in Files, PersistKept(f) PROVE TypeOK'
  BY <1>3 DEF PersistKept
<1>4. CASE AfterExtraction
  <2>1. CASE cancelled /\ path = "full"
    BY <1>4, <2>1, TypeEnd DEF AfterExtraction
  <2>2. CASE ~(cancelled /\ path = "full")
    BY <1>4, <2>2 DEF AfterExtraction
  <2> QED BY <2>1, <2>2
<1>5. CASE Resolve
  <2>1. CASE cancelled /\ path = "full"
    BY <1>5, <2>1, TypeEnd DEF Resolve
  <2>2. CASE ~(cancelled /\ path = "full")
    BY <1>5, <2>2 DEF Resolve, Resolved
  <2> QED BY <2>1, <2>2
<1>6. CASE Predump
  <2>1. CASE cancelled
    BY <1>6, <2>1, TypeEnd DEF Predump
  <2>2. CASE ~cancelled
    BY <1>6, <2>2 DEF Predump
  <2> QED BY <2>1, <2>2
<1>7. CASE Unlink
  BY <1>7 DEF Unlink
<1>8. CASE WriteStart
  BY <1>8 DEF WriteStart
<1>9. CASE WriteDone
  BY <1>9 DEF WriteDone
<1>10. CASE WriteFails
  BY <1>10, TypeEnd DEF WriteFails
<1>11. CASE Finish
  BY <1>11, TypeEnd DEF Finish
<1> QED
  BY <1>1, <1>2, <1>3, <1>4, <1>5, <1>6, <1>7, <1>8, <1>9, <1>10, <1>11

LEMMA TypeStep == TypeOK /\ [Next]_vars => TypeOK'
<1>1. CASE UNCHANGED vars
  BY <1>1 DEF TypeOK, vars, dbVars, ramVars, boundVars
<1>2. CASE Next
  BY <1>2, TypeEnvironment, TypeRoute, TypeBuild DEF Next
<1> QED
  BY <1>1, <1>2

\* Every variable keeps its type, only a database with a first page has content,
\* and only changed files are extracted and visited ones given rows.
THEOREM TypeCorrect == Spec => []TypeOK
BY TypeInit, TypeStep, PTL DEF Spec
-----------------------------------------------------------------------------
(* Edges: no assumption about edits, cancels or kills                        *)

Joined(edges, nodes) == \A e \in edges : nodes[e[1]] # 0 /\ nodes[e[2]] # 0

\* While files are extracted, no edge of the buffer touches one of them: their
\* edges went when they were purged, so a file that turns out to be gone leaves
\* nothing behind.
EdgeInv ==
  /\ TypeOK
  /\ Joined(edge, node)
  /\ Joined(gedge, gnode)
  /\ pc = "extract" => \A e \in gedge : e[1] \notin changed /\ e[2] \notin changed
  /\ pc \in {"idle", "discover", "route", "classify"} => gedge = {}

LEMMA EdgeInit == Init => EdgeInv
BY TypeInit DEF Init, NoRun, EdgeInv, Joined

LEMMA EdgeStep == EdgeInv /\ [Next]_vars => EdgeInv'
<1> SUFFICES ASSUME EdgeInv, [Next]_vars PROVE EdgeInv'
  OBVIOUS
<1> USE DEF dbVars, ramVars, boundVars, Joined
<1>t. TypeOK /\ TypeOK'
  BY TypeStep DEF EdgeInv
<1>e. ASSUME NEW r, End(r), UNCHANGED <<node, edge>> PROVE EdgeInv'
  BY <1>t, <1>e DEF EdgeInv, End
<1>1. ASSUME NEW f \in Files, Edit(f) \/ Remove(f) PROVE EdgeInv'
  BY <1>t, <1>1 DEF EdgeInv, Edit, Remove
<1>2. CASE DropDb
  BY <1>t, <1>2 DEF EdgeInv, DropDb
<1>3. CASE Cancel
  BY <1>t, <1>3 DEF EdgeInv, Cancel
<1>4. ASSUME NEW m \in {"full", "fast"}, Start(m) PROVE EdgeInv'
  BY <1>t, <1>4 DEF EdgeInv, Start
<1>5. CASE Discover
  BY <1>t, <1>e, <1>5 DEF EdgeInv, Discover
<1>6. CASE RouteIncremental
  BY <1>t, <1>6 DEF EdgeInv, RouteIncremental
<1>7. CASE RouteFull
  BY <1>t, <1>7 DEF EdgeInv, RouteFull
<1>8. CASE LoadAndPurge
  <2> DEFINE stays == Files \ (ChangedFiles \union DeletedFiles)
  <2>1. \A e \in gedge' : e \in edge /\ e[1] \in stays /\ e[2] \in stays
    BY <1>8 DEF LoadAndPurge, Among
  <2>2. \A f \in stays : gnode'[f] = node[f]
    BY <1>8 DEF LoadAndPurge
  <2> QED
    BY <1>t, <1>8, <2>1, <2>2 DEF EdgeInv, LoadAndPurge
<1>9. ASSUME NEW f \in Files, Extract(f) PROVE EdgeInv'
  <2>1. f \in changed
    BY <1>t, <1>9 DEF TypeOK, Extract
  <2>2. \A g \in Files \ {f} : gnode'[g] = gnode[g]
    BY <1>t, <1>9 DEF TypeOK, Extract
  <2>3. \A e \in gedge : e[1] \in Files \ {f} /\ e[2] \in Files \ {f}
    BY <1>t, <1>9, <2>1 DEF TypeOK, Extract, EdgeInv
  <2> QED
    BY <1>t, <1>9, <2>2, <2>3 DEF EdgeInv, Extract
<1>10. CASE AfterExtraction
  BY <1>t, <1>e, <1>10 DEF EdgeInv, AfterExtraction
<1>11. CASE Resolve
  BY <1>t, <1>e, <1>11 DEF EdgeInv, Resolve, Resolved
<1>12. CASE Predump
  BY <1>t, <1>e, <1>12 DEF EdgeInv, Predump
<1>13. CASE Unlink \/ WriteStart \/ WriteDone
  BY <1>t, <1>13 DEF EdgeInv, Unlink, WriteStart, WriteDone
<1>14. CASE Kill \/ Noop \/ WriteFails \/ Finish
  BY <1>e, <1>14 DEF Kill, Noop, WriteFails, Finish
<1>15. ASSUME NEW f \in Files, PersistRow(f) \/ PersistKept(f) PROVE EdgeInv'
  BY <1>t, <1>15 DEF EdgeInv, PersistRow, PersistKept
<1>16. CASE UNCHANGED vars
  BY <1>t, <1>16 DEF EdgeInv, vars
<1> QED
  BY <1>1, <1>2, <1>3, <1>4, <1>5, <1>6, <1>7, <1>8, <1>9, <1>10, <1>11, <1>12,
     <1>13, <1>14, <1>15, <1>16 DEF Next

\* No edge of the database hangs in the air, whatever was edited, cancelled or
\* killed: a purge takes the edges of both its ends, and an edge is only resolved
\* between files that are in the graph buffer.
THEOREM NoDanglingEdge == Spec => []EdgesJoinNodes
<1>1. EdgeInv => EdgesJoinNodes
  BY DEF EdgeInv, EdgesJoinNodes, Joined
<1> QED
  BY <1>1, EdgeInit, EdgeStep, PTL DEF Spec
-----------------------------------------------------------------------------
(* Rows and nodes, until a file changes during a run or a run is cancelled;  *)
(* the process may be killed and writes may fail                             *)

RowsAgree == \A f \in Files : row[f] # 0 => row[f] = node[f]

Visited(m) == Has(disk) \ (IF m = "fast" THEN FastSkipped ELSE {})

\* The graph buffer holds every visited file as it is on the disk, save those
\* still to be extracted, and the mode-skipped files as their rows say.
BufferRight ==
  /\ changed \subseteq files
  /\ \A f \in files : gnode[f] = disk[f] \/ (pc = "extract" /\ f \in todo)
  /\ \A f \in Files : kept[f] # 0 => f \notin files /\ gnode[f] = kept[f]

Agreement ==
  /\ ~cancelled
  /\ RowsAgree
  /\ pc \notin {"idle", "discover"} => files = Visited(mode)
  /\ pc \in {"idle", "discover", "route"} => kept = Empty /\ path = "full"
  /\ pc = "classify" => db = "ok"
  /\ pc \in Building => BufferRight
  /\ pc = "persist" => node = gnode

RowInv == TypeOK /\ (~disturbed => Agreement)

LEMMA RowInit == Init => RowInv
BY TypeInit DEF Init, NoRun, RowInv, Agreement, RowsAgree, Empty, Building

\* Nothing makes the history forget a disturbance.
LEMMA StaysDisturbed == [Next]_vars => (disturbed => disturbed')
BY DEF Next, vars, boundVars, Edit, Remove, DropDb, Cancel, Kill, Start, Discover,
   RouteIncremental, RouteFull, Noop, LoadAndPurge, Extract, AfterExtraction,
   Resolve, Predump, Unlink, WriteStart, WriteDone, WriteFails, PersistRow,
   PersistKept, Finish

LEMMA RowStep == RowInv /\ [Next]_vars => RowInv'
<1> SUFFICES ASSUME TypeOK, TypeOK', Agreement, [Next]_vars, ~disturbed'
             PROVE  Agreement'
  BY TypeStep, StaysDisturbed DEF RowInv
<1> USE DEF dbVars, ramVars, boundVars, Building
<1>e. ASSUME NEW r, End(r), UNCHANGED <<node, row>> PROVE Agreement'
  BY <1>e DEF Agreement, End, RowsAgree
<1>1. ASSUME NEW f \in Files, Edit(f) \/ Remove(f) PROVE Agreement'
  <2>1. pc = "idle" /\ pc' = "idle"
    BY <1>1, TypeOK, ~disturbed' DEF TypeOK, Edit, Remove
  <2> QED
    BY <1>1, <2>1 DEF Agreement, Edit, Remove, RowsAgree
<1>2. CASE DropDb
  BY <1>2 DEF Agreement, DropDb, RowsAgree, Empty
<1>3. ~Cancel
  BY DEF Cancel
<1>4. ASSUME NEW m \in {"full", "fast"}, Start(m) PROVE Agreement'
  BY <1>4 DEF Agreement, Start, RowsAgree
<1>5. CASE Discover
  BY <1>e, <1>5 DEF Agreement, Discover, RowsAgree, Visited, Has
<1>6. CASE RouteIncremental
  BY <1>6 DEF Agreement, RouteIncremental, TakesIncremental, RowsAgree, Visited, Has
<1>7. CASE RouteFull
  BY <1>7 DEF Agreement, RouteFull, RowsAgree, Visited, Has, BufferRight, Empty
<1>8. CASE LoadAndPurge
  <2>1. \A f \in files : gnode'[f] = disk[f] \/ f \in todo'
    BY <1>8 DEF Agreement, TypeOK, LoadAndPurge, RowsAgree, ChangedFiles,
       DeletedFiles, Has
  <2>2. \A f \in Files : kept'[f] # 0 => f \notin files /\ gnode'[f] = kept'[f]
    BY <1>8 DEF Agreement, TypeOK, LoadAndPurge, RowsAgree, ChangedFiles,
       DeletedFiles, KeptRows, Has
  <2> QED
    BY <1>8, <2>1, <2>2
    DEF Agreement, LoadAndPurge, ChangedFiles, RowsAgree, Visited, Has, BufferRight
<1>9. ASSUME NEW f \in Files, Extract(f) PROVE Agreement'
  <2>1. BufferRight'
    BY <1>9 DEF Agreement, TypeOK, Extract, BufferRight
  <2> QED
    BY <1>9, <2>1 DEF Agreement, Extract, RowsAgree, Visited, Has
<1>10. CASE AfterExtraction
  BY <1>10 DEF Agreement, AfterExtraction, RowsAgree, Visited, Has, BufferRight
<1>11. CASE Resolve \/ Predump
  BY <1>11 DEF Agreement, Resolve, Predump, RowsAgree, Visited, Has, BufferRight
<1>12. CASE Unlink \/ WriteStart \/ WriteDone
  BY <1>12 DEF Agreement, Unlink, WriteStart, WriteDone, RowsAgree, Visited,
     Has, BufferRight, Empty
<1>13. CASE Kill \/ Noop \/ WriteFails \/ Finish
  BY <1>e, <1>13 DEF Kill, Noop, WriteFails, Finish
<1>14. ASSUME NEW f \in Files, PersistRow(f) PROVE Agreement'
  <2>1. f \in files /\ node[f] = disk[f]
    BY <1>14 DEF Agreement, TypeOK, PersistRow, BufferRight
  <2>2. RowsAgree'
    BY <1>14, <2>1 DEF Agreement, TypeOK, PersistRow, RowsAgree
  <2> QED
    BY <1>14, <2>2 DEF Agreement, PersistRow, Visited, Has, BufferRight
<1>15. ASSUME NEW f \in Files, PersistKept(f) PROVE Agreement'
  <2>1. RowsAgree'
    BY <1>15 DEF Agreement, TypeOK, PersistKept, RowsAgree, BufferRight
  <2> QED
    BY <1>15, <2>1 DEF Agreement, PersistKept, Visited, Has, BufferRight
<1>16. CASE UNCHANGED vars
  BY <1>16 DEF Agreement, vars, RowsAgree, Visited, Has, BufferRight
<1> QED
  BY <1>1, <1>2, <1>3, <1>4, <1>5, <1>6, <1>7, <1>8, <1>9, <1>10, <1>11, <1>12,
     <1>13, <1>14, <1>15, <1>16 DEF Next

\* A hash row vouches for the nodes it stands for, in every state a killed run or
\* a failed write leaves, until a file changes during a run or a run is cancelled;
\* run run_race shows that it does not hold for longer.
THEOREM RowsVouchForNodes == Spec => []RowsVouch
<1>1. RowInv => RowsVouch
  BY DEF RowInv, Agreement, RowsVouch, RowsMatchNodes, RowsAgree
<1> QED
  BY <1>1, RowInit, RowStep, PTL DEF Spec

-----------------------------------------------------------------------------
(* What a run that succeeds leaves                                           *)

\* Without failed writes, the two ways to report success are the no-op, where
\* every visited file has a row that agrees with the disk and with its nodes, and
\* the last hash row, where the database is the graph buffer.
THEOREM SuccessIsFresh == Spec => RunRefreshes
<1> DEFINE Fresh ==
      Succeeds /\ ~disturbed /\ ioErrors' = 0
        => /\ db' = "ok"
           /\ \A f \in Has(disk) : ~(mode = "fast" /\ f \in FastSkipped)
                 => node'[f] = disk[f]
<1>1. RowInv /\ [Next]_vars => [Fresh]_vars
  <2> SUFFICES ASSUME TypeOK, Agreement, Next, pc # "idle", pc' = "idle",
                      rc' = "ok", ioErrors' = 0
               PROVE  Fresh
    BY DEF RowInv, Succeeds
  <2> USE DEF dbVars, ramVars, boundVars
  <2>1. CASE Noop
    <3>1. \A f \in files : row[f] # 0 /\ disk[f] = row[f]
      BY <2>1 DEF Noop, ChangedFiles
    <3>2. files = Visited(mode) /\ db = "ok" /\ RowsAgree
      BY <2>1 DEF Agreement, Noop
    <3> QED
      BY <2>1, <3>1, <3>2 DEF Noop, Visited, RowsAgree, TypeOK
  <2>2. CASE Finish
    <3>1. files = Visited(mode) /\ db = "ok" /\ node = gnode /\ BufferRight
      BY <2>2 DEF Agreement, Finish, TypeOK, Building
    <3> QED
      BY <2>2, <3>1 DEF Finish, Visited, BufferRight
  <2>3. ~WriteFails
    BY DEF TypeOK, WriteFails
  <2>4. ~Predump
    BY DEF Agreement, Predump
  <2>5. Noop \/ Finish
    BY <2>3, <2>4 DEF Agreement, Next, Edit, Remove, DropDb, Cancel, Kill, Start,
       Discover, RouteIncremental, RouteFull, LoadAndPurge, Extract,
       AfterExtraction, Resolve, Unlink, WriteStart, WriteDone, PersistRow,
       PersistKept, End
  <2> QED
    BY <2>1, <2>2, <2>5
<1>2. Spec => []RowInv
  BY RowInit, RowStep, PTL DEF Spec
<1> QED
  BY <1>1, <1>2, PTL DEF Spec, RunRefreshes
-----------------------------------------------------------------------------
(* Files with nodes have rows, and files that are gone have neither, as long  *)
(* as moreover no run was killed                                             *)

RowOfEveryNode == \A f \in Files : node[f] # 0 => row[f] # 0

\* What is in the graph buffer will get a row: the visited files from the disk,
\* where they are, and all other files with nodes from their kept rows.
NoneLost ==
  /\ pc \notin Building => gnode = Empty
  /\ db = "ok" /\ pc # "persist" => RowOfEveryNode
  /\ pc \in Building => \A f \in Files : gnode[f] # 0 => f \in files \/ kept[f] # 0
  /\ pc \in Building => \A f \in Files : kept[f] # 0 => disk[f] # 0
  /\ pc = "writing" => db = "broken"
  /\ pc = "persist" => \A f \in files : row[f] # 0 \/ f \in todo

OrphanInv == RowInv /\ (~disturbed /\ kills = 0 => NoneLost)

LEMMA OrphanInit == Init => OrphanInv
BY RowInit DEF Init, NoRun, OrphanInv, NoneLost, RowOfEveryNode, Building, Empty

LEMMA StaysKilled == TypeOK /\ [Next]_vars => (kills' = 0 => kills = 0 /\ ~Kill)
BY FilesAssumption DEF TypeOK, Next, vars, boundVars, Edit, Remove, DropDb, Cancel, Kill,
   Start, Discover, RouteIncremental, RouteFull, Noop, LoadAndPurge, Extract,
   AfterExtraction, Resolve, Predump, Unlink, WriteStart, WriteDone, WriteFails,
   PersistRow, PersistKept, Finish

LEMMA OrphanStep == OrphanInv /\ [Next]_vars => OrphanInv'
<1> SUFFICES ASSUME TypeOK, TypeOK', Agreement, NoneLost, [Next]_vars, ~disturbed',
                    kills' = 0, ~Kill
             PROVE  NoneLost'
  BY RowStep, StaysDisturbed, StaysKilled DEF OrphanInv, RowInv
<1> USE DEF dbVars, ramVars, boundVars, Building, NoneLost, RowOfEveryNode
<1>e. ASSUME NEW r, End(r), UNCHANGED <<db, node, row>>,
             db = "ok" => RowOfEveryNode
      PROVE  NoneLost'
  BY <1>e DEF End
<1>1. ASSUME NEW f \in Files, Edit(f) \/ Remove(f) PROVE NoneLost'
  <2>1. pc = "idle" /\ pc' = "idle"
    BY <1>1, ~disturbed' DEF TypeOK, Edit, Remove
  <2> QED
    BY <1>1, <2>1 DEF Edit, Remove
<1>2. CASE DropDb
  BY <1>2 DEF DropDb
<1>3. ~Cancel
  BY DEF Cancel
<1>4. ASSUME NEW m \in {"full", "fast"}, Start(m) PROVE NoneLost'
  BY <1>4 DEF Start
<1>5. CASE Discover
  BY <1>e, <1>5 DEF Discover
<1>6. CASE RouteIncremental
  BY <1>6 DEF RouteIncremental
<1>7. CASE RouteFull
  BY <1>7 DEF RouteFull, Agreement, Empty
<1>8. CASE LoadAndPurge
  <2>1. \A f \in Files : gnode'[f] # 0 => f \in files \/ kept'[f] # 0
    BY <1>8 DEF TypeOK, Agreement, LoadAndPurge, DeletedFiles, KeptRows, Has
  <2>2. \A f \in Files : kept'[f] # 0 => disk'[f] # 0
    BY <1>8 DEF LoadAndPurge, KeptRows
  <2> QED
    BY <1>8, <2>1, <2>2 DEF LoadAndPurge
<1>9. ASSUME NEW f \in Files, Extract(f) PROVE NoneLost'
  BY <1>9 DEF TypeOK, Agreement, BufferRight, Extract
<1>10. CASE AfterExtraction
  BY <1>10 DEF AfterExtraction, Agreement
<1>11. CASE Resolve \/ Predump
  BY <1>11 DEF Resolve, Predump, Agreement
<1>12. CASE Unlink \/ WriteStart \/ WriteDone
  BY <1>12 DEF Unlink, WriteStart, WriteDone
<1>13. CASE Noop
  BY <1>e, <1>13 DEF Noop
<1>14. CASE WriteFails
  BY <1>e, <1>14 DEF WriteFails
<1>15. CASE Finish
  <2>1. RowOfEveryNode
    BY <1>15 DEF Finish, Agreement
  <2> QED
    BY <1>e, <1>15, <2>1 DEF Finish
<1>16. ASSUME NEW f \in Files, PersistRow(f) PROVE NoneLost'
  <2>1. disk[f] # 0
    BY <1>16 DEF PersistRow, TypeOK, Agreement, Visited, Has
  <2> QED
    BY <1>16, <2>1 DEF PersistRow, TypeOK
<1>17. ASSUME NEW f \in Files, PersistKept(f) PROVE NoneLost'
  BY <1>17 DEF PersistKept, TypeOK
<1>18. CASE UNCHANGED vars
  BY <1>18 DEF vars
<1> QED
  BY <1>1, <1>2, <1>3, <1>4, <1>5, <1>6, <1>7, <1>8, <1>9, <1>10, <1>11, <1>12,
     <1>13, <1>14, <1>15, <1>16, <1>17, <1>18 DEF Next

LEMMA OrphanHolds == Spec => []OrphanInv
BY OrphanInit, OrphanStep, PTL DEF Spec

\* Between runs every file with nodes has a row, through which a later run can
\* purge them, as long as nothing disturbed or killed a run.
THEOREM NoNodesWithoutRow == Spec => []NoOrphans
<1>1. OrphanInv => NoOrphans
  BY DEF OrphanInv, NoneLost, NoOrphans, RowOfEveryNode
<1> QED
  BY <1>1, OrphanHolds, PTL

\* A run that succeeds leaves no nodes of a file that is gone: find_deleted_files
\* finds it by its row, and a kept row is one of a file that exists.
THEOREM SuccessPurges == Spec => RunPurges
<1> DEFINE Purged ==
      Succeeds /\ ~disturbed /\ kills = 0
        => \A f \in Files : disk[f] = 0 => node'[f] = 0
<1>1. OrphanInv /\ [Next]_vars => [Purged]_vars
  <2> SUFFICES ASSUME TypeOK, Agreement, NoneLost, Next, pc # "idle", pc' = "idle",
                      rc' = "ok"
               PROVE  Purged
    BY DEF OrphanInv, RowInv, Succeeds
  <2> USE DEF dbVars, ramVars, boundVars
  <2>1. CASE Noop
    <3>1. \A f \in Files : disk[f] = 0 => row[f] = 0
      BY <2>1 DEF Noop, ChangedFiles, DeletedFiles, Has, TypeOK
    <3>2. RowOfEveryNode
      BY <2>1 DEF Noop, NoneLost, Agreement
    <3> QED
      BY <2>1, <3>1, <3>2 DEF Noop, RowOfEveryNode
  <2>2. CASE Finish
    <3>1. /\ files = Visited(mode) /\ node = gnode
          /\ \A f \in Files : gnode[f] # 0 => f \in files \/ kept[f] # 0
          /\ \A f \in Files : kept[f] # 0 => disk[f] # 0
      BY <2>2 DEF Agreement, NoneLost, Finish, Building
    <3> QED
      BY <2>2, <3>1 DEF Finish, Visited, Has
  <2>3. CASE WriteFails
    BY <2>3 DEF NoneLost, WriteFails, TypeOK, Empty
  <2>4. ~Predump
    BY DEF Agreement, Predump
  <2>5. Noop \/ Finish \/ WriteFails
    BY <2>4 DEF Agreement, Next, Edit, Remove, DropDb, Cancel, Kill, Start,
       Discover, RouteIncremental, RouteFull, LoadAndPurge, Extract,
       AfterExtraction, Resolve, Unlink, WriteStart, WriteDone, PersistRow,
       PersistKept, End
  <2> QED
    BY <2>1, <2>2, <2>3, <2>5
<1> QED
  BY <1>1, OrphanHolds, PTL DEF Spec, RunPurges
-----------------------------------------------------------------------------
(* Mode-skipped files: no assumption about edits, cancels or kills           *)

\* A file with a kept row was not visited, so nothing that extraction or
\* persistence does reaches its nodes or its row before the kept row itself.
KeptInv ==
  /\ TypeOK
  /\ pc \in {"discover", "route", "classify"} => atStart = node
  /\ pc \in {"idle", "discover", "route", "classify"} => kept = Empty
  /\ pc \in Building =>
       /\ changed \subseteq files
       /\ \A f \in Files : kept[f] # 0 => f \notin files /\ gnode[f] = atStart[f]
  /\ pc = "persist" =>
       /\ node = gnode
       /\ \A f \in Files : kept[f] # 0 /\ row[f] # 0 => row[f] = kept[f]

LEMMA KeptInit == Init => KeptInv
BY TypeInit DEF Init, NoRun, KeptInv, Building

LEMMA KeptStep == KeptInv /\ [Next]_vars => KeptInv'
<1> SUFFICES ASSUME KeptInv, [Next]_vars PROVE KeptInv'
  OBVIOUS
<1> USE DEF dbVars, ramVars, boundVars, Building
<1>t. TypeOK /\ TypeOK'
  BY TypeStep DEF KeptInv
<1>e. ASSUME NEW r, End(r) PROVE KeptInv'
  BY <1>t, <1>e DEF KeptInv, End
<1>1. ASSUME NEW f \in Files, Edit(f) \/ Remove(f) PROVE KeptInv'
  BY <1>t, <1>1 DEF KeptInv, Edit, Remove
<1>2. CASE DropDb \/ Cancel
  BY <1>t, <1>2 DEF KeptInv, DropDb, Cancel
<1>3. ASSUME NEW m \in {"full", "fast"}, Start(m) PROVE KeptInv'
  BY <1>t, <1>3 DEF KeptInv, Start
<1>4. CASE Discover
  BY <1>t, <1>e, <1>4 DEF KeptInv, Discover
<1>5. CASE RouteIncremental
  BY <1>t, <1>5 DEF KeptInv, RouteIncremental
<1>6. CASE RouteFull
  BY <1>t, <1>6 DEF KeptInv, RouteFull, Empty
<1>7. CASE LoadAndPurge
  BY <1>t, <1>7 DEF KeptInv, LoadAndPurge, ChangedFiles, DeletedFiles, KeptRows, Has
<1>8. ASSUME NEW f \in Files, Extract(f) PROVE KeptInv'
  <2>1. f \in files
    BY <1>t, <1>8 DEF KeptInv, TypeOK, Extract
  <2>2. \A g \in Files \ {f} : gnode'[g] = gnode[g]
    BY <1>t, <1>8 DEF TypeOK, Extract
  <2> QED
    BY <1>t, <1>8, <2>1, <2>2 DEF KeptInv, Extract
<1>9. CASE AfterExtraction
  BY <1>t, <1>e, <1>9 DEF KeptInv, AfterExtraction
<1>10. CASE Resolve
  BY <1>t, <1>e, <1>10 DEF KeptInv, Resolve
<1>11. CASE Predump
  BY <1>t, <1>e, <1>11 DEF KeptInv, Predump
<1>12. CASE Unlink \/ WriteStart
  BY <1>t, <1>12 DEF KeptInv, Unlink, WriteStart
<1>13. CASE WriteDone
  BY <1>t, <1>13 DEF KeptInv, WriteDone, Empty
<1>14. CASE Kill \/ Noop \/ WriteFails \/ Finish
  BY <1>e, <1>14 DEF Kill, Noop, WriteFails, Finish
<1>15. ASSUME NEW f \in Files, PersistRow(f) PROVE KeptInv'
  <2>1. f \in files /\ pc = "persist"
    BY <1>t, <1>15 DEF TypeOK, PersistRow
  <2>2. \A g \in Files \ {f} : row'[g] = row[g]
    BY <1>t, <1>15 DEF TypeOK, PersistRow
  <2> QED
    BY <1>t, <1>15, <2>1, <2>2 DEF KeptInv, PersistRow
<1>16. ASSUME NEW f \in Files, PersistKept(f) PROVE KeptInv'
  <2>1. \A g \in Files : row'[g] = IF g = f THEN kept[g] ELSE row[g]
    BY <1>t, <1>16 DEF TypeOK, PersistKept
  <2> QED
    BY <1>t, <1>16, <2>1 DEF KeptInv, PersistKept
<1>17. CASE UNCHANGED vars
  BY <1>t, <1>17 DEF KeptInv, vars
<1> QED
  BY <1>1, <1>2, <1>3, <1>4, <1>5, <1>6, <1>7, <1>8, <1>9, <1>10, <1>11, <1>12,
     <1>13, <1>14, <1>15, <1>16, <1>17 DEF Next

\* The additive-merge contract of find_deleted_files and persist_hashes: an
\* incremental run that ends leaves the nodes and the row of every mode-skipped
\* file as they were when it started.
THEOREM ModeSkippedAreKept == Spec => KeptAsTheyWere
<1> DEFINE Same ==
      pc = "persist" /\ Succeeds /\ path = "incr"
        => \A f \in Has(kept) : node'[f] = atStart[f] /\ row'[f] = kept[f]
<1>1. KeptInv /\ [Next]_vars => [Same]_vars
  <2> SUFFICES ASSUME KeptInv, Next, pc = "persist", pc' = "idle", rc' = "ok"
               PROVE  Same
    BY DEF Succeeds
  <2> USE DEF dbVars, ramVars, boundVars
  <2>1. Finish
    BY DEF Next, Edit, Remove, DropDb, Cancel, Kill, Start, Discover, Noop, End,
       RouteIncremental, RouteFull, LoadAndPurge, Extract, AfterExtraction,
       Resolve, Predump, Unlink, WriteStart, WriteDone, WriteFails, PersistRow,
       PersistKept
  <2> QED
    BY <2>1 DEF KeptInv, Finish, Has, Building
<1>2. Spec => []KeptInv
  BY KeptInit, KeptStep, PTL DEF Spec
<1> QED
  BY <1>1, <1>2, PTL DEF Spec, KeptAsTheyWere

-----------------------------------------------------------------------------
(***************************************************************************)
(* The graph buffer                                                        *)
(*                                                                         *)
(* GraphInv is inductive. Of one buffer it says that the ids below next    *)
(* identify nodes, that names and ids lead to the named ones (NamesOK),    *)
(* which label lists they are in (LabelsOK) and that every index of the    *)
(* edges has the same ones (EdgesOK); of all, that no id is a node's in    *)
(* two of them (OwnIds) and that edges join named nodes of their own       *)
(* buffer or of main (EndsOK). StagesOK is what a purge relies on: until   *)
(* the build begins, each node is in the list of the label that it has.    *)
(***************************************************************************)

\* A node with an id below k.
Node(k) == [id : 1 .. (k - 1), qn : Names \cup {Null}, label : Labels, file : Sources]

\* A buffer is a record with these fields.
IsBuffer(b) ==
  b = [nodes |-> b.nodes, byQn |-> b.byQn, byId |-> b.byId, byLabel |-> b.byLabel,
       edges |-> b.edges, byKey |-> b.byKey, bySource |-> b.bySource,
       byTarget |-> b.byTarget, byType |-> b.byType]

\* Ids below k identify nodes, and names and ids lead to the nodes that have a name.
NamesOK(b, k) ==
  /\ b.nodes \subseteq Node(k)
  /\ b.byQn \in [Names -> Nat]
  /\ \A n, m \in b.nodes : n.id = m.id => n = m
  /\ \A n \in b.nodes : n.qn # Null => b.byQn[n.qn] = n.id
  /\ \A q \in Names : b.byQn[q] # 0 => \E n \in b.nodes : n.qn = q
  /\ b.byId = {n.id : n \in {m \in b.nodes : m.qn # Null}}

Entries(b, i) == {e \in b.byLabel : e[2] = i}

\* The list of one label has each live node, and no list has another.
LabelsOK(b) ==
  /\ \A e \in b.byLabel : e[2] \in b.byId
  /\ \A i \in b.byId : \E l \in Labels : Entries(b, i) = {<<l, i>>}

\* Every node is in the list of the label that it has.
LabelsTrue(b) == \A n \in b.nodes : n.qn # Null => <<n.label, n.id>> \in b.byLabel

EdgesOK(b) ==
  /\ \A e \in b.edges : e = [src |-> e.src, type |-> e.type, tgt |-> e.tgt]
  /\ b.byKey = b.edges /\ b.bySource = b.edges /\ b.byTarget = b.edges
  /\ b.byType = b.edges

BufferOK(b, k) == IsBuffer(b) /\ NamesOK(b, k) /\ LabelsOK(b) /\ EdgesOK(b)

Stages == {"load", "purge", "build", "pass", "merge"}

OwnIds == \A x, y \in Buffers : x # y =>
            \A n \in buf[x].nodes, m \in buf[y].nodes : n.id # m.id

EndsOK == \A x \in Buffers : \A e \in buf[x].edges :
            {e.src, e.tgt} \subseteq buf[x].byId \cup buf["main"].byId

StagesOK ==
  /\ stage = "load" => buf = [b \in Buffers |-> EmptyBuffer]
  /\ stage = "purge" => /\ LabelsTrue(buf["main"])
                        /\ \A w \in Workers : buf[w] = EmptyBuffer

GraphInv ==
  /\ stage \in Stages /\ next \in Nat \ {0}
  /\ DOMAIN buf = Buffers /\ buf = [b \in Buffers |-> buf[b]]
  /\ \A x \in Buffers : BufferOK(buf[x], next)
  /\ OwnIds /\ EndsOK /\ StagesOK


-----------------------------------------------------------------------------
(* What the operators on one buffer keep *)

LEMMA EmptyOK ==
  /\ IsBuffer(EmptyBuffer) /\ LabelsOK(EmptyBuffer) /\ EdgesOK(EmptyBuffer)
  /\ \A k : NamesOK(EmptyBuffer, k)
<1>1. IsBuffer(EmptyBuffer)
  BY DEF EmptyBuffer, IsBuffer
<1>2. LabelsOK(EmptyBuffer) /\ EdgesOK(EmptyBuffer)
  BY DEF EmptyBuffer, LabelsOK, EdgesOK
<1>3. ASSUME NEW k PROVE NamesOK(EmptyBuffer, k)
  BY DEF EmptyBuffer, NamesOK
<1> QED
  BY <1>1, <1>2, <1>3

\* What PutNodes does, part by part.
New(b, nodes) == {n \in nodes : b.byQn[n.qn] = 0}
Put(b, m) == [m EXCEPT !.id = IdIn(b, m)]
Kept(b, nodes) == {n \in b.nodes : \A m \in nodes : b.byQn[m.qn] # n.id}
NamesAfter(b, nodes) ==
  [q \in Names |-> IF \E n \in New(b, nodes) : n.qn = q
                   THEN (CHOOSE n \in New(b, nodes) : n.qn = q).id ELSE b.byQn[q]]
IdsOfNodes(nodes) == {n.id : n \in nodes}
EntriesOf(nodes) == {<<n.label, n.id>> : n \in nodes}

LEMMA PutNodesFields ==
  ASSUME NEW b, IsBuffer(b), NEW nodes
  PROVE  /\ IsBuffer(PutNodes(b, nodes))
         /\ PutNodes(b, nodes).nodes = Kept(b, nodes) \cup {Put(b, m) : m \in nodes}
         /\ PutNodes(b, nodes).byQn = NamesAfter(b, nodes)
         /\ PutNodes(b, nodes).byId = b.byId \cup IdsOfNodes(New(b, nodes))
         /\ PutNodes(b, nodes).byLabel = b.byLabel \cup EntriesOf(New(b, nodes))
         /\ PutNodes(b, nodes).edges = b.edges
         /\ PutNodes(b, nodes).byKey = b.byKey
         /\ PutNodes(b, nodes).bySource = b.bySource
         /\ PutNodes(b, nodes).byTarget = b.byTarget
         /\ PutNodes(b, nodes).byType = b.byType
<1> DEFINE ns == Kept(b, nodes) \cup {Put(b, m) : m \in nodes}
           qs == NamesAfter(b, nodes)
           is == b.byId \cup IdsOfNodes(New(b, nodes))
           ls == b.byLabel \cup EntriesOf(New(b, nodes))
<1>1. PutNodes(b, nodes) = [b EXCEPT !.nodes = ns, !.byQn = qs, !.byId = is, !.byLabel = ls]
  BY DEF PutNodes, Kept, Put, NamesAfter, IdsOfNodes, EntriesOf, New
<1> HIDE DEF ns, qs, is, ls
<1>3. PutNodes(b, nodes) =
        [nodes |-> ns, byQn |-> qs, byId |-> is, byLabel |-> ls,
         edges |-> b.edges, byKey |-> b.byKey, bySource |-> b.bySource,
         byTarget |-> b.byTarget, byType |-> b.byType]
  BY <1>1 DEF IsBuffer
<1>4. IsBuffer(PutNodes(b, nodes))
  BY <1>3 DEF IsBuffer
<1> QED
  BY <1>3, <1>4 DEF ns, qs, is, ls

\* Nodes that may be put into a buffer: of different names, with ids that it does not know.
Puttable(b, k, nodes) ==
  /\ nodes \subseteq Node(k)
  /\ \A n \in nodes : n.qn # Null
  /\ \A n, m \in nodes : n.qn = m.qn => n = m
  /\ \A n, m \in nodes : n.id = m.id => n = m
  /\ \A n \in nodes, m \in b.nodes : n.id # m.id

\* A known name is that of exactly one node.
LEMMA KnownName ==
  ASSUME NEW b, NEW k \in Nat, NamesOK(b, k), NEW q \in Names, b.byQn[q] # 0, Null \notin Names
  PROVE  \E n \in b.nodes : n.qn = q /\ n.id = b.byQn[q] /\ n.id \in b.byId
<1>1. PICK n \in b.nodes : n.qn = q
  BY DEF NamesOK
<1>2. n.qn # Null
  BY <1>1
<1>3. n.id = b.byQn[q]
  BY <1>1, <1>2 DEF NamesOK
<1>4. n.id \in b.byId
  BY <1>2 DEF NamesOK
<1> QED
  BY <1>1, <1>3, <1>4

LEMMA PutIsANode ==
  ASSUME NEW b, NEW k \in Nat, NamesOK(b, k), GraphAssumption,
         NEW nodes, Puttable(b, k, nodes), NEW m \in nodes
  PROVE  /\ m.qn \in Names
         /\ Put(b, m) \in Node(k)
         /\ Put(b, m).id = IdIn(b, m) /\ Put(b, m).qn = m.qn
         /\ Put(b, m).label = m.label /\ Put(b, m).file = m.file
         /\ b.byQn[m.qn] # 0 => \E n \in b.nodes : n.qn = m.qn /\ n.id = IdIn(b, m)
         /\ b.byQn[m.qn] = 0 => IdIn(b, m) = m.id
<1>1. m \in Node(k) /\ m.qn # Null
  BY DEF Puttable
<1>2. m.qn \in Names
  BY <1>1 DEF Node
<1>3. b.byQn[m.qn] # 0 => \E n \in b.nodes : n.qn = m.qn /\ n.id = IdIn(b, m)
  BY <1>2, KnownName DEF GraphAssumption, IdIn
<1>4. b.byQn[m.qn] = 0 => IdIn(b, m) = m.id
  BY DEF IdIn
<1>5. IdIn(b, m) \in 1 .. (k - 1)
  <2>1. \A n \in b.nodes : n.id \in 1 .. (k - 1)
    BY DEF NamesOK, Node
  <2>2. m.id \in 1 .. (k - 1)
    BY <1>1 DEF Node
  <2> QED
    BY <2>1, <2>2, <1>3, <1>4
<1>6. /\ Put(b, m) \in Node(k)
      /\ Put(b, m).id = IdIn(b, m) /\ Put(b, m).qn = m.qn
      /\ Put(b, m).label = m.label /\ Put(b, m).file = m.file
  BY <1>1, <1>5 DEF Put, Node
<1> QED
  BY <1>2, <1>3, <1>4, <1>6

LEMMA PutNodesNames ==
  ASSUME NEW b, NEW k \in Nat, IsBuffer(b), NamesOK(b, k), GraphAssumption,
         NEW nodes, Puttable(b, k, nodes)
  PROVE  NamesOK(PutNodes(b, nodes), k)
<1> DEFINE c == PutNodes(b, nodes)
           stay == Kept(b, nodes)
           put == {Put(b, m) : m \in nodes}
<1>f. /\ c.nodes = stay \cup put
      /\ c.byQn = NamesAfter(b, nodes)
      /\ c.byId = b.byId \cup IdsOfNodes(New(b, nodes))
  BY PutNodesFields
<1>old. \A n \in b.nodes : n \in Node(k) /\ n.id # 0
  BY DEF NamesOK, Node
<1>put. \A m \in nodes :
         /\ m.qn \in Names
         /\ Put(b, m) \in Node(k)
         /\ Put(b, m).id = IdIn(b, m) /\ Put(b, m).qn = m.qn
         /\ b.byQn[m.qn] # 0 => \E n \in b.nodes : n.qn = m.qn /\ n.id = IdIn(b, m)
         /\ b.byQn[m.qn] = 0 => IdIn(b, m) = m.id
  BY PutIsANode
<1>id. \A n, m \in b.nodes : n.id = m.id => n = m
  BY DEF NamesOK
<1>name. \A n \in b.nodes : n.qn # Null => b.byQn[n.qn] = n.id
  BY DEF NamesOK
<1>null. \A n \in Names : n # Null
  BY DEF GraphAssumption
<1>new. /\ \A m \in New(b, nodes) : m \in nodes /\ m.id \in Nat
        /\ \A q : \A n \in New(b, nodes) : n.qn = q =>
             (CHOOSE m \in New(b, nodes) : m.qn = q) = n
  BY DEF New, Puttable, Node
<1>stay. \A n : n \in stay <=> n \in b.nodes /\ \A m \in nodes : b.byQn[m.qn] # n.id
  BY DEF Kept
<1>qn. /\ c.byQn = [q \in Names |-> c.byQn[q]]
       /\ \A n \in New(b, nodes) : n.qn \in Names => c.byQn[n.qn] = n.id
       /\ \A q \in Names : (~ \E n \in New(b, nodes) : n.qn = q) => c.byQn[q] = b.byQn[q]
  BY <1>f, <1>new DEF NamesAfter
<1>by. \A i : i \in c.byId <=> i \in b.byId \/ \E n \in New(b, nodes) : i = n.id
  BY <1>f DEF IdsOfNodes
<1>nd. \A n : n \in c.nodes <=> n \in stay \/ \E m \in nodes : n = Put(b, m)
  BY <1>f
<1> HIDE DEF c, stay, put
<1>1. c.nodes \subseteq Node(k)
  BY <1>nd, <1>stay, <1>old, <1>put
<1>2. c.byQn \in [Names -> Nat]
  <2>1. ASSUME NEW q \in Names PROVE c.byQn[q] \in Nat
    <3>1. CASE \E n \in New(b, nodes) : n.qn = q
      <4>1. PICK n \in New(b, nodes) : n.qn = q
        BY <3>1
      <4>2. c.byQn[q] = n.id
        BY <4>1, <1>qn
      <4> QED
        BY <4>2, <1>new
    <3>2. CASE ~ \E n \in New(b, nodes) : n.qn = q
      BY <3>2, <1>qn DEF NamesOK
    <3> QED
      BY <3>1, <3>2
  <2> QED
    BY <2>1, <1>qn
<1>3. ASSUME NEW n \in c.nodes, NEW m \in c.nodes, n.id = m.id PROVE n = m
  <2>1. CASE n \in stay /\ m \in stay
    BY <2>1, <1>3, <1>id, <1>stay
  <2>2. ASSUME NEW o \in stay, NEW p \in nodes, Put(b, p).id = o.id PROVE FALSE
    <3>1. CASE b.byQn[p.qn] # 0
      BY <2>2, <3>1, <1>put, <1>stay DEF IdIn
    <3>2. CASE b.byQn[p.qn] = 0
      BY <2>2, <3>2, <1>put, <1>stay DEF Puttable
    <3> QED
      BY <3>1, <3>2
  <2>3. ASSUME NEW o \in nodes, NEW p \in nodes, Put(b, p).id = Put(b, o).id PROVE o = p
    <3>0. IdIn(b, p) = IdIn(b, o)
      BY <2>3, <1>put
    <3>1. CASE b.byQn[p.qn] # 0 /\ b.byQn[o.qn] # 0
      BY <3>0, <3>1, <1>put, <1>id DEF Puttable
    <3>2. CASE b.byQn[p.qn] = 0 /\ b.byQn[o.qn] # 0
      BY <3>0, <3>2, <1>put DEF Puttable
    <3>3. CASE b.byQn[p.qn] # 0 /\ b.byQn[o.qn] = 0
      BY <3>0, <3>3, <1>put DEF Puttable
    <3>4. CASE b.byQn[p.qn] = 0 /\ b.byQn[o.qn] = 0
      BY <3>0, <3>4, <1>put DEF Puttable
    <3> QED
      BY <3>1, <3>2, <3>3, <3>4
  <2> QED
    BY <1>3, <1>nd, <2>1, <2>2, <2>3
<1>4. ASSUME NEW n \in c.nodes, n.qn # Null PROVE c.byQn[n.qn] = n.id
  <2>1. CASE n \in stay
    <3>1. b.byQn[n.qn] = n.id /\ n.qn \in Names
      BY <2>1, <1>4, <1>name, <1>old, <1>stay DEF Node
    <3>2. ~ \E m \in New(b, nodes) : m.qn = n.qn
      BY <2>1, <3>1, <1>new, <1>stay
    <3> QED
      BY <3>1, <3>2, <1>qn
  <2>2. ASSUME NEW m \in nodes, n = Put(b, m) PROVE c.byQn[n.qn] = n.id
    <3>0. n.qn = m.qn /\ m.qn \in Names /\ n.id = IdIn(b, m)
      BY <2>2, <1>put
    <3>1. CASE b.byQn[m.qn] # 0
      <4>1. ~ \E p \in New(b, nodes) : p.qn = m.qn
        BY <3>1 DEF New
      <4> QED
        BY <3>0, <3>1, <4>1, <1>qn DEF IdIn
    <3>2. CASE b.byQn[m.qn] = 0
      <4>1. m \in New(b, nodes)
        BY <3>2 DEF New
      <4> QED
        BY <3>0, <3>2, <4>1, <1>qn DEF IdIn
    <3> QED
      BY <3>1, <3>2
  <2> QED
    BY <1>4, <1>nd, <2>1, <2>2
<1>5. ASSUME NEW q \in Names, c.byQn[q] # 0 PROVE \E n \in c.nodes : n.qn = q
  <2>1. CASE \E n \in New(b, nodes) : n.qn = q
    BY <2>1, <1>nd, <1>put, <1>new
  <2>2. CASE ~ \E n \in New(b, nodes) : n.qn = q
    <3>1. b.byQn[q] # 0
      BY <2>2, <1>5, <1>qn
    <3>2. PICK n \in b.nodes : n.qn = q /\ n.id = b.byQn[q]
      BY <3>1, KnownName, <1>null
    <3>3. CASE n \in stay
      BY <3>2, <3>3, <1>nd
    <3>4. ASSUME NEW m \in nodes, b.byQn[m.qn] = n.id PROVE \E p \in c.nodes : p.qn = q
      <4>1. b.byQn[m.qn] # 0
        BY <3>4, <1>old
      <4>2. PICK p \in b.nodes : p.qn = m.qn /\ p.id = b.byQn[m.qn]
        BY <4>1, <1>put, KnownName, <1>null
      <4>3. p = n
        BY <4>2, <3>4, <1>id
      <4> QED
        BY <4>2, <4>3, <3>2, <1>nd, <1>put
    <3> QED
      BY <3>3, <3>4, <3>2, <1>stay
  <2> QED
    BY <2>1, <2>2
<1>6. c.byId = {n.id : n \in {m \in c.nodes : m.qn # Null}}
  <2>0. \A i : i \in b.byId <=> \E n \in b.nodes : n.qn # Null /\ n.id = i
    BY DEF NamesOK
  <2>1. ASSUME NEW n \in b.nodes, n.qn # Null
        PROVE  \E p \in c.nodes : p.qn # Null /\ p.id = n.id
    <3>1. CASE n \in stay
      BY <2>1, <3>1, <1>nd
    <3>2. ASSUME NEW m \in nodes, b.byQn[m.qn] = n.id
          PROVE  \E p \in c.nodes : p.qn # Null /\ p.id = n.id
      <4>1. Put(b, m).id = n.id /\ Put(b, m).qn # Null
        BY <3>2, <1>put, <1>old, <1>null DEF IdIn
      <4> QED
        BY <4>1, <1>nd
    <3> QED
      BY <3>1, <3>2, <1>stay
  <2>2. ASSUME NEW m \in New(b, nodes) PROVE \E p \in c.nodes : p.qn # Null /\ p.id = m.id
    <3>1. m \in nodes /\ b.byQn[m.qn] = 0
      BY DEF New
    <3>2. Put(b, m).id = m.id /\ Put(b, m).qn # Null
      BY <3>1, <1>put, <1>null
    <3> QED
      BY <3>1, <3>2, <1>nd
  <2>3. ASSUME NEW p \in c.nodes, p.qn # Null PROVE p.id \in c.byId
    <3>1. CASE p \in stay
      BY <2>3, <3>1, <1>stay, <1>by, <2>0
    <3>2. ASSUME NEW m \in nodes, p = Put(b, m) PROVE p.id \in c.byId
      <4>1. CASE b.byQn[m.qn] # 0
        <5>1. PICK n \in b.nodes : n.qn = m.qn /\ n.id = IdIn(b, m)
          BY <4>1, <1>put
        <5>2. n.qn # Null /\ p.id = n.id
          BY <5>1, <3>2, <1>put, <1>null
        <5> QED
          BY <5>2, <2>0, <1>by
      <4>2. CASE b.byQn[m.qn] = 0
        <5>1. m \in New(b, nodes) /\ p.id = m.id
          BY <3>2, <4>2, <1>put DEF New
        <5> QED
          BY <5>1, <1>by
      <4> QED
        BY <4>1, <4>2
    <3> QED
      BY <3>1, <3>2, <1>nd
  <2>4. \A i : i \in c.byId <=> \E p \in c.nodes : p.qn # Null /\ p.id = i
    BY <2>0, <2>1, <2>2, <2>3, <1>by
  <2> QED
    BY <2>4
<1>7. NamesOK(c, k)
  BY <1>1, <1>2, <1>3, <1>4, <1>5, <1>6 DEF NamesOK
<1> QED
  BY <1>7 DEF c

LEMMA PutNodesIds ==
  ASSUME NEW b, NEW k \in Nat, IsBuffer(b), NamesOK(b, k), GraphAssumption,
         NEW nodes, Puttable(b, k, nodes)
  PROVE  /\ \A n \in PutNodes(b, nodes).nodes :
              (\E m \in b.nodes : m.id = n.id) \/ (\E m \in nodes : m.id = n.id)
         /\ b.byId \subseteq PutNodes(b, nodes).byId
         /\ \A m \in nodes : b.byQn[m.qn] = 0 => m.id \in PutNodes(b, nodes).byId
<1>1. b.byId \subseteq PutNodes(b, nodes).byId
  BY PutNodesFields
<1>2. ASSUME NEW m \in nodes, b.byQn[m.qn] = 0 PROVE m.id \in PutNodes(b, nodes).byId
  BY <1>2, PutNodesFields DEF New, IdsOfNodes
<1>3. ASSUME NEW n \in PutNodes(b, nodes).nodes
      PROVE  (\E m \in b.nodes : m.id = n.id) \/ (\E m \in nodes : m.id = n.id)
  <2>1. CASE n \in Kept(b, nodes)
    BY <2>1 DEF Kept
  <2>2. ASSUME NEW m \in nodes, n = Put(b, m)
        PROVE  (\E p \in b.nodes : p.id = n.id) \/ (\E p \in nodes : p.id = n.id)
    BY <2>2, PutIsANode
  <2> QED
    BY <2>1, <2>2, PutNodesFields
<1> QED
  BY <1>1, <1>2, <1>3

LEMMA PutNodesLabels ==
  ASSUME NEW b, NEW k \in Nat, IsBuffer(b), NamesOK(b, k), LabelsOK(b), GraphAssumption,
         NEW nodes, Puttable(b, k, nodes)
  PROVE  LabelsOK(PutNodes(b, nodes))
<1> DEFINE c == PutNodes(b, nodes)
<1>1. /\ \A i : i \in c.byId <=> i \in b.byId \/ \E n \in New(b, nodes) : i = n.id
      /\ \A e : e \in c.byLabel <=>
           e \in b.byLabel \/ \E n \in New(b, nodes) : e = <<n.label, n.id>>
  BY PutNodesFields DEF IdsOfNodes, EntriesOf
<1>2. \A i \in b.byId : \E n \in b.nodes : n.id = i
  BY DEF NamesOK
<1>3. \A n \in New(b, nodes) : n \in nodes /\ n.id \notin b.byId /\ n.label \in Labels
  BY <1>2 DEF Puttable, New, Node
<1>4. \A n, m \in New(b, nodes) : n.id = m.id => n = m
  BY DEF Puttable, New
<1> HIDE DEF c
<1>5. ASSUME NEW e \in c.byLabel PROVE e[2] \in c.byId
  BY <1>1 DEF LabelsOK
<1>6. ASSUME NEW i \in b.byId PROVE \E l \in Labels : Entries(c, i) = {<<l, i>>}
  <2>1. Entries(c, i) = Entries(b, i)
    BY <1>1, <1>3 DEF Entries
  <2> QED
    BY <2>1 DEF LabelsOK
<1>7. ASSUME NEW n \in New(b, nodes)
      PROVE  \E l \in Labels : Entries(c, n.id) = {<<l, n.id>>}
  <2>1. Entries(b, n.id) = {}
    BY <1>3 DEF Entries, LabelsOK
  <2>2. Entries(c, n.id) = {<<n.label, n.id>>}
    BY <1>1, <1>4, <2>1 DEF Entries
  <2> QED
    BY <2>2, <1>3
<1>8. LabelsOK(c)
  BY <1>1, <1>5, <1>6, <1>7 DEF LabelsOK
<1> QED
  BY <1>8 DEF c

LEMMA PutEdgesOK ==
  ASSUME NEW b, IsBuffer(b), EdgesOK(b), NEW es,
         \A e \in es : e = [src |-> e.src, type |-> e.type, tgt |-> e.tgt]
  PROVE  /\ IsBuffer(PutEdges(b, es)) /\ EdgesOK(PutEdges(b, es))
         /\ PutEdges(b, es).edges = b.edges \cup es
         /\ PutEdges(b, es).nodes = b.nodes /\ PutEdges(b, es).byQn = b.byQn
         /\ PutEdges(b, es).byId = b.byId /\ PutEdges(b, es).byLabel = b.byLabel
<1> DEFINE all == b.edges \cup (es \ b.byKey)
<1>1. PutEdges(b, es) =
        [nodes |-> b.nodes, byQn |-> b.byQn, byId |-> b.byId, byLabel |-> b.byLabel,
         edges |-> all, byKey |-> all, bySource |-> all, byTarget |-> all, byType |-> all]
  <2> DEFINE new == es \ b.byKey
  <2>1. PutEdges(b, es) =
          [b EXCEPT !.edges = @ \cup new, !.byKey = @ \cup new, !.bySource = @ \cup new,
                    !.byTarget = @ \cup new, !.byType = @ \cup new]
    BY DEF PutEdges
  <2> HIDE DEF new
  <2>2. PutEdges(b, es) =
          [nodes |-> b.nodes, byQn |-> b.byQn, byId |-> b.byId, byLabel |-> b.byLabel,
           edges |-> b.edges \cup new, byKey |-> b.byKey \cup new,
           bySource |-> b.bySource \cup new, byTarget |-> b.byTarget \cup new,
           byType |-> b.byType \cup new]
    BY <2>1 DEF IsBuffer
  <2>3. /\ b.byKey = b.edges /\ b.bySource = b.edges /\ b.byTarget = b.edges
        /\ b.byType = b.edges
    BY DEF EdgesOK
  <2> QED
    BY <2>2, <2>3 DEF new
<1>2. all = b.edges \cup es
  BY DEF EdgesOK
<1> HIDE DEF all
<1>3. \A e \in all : e = [src |-> e.src, type |-> e.type, tgt |-> e.tgt]
  BY <1>2 DEF EdgesOK
<1> QED
  BY <1>1, <1>2, <1>3 DEF IsBuffer, EdgesOK

\* What DeleteByFile does, part by part.
Gone(b, f) == {n \in Live(b) : n.file = f}
Nameless(n) == [n EXCEPT !.qn = Null]
Touching(b, ids) == {e \in b.edges : e.src \in ids \/ e.tgt \in ids}

LEMMA DeleteFields ==
  ASSUME NEW b, IsBuffer(b), EdgesOK(b), NEW f
  PROVE  LET c == DeleteByFile(b, f)
             gone == Gone(b, f)
             ids == IdsOfNodes(gone)
         IN  /\ IsBuffer(c) /\ EdgesOK(c)
             /\ c.nodes = (b.nodes \ gone) \cup {Nameless(n) : n \in gone}
             /\ c.byQn = [q \in Names |-> IF b.byQn[q] \in ids THEN 0 ELSE b.byQn[q]]
             /\ c.byId = b.byId \ ids
             /\ c.byLabel = b.byLabel \ EntriesOf(gone)
             /\ c.edges = b.edges \ Touching(b, ids)
<1> DEFINE gone == Gone(b, f)
           ids == IdsOfNodes(gone)
           ns == (b.nodes \ gone) \cup {Nameless(n) : n \in gone}
           qs == [q \in Names |-> IF b.byQn[q] \in ids THEN 0 ELSE b.byQn[q]]
           is == b.byId \ ids
           ls == b.byLabel \ EntriesOf(gone)
           mid == [b EXCEPT !.nodes = ns, !.byQn = qs, !.byId = is, !.byLabel = ls]
           es == b.edges \ Touching(b, ids)
<1>1. DeleteByFile(b, f) = Cascade(mid, ids)
  BY DEF DeleteByFile, Gone, IdsOfNodes, EntriesOf, Nameless
<1>2. /\ b.byKey = b.edges /\ b.bySource = b.edges /\ b.byTarget = b.edges
      /\ b.byType = b.edges
  BY DEF EdgesOK
<1> HIDE DEF ns, qs, is, ls
<1>3. mid = [nodes |-> ns, byQn |-> qs, byId |-> is, byLabel |-> ls,
             edges |-> b.edges, byKey |-> b.edges, bySource |-> b.edges,
             byTarget |-> b.edges, byType |-> b.edges]
  <2>1. mid = [nodes |-> ns, byQn |-> qs, byId |-> is, byLabel |-> ls,
               edges |-> b.edges, byKey |-> b.byKey, bySource |-> b.bySource,
               byTarget |-> b.byTarget, byType |-> b.byType]
    <3>1. mid = [b EXCEPT !.nodes = ns, !.byQn = qs, !.byId = is, !.byLabel = ls]
      OBVIOUS
    <3> HIDE DEF mid, gone, ids
    <3> QED
      BY <3>1 DEF IsBuffer
  <2> QED
    BY <1>2, <2>1
<1> HIDE DEF mid
<1>4. Touching(mid, ids) = Touching(b, ids)
  BY <1>3 DEF Touching
<1>5. Cascade(mid, ids) =
        [nodes |-> ns, byQn |-> qs, byId |-> is, byLabel |-> ls,
         edges |-> es, byKey |-> es, bySource |-> es, byTarget |-> es, byType |-> es]
  <2> DEFINE t == Touching(mid, ids)
  <2>1. Cascade(mid, ids) =
          [mid EXCEPT !.edges = @ \ t, !.byKey = @ \ t, !.bySource = @ \ t,
                      !.byTarget = @ \ t, !.byType = @ \ t]
    BY DEF Cascade, Touching
  <2> HIDE DEF t
  <2>2. Cascade(mid, ids) =
          [nodes |-> ns, byQn |-> qs, byId |-> is, byLabel |-> ls,
           edges |-> b.edges \ t, byKey |-> b.edges \ t, bySource |-> b.edges \ t,
           byTarget |-> b.edges \ t, byType |-> b.edges \ t]
    BY <2>1, <1>3, ZenonT(60)
  <2> QED
    BY <2>2, <1>4 DEF t
<1> HIDE DEF gone, ids, es
<1>6. IsBuffer(Cascade(mid, ids))
  BY <1>5 DEF IsBuffer
<1>7. \A e \in es : e = [src |-> e.src, type |-> e.type, tgt |-> e.tgt]
  BY DEF EdgesOK, es
<1>8. EdgesOK(Cascade(mid, ids))
  BY <1>5, <1>7 DEF EdgesOK
<1> QED
  BY <1>1, <1>5, <1>6, <1>8 DEF ns, qs, is, ls, gone, ids, es

LEMMA DeleteOK ==
  ASSUME NEW b, NEW k \in Nat, NEW f, GraphAssumption,
         IsBuffer(b), NamesOK(b, k), LabelsOK(b), EdgesOK(b), LabelsTrue(b)
  PROVE  LET c == DeleteByFile(b, f)
         IN  /\ IsBuffer(c) /\ NamesOK(c, k) /\ LabelsOK(c) /\ EdgesOK(c) /\ LabelsTrue(c)
             /\ \A n \in c.nodes : \E m \in b.nodes : m.id = n.id
             /\ \A e \in c.edges : /\ e \in b.edges
                                   /\ e.src \in b.byId => e.src \in c.byId
                                   /\ e.tgt \in b.byId => e.tgt \in c.byId
<1> DEFINE c == DeleteByFile(b, f)
           gone == Gone(b, f)
           ids == IdsOfNodes(gone)
           less == {Nameless(n) : n \in gone}
<1>f. /\ IsBuffer(c) /\ EdgesOK(c)
      /\ c.nodes = (b.nodes \ gone) \cup less
      /\ c.byQn = [q \in Names |-> IF b.byQn[q] \in ids THEN 0 ELSE b.byQn[q]]
      /\ c.byId = b.byId \ ids
      /\ c.byLabel = b.byLabel \ EntriesOf(gone)
      /\ c.edges = b.edges \ Touching(b, ids)
  BY DeleteFields
<1>old. \A n \in b.nodes : n \in Node(k) /\ n.id # 0
  BY DEF NamesOK, Node
<1>id. \A n, m \in b.nodes : n.id = m.id => n = m
  BY DEF NamesOK
<1>name. \A n \in b.nodes : n.qn # Null => b.byQn[n.qn] = n.id
  BY DEF NamesOK
<1>ids. \A i : i \in ids <=> \E n \in gone : n.id = i
  BY DEF IdsOfNodes
<1>gone. \A n \in gone : n \in b.nodes /\ n.qn # Null
  BY DEF Gone, Live
<1>less. \A n \in gone : /\ Nameless(n) \in Node(k) /\ Nameless(n).id = n.id
                         /\ Nameless(n).qn = Null
  BY <1>gone, <1>old DEF Nameless, Node
<1>nd. \A n : n \in c.nodes <=> (n \in b.nodes /\ n \notin gone) \/ \E g \in gone : n = Nameless(g)
  BY <1>f
<1>live. \A n : n \in c.nodes /\ n.qn # Null <=> n \in b.nodes /\ n.qn # Null /\ n \notin gone
  BY <1>nd, <1>less
<1>stay. \A n \in b.nodes : n \notin gone => n.id \notin ids
  BY <1>ids, <1>gone, <1>id
<1>by. \A i : i \in b.byId <=> \E n \in b.nodes : n.qn # Null /\ n.id = i
  BY DEF NamesOK
<1>lb. \A e : e \in c.byLabel <=> e \in b.byLabel /\ \A g \in gone : e # <<g.label, g.id>>
  BY <1>f DEF EntriesOf
<1> HIDE DEF c, gone, ids, less
<1>1. c.nodes \subseteq Node(k)
  BY <1>nd, <1>old, <1>less
<1>2. c.byQn \in [Names -> Nat]
  BY <1>f DEF NamesOK
<1>3. ASSUME NEW n \in c.nodes PROVE \E m \in b.nodes : m.id = n.id
  BY <1>nd, <1>gone, <1>less
<1>4. ASSUME NEW n \in c.nodes, NEW m \in c.nodes, n.id = m.id PROVE n = m
  BY <1>4, <1>nd, <1>gone, <1>less, <1>id
<1>5. ASSUME NEW n \in c.nodes, n.qn # Null PROVE c.byQn[n.qn] = n.id
  <2>1. n \in b.nodes /\ n \notin gone
    BY <1>5, <1>live
  <2>2. n.qn \in Names
    BY <2>1, <1>5, <1>old DEF Node
  <2>3. b.byQn[n.qn] = n.id /\ n.id \notin ids
    BY <2>1, <1>5, <1>name, <1>stay
  <2> QED
    BY <2>2, <2>3, <1>f
<1>6. ASSUME NEW q \in Names, c.byQn[q] # 0 PROVE \E n \in c.nodes : n.qn = q
  <2>1. b.byQn[q] # 0 /\ b.byQn[q] \notin ids
    BY <1>6, <1>f
  <2>2. PICK n \in b.nodes : n.qn = q /\ n.id = b.byQn[q]
    BY <2>1, KnownName DEF GraphAssumption
  <2>3. n \notin gone
    BY <2>1, <2>2, <1>ids
  <2> QED
    BY <2>2, <2>3, <1>nd
<1>7. c.byId = {n.id : n \in {m \in c.nodes : m.qn # Null}}
  <2>1. \A i : i \in c.byId <=> i \in b.byId /\ i \notin ids
    BY <1>f
  <2>2. \A i : i \in c.byId => \E n \in c.nodes : n.qn # Null /\ n.id = i
    BY <2>1, <1>by, <1>live, <1>ids
  <2>3. \A n \in c.nodes : n.qn # Null => n.id \in c.byId
    BY <2>1, <1>by, <1>live, <1>stay
  <2> QED
    BY <2>2, <2>3
<1>8. NamesOK(c, k)
  BY <1>1, <1>2, <1>4, <1>5, <1>6, <1>7 DEF NamesOK
<1>9. LabelsTrue(c)
  <2> SUFFICES ASSUME NEW n \in c.nodes, n.qn # Null PROVE <<n.label, n.id>> \in c.byLabel
    BY DEF LabelsTrue
  <2>1. n \in b.nodes /\ n \notin gone
    BY <1>live
  <2>2. \A g \in gone : n.id # g.id
    BY <2>1, <1>stay, <1>ids
  <2> QED
    BY <2>1, <2>2, <1>lb DEF LabelsTrue
<1>10. ASSUME NEW e \in c.byLabel PROVE e[2] \in c.byId
  <2>1. e \in b.byLabel /\ e[2] \in b.byId
    BY <1>lb DEF LabelsOK
  <2>2. ASSUME NEW g \in gone, g.id = e[2] PROVE FALSE
    <3>1. <<g.label, g.id>> \in Entries(b, g.id) /\ e \in Entries(b, g.id)
      BY <2>1, <2>2, <1>gone DEF LabelsTrue, Entries
    <3>2. e = <<g.label, g.id>>
      BY <2>1, <2>2, <3>1 DEF LabelsOK
    <3> QED
      BY <3>2, <1>lb
  <2> QED
    BY <2>1, <2>2, <1>ids, <1>f
<1>11. ASSUME NEW i \in c.byId PROVE \E l \in Labels : Entries(c, i) = {<<l, i>>}
  <2>1. i \in b.byId /\ \A g \in gone : g.id # i
    BY <1>f, <1>ids
  <2>2. Entries(c, i) = Entries(b, i)
    BY <2>1, <1>lb DEF Entries
  <2> QED
    BY <2>1, <2>2 DEF LabelsOK
<1>12. LabelsOK(c)
  BY <1>10, <1>11 DEF LabelsOK
<1>13. ASSUME NEW e \in c.edges
       PROVE  /\ e \in b.edges
              /\ e.src \in b.byId => e.src \in c.byId
              /\ e.tgt \in b.byId => e.tgt \in c.byId
  BY <1>f DEF Touching
<1> QED
  BY <1>f, <1>3, <1>8, <1>9, <1>12, <1>13 DEF c

\* The bound on ids may grow, and shrink where no node has the id.
LEMMA NamesLater ==
  ASSUME NEW b, NEW k \in Nat, NEW m \in Nat, k <= m, NamesOK(b, k)
  PROVE  NamesOK(b, m)
<1>1. Node(k) \subseteq Node(m)
  <2>1. 1 .. (k - 1) \subseteq 1 .. (m - 1)
    OBVIOUS
  <2> QED
    BY <2>1 DEF Node
<1> QED
  BY <1>1 DEF NamesOK

LEMMA NamesEarlier ==
  ASSUME NEW b, NEW k \in Nat, NamesOK(b, k + 1), \A n \in b.nodes : n.id # k
  PROVE  NamesOK(b, k)
<1>1. \A n \in b.nodes : n \in Node(k)
  BY DEF NamesOK, Node
<1> QED
  BY <1>1 DEF NamesOK

\* The live nodes of a worker may be put into the main buffer.
LEMMA LiveIsPuttable ==
  ASSUME NEW dst, NEW src, NEW k \in Nat, GraphAssumption, NamesOK(src, k),
         \A n \in src.nodes, m \in dst.nodes : n.id # m.id
  PROVE  /\ Puttable(dst, k, Live(src))
         /\ \A i : i \in src.byId <=> \E n \in Live(src) : n.id = i
<1>1. \A n \in src.nodes : n.qn # Null => src.byQn[n.qn] = n.id
  BY DEF NamesOK
<1>2. \A n \in src.nodes : n \in Node(k) /\ n.id # 0
  BY DEF NamesOK, Node
<1>3. \A n : n \in Live(src) <=> n \in src.nodes /\ n.qn # Null
  BY <1>1, <1>2 DEF Live
<1>4. \A n, m \in Live(src) : n.qn = m.qn => n = m
  BY <1>1, <1>3 DEF NamesOK
<1>5. \A n, m \in Live(src) : n.id = m.id => n = m
  BY <1>3 DEF NamesOK
<1>6. Puttable(dst, k, Live(src))
  BY <1>2, <1>3, <1>4, <1>5 DEF Puttable
<1>7. \A i : i \in src.byId <=> \E n \in Live(src) : n.id = i
  BY <1>3 DEF NamesOK
<1> QED
  BY <1>6, <1>7

\* An end of a worker's edge, remapped, is a named node of main after the merge.
LEMMA RemapOK ==
  ASSUME NEW dst, NEW src, NEW k \in Nat, GraphAssumption, IsBuffer(dst),
         NamesOK(dst, k), NamesOK(src, k),
         \A n \in src.nodes, m \in dst.nodes : n.id # m.id,
         NEW i \in src.byId \cup dst.byId
  PROVE  Remap(dst, src, i) \in PutNodes(dst, Live(src)).byId
<1> DEFINE same == {n \in Live(src) : n.id = i /\ dst.byQn[n.qn] # 0}
<1>1. Remap(dst, src, i) =
        IF same = {} THEN i ELSE dst.byQn[(CHOOSE n \in same : TRUE).qn]
  BY DEF Remap
<1>2. /\ Puttable(dst, k, Live(src))
      /\ i \in src.byId => \E n \in Live(src) : n.id = i
  BY LiveIsPuttable
<1>3. /\ dst.byId \subseteq PutNodes(dst, Live(src)).byId
      /\ \A m \in Live(src) : dst.byQn[m.qn] = 0 => m.id \in PutNodes(dst, Live(src)).byId
  BY <1>2, PutNodesIds
<1> HIDE DEF same
<1>4. CASE same = {}
  <2>1. CASE i \in dst.byId
    BY <1>1, <1>3, <1>4, <2>1
  <2>2. CASE i \in src.byId
    BY <1>1, <1>2, <1>3, <1>4, <2>2 DEF same
  <2> QED
    BY <2>1, <2>2
<1>5. CASE same # {}
  <2> DEFINE n == CHOOSE n \in same : TRUE
  <2>1. n \in same
    BY <1>5
  <2> HIDE DEF n
  <2>2. n \in Live(src) /\ dst.byQn[n.qn] # 0
    BY <2>1 DEF same
  <2>3. n.qn \in Names
    BY <2>2, <1>2 DEF Puttable, Node
  <2>4. dst.byQn[n.qn] \in dst.byId
    BY <2>2, <2>3, KnownName DEF GraphAssumption
  <2> QED
    BY <1>1, <1>3, <1>5, <2>4 DEF n
<1> QED
  BY <1>4, <1>5

LEMMA MergeOK ==
  ASSUME NEW dst, NEW src, NEW k \in Nat, GraphAssumption,
         BufferOK(dst, k), BufferOK(src, k),
         \A n \in src.nodes, m \in dst.nodes : n.id # m.id,
         \A e \in dst.edges : {e.src, e.tgt} \subseteq dst.byId,
         \A e \in src.edges : {e.src, e.tgt} \subseteq src.byId \cup dst.byId
  PROVE  LET c == Merge(dst, src)
         IN  /\ BufferOK(c, k)
             /\ \A n \in c.nodes : (\E m \in dst.nodes : m.id = n.id)
                                   \/ (\E m \in src.nodes : m.id = n.id)
             /\ dst.byId \subseteq c.byId
             /\ \A e \in c.edges : {e.src, e.tgt} \subseteq c.byId
<1> DEFINE p == PutNodes(dst, Live(src))
           es == {[src |-> Remap(dst, src, e.src), type |-> e.type,
                   tgt |-> Remap(dst, src, e.tgt)] : e \in src.edges}
           c == PutEdges(p, es)
<1>0. Merge(dst, src) = c
  BY DEF Merge
<1>1. Puttable(dst, k, Live(src))
  BY LiveIsPuttable DEF BufferOK
<1>2. /\ IsBuffer(p) /\ p.edges = dst.edges
      /\ p.byKey = dst.byKey /\ p.bySource = dst.bySource
      /\ p.byTarget = dst.byTarget /\ p.byType = dst.byType
  BY PutNodesFields DEF BufferOK
<1>3. NamesOK(p, k) /\ LabelsOK(p)
  BY <1>1, PutNodesNames, PutNodesLabels DEF BufferOK
<1>4. EdgesOK(p)
  BY <1>2 DEF BufferOK, EdgesOK
<1>5. /\ \A n \in p.nodes : (\E m \in dst.nodes : m.id = n.id)
                            \/ (\E m \in Live(src) : m.id = n.id)
      /\ dst.byId \subseteq p.byId
  BY <1>1, PutNodesIds DEF BufferOK
<1>6. \A e \in es : e = [src |-> e.src, type |-> e.type, tgt |-> e.tgt]
  OBVIOUS
<1>7. \A e \in es : {e.src, e.tgt} \subseteq p.byId
  <2> SUFFICES ASSUME NEW d \in src.edges
               PROVE  Remap(dst, src, d.src) \in p.byId /\ Remap(dst, src, d.tgt) \in p.byId
    OBVIOUS
  <2>1. d.src \in src.byId \cup dst.byId /\ d.tgt \in src.byId \cup dst.byId
    OBVIOUS
  <2> QED
    BY <2>1, RemapOK DEF BufferOK
<1> HIDE DEF p, es
<1>8. /\ IsBuffer(c) /\ EdgesOK(c) /\ c.edges = p.edges \cup es /\ c.nodes = p.nodes
      /\ c.byQn = p.byQn /\ c.byId = p.byId /\ c.byLabel = p.byLabel
  BY <1>2, <1>4, <1>6, PutEdgesOK
<1> HIDE DEF c
<1>9. NamesOK(c, k)
  BY <1>3, <1>8 DEF NamesOK
<1>10. LabelsOK(c)
  BY <1>3, <1>8 DEF LabelsOK, Entries
<1>11. \A e \in c.edges : {e.src, e.tgt} \subseteq c.byId
  BY <1>2, <1>5, <1>7, <1>8
<1>12. \A n \in c.nodes : (\E m \in dst.nodes : m.id = n.id)
                          \/ (\E m \in src.nodes : m.id = n.id)
  BY <1>5, <1>8 DEF Live
<1> QED
  BY <1>0, <1>5, <1>8, <1>9, <1>10, <1>11, <1>12 DEF BufferOK

-----------------------------------------------------------------------------
(* Every step of the run keeps the invariant. *)

LEMMA GraphInvInit == ASSUME GraphAssumption, GraphInit PROVE GraphInv
<1>1. \A x \in Buffers : buf[x] = EmptyBuffer
  BY DEF GraphInit
<1>2. /\ stage \in Stages /\ next \in Nat \ {0}
      /\ DOMAIN buf = Buffers /\ buf = [b \in Buffers |-> buf[b]]
  BY DEF GraphInit, Stages
<1>3. \A x \in Buffers : BufferOK(buf[x], next)
  BY <1>1, EmptyOK DEF BufferOK
<1>4. OwnIds
  BY <1>1 DEF OwnIds, EmptyBuffer
<1>5. EndsOK
  BY <1>1 DEF EndsOK, EmptyBuffer
<1>6. StagesOK
  BY DEF StagesOK, GraphInit
<1> QED
  BY <1>2, <1>3, <1>4, <1>5, <1>6 DEF GraphInv

\* One buffer changes: its nodes keep their ids or have the next one.
LEMMA BuffersChange ==
  ASSUME GraphInv, buf' = [x \in Buffers |-> buf'[x]], next' \in Nat, next <= next',
         NEW y \in Buffers,
         \A x \in Buffers : x # y => buf'[x] = buf[x],
         BufferOK(buf'[y], next'),
         \A n \in buf'[y].nodes : (\E m \in buf[y].nodes : m.id = n.id) \/ n.id = next
  PROVE  /\ DOMAIN buf' = Buffers /\ next' \in Nat \ {0}
         /\ \A x \in Buffers : BufferOK(buf'[x], next')
         /\ OwnIds'
<1>1. next \in Nat \ {0} /\ \A x \in Buffers : BufferOK(buf[x], next)
  BY DEF GraphInv
<1>2. DOMAIN buf' = Buffers /\ next' \in Nat \ {0}
  BY <1>1
<1>3. ASSUME NEW x \in Buffers PROVE BufferOK(buf'[x], next')
  <2>1. CASE x = y
    BY <2>1
  <2>2. CASE x # y
    BY <2>2, <1>1, NamesLater DEF BufferOK
  <2> QED
    BY <2>1, <2>2
<1>4. ASSUME NEW x \in Buffers, NEW n \in buf[x].nodes PROVE n.id \in 1 .. (next - 1)
  BY <1>1 DEF BufferOK, NamesOK, Node
<1>5. ASSUME NEW x \in Buffers, x # y, NEW n \in buf[x].nodes, NEW m \in buf'[y].nodes
      PROVE  n.id # m.id
  <2>1. CASE m.id = next
    BY <1>1, <1>4, <2>1
  <2>2. ASSUME NEW o \in buf[y].nodes, o.id = m.id PROVE n.id # m.id
    BY <1>5, <2>2 DEF GraphInv, OwnIds
  <2> QED
    BY <2>1, <2>2
<1>6. OwnIds'
  <2> SUFFICES ASSUME NEW x \in Buffers, NEW z \in Buffers, x # z,
                      NEW n \in buf'[x].nodes, NEW m \in buf'[z].nodes
               PROVE  n.id # m.id
    BY DEF OwnIds
  <2>1. CASE x = y
    BY <2>1, <1>5
  <2>2. CASE z = y
    BY <2>2, <1>5
  <2>3. CASE x # y /\ z # y
    BY <2>3 DEF GraphInv, OwnIds
  <2> QED
    BY <2>1, <2>2, <2>3
<1> QED
  BY <1>2, <1>3, <1>6

LEMMA Upserts ==
  ASSUME GraphAssumption, GraphInv, NEW x \in Buffers, NEW d \in Definitions,
         UpsertNode(x, d[1], d[2], d[3])
  PROVE  GraphInv'
<1> DEFINE q == d[1]
           n == [id |-> next, qn |-> q, label |-> d[2], file |-> d[3]]
           b == buf[x]
           c == PutNodes(b, {n})
<1>d. q \in Names /\ d[2] \in Labels /\ d[3] \in Sources /\ q # Null
  BY DEF GraphAssumption
<1>1. /\ Open(x)
      /\ buf' = [buf EXCEPT ![x] = c]
      /\ next' = IF b.byQn[q] # 0 THEN next ELSE next + 1
      /\ UNCHANGED stage
  BY DEF UpsertNode
<1>2. /\ next \in Nat \ {0} /\ buf = [y \in Buffers |-> buf[y]] /\ stage \in Stages
      /\ BufferOK(b, next) /\ OwnIds /\ EndsOK /\ StagesOK
  BY DEF GraphInv
<1>3. /\ buf' = [y \in Buffers |-> buf'[y]] /\ buf'[x] = c
      /\ \A y \in Buffers : y # x => buf'[y] = buf[y]
  BY <1>1, <1>2
<1>4. IsBuffer(b) /\ NamesOK(b, next) /\ NamesOK(b, next + 1) /\ LabelsOK(b) /\ EdgesOK(b)
  BY <1>2, NamesLater DEF BufferOK
<1>5. \A m \in b.nodes : m.id \in 1 .. (next - 1)
  BY <1>4 DEF NamesOK, Node
<1>6. Puttable(b, next + 1, {n})
  <2>1. n \in Node(next + 1)
    BY <1>2, <1>d DEF Node
  <2>2. \A m \in b.nodes : m.id # next
    BY <1>2, <1>5
  <2> QED
    BY <2>1, <2>2, <1>d DEF Puttable
<1>7. /\ NamesOK(c, next + 1) /\ LabelsOK(c) /\ IsBuffer(c)
      /\ c.edges = b.edges /\ c.byKey = b.byKey /\ c.bySource = b.bySource
      /\ c.byTarget = b.byTarget /\ c.byType = b.byType
      /\ b.byId \subseteq c.byId
  <2>1. next + 1 \in Nat
    BY <1>2
  <2> HIDE DEF n
  <2>2. NamesOK(c, next + 1) /\ LabelsOK(c)
    BY <1>4, <1>6, <2>1, PutNodesNames, PutNodesLabels
  <2>3. b.byId \subseteq c.byId
    BY <1>4, <1>6, <2>1, PutNodesIds
  <2>4. /\ IsBuffer(c)
        /\ c.edges = b.edges /\ c.byKey = b.byKey /\ c.bySource = b.bySource
        /\ c.byTarget = b.byTarget /\ c.byType = b.byType
    BY <1>4, PutNodesFields
  <2> QED
    BY <2>2, <2>3, <2>4
<1>8. EdgesOK(c)
  BY <1>4, <1>7 DEF EdgesOK
<1>9. \A m \in c.nodes : (\E o \in b.nodes : o.id = m.id) \/ (m.id = next /\ b.byQn[q] = 0)
  <2>1. c.nodes = Kept(b, {n}) \cup {Put(b, m) : m \in {n}}
    BY <1>4, PutNodesFields
  <2>2. /\ b.byQn[q] # 0 => \E o \in b.nodes : o.id = Put(b, n).id
        /\ b.byQn[q] = 0 => Put(b, n).id = next
    BY <1>2, <1>4, <1>6, PutIsANode
  <2> QED
    BY <2>1, <2>2 DEF Kept
<1> HIDE DEF c, n
<1>10. BufferOK(c, next')
  <2>1. CASE b.byQn[q] # 0
    <3>1. \A m \in c.nodes : m.id # next
      BY <1>2, <1>5, <1>9, <2>1
    <3> QED
      BY <1>1, <1>2, <1>7, <1>8, <2>1, <3>1, NamesEarlier DEF BufferOK
  <2>2. CASE b.byQn[q] = 0
    BY <1>1, <1>7, <1>8, <2>2 DEF BufferOK
  <2> QED
    BY <2>1, <2>2
<1>11. next' \in Nat /\ next <= next'
  BY <1>1, <1>2
<1>12. /\ DOMAIN buf' = Buffers /\ next' \in Nat \ {0}
       /\ \A y \in Buffers : BufferOK(buf'[y], next')
       /\ OwnIds'
  BY <1>3, <1>9, <1>10, <1>11, BuffersChange
<1>13. EndsOK'
  <2> SUFFICES ASSUME NEW y \in Buffers, NEW e \in buf'[y].edges
               PROVE  {e.src, e.tgt} \subseteq buf'[y].byId \cup buf'["main"].byId
    BY DEF EndsOK
  <2>0. "main" \in Buffers
    BY DEF Buffers
  <2>1. buf'[y].edges = buf[y].edges
    BY <1>3, <1>7
  <2>2. buf[y].byId \subseteq buf'[y].byId /\ buf["main"].byId \subseteq buf'["main"].byId
    BY <1>3, <1>7, <2>0
  <2>3. e \in buf[y].edges
    BY <2>1
  <2>4. {e.src, e.tgt} \subseteq buf[y].byId \cup buf["main"].byId
    <3>1. \A z \in Buffers : \A g \in buf[z].edges :
            {g.src, g.tgt} \subseteq buf[z].byId \cup buf["main"].byId
      BY <1>2 DEF EndsOK
    <3> QED
      BY <2>3, <3>1
  <2> QED
    BY <2>2, <2>4
<1>14. stage' \in Stages /\ StagesOK'
  BY <1>1, <1>2 DEF StagesOK, Open
<1> QED
  BY <1>3, <1>12, <1>13, <1>14 DEF GraphInv

LEMMA Links ==
  ASSUME GraphAssumption, GraphInv, NEW x \in Buffers, NEW u \in Usages,
         AddEdge(x, u[1], u[2], u[3])
  PROVE  GraphInv'
<1> DEFINE b == buf[x]
<1>1. PICK s \in IdsOf(x, u[1]), t \in IdsOf(x, u[3]) :
        buf' = [buf EXCEPT ![x] = PutEdges(b, {[src |-> s, type |-> u[2], tgt |-> t]})]
  BY DEF AddEdge
<1> DEFINE es == {[src |-> s, type |-> u[2], tgt |-> t]}
           c == PutEdges(b, es)
<1>2. Open(x) /\ UNCHANGED <<stage, next>>
  BY DEF AddEdge
<1>3. /\ next \in Nat \ {0} /\ buf = [y \in Buffers |-> buf[y]] /\ stage \in Stages
      /\ \A y \in Buffers : BufferOK(buf[y], next)
      /\ OwnIds /\ EndsOK /\ StagesOK
  BY DEF GraphInv
<1>4. /\ buf' = [y \in Buffers |-> buf'[y]] /\ buf'[x] = c
      /\ \A y \in Buffers : y # x => buf'[y] = buf[y]
  BY <1>1, <1>3
<1>5. "main" \in Buffers
  BY DEF Buffers
<1>6. ASSUME NEW q \in Names, NEW i \in IdsOf(x, q) PROVE i \in b.byId \cup buf["main"].byId
  <2>1. ASSUME NEW y \in Buffers, buf[y].byQn[q] # 0 PROVE buf[y].byQn[q] \in buf[y].byId
    BY <1>3, <2>1, KnownName DEF BufferOK, GraphAssumption
  <2> QED
    BY <1>5, <2>1 DEF IdsOf
<1>7. {s, t} \subseteq b.byId \cup buf["main"].byId
  BY <1>6 DEF GraphAssumption
<1>8. /\ IsBuffer(c) /\ EdgesOK(c) /\ c.edges = b.edges \cup es /\ c.nodes = b.nodes
      /\ c.byQn = b.byQn /\ c.byId = b.byId /\ c.byLabel = b.byLabel
  BY <1>3, PutEdgesOK DEF BufferOK
<1> HIDE DEF c
<1>9. BufferOK(c, next')
  <2>1. NamesOK(b, next) /\ LabelsOK(b)
    BY <1>3 DEF BufferOK
  <2>2. NamesOK(c, next)
    BY <1>8, <2>1 DEF NamesOK
  <2>3. LabelsOK(c)
    BY <1>8, <2>1 DEF LabelsOK, Entries
  <2> QED
    BY <1>2, <1>8, <2>2, <2>3 DEF BufferOK
<1>10. /\ DOMAIN buf' = Buffers /\ next' \in Nat \ {0}
       /\ \A y \in Buffers : BufferOK(buf'[y], next')
       /\ OwnIds'
  BY <1>2, <1>3, <1>4, <1>8, <1>9, BuffersChange
<1>11. EndsOK'
  <2> SUFFICES ASSUME NEW y \in Buffers, NEW e \in buf'[y].edges
               PROVE  {e.src, e.tgt} \subseteq buf'[y].byId \cup buf'["main"].byId
    BY DEF EndsOK
  <2>1. buf'[y].byId = buf[y].byId /\ buf'["main"].byId = buf["main"].byId
    BY <1>4, <1>5, <1>8
  <2>2. CASE e \in buf[y].edges
    BY <1>3, <2>1, <2>2 DEF EndsOK
  <2>3. CASE y = x /\ e \in es
    BY <1>7, <2>1, <2>3
  <2> QED
    BY <1>4, <1>8, <2>2, <2>3
<1>12. stage' \in Stages /\ StagesOK'
  BY <1>2, <1>3 DEF StagesOK, Open
<1> QED
  BY <1>4, <1>10, <1>11, <1>12 DEF GraphInv

LEMMA Purges ==
  ASSUME GraphAssumption, GraphInv, NEW f \in Sources, PurgeFile(f)
  PROVE  GraphInv'
<1> DEFINE b == buf["main"]
           c == DeleteByFile(b, f)
<1>1. stage = "purge" /\ buf' = [buf EXCEPT !["main"] = c] /\ UNCHANGED <<stage, next>>
  BY DEF PurgeFile
<1>2. /\ next \in Nat \ {0} /\ buf = [y \in Buffers |-> buf[y]] /\ stage \in Stages
      /\ BufferOK(b, next) /\ OwnIds /\ EndsOK /\ StagesOK /\ "main" \in Buffers
  BY DEF GraphInv, Buffers
<1>3. /\ buf' = [y \in Buffers |-> buf'[y]] /\ buf'["main"] = c
      /\ \A y \in Buffers : y # "main" => buf'[y] = buf[y]
  BY <1>1, <1>2
<1>4. LabelsTrue(b) /\ \A w \in Workers : buf[w] = EmptyBuffer
  BY <1>1, <1>2 DEF StagesOK
<1>5. /\ IsBuffer(c) /\ NamesOK(c, next) /\ LabelsOK(c) /\ EdgesOK(c) /\ LabelsTrue(c)
      /\ \A n \in c.nodes : \E m \in b.nodes : m.id = n.id
      /\ \A e \in c.edges : /\ e \in b.edges
                            /\ e.src \in b.byId => e.src \in c.byId
                            /\ e.tgt \in b.byId => e.tgt \in c.byId
  BY <1>2, <1>4, DeleteOK DEF BufferOK
<1> HIDE DEF c
<1>6. BufferOK(c, next')
  BY <1>1, <1>5 DEF BufferOK
<1>7. /\ DOMAIN buf' = Buffers /\ next' \in Nat \ {0}
      /\ \A y \in Buffers : BufferOK(buf'[y], next')
      /\ OwnIds'
  BY <1>1, <1>2, <1>3, <1>5, <1>6, BuffersChange
<1>8. EndsOK'
  <2> SUFFICES ASSUME NEW y \in Buffers, NEW e \in buf'[y].edges
               PROVE  {e.src, e.tgt} \subseteq buf'[y].byId \cup buf'["main"].byId
    BY DEF EndsOK
  <2>1. CASE y = "main"
    BY <1>2, <1>3, <1>5, <2>1 DEF EndsOK
  <2>2. CASE y # "main"
    BY <1>3, <1>4, <2>2 DEF Buffers, EmptyBuffer
  <2> QED
    BY <2>1, <2>2
<1>9. stage' \in Stages /\ StagesOK'
  <2>1. "main" \notin Workers
    BY DEF GraphAssumption
  <2> QED
    BY <1>1, <1>2, <1>3, <1>4, <1>5, <2>1 DEF StagesOK, Buffers
<1> QED
  BY <1>3, <1>7, <1>8, <1>9 DEF GraphInv

LEMMA Loads ==
  ASSUME GraphAssumption, GraphInv, LoadFromDb
  PROVE  GraphInv'
<1>1. PICK base \in Databases :
        LET nodes == {[id |-> i, qn |-> base.rows[i][1], label |-> base.rows[i][2],
                       file |-> base.rows[i][3]] : i \in DOMAIN base.rows}
            edges == {[src |-> e[1], type |-> e[2], tgt |-> e[3]] : e \in base.edges}
        IN  /\ buf' = [buf EXCEPT !["main"] = PutEdges(PutNodes(@, nodes), edges)]
            /\ next' = Len(base.rows) + 1
  BY DEF LoadFromDb
<1> DEFINE k == Len(base.rows) + 1
           rowOf(i) == [id |-> i, qn |-> base.rows[i][1], label |-> base.rows[i][2],
                      file |-> base.rows[i][3]]
           nodes == {rowOf(i) : i \in DOMAIN base.rows}
           es == {[src |-> e[1], type |-> e[2], tgt |-> e[3]] : e \in base.edges}
           p == PutNodes(EmptyBuffer, nodes)
           c == PutEdges(p, es)
<1>2. stage = "load" /\ stage' = "purge"
  BY DEF LoadFromDb
<1>3. /\ buf = [y \in Buffers |-> EmptyBuffer] /\ next \in Nat \ {0} /\ "main" \in Buffers
  BY <1>2 DEF GraphInv, StagesOK, Buffers
<1>4. /\ buf' = [y \in Buffers |-> buf'[y]] /\ buf'["main"] = c /\ next' = k
      /\ \A y \in Buffers : y # "main" => buf'[y] = EmptyBuffer
  BY <1>1, <1>3
<1>5. /\ base.rows \in Seq(Names \X Labels \X Sources)
      /\ \A i, j \in DOMAIN base.rows : base.rows[i][1] = base.rows[j][1] => i = j
      /\ \A e \in base.edges : {e[1], e[3]} \subseteq DOMAIN base.rows
  BY DEF GraphAssumption
<1>6. k \in Nat \ {0} /\ DOMAIN base.rows = 1 .. (k - 1)
  BY <1>5
<1>7. \A i \in DOMAIN base.rows :
        /\ rowOf(i) \in Node(k) /\ rowOf(i).qn \in Names /\ rowOf(i).qn # Null
        /\ rowOf(i).id = i /\ rowOf(i).qn = base.rows[i][1]
  <2> SUFFICES ASSUME NEW i \in DOMAIN base.rows
               PROVE  /\ rowOf(i) \in Node(k) /\ rowOf(i).qn \in Names /\ rowOf(i).qn # Null
                      /\ rowOf(i).id = i /\ rowOf(i).qn = base.rows[i][1]
    OBVIOUS
  <2>1. base.rows[i] \in Names \X Labels \X Sources
    BY <1>5
  <2>2. i \in 1 .. (k - 1)
    BY <1>6
  <2> QED
    BY <2>1, <2>2 DEF Node, GraphAssumption
<1>8. Puttable(EmptyBuffer, k, nodes)
  BY <1>5, <1>7 DEF Puttable, EmptyBuffer
<1>9. /\ IsBuffer(EmptyBuffer) /\ NamesOK(EmptyBuffer, k) /\ LabelsOK(EmptyBuffer)
  BY EmptyOK
<1>10. /\ IsBuffer(p) /\ NamesOK(p, k) /\ LabelsOK(p)
       /\ p.edges = {} /\ p.byKey = {} /\ p.bySource = {} /\ p.byTarget = {} /\ p.byType = {}
  <2>1. NamesOK(p, k) /\ LabelsOK(p)
    BY <1>6, <1>8, <1>9, PutNodesNames, PutNodesLabels
  <2>2. /\ IsBuffer(p)
        /\ p.edges = EmptyBuffer.edges /\ p.byKey = EmptyBuffer.byKey
        /\ p.bySource = EmptyBuffer.bySource /\ p.byTarget = EmptyBuffer.byTarget
        /\ p.byType = EmptyBuffer.byType
    BY <1>9, PutNodesFields
  <2> QED
    BY <2>1, <2>2 DEF EmptyBuffer
<1>11. \A m \in nodes : m \in New(EmptyBuffer, nodes) /\ Put(EmptyBuffer, m) = m
  BY <1>7 DEF New, Put, IdIn, EmptyBuffer
<1>12. LabelsTrue(p)
  <2>1. /\ p.nodes = Kept(EmptyBuffer, nodes) \cup {Put(EmptyBuffer, m) : m \in nodes}
        /\ p.byLabel = EmptyBuffer.byLabel \cup EntriesOf(New(EmptyBuffer, nodes))
    BY <1>9, PutNodesFields
  <2>2. Kept(EmptyBuffer, nodes) = {}
    BY DEF Kept, EmptyBuffer
  <2> HIDE DEF nodes
  <2>3. \A m \in p.nodes : m \in nodes
    BY <1>11, <2>1, <2>2
  <2>4. \A m \in nodes : <<m.label, m.id>> \in p.byLabel
    BY <1>11, <2>1 DEF EntriesOf
  <2> QED
    BY <2>3, <2>4 DEF LabelsTrue
<1>13. \A i \in DOMAIN base.rows : i \in p.byId
  <2>1. p.byId = EmptyBuffer.byId \cup IdsOfNodes(New(EmptyBuffer, nodes))
    BY <1>9, PutNodesFields
  <2>2. \A m \in nodes : m.id \in p.byId
    <3> HIDE DEF nodes
    <3> QED
      BY <1>11, <2>1 DEF IdsOfNodes
  <2>3. \A i \in DOMAIN base.rows : rowOf(i) \in nodes
    OBVIOUS
  <2>4. \A i \in DOMAIN base.rows : rowOf(i).id = i
    BY <1>7
  <2> HIDE DEF rowOf, nodes, p
  <2> SUFFICES ASSUME NEW i \in DOMAIN base.rows PROVE i \in p.byId
    OBVIOUS
  <2>5. rowOf(i) \in nodes /\ rowOf(i).id = i
    BY <2>3, <2>4
  <2> QED
    BY <2>2, <2>5
<1>14. \A e \in es : /\ e = [src |-> e.src, type |-> e.type, tgt |-> e.tgt]
                     /\ {e.src, e.tgt} \subseteq p.byId
  BY <1>5, <1>13
<1>15. EdgesOK(p)
  BY <1>10 DEF EdgesOK
<1> HIDE DEF p, es
<1>16. /\ IsBuffer(c) /\ EdgesOK(c) /\ c.edges = p.edges \cup es /\ c.nodes = p.nodes
       /\ c.byQn = p.byQn /\ c.byId = p.byId /\ c.byLabel = p.byLabel
  <2>1. \A e \in es : e = [src |-> e.src, type |-> e.type, tgt |-> e.tgt]
    BY <1>14
  <2>2. IsBuffer(p)
    BY <1>10
  <2> QED
    BY <1>15, <2>1, <2>2, PutEdgesOK
<1> HIDE DEF c, k
<1>17. NamesOK(c, k) /\ LabelsOK(c) /\ LabelsTrue(c)
  <2>1. NamesOK(c, k)
    BY <1>10, <1>16 DEF NamesOK
  <2>2. LabelsOK(c)
    BY <1>10, <1>16 DEF LabelsOK, Entries
  <2>3. LabelsTrue(c)
    BY <1>12, <1>16 DEF LabelsTrue
  <2> QED
    BY <2>1, <2>2, <2>3
<1>18. \A x \in Buffers : BufferOK(buf'[x], next')
  BY <1>4, <1>16, <1>17, EmptyOK DEF BufferOK
<1>19. OwnIds'
  BY <1>4 DEF OwnIds, EmptyBuffer
<1>20. EndsOK'
  <2>1. \A e \in c.edges : {e.src, e.tgt} \subseteq c.byId
    BY <1>10, <1>14, <1>16
  <2> QED
    BY <1>4, <2>1 DEF EndsOK, EmptyBuffer
<1>21. stage' \in Stages /\ StagesOK'
  <2>1. \A w \in Workers : w \in Buffers /\ w # "main"
    BY DEF GraphAssumption, Buffers
  <2> QED
    BY <1>2, <1>4, <1>17, <2>1 DEF StagesOK, Stages
<1> QED
  BY <1>4, <1>6, <1>18, <1>19, <1>20, <1>21 DEF GraphInv

LEMMA Merges ==
  ASSUME GraphAssumption, GraphInv, NEW w \in Workers, MergeWorker(w)
  PROVE  GraphInv'
<1> DEFINE dst == buf["main"]
           src == buf[w]
           c == Merge(dst, src)
<1>1. /\ stage = "merge" /\ UNCHANGED <<stage, next>>
      /\ buf' = [buf EXCEPT !["main"] = c, ![w] = EmptyBuffer]
  BY DEF MergeWorker
<1>2. /\ next \in Nat \ {0} /\ buf = [y \in Buffers |-> buf[y]] /\ stage \in Stages
      /\ \A y \in Buffers : BufferOK(buf[y], next)
      /\ OwnIds /\ EndsOK /\ StagesOK
      /\ "main" \in Buffers /\ w \in Buffers /\ w # "main"
  BY DEF GraphInv, Buffers, GraphAssumption
<1>3. /\ buf' = [y \in Buffers |-> buf'[y]] /\ buf'["main"] = c /\ buf'[w] = EmptyBuffer
      /\ \A y \in Buffers : y # "main" /\ y # w => buf'[y] = buf[y]
  BY <1>1, <1>2
<1>4. /\ \A n \in src.nodes, m \in dst.nodes : n.id # m.id
      /\ \A e \in dst.edges : {e.src, e.tgt} \subseteq dst.byId
      /\ \A e \in src.edges : {e.src, e.tgt} \subseteq src.byId \cup dst.byId
  BY <1>2 DEF OwnIds, EndsOK
<1>5. /\ BufferOK(c, next)
      /\ \A n \in c.nodes : (\E m \in dst.nodes : m.id = n.id)
                            \/ (\E m \in src.nodes : m.id = n.id)
      /\ dst.byId \subseteq c.byId
      /\ \A e \in c.edges : {e.src, e.tgt} \subseteq c.byId
  BY <1>2, <1>4, MergeOK
<1> HIDE DEF c
<1>6. \A x \in Buffers : BufferOK(buf'[x], next')
  BY <1>1, <1>2, <1>3, <1>5, EmptyOK DEF BufferOK
<1>7. OwnIds'
  <2>1. ASSUME NEW x \in Buffers, x # "main", x # w,
               NEW n \in buf[x].nodes, NEW m \in c.nodes
        PROVE  n.id # m.id
    BY <1>2, <1>5, <2>1 DEF OwnIds
  <2> SUFFICES ASSUME NEW x \in Buffers, NEW z \in Buffers, x # z,
                      NEW n \in buf'[x].nodes, NEW m \in buf'[z].nodes
               PROVE  n.id # m.id
    BY DEF OwnIds
  <2>2. x # w /\ z # w
    BY <1>3 DEF EmptyBuffer
  <2>3. CASE x = "main"
    BY <1>3, <2>1, <2>2, <2>3
  <2>4. CASE z = "main"
    BY <1>3, <2>1, <2>2, <2>4
  <2>5. CASE x # "main" /\ z # "main"
    BY <1>2, <1>3, <2>2, <2>5 DEF OwnIds
  <2> QED
    BY <2>3, <2>4, <2>5
<1>8. EndsOK'
  <2> SUFFICES ASSUME NEW y \in Buffers, NEW e \in buf'[y].edges
               PROVE  {e.src, e.tgt} \subseteq buf'[y].byId \cup buf'["main"].byId
    BY DEF EndsOK
  <2>1. y # w
    BY <1>3 DEF EmptyBuffer
  <2>2. CASE y = "main"
    BY <1>3, <1>5, <2>2
  <2>3. CASE y # "main"
    BY <1>2, <1>3, <1>5, <2>1, <2>3 DEF EndsOK
  <2> QED
    BY <2>2, <2>3
<1>9. stage' \in Stages /\ StagesOK'
  BY <1>1, <1>2 DEF StagesOK
<1> QED
  BY <1>1, <1>2, <1>3, <1>6, <1>7, <1>8, <1>9 DEF GraphInv

\* From "build" on nothing depends on the stage.
LEMMA OnlyTheStage ==
  ASSUME GraphInv, UNCHANGED <<buf, next>>, stage' \in Stages,
         stage' # "load", stage' # "purge"
  PROVE  GraphInv'
<1>1. OwnIds' /\ EndsOK'
  BY DEF GraphInv, OwnIds, EndsOK
<1>2. StagesOK'
  BY DEF StagesOK
<1> QED
  BY <1>1, <1>2 DEF GraphInv

LEMMA GraphInvNext == ASSUME GraphAssumption, GraphInv, [GraphNext]_graphVars PROVE GraphInv'
<1>1. CASE LoadFromDb
  BY <1>1, Loads
<1>2. CASE StartFull \/ StartBuild \/ StartPass \/ EndPass \/ EndMerge
  BY <1>2, OnlyTheStage DEF StartFull, StartBuild, StartPass, EndPass, EndMerge, Stages
<1>3. ASSUME NEW f \in Sources, PurgeFile(f) PROVE GraphInv'
  BY <1>3, Purges
<1>4. ASSUME NEW x \in Buffers, NEW d \in Definitions, UpsertNode(x, d[1], d[2], d[3])
      PROVE  GraphInv'
  BY <1>4, Upserts
<1>5. ASSUME NEW x \in Buffers, NEW u \in Usages, AddEdge(x, u[1], u[2], u[3])
      PROVE  GraphInv'
  BY <1>5, Links
<1>6. ASSUME NEW w \in Workers, MergeWorker(w) PROVE GraphInv'
  BY <1>6, Merges
<1>7. CASE UNCHANGED graphVars
  BY <1>7 DEF graphVars, GraphInv, OwnIds, EndsOK, StagesOK
<1> QED
  BY <1>1, <1>2, <1>3, <1>4, <1>5, <1>6, <1>7 DEF GraphNext

LEMMA GraphInvAlways == GraphSpec => []GraphInv
BY GraphAssumption, GraphInvInit, GraphInvNext, PTL DEF GraphSpec

LEMMA GraphInvAgrees == ASSUME GraphAssumption, GraphInv PROVE IndexesAgree
<1> SUFFICES ASSUME NEW x \in Buffers
             PROVE  LET b == buf[x]
                        ids == {n.id : n \in Live(b)}
                    IN  /\ \A n \in Live(b) : b.byQn[n.qn] = n.id
                        /\ b.byId = ids
                        /\ \A i \in ids : \E l \in Labels :
                             {e \in b.byLabel : e[2] = i} = {<<l, i>>}
                        /\ \A e \in b.byLabel : e[2] \in ids
                        /\ \A index \in {b.byKey, b.bySource, b.byTarget, b.byType} :
                             index = b.edges
                        /\ \A e \in b.edges : {e.src, e.tgt} \subseteq b.byId \cup buf["main"].byId
  BY DEF IndexesAgree
<1> DEFINE b == buf[x]
           ids == {n.id : n \in Live(b)}
<1>1. NamesOK(b, next) /\ LabelsOK(b) /\ EdgesOK(b) /\ EndsOK /\ next \in Nat
  BY DEF GraphInv, BufferOK
<1>2. \A n : n \in Live(b) <=> n \in b.nodes /\ n.qn # Null
  BY <1>1 DEF Live, NamesOK, Node
<1>3. b.byId = ids
  BY <1>1, <1>2 DEF NamesOK
<1>4. \A n \in Live(b) : b.byQn[n.qn] = n.id
  BY <1>1, <1>2 DEF NamesOK
<1>5. /\ \A i \in ids : \E l \in Labels : {e \in b.byLabel : e[2] = i} = {<<l, i>>}
      /\ \A e \in b.byLabel : e[2] \in ids
  BY <1>1, <1>3 DEF LabelsOK, Entries
<1>6. \A index \in {b.byKey, b.bySource, b.byTarget, b.byType} : index = b.edges
  BY <1>1 DEF EdgesOK
<1>7. \A e \in b.edges : {e.src, e.tgt} \subseteq b.byId \cup buf["main"].byId
  BY <1>1 DEF EndsOK
<1> QED
  BY <1>3, <1>4, <1>5, <1>6, <1>7

\* Names and ids lead to the nodes that are there, each is in the list of one label, and
\* every edge is in its lists and joins nodes that are there, whatever is loaded, purged,
\* redefined and merged, for any files, definitions and number of workers.
THEOREM NoIndexLies == GraphSpec => []IndexesAgree
BY GraphAssumption, GraphInvAlways, GraphInvAgrees, PTL

-----------------------------------------------------------------------------
(* The refinement: Meaning, NameOf and MeaningOf of GraphBuffer with the buffers as an    *)
(* argument, so that what a step makes of them can be compared with what they were.       *)

EntryIn(b, q) ==
  LET its == {n \in b.nodes : n.id = b.byQn[q]}
  IN  IF its = {} THEN Absent ELSE LET n == CHOOSE n \in its : TRUE IN <<n.label, n.file>>
NameIn(bs, i) ==
  LET its == {n \in UNION {bs[x].nodes : x \in Buffers} : n.id = i}
  IN  IF its = {} THEN Null ELSE (CHOOSE n \in its : TRUE).qn
LinksIn(bs, b) == {<<NameIn(bs, e.src), e.type, NameIn(bs, e.tgt)>> : e \in b.edges}
MeaningIn(bs, b) ==
  [entry |-> [q \in Names |-> EntryIn(b, q)], links |-> LinksIn(bs, b)]
GraphOf(bs) == [x \in Buffers |-> MeaningIn(bs, bs[x])]

LEMMA GraphOfBuffers ==
  /\ [b \in Buffers |-> Meaning(buf[b])] = GraphOf(buf)
  /\ ([b \in Buffers |-> Meaning(buf[b])] = GraphOf(buf))'
BY DEF GraphOf, MeaningIn, LinksIn, NameIn, EntryIn, Meaning, NameOf

\* An id is that of one node, in whatever buffer.
OneNode(bs) ==
  \A x, y \in Buffers : \A n \in bs[x].nodes, m \in bs[y].nodes : n.id = m.id => n = m

LEMMA GraphInvOneNode == ASSUME GraphInv PROVE OneNode(buf)
<1> SUFFICES ASSUME NEW x \in Buffers, NEW y \in Buffers,
                    NEW n \in buf[x].nodes, NEW m \in buf[y].nodes, n.id = m.id
             PROVE  n = m
  BY DEF OneNode
<1>1. x = y
  BY DEF GraphInv, OwnIds
<1>2. NamesOK(buf[x], next)
  BY DEF GraphInv, BufferOK
<1> QED
  BY <1>1, <1>2 DEF NamesOK

LEMMA NameOfNode ==
  ASSUME NEW bs, OneNode(bs), NEW x \in Buffers, NEW n \in bs[x].nodes
  PROVE  NameIn(bs, n.id) = n.qn
<1> DEFINE its == {m \in UNION {bs[y].nodes : y \in Buffers} : m.id = n.id}
<1>1. n \in its
  OBVIOUS
<1>2. \A m \in its : m = n
  BY DEF OneNode
<1>3. NameIn(bs, n.id) = IF its = {} THEN Null ELSE (CHOOSE m \in its : TRUE).qn
  BY DEF NameIn
<1> HIDE DEF its
<1>4. (CHOOSE m \in its : TRUE) \in its
  BY <1>1
<1> QED
  BY <1>1, <1>2, <1>3, <1>4

\* A name has an entry if a node has it, and the entry is the node's.
LEMMA EntryOfNode ==
  ASSUME NEW b, NEW k \in Nat, NamesOK(b, k), GraphAssumption
  PROVE  /\ \A n \in b.nodes : n.qn # Null => EntryIn(b, n.qn) = <<n.label, n.file>>
         /\ \A q \in Names : (\A n \in b.nodes : n.qn # q) => EntryIn(b, q) = Absent
<1>0. \A n \in b.nodes : n.id # 0
  BY DEF NamesOK, Node
<1>1. ASSUME NEW n \in b.nodes, n.qn # Null PROVE EntryIn(b, n.qn) = <<n.label, n.file>>
  <2> DEFINE its == {m \in b.nodes : m.id = b.byQn[n.qn]}
  <2>1. b.byQn[n.qn] = n.id /\ \A m \in b.nodes : m.id = n.id => m = n
    BY <1>1 DEF NamesOK
  <2>2. n \in its /\ \A m \in its : m = n
    BY <2>1
  <2>3. EntryIn(b, n.qn) = IF its = {} THEN Absent
                           ELSE LET m == CHOOSE m \in its : TRUE IN <<m.label, m.file>>
    BY DEF EntryIn
  <2> HIDE DEF its
  <2>4. (CHOOSE m \in its : TRUE) = n
    BY <2>2
  <2> QED
    BY <2>2, <2>3, <2>4
<1>2. ASSUME NEW q \in Names, \A n \in b.nodes : n.qn # q PROVE EntryIn(b, q) = Absent
  <2>1. b.byQn[q] = 0
    BY <1>2 DEF NamesOK
  <2>2. {n \in b.nodes : n.id = b.byQn[q]} = {}
    BY <1>0, <2>1
  <2> QED
    BY <2>2 DEF EntryIn
<1> QED
  BY <1>1, <1>2

LEMMA AbsentIsNoEntry == ASSUME NEW l, NEW f PROVE <<l, f>> # Absent /\ <<l, f>>[2] = f
BY DEF Absent

LEMMA PresentIn ==
  ASSUME NEW b, NEW k \in Nat, NamesOK(b, k), GraphAssumption, NEW q \in Names
  PROVE  EntryIn(b, q) # Absent <=> \E n \in b.nodes : n.qn = q
BY EntryOfNode, AbsentIsNoEntry DEF GraphAssumption

\* Nodes that are put give their names their entries; other names keep theirs, and the
\* ids of all nodes keep their names.
LEMMA PutNodesMeaning ==
  ASSUME NEW b, NEW k \in Nat, IsBuffer(b), NamesOK(b, k), GraphAssumption,
         NEW nodes, Puttable(b, k, nodes)
  PROVE  /\ \A m \in nodes :
              EntryIn(PutNodes(b, nodes), m.qn) = <<m.label, m.file>>
         /\ \A q \in Names : (\A m \in nodes : m.qn # q)
              => EntryIn(PutNodes(b, nodes), q) = EntryIn(b, q)
         /\ \A n \in b.nodes : n.qn # Null =>
              \E p \in PutNodes(b, nodes).nodes : p.id = n.id /\ p.qn = n.qn
         /\ \A m \in nodes : b.byQn[m.qn] = 0 =>
              \E p \in PutNodes(b, nodes).nodes : p.id = m.id /\ p.qn = m.qn
<1> DEFINE c == PutNodes(b, nodes)
<1>c. NamesOK(c, k)
  BY PutNodesNames
<1>nd. c.nodes = Kept(b, nodes) \cup {Put(b, m) : m \in nodes}
  BY PutNodesFields
<1>put. \A m \in nodes :
         /\ m.qn \in Names
         /\ Put(b, m).id = IdIn(b, m) /\ Put(b, m).qn = m.qn
         /\ Put(b, m).label = m.label /\ Put(b, m).file = m.file
         /\ b.byQn[m.qn] = 0 => IdIn(b, m) = m.id
  BY PutIsANode
<1>null. \A n \in Names : n # Null
  BY DEF GraphAssumption
<1> HIDE DEF c
<1>1. ASSUME NEW m \in nodes PROVE EntryIn(c, m.qn) = <<m.label, m.file>>
  <2>1. Put(b, m) \in c.nodes /\ Put(b, m).qn # Null
    BY <1>nd, <1>put, <1>null
  <2> QED
    BY <2>1, <1>c, <1>put, EntryOfNode
<1>2. ASSUME NEW n \in b.nodes, n.qn # Null
      PROVE  \E p \in c.nodes : p.id = n.id /\ p.qn = n.qn
  <2>1. CASE n \in Kept(b, nodes)
    BY <2>1, <1>nd
  <2>2. CASE n \notin Kept(b, nodes)
    <3>1. PICK m \in nodes : b.byQn[m.qn] = n.id
      BY <2>2 DEF Kept
    <3>2. n.id # 0
      BY DEF NamesOK, Node
    <3>3. PICK o \in b.nodes : o.qn = m.qn /\ o.id = b.byQn[m.qn]
      BY <3>1, <3>2, <1>put, KnownName, <1>null
    <3>4. o = n
      BY <3>1, <3>3 DEF NamesOK
    <3>5. Put(b, m).id = n.id /\ Put(b, m).qn = n.qn
      BY <3>1, <3>2, <3>3, <3>4, <1>put DEF IdIn
    <3> QED
      BY <3>5, <1>nd
  <2> QED
    BY <2>1, <2>2
<1>3. ASSUME NEW q \in Names, \A m \in nodes : m.qn # q PROVE EntryIn(c, q) = EntryIn(b, q)
  <2>1. CASE \E n \in b.nodes : n.qn = q
    <3>1. PICK n \in b.nodes : n.qn = q
      BY <2>1
    <3>2. n \in Kept(b, nodes)
      <4>1. ASSUME NEW m \in nodes, b.byQn[m.qn] = n.id PROVE FALSE
        <5>1. n.id # 0
          BY DEF NamesOK, Node
        <5>2. PICK o \in b.nodes : o.qn = m.qn /\ o.id = b.byQn[m.qn]
          BY <4>1, <5>1, <1>put, KnownName, <1>null
        <5>3. o = n
          BY <4>1, <5>2 DEF NamesOK
        <5> QED
          BY <5>2, <5>3, <3>1, <1>3
      <4> QED
        BY <4>1 DEF Kept
    <3>3. EntryIn(b, q) = <<n.label, n.file>>
      BY <3>1, <1>null, EntryOfNode
    <3>4. n \in c.nodes
      BY <3>2, <1>nd
    <3>5. EntryIn(c, q) = <<n.label, n.file>>
      BY <3>1, <3>4, <1>null, <1>c, EntryOfNode
    <3> QED
      BY <3>3, <3>5
  <2>2. CASE ~ \E n \in b.nodes : n.qn = q
    <3>1. \A n \in c.nodes : n.qn # q
      BY <2>2, <1>3, <1>nd, <1>put DEF Kept
    <3> QED
      BY <2>2, <3>1, <1>c, EntryOfNode
  <2> QED
    BY <2>1, <2>2
<1>4. ASSUME NEW m \in nodes, b.byQn[m.qn] = 0
      PROVE  \E p \in c.nodes : p.id = m.id /\ p.qn = m.qn
  BY <1>4, <1>nd, <1>put
<1> QED
  BY <1>1, <1>2, <1>3, <1>4 DEF c

\* A node that keeps its id and name keeps the edges' meaning.
LEMMA NameStays ==
  ASSUME NEW bs, NEW bt, OneNode(bs), OneNode(bt), NEW x \in Buffers, NEW y \in Buffers,
         NEW n \in bs[x].nodes, NEW p \in bt[y].nodes, p.id = n.id, p.qn = n.qn
  PROVE  NameIn(bt, n.id) = NameIn(bs, n.id)
BY NameOfNode

LEMMA LinksStay ==
  ASSUME NEW bs, NEW bt, NEW b,
         \A e \in b.edges : /\ NameIn(bt, e.src) = NameIn(bs, e.src)
                            /\ NameIn(bt, e.tgt) = NameIn(bs, e.tgt)
  PROVE  LinksIn(bt, b) = LinksIn(bs, b)
BY DEF LinksIn

\* The ends of an edge are named nodes.
LEMMA EndsAreNamed ==
  ASSUME GraphInv, NEW x \in Buffers, NEW e \in buf[x].edges, NEW i \in {e.src, e.tgt}
  PROVE  \E y \in {x, "main"} : \E n \in buf[y].nodes : n.id = i /\ n.qn # Null
<1>1. "main" \in Buffers
  BY DEF Buffers
<1>2. i \in buf[x].byId \cup buf["main"].byId
  BY DEF GraphInv, EndsOK
<1>3. \A y \in Buffers : \A j \in buf[y].byId : \E n \in buf[y].nodes : n.id = j /\ n.qn # Null
  BY DEF GraphInv, BufferOK, NamesOK
<1> QED
  BY <1>1, <1>2, <1>3

LEMMA EmptyMeaning == \A bs : MeaningIn(bs, EmptyBuffer) = Graph!Nothing
<1>1. \A bs : LinksIn(bs, EmptyBuffer) = {}
  BY DEF LinksIn, EmptyBuffer
<1>2. \A q : EntryIn(EmptyBuffer, q) = Absent
  BY DEF EntryIn, EmptyBuffer
<1> QED
  BY <1>1, <1>2 DEF MeaningIn, Graph!Nothing

LEMMA RefinesInit == ASSUME GraphInit PROVE Graph!Init
<1>1. \A x \in Buffers : buf[x] = EmptyBuffer
  BY DEF GraphInit
<1>2. GraphOf(buf) = [x \in Buffers |-> Graph!Nothing]
  BY <1>1, EmptyMeaning DEF GraphOf
<1> QED
  BY <1>2, GraphOfBuffers DEF Graph!Init, Buffers

\* Each step is one of KnowledgeGraph's, or leaves the graphs alone.
LEMMA UpsertDefines ==
  ASSUME GraphAssumption, GraphInv, GraphInv', NEW x \in Buffers, NEW d \in Definitions,
         UpsertNode(x, d[1], d[2], d[3])
  PROVE  Graph!Define(x, d[1], d[2], d[3])
<1> DEFINE q == d[1]
           n == [id |-> next, qn |-> q, label |-> d[2], file |-> d[3]]
           b == buf[x]
           ns == {n}
           c == PutNodes(b, ns)
<1>d. q \in Names /\ d[2] \in Labels /\ d[3] \in Sources /\ q # Null
  BY DEF GraphAssumption
<1>1. buf' = [buf EXCEPT ![x] = c]
  BY DEF UpsertNode
<1>2. /\ next \in Nat \ {0} /\ buf = [y \in Buffers |-> buf[y]]
      /\ IsBuffer(b) /\ NamesOK(b, next)
  BY DEF GraphInv, BufferOK
<1>3. buf'[x] = c /\ \A y \in Buffers : y # x => buf'[y] = buf[y]
  BY <1>1, <1>2
<1>4. OneNode(buf) /\ OneNode(buf')
  <2>1. OneNode(buf)
    BY GraphInvOneNode
  <2>2. OneNode(buf)'
    BY GraphInvOneNode, PTL
  <2> QED
    BY <2>1, <2>2 DEF OneNode
<1>5. next + 1 \in Nat /\ NamesOK(b, next + 1) /\ Puttable(b, next + 1, ns)
  <2>1. n \in Node(next + 1)
    BY <1>2, <1>d DEF Node
  <2>2. \A m \in b.nodes : m.id # next
    BY <1>2 DEF NamesOK, Node
  <2>3. NamesOK(b, next + 1)
    BY <1>2, NamesLater
  <2>4. \A m \in ns : m = n /\ m.qn = q /\ m.id = next
    OBVIOUS
  <2> HIDE DEF ns, n
  <2>5. Puttable(b, next + 1, ns)
    BY <2>1, <2>2, <2>4, <1>d DEF Puttable
  <2> QED
    BY <2>3, <2>5, <1>2
<1>6. /\ EntryIn(c, q) = <<d[2], d[3]>>
      /\ \A p \in Names : p # q => EntryIn(c, p) = EntryIn(b, p)
      /\ \A m \in b.nodes : m.qn # Null => \E p \in c.nodes : p.id = m.id /\ p.qn = m.qn
  <2>0. n.qn = q /\ n.label = d[2] /\ n.file = d[3] /\ \A m : m \in ns <=> m = n
    OBVIOUS
  <2> HIDE DEF ns, n
  <2>1. /\ \A m \in ns : EntryIn(c, m.qn) = <<m.label, m.file>>
        /\ \A p \in Names : (\A m \in ns : m.qn # p) => EntryIn(c, p) = EntryIn(b, p)
        /\ \A m \in b.nodes : m.qn # Null => \E p \in c.nodes : p.id = m.id /\ p.qn = m.qn
    BY <1>2, <1>5, PutNodesMeaning
  <2> HIDE DEF c
  <2> QED
    BY <2>0, <2>1
<1>7. c.edges = b.edges
  BY <1>2, PutNodesFields
<1> HIDE DEF c, n, ns
<1>8. ASSUME NEW y \in Buffers, NEW m \in buf[y].nodes, m.qn # Null
      PROVE  NameIn(buf', m.id) = NameIn(buf, m.id)
  <2>1. \E p \in buf'[y].nodes : p.id = m.id /\ p.qn = m.qn
    BY <1>3, <1>6, <1>8
  <2> QED
    BY <2>1, <1>4, NameStays
<1>9. ASSUME NEW y \in Buffers PROVE LinksIn(buf', buf'[y]) = LinksIn(buf, buf[y])
  <2>1. "main" \in Buffers
    BY DEF Buffers
  <2>2. \A e \in buf[y].edges : \A i \in {e.src, e.tgt} : NameIn(buf', i) = NameIn(buf, i)
    BY <2>1, <1>8, EndsAreNamed
  <2>3. LinksIn(buf', buf[y]) = LinksIn(buf, buf[y])
    BY <2>2, LinksStay
  <2>4. LinksIn(buf', buf'[y]) = LinksIn(buf', buf[y])
    BY <1>3, <1>7 DEF LinksIn
  <2> QED
    BY <2>3, <2>4
<1>10. GraphOf(buf') = [GraphOf(buf) EXCEPT ![x].entry[q] = <<d[2], d[3]>>]
  <2>1. \A y \in Buffers : y # x => MeaningIn(buf', buf'[y]) = MeaningIn(buf, buf[y])
    BY <1>3, <1>9 DEF MeaningIn
  <2>2. MeaningIn(buf', buf'[x]) =
          [entry |-> [[p \in Names |-> EntryIn(b, p)] EXCEPT ![q] = <<d[2], d[3]>>],
           links |-> LinksIn(buf, b)]
    <3>1. [p \in Names |-> EntryIn(c, p)] =
            [[p \in Names |-> EntryIn(b, p)] EXCEPT ![q] = <<d[2], d[3]>>]
      BY <1>6, <1>d
    <3> QED
      BY <1>3, <1>9, <3>1 DEF MeaningIn
  <2>3. MeaningIn(buf', buf'[x]) = [MeaningIn(buf, buf[x]) EXCEPT !.entry[q] = <<d[2], d[3]>>]
    <3> DEFINE es == [p \in Names |-> EntryIn(b, p)]
               ls == LinksIn(buf, b)
    <3>1. MeaningIn(buf, b) = [entry |-> es, links |-> ls]
      BY DEF MeaningIn
    <3> HIDE DEF es, ls
    <3>2. [MeaningIn(buf, b) EXCEPT !.entry[q] = <<d[2], d[3]>>] =
            [entry |-> [es EXCEPT ![q] = <<d[2], d[3]>>], links |-> ls]
      BY <3>1
    <3> QED
      BY <2>2, <3>2 DEF es, ls
  <2> QED
    BY <2>1, <2>3 DEF GraphOf
<1> QED
  BY <1>10, GraphOfBuffers DEF Graph!Define

LEMMA EdgeLinks ==
  ASSUME GraphAssumption, GraphInv, GraphInv', NEW x \in Buffers, NEW u \in Usages,
         AddEdge(x, u[1], u[2], u[3])
  PROVE  Graph!Link(x, u[1], u[2], u[3])
<1> DEFINE b == buf[x]
<1>1. PICK s \in IdsOf(x, u[1]), t \in IdsOf(x, u[3]) :
        buf' = [buf EXCEPT ![x] = PutEdges(b, {[src |-> s, type |-> u[2], tgt |-> t]})]
  BY DEF AddEdge
<1> DEFINE e0 == [src |-> s, type |-> u[2], tgt |-> t]
           c == PutEdges(b, {e0})
<1>2. /\ next \in Nat \ {0} /\ buf = [y \in Buffers |-> buf[y]] /\ "main" \in Buffers
      /\ \A y \in Buffers : BufferOK(buf[y], next)
  BY DEF GraphInv, Buffers
<1>3. buf'[x] = c /\ \A y \in Buffers : y # x => buf'[y] = buf[y]
  BY <1>1, <1>2
<1>4. /\ c.edges = b.edges \cup {e0} /\ c.nodes = b.nodes /\ c.byQn = b.byQn
  BY <1>2, PutEdgesOK DEF BufferOK
<1> HIDE DEF c
<1>5. \A i : NameIn(buf', i) = NameIn(buf, i)
  <2>1. \A y \in Buffers : buf'[y].nodes = buf[y].nodes
    BY <1>3, <1>4
  <2>2. UNION {buf'[y].nodes : y \in Buffers} = UNION {buf[y].nodes : y \in Buffers}
    BY <2>1
  <2> SUFFICES ASSUME NEW i PROVE NameIn(buf', i) = NameIn(buf, i)
    OBVIOUS
  <2> DEFINE its(bs) == {n \in UNION {bs[y].nodes : y \in Buffers} : n.id = i}
  <2>3. its(buf') = its(buf)
    BY <2>2
  <2>4. \A bs : NameIn(bs, i) =
                 IF its(bs) = {} THEN Null ELSE (CHOOSE n \in its(bs) : TRUE).qn
    BY DEF NameIn
  <2> HIDE DEF its
  <2> QED
    BY <2>3, <2>4
<1>6. ASSUME NEW q \in Names, NEW i \in IdsOf(x, q)
      PROVE  /\ NameIn(buf, i) = q
             /\ q \in Graph!Present(GraphOf(buf)[x]) \cup Graph!Present(GraphOf(buf)["main"])
  <2>1. ASSUME NEW y \in Buffers, buf[y].byQn[q] # 0
        PROVE  /\ NameIn(buf, buf[y].byQn[q]) = q
               /\ q \in Graph!Present(GraphOf(buf)[y])
    <3>1. NamesOK(buf[y], next)
      BY <1>2 DEF BufferOK
    <3>2. PICK n \in buf[y].nodes : n.qn = q /\ n.id = buf[y].byQn[q]
      BY <1>2, <2>1, <3>1, KnownName DEF GraphAssumption
    <3>3. NameIn(buf, n.id) = q
      BY <3>2, NameOfNode, GraphInvOneNode
    <3>4. EntryIn(buf[y], q) # Absent
      BY <1>2, <3>1, <3>2, PresentIn
    <3> QED
      BY <3>2, <3>3, <3>4 DEF Graph!Present, GraphOf, MeaningIn
  <2> QED
    BY <1>2, <2>1 DEF IdsOf
<1>7. u[1] \in Names /\ u[3] \in Names
  BY DEF GraphAssumption
<1>8. GraphOf(buf') = [GraphOf(buf) EXCEPT ![x].links = @ \cup {<<u[1], u[2], u[3]>>}]
  <2>1. \A y \in Buffers : y # x => MeaningIn(buf', buf'[y]) = MeaningIn(buf, buf[y])
    BY <1>3, <1>5, LinksStay DEF MeaningIn
  <2>2. LinksIn(buf', c) = LinksIn(buf, b) \cup {<<u[1], u[2], u[3]>>}
    <3>1. NameIn(buf, e0.src) = u[1] /\ NameIn(buf, e0.tgt) = u[3] /\ e0.type = u[2]
      BY <1>6, <1>7
    <3> HIDE DEF e0
    <3> QED
      BY <1>4, <1>5, <3>1 DEF LinksIn
  <2>3. \A q : EntryIn(c, q) = EntryIn(b, q)
    BY <1>4 DEF EntryIn
  <2>4. MeaningIn(buf', buf'[x]) =
          [MeaningIn(buf, buf[x]) EXCEPT !.links = @ \cup {<<u[1], u[2], u[3]>>}]
    <3> DEFINE es == [p \in Names |-> EntryIn(b, p)]
               ls == LinksIn(buf, b)
    <3>1. MeaningIn(buf, b) = [entry |-> es, links |-> ls]
      BY DEF MeaningIn
    <3>2. MeaningIn(buf', c) = [entry |-> es, links |-> ls \cup {<<u[1], u[2], u[3]>>}]
      <4>1. [p \in Names |-> EntryIn(c, p)] = es
        BY <2>3
      <4> QED
        BY <2>2, <4>1 DEF MeaningIn
    <3> HIDE DEF es, ls
    <3>3. [MeaningIn(buf, b) EXCEPT !.links = @ \cup {<<u[1], u[2], u[3]>>}] =
            [entry |-> es, links |-> ls \cup {<<u[1], u[2], u[3]>>}]
      <4>1. MeaningIn(buf, b).links = ls
        BY <3>1
      <4> DEFINE z == ls \cup {<<u[1], u[2], u[3]>>}
      <4>2. [MeaningIn(buf, b) EXCEPT !.links = @ \cup {<<u[1], u[2], u[3]>>}] =
              [MeaningIn(buf, b) EXCEPT !.links = z]
        BY <4>1
      <4> HIDE DEF z, b
      <4>3. [MeaningIn(buf, b) EXCEPT !.links = z] = [entry |-> es, links |-> z]
        BY <3>1
      <4> QED
        BY <4>2, <4>3 DEF z
    <3> QED
      BY <1>3, <3>2, <3>3
  <2> QED
    BY <2>1, <2>4 DEF GraphOf
<1>9. {u[1], u[3]} \subseteq
        Graph!Present(GraphOf(buf)[x]) \cup Graph!Present(GraphOf(buf)["main"])
  BY <1>6, <1>7
<1> QED
  BY <1>8, <1>9, GraphOfBuffers DEF Graph!Link

LEMMA DeleteLive ==
  ASSUME NEW b, NEW k \in Nat, NEW f, IsBuffer(b), EdgesOK(b), NamesOK(b, k)
  PROVE  /\ \A n : n \in DeleteByFile(b, f).nodes /\ n.qn # Null
                   <=> n \in b.nodes /\ n.qn # Null /\ n \notin Gone(b, f)
         /\ \A n : n \in Gone(b, f) <=> n \in b.nodes /\ n.qn # Null /\ n.file = f
<1> DEFINE c == DeleteByFile(b, f)
           gone == Gone(b, f)
<1>1. \A n \in b.nodes : n \in Node(k) /\ n.id # 0
  BY DEF NamesOK, Node
<1>2. \A n \in b.nodes : n.qn # Null => b.byQn[n.qn] = n.id
  BY DEF NamesOK
<1>3. \A n : n \in gone <=> n \in b.nodes /\ n.qn # Null /\ n.file = f
  BY <1>1, <1>2 DEF Gone, Live
<1>4. c.nodes = (b.nodes \ gone) \cup {Nameless(n) : n \in gone}
  BY DeleteFields
<1>5. \A n \in gone : Nameless(n).qn = Null
  BY <1>1, <1>3 DEF Nameless, Node
<1>6. \A n : n \in c.nodes <=> (n \in b.nodes /\ n \notin gone) \/ \E g \in gone : n = Nameless(g)
  BY <1>4
<1> HIDE DEF c, gone
<1>7. \A n : n \in c.nodes /\ n.qn # Null <=> n \in b.nodes /\ n.qn # Null /\ n \notin gone
  BY <1>5, <1>6
<1> QED
  BY <1>3, <1>7 DEF c, gone

LEMMA PurgeForgets ==
  ASSUME GraphAssumption, GraphInv, GraphInv', NEW f \in Sources, PurgeFile(f)
  PROVE  Graph!Forget(f)
<1> DEFINE b == buf["main"]
           c == DeleteByFile(b, f)
           g == GraphOf(buf)["main"]
           gone == {q \in Graph!Present(g) : g.entry[q][2] = f}
<1>1. stage = "purge" /\ buf' = [buf EXCEPT !["main"] = c] /\ UNCHANGED <<stage, next>>
  BY DEF PurgeFile
<1>2. /\ next \in Nat \ {0} /\ buf = [y \in Buffers |-> buf[y]] /\ "main" \in Buffers
      /\ IsBuffer(b) /\ NamesOK(b, next) /\ EdgesOK(b)
      /\ \A w \in Workers : buf[w] = EmptyBuffer
  BY <1>1 DEF GraphInv, BufferOK, StagesOK, Buffers
<1>3. /\ buf'["main"] = c
      /\ \A y \in Buffers : y # "main" => buf'[y] = EmptyBuffer /\ buf[y] = EmptyBuffer
  BY <1>1, <1>2 DEF Buffers
<1>4. OneNode(buf) /\ OneNode(buf')
  <2>1. OneNode(buf)
    BY GraphInvOneNode
  <2>2. OneNode(buf)'
    BY GraphInvOneNode, PTL
  <2> QED
    BY <2>1, <2>2 DEF OneNode
<1>5. NamesOK(c, next)
  <2>1. NamesOK(buf'["main"], next')
    BY <1>2 DEF GraphInv, BufferOK
  <2> QED
    BY <1>1, <1>3, <2>1
<1>6. /\ \A n : n \in c.nodes /\ n.qn # Null
               <=> n \in b.nodes /\ n.qn # Null /\ n \notin Gone(b, f)
      /\ \A n : n \in Gone(b, f) <=> n \in b.nodes /\ n.qn # Null /\ n.file = f
  BY <1>2, DeleteLive
<1>7. c.edges = b.edges \ Touching(b, IdsOfNodes(Gone(b, f)))
  BY <1>2, DeleteFields
<1>null. \A q \in Names : q # Null
  BY DEF GraphAssumption
<1>g. /\ g = MeaningIn(buf, b)
      /\ g.links = LinksIn(buf, b)
      /\ \A q \in Names : g.entry[q] = EntryIn(b, q)
  BY <1>2 DEF GraphOf, MeaningIn
<1> HIDE DEF c, g
<1>qn. \A n \in b.nodes : n.qn # Null => n.qn \in Names
  BY <1>2 DEF NamesOK, Node
<1>8. /\ gone \subseteq Names
      /\ \A n \in b.nodes : n.qn # Null => (n.qn \in gone <=> n \in Gone(b, f))
  <2>1. gone \subseteq Names
    BY DEF Graph!Present
  <2>2. ASSUME NEW n \in b.nodes, n.qn # Null
        PROVE  n.qn \in gone <=> n \in Gone(b, f)
    <3>1. n.qn \in Names /\ g.entry[n.qn] = <<n.label, n.file>>
      BY <1>2, <1>g, <1>qn, <2>2, EntryOfNode
    <3>2. g.entry[n.qn] # Absent /\ g.entry[n.qn][2] = n.file
      BY <3>1, AbsentIsNoEntry
    <3> QED
      BY <1>6, <2>2, <3>1, <3>2 DEF Graph!Present
  <2> QED
    BY <2>1, <2>2
<1>9. ASSUME NEW q \in Names
      PROVE  EntryIn(c, q) = IF q \in gone THEN Absent ELSE EntryIn(b, q)
  <2>1. CASE \E n \in b.nodes : n.qn = q
    <3>1. PICK n \in b.nodes : n.qn = q
      BY <2>1
    <3>2. CASE n \in Gone(b, f)
      <4>1. \A m \in b.nodes : m.qn = q => m = n
        BY <1>2, <1>null, <3>1 DEF NamesOK
      <4>2. \A m \in c.nodes : m.qn # q
        BY <1>6, <1>null, <3>2, <4>1
      <4>3. q \in gone
        BY <1>8, <1>null, <3>1, <3>2
      <4> QED
        BY <1>2, <1>5, <4>2, <4>3, EntryOfNode
    <3>3. CASE n \notin Gone(b, f)
      <4>1. n \in c.nodes /\ q \notin gone
        BY <1>6, <1>8, <1>null, <3>1, <3>3
      <4>2. EntryIn(c, q) = <<n.label, n.file>>
        BY <1>2, <1>5, <1>null, <3>1, <4>1, EntryOfNode
      <4>3. EntryIn(b, q) = <<n.label, n.file>>
        BY <1>2, <1>null, <3>1, EntryOfNode
      <4> QED
        BY <4>1, <4>2, <4>3
    <3> QED
      BY <3>2, <3>3
  <2>2. CASE ~ \E n \in b.nodes : n.qn = q
    <3>1. \A n \in c.nodes : n.qn # q
      BY <1>6, <1>null, <2>2
    <3>2. EntryIn(c, q) = Absent /\ EntryIn(b, q) = Absent
      BY <1>2, <1>5, <2>2, <3>1, EntryOfNode
    <3> QED
      BY <3>2
  <2> QED
    BY <2>1, <2>2
<1>10. ASSUME NEW e \in b.edges, NEW i \in {e.src, e.tgt}
       PROVE  /\ i \in IdsOfNodes(Gone(b, f)) <=> NameIn(buf, i) \in gone
              /\ i \notin IdsOfNodes(Gone(b, f)) => NameIn(buf', i) = NameIn(buf, i)
  <2>1. PICK n \in b.nodes : n.id = i /\ n.qn # Null
    BY <1>2, EndsAreNamed
  <2>2. NameIn(buf, i) = n.qn
    BY <1>2, <1>4, <2>1, NameOfNode
  <2>3. n \in Gone(b, f) <=> i \in IdsOfNodes(Gone(b, f))
    <3>1. \A m \in b.nodes : m.id = i => m = n
      BY <1>2, <2>1 DEF NamesOK
    <3> QED
      BY <1>6, <2>1, <3>1 DEF IdsOfNodes
  <2>4. n \notin Gone(b, f) => NameIn(buf', i) = n.qn
    <3>1. ASSUME n \notin Gone(b, f) PROVE n \in buf'["main"].nodes
      BY <1>3, <1>6, <2>1, <3>1
    <3> QED
      BY <1>2, <1>4, <2>1, <3>1, NameOfNode
  <2> QED
    BY <1>8, <2>1, <2>2, <2>3, <2>4
<1>11. LinksIn(buf', c) = {k \in g.links : k[1] \notin gone /\ k[3] \notin gone}
  <2> HIDE DEF gone
  <2> DEFINE old(e) == <<NameIn(buf, e.src), e.type, NameIn(buf, e.tgt)>>
             now(e) == <<NameIn(buf', e.src), e.type, NameIn(buf', e.tgt)>>
  <2>1. ASSUME NEW e \in b.edges
        PROVE  /\ e \in c.edges <=> old(e)[1] \notin gone /\ old(e)[3] \notin gone
               /\ e \in c.edges => now(e) = old(e)
    <3>1. /\ e.src \in IdsOfNodes(Gone(b, f)) <=> NameIn(buf, e.src) \in gone
          /\ e.src \notin IdsOfNodes(Gone(b, f)) => NameIn(buf', e.src) = NameIn(buf, e.src)
      BY <1>10
    <3>2. /\ e.tgt \in IdsOfNodes(Gone(b, f)) <=> NameIn(buf, e.tgt) \in gone
          /\ e.tgt \notin IdsOfNodes(Gone(b, f)) => NameIn(buf', e.tgt) = NameIn(buf, e.tgt)
      BY <1>10
    <3>3. e \in c.edges <=> e.src \notin IdsOfNodes(Gone(b, f))
                            /\ e.tgt \notin IdsOfNodes(Gone(b, f))
      BY <1>7 DEF Touching
    <3> QED
      BY <3>1, <3>2, <3>3
  <2>2. LinksIn(buf', c) = {now(e) : e \in c.edges} /\ g.links = {old(e) : e \in b.edges}
    BY <1>g DEF LinksIn
  <2>3. c.edges \subseteq b.edges
    BY <1>7
  <2> HIDE DEF old, now, b
  <2> QED
    BY <2>1, <2>2, <2>3
<1>12. GraphOf(buf') = [GraphOf(buf) EXCEPT !["main"] =
         [entry |-> [q \in Names |-> IF q \in gone THEN Absent ELSE g.entry[q]],
          links |-> {k \in g.links : k[1] \notin gone /\ k[3] \notin gone}]]
  <2>1. \A y \in Buffers : y # "main" => MeaningIn(buf', buf'[y]) = MeaningIn(buf, buf[y])
    BY <1>3, EmptyMeaning
  <2>2. [q \in Names |-> EntryIn(c, q)] =
          [q \in Names |-> IF q \in gone THEN Absent ELSE g.entry[q]]
    BY <1>9, <1>g
  <2>3. MeaningIn(buf', buf'["main"]) =
          [entry |-> [q \in Names |-> IF q \in gone THEN Absent ELSE g.entry[q]],
           links |-> {k \in g.links : k[1] \notin gone /\ k[3] \notin gone}]
    BY <1>3, <1>11, <2>2 DEF MeaningIn
  <2> HIDE DEF gone
  <2> QED
    BY <2>1, <2>3 DEF GraphOf
<1> QED
  <2> DEFINE forget(gr, gs) ==
        LET h    == gr["main"]
            lost == {q \in Graph!Present(h) : h.entry[q][2] = f}
        IN  gs = [gr EXCEPT !["main"] =
              [entry |-> [q \in Names |-> IF q \in lost THEN Absent ELSE h.entry[q]],
               links |-> {k \in h.links : k[1] \notin lost /\ k[3] \notin lost}]]
  <2>1. forget(GraphOf(buf), GraphOf(buf'))
    BY <1>12 DEF g
  <2>2. forget([x \in Buffers |-> Meaning(buf[x])], [x \in Buffers |-> Meaning(buf[x])]')
        => Graph!Forget(f)
    BY DEF Graph!Forget
  <2> HIDE DEF forget
  <2> QED
    BY <2>1, <2>2, GraphOfBuffers

LEMMA LoadLoads ==
  ASSUME GraphAssumption, GraphInv, GraphInv', LoadFromDb
  PROVE  Graph!Load
<1>1. PICK base \in Databases :
        LET nodes == {[id |-> i, qn |-> base.rows[i][1], label |-> base.rows[i][2],
                       file |-> base.rows[i][3]] : i \in DOMAIN base.rows}
            edges == {[src |-> e[1], type |-> e[2], tgt |-> e[3]] : e \in base.edges}
        IN  buf' = [buf EXCEPT !["main"] = PutEdges(PutNodes(@, nodes), edges)]
  BY DEF LoadFromDb
<1> DEFINE rowOf(i) == [id |-> i, qn |-> base.rows[i][1], label |-> base.rows[i][2],
                      file |-> base.rows[i][3]]
           edgeOf(e) == [src |-> e[1], type |-> e[2], tgt |-> e[3]]
           nodes == {rowOf(i) : i \in DOMAIN base.rows}
           es == {edgeOf(e) : e \in base.edges}
           p == PutNodes(EmptyBuffer, nodes)
           c == PutEdges(p, es)
           g == MeaningOf(base)
<1>2. /\ buf = [y \in Buffers |-> EmptyBuffer] /\ "main" \in Buffers
  BY DEF GraphInv, StagesOK, Buffers, LoadFromDb
<1>3. /\ buf'["main"] = c
      /\ \A y \in Buffers : y # "main" => buf'[y] = EmptyBuffer /\ buf[y] = EmptyBuffer
  BY <1>1, <1>2
<1>4. /\ base.rows \in Seq(Names \X Labels \X Sources)
      /\ \A i, j \in DOMAIN base.rows : base.rows[i][1] = base.rows[j][1] => i = j
      /\ \A e \in base.edges : {e[1], e[3]} \subseteq DOMAIN base.rows
  BY DEF GraphAssumption
<1>5. \A i \in DOMAIN base.rows : base.rows[i][1] \in Names /\ base.rows[i][1] # Null
  BY <1>4 DEF GraphAssumption
<1>6. \A n \in nodes : n.qn \in Names /\ Put(EmptyBuffer, n) = n
  BY <1>5 DEF Put, IdIn, EmptyBuffer
<1>7. p.nodes = nodes /\ IsBuffer(p) /\ EdgesOK(p) /\ p.edges = {}
  <2>1. IsBuffer(EmptyBuffer)
    BY EmptyOK
  <2>2. /\ IsBuffer(p)
        /\ p.nodes = Kept(EmptyBuffer, nodes) \cup {Put(EmptyBuffer, m) : m \in nodes}
        /\ p.edges = EmptyBuffer.edges /\ p.byKey = EmptyBuffer.byKey
        /\ p.bySource = EmptyBuffer.bySource /\ p.byTarget = EmptyBuffer.byTarget
        /\ p.byType = EmptyBuffer.byType
    BY <2>1, PutNodesFields
  <2>3. Kept(EmptyBuffer, nodes) = {}
    BY DEF Kept, EmptyBuffer
  <2>4. p.edges = {} /\ EdgesOK(p)
    BY <2>2 DEF EdgesOK, EmptyBuffer
  <2> HIDE DEF nodes, p
  <2>5. p.nodes = nodes
    BY <1>6, <2>2, <2>3
  <2> QED
    BY <2>2, <2>4, <2>5
<1>8. c.nodes = nodes /\ c.edges = es
  <2>1. \A e \in es : e = [src |-> e.src, type |-> e.type, tgt |-> e.tgt]
    OBVIOUS
  <2>2. IsBuffer(p) /\ EdgesOK(p)
    BY <1>7
  <2> HIDE DEF es, p, nodes
  <2>3. c.edges = p.edges \cup es /\ c.nodes = p.nodes
    BY <2>1, <2>2, PutEdgesOK
  <2> QED
    BY <1>7, <2>3
<1> HIDE DEF c, p
<1>9. NamesOK(c, next') /\ next' \in Nat /\ OneNode(buf')
  <2>1. NamesOK(buf'["main"], next') /\ next' \in Nat
    BY <1>2 DEF GraphInv, BufferOK
  <2>2. OneNode(buf)'
    BY GraphInvOneNode, PTL
  <2> QED
    BY <1>3, <2>1, <2>2 DEF OneNode
<1>10. \A i \in DOMAIN base.rows :
         /\ rowOf(i) \in c.nodes /\ rowOf(i).id = i /\ rowOf(i).qn = base.rows[i][1]
         /\ rowOf(i).label = base.rows[i][2] /\ rowOf(i).file = base.rows[i][3]
  BY <1>8
<1>11. \A n \in c.nodes : \E i \in DOMAIN base.rows : n = rowOf(i)
  BY <1>8
<1> HIDE DEF rowOf, nodes
<1>12. ASSUME NEW q \in Names PROVE EntryIn(c, q) = g.entry[q]
  <2> DEFINE its == {i \in DOMAIN base.rows : base.rows[i][1] = q}
  <2>1. g.entry[q] = IF its = {} THEN Absent
                     ELSE LET i == CHOOSE i \in its : TRUE
                          IN  <<base.rows[i][2], base.rows[i][3]>>
    BY DEF MeaningOf
  <2>2. CASE its = {}
    <3>1. \A n \in c.nodes : n.qn # q
      BY <1>10, <1>11, <2>2
    <3> QED
      BY <1>9, <2>1, <2>2, <3>1, EntryOfNode
  <2>3. ASSUME NEW i \in its PROVE EntryIn(c, q) = g.entry[q]
    <3>1. i \in DOMAIN base.rows /\ base.rows[i][1] = q
      BY <2>3
    <3>2. \A j \in its : j = i
      BY <1>4, <3>1
    <3> HIDE DEF its
    <3>3. (CHOOSE j \in its : TRUE) = i
      BY <2>3, <3>2
    <3>4. g.entry[q] = <<base.rows[i][2], base.rows[i][3]>>
      BY <2>1, <2>3, <3>3
    <3>5. EntryIn(c, q) = <<rowOf(i).label, rowOf(i).file>>
      <4>1. rowOf(i) \in c.nodes /\ rowOf(i).qn = q /\ q # Null
        BY <1>5, <1>10, <3>1
      <4> QED
        BY <1>9, <4>1, EntryOfNode
    <3> QED
      BY <1>10, <3>1, <3>4, <3>5
  <2> QED
    BY <2>2, <2>3
<1>13. \A i \in DOMAIN base.rows : NameIn(buf', i) = base.rows[i][1]
  <2> SUFFICES ASSUME NEW i \in DOMAIN base.rows PROVE NameIn(buf', i) = base.rows[i][1]
    OBVIOUS
  <2>1. rowOf(i) \in buf'["main"].nodes /\ rowOf(i).id = i /\ rowOf(i).qn = base.rows[i][1]
    BY <1>3, <1>10
  <2>2. NameIn(buf', rowOf(i).id) = rowOf(i).qn
    BY <1>2, <1>9, <2>1, NameOfNode
  <2> QED
    BY <2>1, <2>2
<1>14. LinksIn(buf', c) = g.links
  <2> DEFINE now(d) == <<NameIn(buf', d.src), d.type, NameIn(buf', d.tgt)>>
             stored(e) == <<base.rows[e[1]][1], e[2], base.rows[e[3]][1]>>
  <2>1. g.links = {stored(e) : e \in base.edges}
    BY DEF MeaningOf
  <2>2. LinksIn(buf', c) = {now(d) : d \in es}
    BY <1>8 DEF LinksIn
  <2>3. \A e \in base.edges : now(edgeOf(e)) = stored(e)
    BY <1>4, <1>13
  <2> HIDE DEF edgeOf, now, stored
  <2> QED
    BY <2>1, <2>2, <2>3
<1>15. g = [entry |-> [q \in Names |-> g.entry[q]], links |-> g.links]
  <2> DEFINE stored(q) ==
               LET its == {i \in DOMAIN base.rows : base.rows[i][1] = q}
               IN  IF its = {} THEN Absent
                   ELSE LET i == CHOOSE i \in its : TRUE IN <<base.rows[i][2], base.rows[i][3]>>
             ls == {<<base.rows[e[1]][1], e[2], base.rows[e[3]][1]>> : e \in base.edges}
  <2>1. g = [entry |-> [q \in Names |-> stored(q)], links |-> ls]
    BY DEF MeaningOf
  <2> HIDE DEF stored, ls, g
  <2> QED
    BY <2>1
<1> HIDE DEF g
<1>16. MeaningIn(buf', buf'["main"]) = g
  <2>1. [q \in Names |-> EntryIn(c, q)] = [q \in Names |-> g.entry[q]]
    BY <1>12
  <2> QED
    BY <1>3, <1>14, <1>15, <2>1 DEF MeaningIn
<1>17. /\ GraphOf(buf)["main"] = Graph!Nothing
       /\ GraphOf(buf') = [GraphOf(buf) EXCEPT !["main"] = g]
  <2>1. \A y \in Buffers : MeaningIn(buf, buf[y]) = Graph!Nothing
    BY <1>2, EmptyMeaning
  <2>2. \A y \in Buffers : y # "main" => MeaningIn(buf', buf'[y]) = Graph!Nothing
    BY <1>3, EmptyMeaning
  <2> QED
    BY <1>2, <1>16, <2>1, <2>2 DEF GraphOf
<1>18. g \in {MeaningOf(d) : d \in Databases}
  BY DEF g
<1> QED
  BY <1>17, <1>18, GraphOfBuffers DEF Graph!Load

\* An end of a worker's edge has the same name under the id that main gives it.
LEMMA RemapKeepsName ==
  ASSUME GraphAssumption, NEW bs, NEW bt, NEW k \in Nat, OneNode(bs), OneNode(bt),
         NEW w \in Buffers, "main" \in Buffers, w # "main",
         IsBuffer(bs["main"]), NamesOK(bs["main"], k), NamesOK(bs[w], k),
         \A n \in bs[w].nodes, m \in bs["main"].nodes : n.id # m.id,
         bt["main"].nodes = PutNodes(bs["main"], Live(bs[w])).nodes,
         NEW y \in {w, "main"}, NEW n \in bs[y].nodes, n.qn # Null
  PROVE  NameIn(bt, Remap(bs["main"], bs[w], n.id)) = NameIn(bs, n.id)
<1> DEFINE dst == bs["main"]
           src == bs[w]
           same == {m \in Live(src) : m.id = n.id /\ dst.byQn[m.qn] # 0}
<1>1. Remap(dst, src, n.id) =
        IF same = {} THEN n.id ELSE dst.byQn[(CHOOSE m \in same : TRUE).qn]
  BY DEF Remap
<1>2. Puttable(dst, k, Live(src))
  BY LiveIsPuttable
<1>3. /\ \A m \in dst.nodes : m.qn # Null =>
           \E p \in bt["main"].nodes : p.id = m.id /\ p.qn = m.qn
      /\ \A m \in Live(src) : dst.byQn[m.qn] = 0 =>
           \E p \in bt["main"].nodes : p.id = m.id /\ p.qn = m.qn
  BY <1>2, PutNodesMeaning
<1>4. NameIn(bs, n.id) = n.qn
  BY NameOfNode
<1>5. \A p \in bt["main"].nodes : NameIn(bt, p.id) = p.qn
  BY NameOfNode
<1>6. n.qn \in Names
  BY DEF NamesOK, Node
<1> HIDE DEF same
<1>7. CASE y = "main"
  <2>1. same = {}
    BY <1>7 DEF same, Live
  <2> QED
    BY <1>1, <1>3, <1>4, <1>5, <1>7, <2>1
<1>8. CASE y = w
  <2>1. n \in Live(src)
    <3>1. src.byQn[n.qn] = n.id /\ n.id # 0
      BY <1>8 DEF NamesOK, Node
    <3> QED
      BY <1>8, <3>1 DEF Live
  <2>2. CASE dst.byQn[n.qn] = 0
    <3>1. \A m \in Live(src) : m.id = n.id => m = n
      BY <1>8 DEF Live, NamesOK
    <3>2. same = {}
      BY <2>2, <3>1 DEF same
    <3> QED
      BY <1>1, <1>3, <1>4, <1>5, <2>1, <2>2, <3>2
  <2>3. CASE dst.byQn[n.qn] # 0
    <3>1. \A m \in Live(src) : m.id = n.id => m = n
      BY <1>8 DEF Live, NamesOK
    <3>2. n \in same /\ \A m \in same : m = n
      BY <2>1, <2>3, <3>1 DEF same
    <3>3. Remap(dst, src, n.id) = dst.byQn[n.qn]
      BY <1>1, <3>2
    <3>4. PICK o \in dst.nodes : o.qn = n.qn /\ o.id = dst.byQn[n.qn]
      BY <1>6, <2>3, KnownName DEF GraphAssumption
    <3>5. PICK p \in bt["main"].nodes : p.id = o.id /\ p.qn = o.qn
      BY <1>3, <3>4
    <3> QED
      BY <1>4, <1>5, <3>3, <3>4, <3>5
  <2> QED
    BY <2>2, <2>3
<1> QED
  BY <1>7, <1>8

LEMMA MergeAbsorbs ==
  ASSUME GraphAssumption, GraphInv, GraphInv', NEW w \in Workers, MergeWorker(w)
  PROVE  Graph!Absorb(w)
<1> DEFINE dst == buf["main"]
           src == buf[w]
           nodes == Live(src)
           p == PutNodes(dst, nodes)
           remapped(e) == [src |-> Remap(dst, src, e.src), type |-> e.type,
                           tgt |-> Remap(dst, src, e.tgt)]
           es == {remapped(e) : e \in src.edges}
           c == PutEdges(p, es)
<1>1. buf' = [buf EXCEPT !["main"] = c, ![w] = EmptyBuffer]
  BY DEF MergeWorker, Merge
<1>2. /\ next \in Nat \ {0} /\ buf = [y \in Buffers |-> buf[y]]
      /\ "main" \in Buffers /\ w \in Buffers /\ w # "main"
      /\ IsBuffer(dst) /\ NamesOK(dst, next) /\ EdgesOK(dst) /\ NamesOK(src, next)
      /\ \A n \in src.nodes, m \in dst.nodes : n.id # m.id
  BY DEF GraphInv, BufferOK, Buffers, GraphAssumption, OwnIds
<1>3. /\ buf'["main"] = c /\ buf'[w] = EmptyBuffer
      /\ \A y \in Buffers : y # "main" /\ y # w => buf'[y] = buf[y]
  BY <1>1, <1>2
<1>4. OneNode(buf) /\ OneNode(buf')
  <2>1. OneNode(buf)
    BY GraphInvOneNode
  <2>2. OneNode(buf)'
    BY GraphInvOneNode, PTL
  <2> QED
    BY <2>1, <2>2 DEF OneNode
<1>5. Puttable(dst, next, nodes)
  BY <1>2, LiveIsPuttable
<1>6. /\ IsBuffer(p) /\ p.edges = dst.edges
      /\ p.byKey = dst.byKey /\ p.bySource = dst.bySource
      /\ p.byTarget = dst.byTarget /\ p.byType = dst.byType
  BY <1>2, PutNodesFields
<1>7. /\ \A m \in nodes : EntryIn(p, m.qn) = <<m.label, m.file>>
      /\ \A q \in Names : (\A m \in nodes : m.qn # q) => EntryIn(p, q) = EntryIn(dst, q)
      /\ \A n \in dst.nodes : n.qn # Null => \E o \in p.nodes : o.id = n.id /\ o.qn = n.qn
  BY <1>2, <1>5, PutNodesMeaning
<1>8. c.edges = dst.edges \cup es /\ c.nodes = p.nodes /\ c.byQn = p.byQn
  <2>1. \A e \in es : e = [src |-> e.src, type |-> e.type, tgt |-> e.tgt]
    OBVIOUS
  <2>2. EdgesOK(p)
    BY <1>2, <1>6 DEF EdgesOK
  <2> HIDE DEF p, es
  <2> QED
    BY <1>6, <2>1, <2>2, PutEdgesOK
<1> HIDE DEF c
<1>9. ASSUME NEW y \in {w, "main"}, NEW n \in buf[y].nodes, n.qn # Null
      PROVE  NameIn(buf', Remap(dst, src, n.id)) = NameIn(buf, n.id)
  <2>1. buf'["main"].nodes = PutNodes(dst, Live(src)).nodes
    BY <1>3, <1>8
  <2> HIDE DEF p, es, nodes
  <2> QED
    BY <1>2, <1>4, <1>9, <2>1, RemapKeepsName
<1>10. ASSUME NEW y \in Buffers, y # w, NEW n \in buf[y].nodes, n.qn # Null
       PROVE  NameIn(buf', n.id) = NameIn(buf, n.id)
  <2>1. \E o \in buf'[y].nodes : o.id = n.id /\ o.qn = n.qn
    BY <1>3, <1>7, <1>8, <1>10
  <2> QED
    BY <1>4, <2>1, NameStays
<1>11. ASSUME NEW y \in Buffers, y # w
       PROVE  LinksIn(buf', buf[y]) = LinksIn(buf, buf[y])
  <2>1. \A e \in buf[y].edges : \A i \in {e.src, e.tgt} : NameIn(buf', i) = NameIn(buf, i)
    BY <1>2, <1>10, <1>11, EndsAreNamed
  <2> QED
    BY <2>1, LinksStay
<1>12. LinksIn(buf', c) = LinksIn(buf, dst) \cup LinksIn(buf, src)
  <2> DEFINE old(e) == <<NameIn(buf, e.src), e.type, NameIn(buf, e.tgt)>>
             now(e) == <<NameIn(buf', e.src), e.type, NameIn(buf', e.tgt)>>
  <2>1. ASSUME NEW e \in src.edges PROVE now(remapped(e)) = old(e)
    <3>1. \A i \in {e.src, e.tgt} : NameIn(buf', Remap(dst, src, i)) = NameIn(buf, i)
      BY <1>2, <1>9, EndsAreNamed
    <3> QED
      BY <3>1
  <2>2. {now(e) : e \in dst.edges} = {old(e) : e \in dst.edges}
    BY <1>2, <1>11 DEF LinksIn
  <2>3. /\ LinksIn(buf', c) = {now(e) : e \in c.edges}
        /\ LinksIn(buf, dst) = {old(e) : e \in dst.edges}
        /\ LinksIn(buf, src) = {old(e) : e \in src.edges}
    BY DEF LinksIn
  <2> HIDE DEF old, now, remapped, dst, src
  <2>4. {now(e) : e \in es} = {old(e) : e \in src.edges}
    BY <2>1
  <2>5. {now(e) : e \in c.edges} = {now(e) : e \in dst.edges} \cup {now(e) : e \in es}
    BY <1>8
  <2> QED
    BY <2>2, <2>3, <2>4, <2>5
<1>13. ASSUME NEW q \in Names
       PROVE  EntryIn(c, q) = IF EntryIn(src, q) # Absent THEN EntryIn(src, q)
                              ELSE EntryIn(dst, q)
  <2>1. EntryIn(c, q) = EntryIn(p, q)
    BY <1>8 DEF EntryIn
  <2>2. \A n : n \in nodes <=> n \in src.nodes /\ n.qn # Null
    BY <1>2 DEF Live, NamesOK, Node
  <2>3. ASSUME NEW n \in src.nodes, n.qn = q
        PROVE  EntryIn(p, q) = EntryIn(src, q) /\ EntryIn(src, q) # Absent
    <3>1. n.qn # Null
      BY <2>3 DEF GraphAssumption
    <3>2. EntryIn(src, q) = <<n.label, n.file>>
      BY <1>2, <2>3, <3>1, EntryOfNode
    <3>3. EntryIn(p, q) = <<n.label, n.file>>
      BY <1>7, <2>2, <2>3, <3>1
    <3> QED
      BY <3>2, <3>3, AbsentIsNoEntry
  <2>4. CASE \A n \in src.nodes : n.qn # q
    <3>1. EntryIn(src, q) = Absent
      BY <1>2, <2>4, EntryOfNode
    <3>2. EntryIn(p, q) = EntryIn(dst, q)
      BY <1>7, <2>2, <2>4
    <3> QED
      BY <2>1, <3>1, <3>2
  <2> QED
    BY <2>1, <2>3, <2>4
<1> DEFINE g == GraphOf(buf)["main"]
           h == GraphOf(buf)[w]
<1>14. /\ g = MeaningIn(buf, dst) /\ h = MeaningIn(buf, src)
       /\ g.links = LinksIn(buf, dst) /\ h.links = LinksIn(buf, src)
       /\ \A q \in Names : g.entry[q] = EntryIn(dst, q) /\ h.entry[q] = EntryIn(src, q)
  BY <1>2 DEF GraphOf, MeaningIn
<1> HIDE DEF g, h
<1>15. MeaningIn(buf', buf'["main"]) =
         [entry |-> [q \in Names |-> IF h.entry[q] # Absent THEN h.entry[q] ELSE g.entry[q]],
          links |-> g.links \cup h.links]
  <2>1. [q \in Names |-> EntryIn(c, q)] =
          [q \in Names |-> IF h.entry[q] # Absent THEN h.entry[q] ELSE g.entry[q]]
    BY <1>13, <1>14
  <2> QED
    BY <1>3, <1>12, <1>14, <2>1 DEF MeaningIn
<1>16. \A y \in Buffers : y # "main" /\ y # w =>
         MeaningIn(buf', buf'[y]) = MeaningIn(buf, buf[y])
  BY <1>3, <1>11 DEF MeaningIn
<1>17. MeaningIn(buf', buf'[w]) = Graph!Nothing
  BY <1>3, EmptyMeaning
<1>18. GraphOf(buf') = [GraphOf(buf) EXCEPT
         !["main"] =
           [entry |-> [q \in Names |-> IF h.entry[q] # Absent THEN h.entry[q]
                                       ELSE g.entry[q]],
            links |-> g.links \cup h.links],
         ![w] = Graph!Nothing]
  BY <1>2, <1>15, <1>16, <1>17 DEF GraphOf
<1> QED
  <2> DEFINE absorb(gr, gs) ==
        gs = [gr EXCEPT
          !["main"] =
            [entry |-> [q \in Names |-> IF gr[w].entry[q] # Absent THEN gr[w].entry[q]
                                        ELSE gr["main"].entry[q]],
             links |-> gr["main"].links \cup gr[w].links],
          ![w] = Graph!Nothing]
  <2>1. absorb(GraphOf(buf), GraphOf(buf'))
    BY <1>18 DEF g, h
  <2>2. absorb([x \in Buffers |-> Meaning(buf[x])], [x \in Buffers |-> Meaning(buf[x])]')
        => Graph!Absorb(w)
    BY DEF Graph!Absorb
  <2> HIDE DEF absorb
  <2> QED
    BY <2>1, <2>2, GraphOfBuffers

LEMMA RefinesNext ==
  ASSUME GraphAssumption, GraphInv, GraphInv', [GraphNext]_graphVars
  PROVE  [Graph!Next]_([b \in Buffers |-> Meaning(buf[b])])
<1>1. CASE LoadFromDb
  BY <1>1, LoadLoads DEF Graph!Next
<1>2. CASE StartFull \/ StartBuild \/ StartPass \/ EndPass \/ EndMerge
  <2>1. buf' = buf
    BY <1>2 DEF StartFull, StartBuild, StartPass, EndPass, EndMerge
  <2> QED
    BY <2>1, GraphOfBuffers
<1>3. ASSUME NEW f \in Sources, PurgeFile(f) PROVE Graph!Next
  BY <1>3, PurgeForgets DEF Graph!Next
<1>4. ASSUME NEW x \in Buffers, NEW d \in Definitions, UpsertNode(x, d[1], d[2], d[3])
      PROVE  Graph!Next
  BY <1>4, UpsertDefines DEF Graph!Next, Buffers
<1>5. ASSUME NEW x \in Buffers, NEW u \in Usages, AddEdge(x, u[1], u[2], u[3])
      PROVE  Graph!Next
  BY <1>5, EdgeLinks DEF Graph!Next, Buffers
<1>6. ASSUME NEW w \in Workers, MergeWorker(w) PROVE Graph!Next
  BY <1>6, MergeAbsorbs DEF Graph!Next
<1>7. CASE UNCHANGED graphVars
  <2>1. buf' = buf
    BY <1>7 DEF graphVars
  <2> QED
    BY <2>1, GraphOfBuffers
<1> QED
  BY <1>1, <1>2, <1>3, <1>4, <1>5, <1>6, <1>7 DEF GraphNext

\* The buffers implement KnowledgeGraph: whatever ids two workers, or a worker and the
\* database, know a name by, cbm_gbuf_merge leaves one node and every edge joins the names
\* that it was made for.
THEOREM BuffersAreGraphs == GraphSpec => IsAGraph
<1>1. GraphInit => Graph!Init
  BY RefinesInit
<1>2. GraphAssumption /\ GraphInv /\ GraphInv' /\ [GraphNext]_graphVars
        => [Graph!Next]_([b \in Buffers |-> Meaning(buf[b])])
  BY RefinesNext
<1> QED
  BY <1>1, <1>2, GraphAssumption, GraphInvAlways, PTL DEF GraphSpec, IsAGraph, Graph!Spec
=============================================================================
