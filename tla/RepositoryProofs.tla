-------------------------- MODULE RepositoryProofs --------------------------
(***************************************************************************)
(* Proofs about the two components that have to do with what git and the   *)
(* user do to a repository, for any bounds. Watcher, for any scenarios:    *)
(* the types, and that no run starts after stop; what the watcher must do  *)
(* in the end is left to model checking. Artifact, for any clients: what   *)
(* is installed was exported, and its rows are true of its nodes.          *)
(***************************************************************************)
EXTENDS Watcher, Artifact, TLAPS

(* A change has a number of its own, within the bound. *)
LEMMA ContentFacts ==
  /\ 0 \in Contents /\ 1 \in Contents
  /\ changes \in 0..MaxChanges /\ changes < MaxChanges =>
       changes + 1 \in 0..MaxChanges /\ changes + 2 \in Contents
BY WatcherAssumption DEF Contents

LEMMA InitTypes == Init => TypeOK
<1>1. Init => World
  BY WatcherAssumption, ContentFacts DEF Init, World
<1>2. Init => Flags
  BY DEF Init, Flags
<1>3. Init => Polling
  BY WatcherAssumption, ContentFacts DEF Init, Polling, States, NewState, NoHead
<1> QED
  BY <1>1, <1>2, <1>3 DEF TypeOK

(* What the user does stays within the numbers. *)
LEMMA WorldStep ==
  ASSUME World, [Next]_vars PROVE World'
<1> USE WatcherAssumption, ContentFacts DEF World, NewCommit, envVars, pollVars, MayWork,
       Sleep, NotDue, UnchangedByPoll
<1>1. ASSUME Edit PROVE World'
  BY <1>1 DEF Edit
<1>2. ASSUME Commit PROVE World'
  BY <1>2 DEF Commit
<1>3. ASSUME Pull PROVE World'
  BY <1>3 DEF Pull
<1>4. ASSUME Revert PROVE World'
  BY <1>4 DEF Revert
<1>5. ASSUME RepoToggles PROVE World'
  BY <1>5 DEF RepoToggles
<1>6. ASSUME NEW c \in Contents \ {0}, Checkout(c) PROVE World'
  BY <1>6 DEF Checkout
<1>7. ASSUME Watch PROVE World'
  BY <1>7 DEF Watch
<1>8. ASSUME OtherStarts PROVE World'
  BY <1>8 DEF OtherStarts
<1>9. ASSUME OtherEnds PROVE World'
  BY <1>9 DEF OtherEnds
<1>10. ASSUME DeleteProject PROVE World'
  BY <1>10 DEF DeleteProject
<1>11. ASSUME Stop PROVE World'
  BY <1>11 DEF Stop
<1>12. ASSUME IntervalPasses PROVE World'
  BY <1>12 DEF IntervalPasses
<1>13. ASSUME Wake PROVE World'
  BY <1>13 DEF Wake
<1>14. ASSUME End PROVE World'
  BY <1>14 DEF End
<1>15. ASSUME Baseline PROVE World'
  BY <1>15 DEF Baseline
<1>16. ASSUME SkipPoll PROVE World'
  BY <1>16 DEF SkipPoll
<1>17. ASSUME CheckHead PROVE World'
  BY <1>17 DEF CheckHead
<1>18. ASSUME CheckTree PROVE World'
  BY <1>18 DEF CheckTree
<1>19. ASSUME TryIndex PROVE World'
  BY <1>19 DEF TryIndex
<1>20. ASSUME IndexReads PROVE World'
  BY <1>20 DEF IndexReads
<1>21. ASSUME IndexWrites PROVE World'
  BY <1>21 DEF IndexWrites
<1>22. ASSUME IndexFails PROVE World'
  BY <1>22 DEF IndexFails
<1>23. ASSUME RereadHead PROVE World'
  BY <1>23 DEF RereadHead
<1>24. CASE UNCHANGED vars
  BY <1>24 DEF vars
<1> QED
  BY <1>1, <1>2, <1>3, <1>4, <1>5, <1>6, <1>7, <1>8, <1>9, <1>10, <1>11, <1>12, <1>13,
     <1>14, <1>15, <1>16, <1>17, <1>18, <1>19, <1>20, <1>21, <1>22, <1>23, <1>24
     DEF Next, User, Others, Poll

(* The flags are apart because they are for another prover. *)
LEMMA FlagsStep ==
  ASSUME Flags, [Next]_vars PROVE Flags'
<1> USE DEF Flags, envVars, pollVars, MayWork, Sleep, NotDue, UnchangedByPoll
<1>1. ASSUME Edit PROVE Flags'
  BY <1>1 DEF Edit
<1>2. ASSUME Commit PROVE Flags'
  BY <1>2 DEF Commit
<1>3. ASSUME Pull PROVE Flags'
  BY <1>3 DEF Pull
<1>4. ASSUME Revert PROVE Flags'
  BY <1>4 DEF Revert
<1>5. ASSUME RepoToggles PROVE Flags'
  BY <1>5 DEF RepoToggles
<1>6. ASSUME NEW c \in Contents \ {0}, Checkout(c) PROVE Flags'
  BY <1>6 DEF Checkout
<1>7. ASSUME Watch PROVE Flags'
  BY <1>7 DEF Watch
<1>8. ASSUME OtherStarts PROVE Flags'
  BY <1>8 DEF OtherStarts
<1>9. ASSUME OtherEnds PROVE Flags'
  BY <1>9 DEF OtherEnds
<1>10. ASSUME DeleteProject PROVE Flags'
  BY <1>10 DEF DeleteProject
<1>11. ASSUME Stop PROVE Flags'
  BY <1>11 DEF Stop
<1>12. ASSUME IntervalPasses PROVE Flags'
  BY <1>12 DEF IntervalPasses
<1>13. ASSUME Wake PROVE Flags'
  BY <1>13 DEF Wake
<1>14. ASSUME End PROVE Flags'
  BY <1>14 DEF End
<1>15. ASSUME Baseline PROVE Flags'
  BY <1>15 DEF Baseline
<1>16. ASSUME SkipPoll PROVE Flags'
  BY <1>16 DEF SkipPoll
<1>17. ASSUME CheckHead PROVE Flags'
  BY <1>17 DEF CheckHead
<1>18. ASSUME CheckTree PROVE Flags'
  BY <1>18 DEF CheckTree
<1>19. ASSUME TryIndex PROVE Flags'
  BY <1>19 DEF TryIndex
<1>20. ASSUME IndexReads PROVE Flags'
  BY <1>20 DEF IndexReads
<1>21. ASSUME IndexWrites PROVE Flags'
  BY <1>21 DEF IndexWrites
<1>22. ASSUME IndexFails PROVE Flags'
  BY <1>22 DEF IndexFails
<1>23. ASSUME RereadHead PROVE Flags'
  BY <1>23 DEF RereadHead
<1>24. CASE UNCHANGED vars
  BY <1>24 DEF vars
<1> QED
  BY <1>1, <1>2, <1>3, <1>4, <1>5, <1>6, <1>7, <1>8, <1>9, <1>10, <1>11, <1>12, <1>13,
     <1>14, <1>15, <1>16, <1>17, <1>18, <1>19, <1>20, <1>21, <1>22, <1>23, <1>24
     DEF Next, User, Others, Poll

(* Only the poll writes to a state object that it works on. *)
LEMMA PollingStep ==
  ASSUME TypeOK, [Next]_vars PROVE Polling'
<1> USE DEF TypeOK, World, Polling, Objects, States, envVars, pollVars, MayWork, Sleep,
       NotDue, UnchangedByPoll
<1>1. ASSUME Edit PROVE Polling'
  BY <1>1 DEF Edit
<1>2. ASSUME Commit PROVE Polling'
  BY <1>2 DEF Commit
<1>3. ASSUME Pull PROVE Polling'
  BY <1>3 DEF Pull
<1>4. ASSUME Revert PROVE Polling'
  BY <1>4 DEF Revert
<1>5. ASSUME RepoToggles PROVE Polling'
  BY <1>5 DEF RepoToggles
<1>6. ASSUME NEW c \in Contents \ {0}, Checkout(c) PROVE Polling'
  BY <1>6 DEF Checkout
<1>7. ASSUME Watch PROVE Polling'
  BY <1>7, WatcherAssumption DEF Watch
<1>8. ASSUME OtherStarts PROVE Polling'
  BY <1>8 DEF OtherStarts
<1>9. ASSUME OtherEnds PROVE Polling'
  BY <1>9 DEF OtherEnds
<1>10. ASSUME DeleteProject PROVE Polling'
  BY <1>10 DEF DeleteProject
<1>11. ASSUME Stop PROVE Polling'
  BY <1>11 DEF Stop
<1>12. ASSUME IntervalPasses PROVE Polling'
  BY <1>12 DEF IntervalPasses
<1>13. ASSUME Wake PROVE Polling'
  BY <1>13 DEF Wake
<1>14. ASSUME End PROVE Polling'
  BY <1>14 DEF End
<1>15. ASSUME Baseline PROVE Polling'
  <2>1. PICK l \in Contents : state' = [state EXCEPT ![snap] =
                   [baseline |-> TRUE, isGit |-> isRepo, lastHead |-> l, due |-> FALSE]]
    BY <1>15, ContentFacts DEF Baseline, NoHead
  <2>2. isRepo \in BOOLEAN
    BY DEF Flags
  <2>3. state' \in [Objects -> States]
    BY <2>1, <2>2, Zenon
  <2> QED BY <1>15, <2>3 DEF Baseline
<1>16. ASSUME SkipPoll PROVE Polling'
  BY <1>16 DEF SkipPoll
<1>17. ASSUME CheckHead PROVE Polling'
  BY <1>17 DEF CheckHead
<1>18. ASSUME CheckTree PROVE Polling'
  BY <1>18 DEF CheckTree
<1>19. ASSUME TryIndex PROVE Polling'
  BY <1>19 DEF TryIndex
<1>20. ASSUME IndexReads PROVE Polling'
  BY <1>20 DEF IndexReads
<1>21. ASSUME IndexWrites PROVE Polling'
  BY <1>21 DEF IndexWrites
<1>22. ASSUME IndexFails PROVE Polling'
  BY <1>22 DEF IndexFails
<1>23. ASSUME RereadHead PROVE Polling'
  BY <1>23 DEF RereadHead
<1>24. CASE UNCHANGED vars
  BY <1>24 DEF vars
<1> QED
  BY <1>1, <1>2, <1>3, <1>4, <1>5, <1>6, <1>7, <1>8, <1>9, <1>10, <1>11, <1>12, <1>13,
     <1>14, <1>15, <1>16, <1>17, <1>18, <1>19, <1>20, <1>21, <1>22, <1>23, <1>24
     DEF Next, User, Others, Poll

(* Every state has the types of TypeOK: who is past the baseline works on a watched
   git project, and no other thread indexes while the watcher's run is on. *)
THEOREM TypeCorrect == Spec => []TypeOK
<1>1. TypeOK /\ [Next]_vars => TypeOK'
  BY WorldStep, FlagsStep, PollingStep DEF TypeOK
<1> QED
  BY InitTypes, <1>1, PTL DEF Spec

(* Only the callback starts runs, and it looks at the flag. *)
LEMMA NoStartStep ==
  ASSUME [Next]_vars, stopped, pc' = "run" PROVE pc = "run"
<1> USE DEF envVars, pollVars, MayWork, Sleep, NotDue, UnchangedByPoll
<1>1. ASSUME Edit PROVE pc = "run"
  BY <1>1 DEF Edit
<1>2. ASSUME Commit PROVE pc = "run"
  BY <1>2 DEF Commit
<1>3. ASSUME Pull PROVE pc = "run"
  BY <1>3 DEF Pull
<1>4. ASSUME Revert PROVE pc = "run"
  BY <1>4 DEF Revert
<1>5. ASSUME RepoToggles PROVE pc = "run"
  BY <1>5 DEF RepoToggles
<1>6. ASSUME NEW c \in Contents \ {0}, Checkout(c) PROVE pc = "run"
  BY <1>6 DEF Checkout
<1>7. ASSUME Watch PROVE pc = "run"
  BY <1>7 DEF Watch
<1>8. ASSUME OtherStarts PROVE pc = "run"
  BY <1>8 DEF OtherStarts
<1>9. ASSUME OtherEnds PROVE pc = "run"
  BY <1>9 DEF OtherEnds
<1>10. ASSUME DeleteProject PROVE pc = "run"
  BY <1>10 DEF DeleteProject
<1>11. ASSUME Stop PROVE pc = "run"
  BY <1>11 DEF Stop
<1>12. ASSUME IntervalPasses PROVE pc = "run"
  BY <1>12 DEF IntervalPasses
<1>13. ASSUME Wake PROVE pc = "run"
  BY <1>13 DEF Wake
<1>14. ASSUME End PROVE pc = "run"
  BY <1>14 DEF End
<1>15. ASSUME Baseline PROVE pc = "run"
  BY <1>15 DEF Baseline
<1>16. ASSUME SkipPoll PROVE pc = "run"
  BY <1>16 DEF SkipPoll
<1>17. ASSUME CheckHead PROVE pc = "run"
  BY <1>17 DEF CheckHead
<1>18. ASSUME CheckTree PROVE pc = "run"
  BY <1>18 DEF CheckTree
<1>19. ASSUME TryIndex PROVE pc = "run"
  BY <1>19 DEF TryIndex
<1>20. ASSUME IndexReads PROVE pc = "run"
  BY <1>20 DEF IndexReads
<1>21. ASSUME IndexWrites PROVE pc = "run"
  BY <1>21 DEF IndexWrites
<1>22. ASSUME IndexFails PROVE pc = "run"
  BY <1>22 DEF IndexFails
<1>23. ASSUME RereadHead PROVE pc = "run"
  BY <1>23 DEF RereadHead
<1>24. CASE UNCHANGED vars
  BY <1>24 DEF vars
<1> QED
  BY <1>1, <1>2, <1>3, <1>4, <1>5, <1>6, <1>7, <1>8, <1>9, <1>10, <1>11, <1>12, <1>13,
     <1>14, <1>15, <1>16, <1>17, <1>18, <1>19, <1>20, <1>21, <1>22, <1>23, <1>24
     DEF Next, User, Others, Poll

(* Once cbm_watcher_stop was called, the thread starts no index run. *)
THEOREM StartsNothingAfterStop == Spec => NoRunAfterStop
<1>1. [Next]_vars => (stopped /\ pc' = "run" => pc = "run")
  BY NoStartStep
<1> QED
  BY <1>1, PTL DEF Spec, NoRunAfterStop

-----------------------------------------------------------------------------
(***************************************************************************)
(* Artifact. What is exported, installed and served agrees with itself as  *)
(* long as each file belongs to one client at a time: the runs by the      *)
(* lock, the temporary file because one thread imports. Where an import    *)
(* comes over a run, or OpenTemp finds the -wal of a killed process, the   *)
(* history variable disturbed says so, and the claims end.                 *)
(***************************************************************************)
Artifacts == [nodes : Nat, rows : Nat, size : Sizes]
ImportPlaces == {"size", "read", "write", "open", "check", "rename"}
RunPlaces == {"route", "dump", "fill", "rows", "pack", "export", "meta", "unlock"}
ClientStates ==
  [at : {"idle", "lock"} \union ImportPlaces \union RunPlaces,
   size : Nat, data : Artifacts \union {None}, seen : Nat, full : BOOLEAN]
DatabaseFiles ==
  [at : {"none", "part", "whole"}, nodes : Nat, rows : Nat, by : Clients \union {None}]

(* The types of the variables that the argument reads. *)
ArtifactTypeOK ==
  /\ disk \in Nat /\ meta \in 0..2
  /\ packed \in Artifacts \union {None}
  /\ db \in DatabaseFiles
  /\ temp \in Artifacts \union {None}
  /\ lock \in Clients \union {None}
  /\ client \in [Clients -> ClientStates]
  /\ exported \subseteq Artifacts
  /\ disturbed \in BOOLEAN

(* A run has the lock, and one thread imports. *)
OneAtATime ==
  \A c \in Clients : /\ client[c].at \in RunPlaces => lock = c
                     /\ client[c].at \in ImportPlaces => c = Importer

(* What is at hand at each place of an import and of an export. *)
AtHand ==
  /\ packed # None => packed \in exported
  /\ \A c \in Clients :
       /\ client[c].at \in {"size", "read"} => packed \in exported
       /\ client[c].at = "write" => client[c].data \in exported
       /\ client[c].at \in {"open", "check", "rename"} => temp \in Artifacts
       /\ client[c].at \in {"export", "meta"} => client[c].data \in Artifacts

(* The file beside the database is an artifact as it was exported, from the moment it
   is written to its renaming. *)
Unmixed ==
  \A c \in Clients :
    client[c].at \in {"open", "check", "rename"} /\ ~disturbed => temp \in exported

Agrees(a) == a.rows \in {NoRows, a.nodes}

(* The rows vouch for the nodes in every file, and the file that a run writes is the
   one that has the name. *)
FilesAgree ==
  ~disturbed =>
    /\ RowsAgree
    /\ \A a \in exported : Agrees(a)
    /\ \A c \in Clients :
         /\ client[c].at = "fill" => db.at = "part" /\ db.by = c
         /\ client[c].at = "rows" => db.at = "whole" /\ db.nodes = client[c].seen
         /\ client[c].at = "pack" => Agrees(db)
         /\ client[c].at = "export" => Agrees(client[c].data)

ArtifactInv == ArtifactTypeOK /\ OneAtATime /\ AtHand /\ Unmixed /\ FilesAgree

LEMMA ArtifactInvInit == ArtifactInit => ArtifactInv
<1> SUFFICES ASSUME ArtifactInit PROVE ArtifactInv
  OBVIOUS
<1> USE ArtifactAssumption DEF ArtifactInit
<1>1. /\ packed \in Artifacts \union {None} /\ meta \in 0..2
      /\ packed # None => packed.rows \in {1, NoRows} /\ packed.nodes = 1
  BY DEF Artifacts, Sizes, NoRows
<1>2. NoDb \in DatabaseFiles /\ Idle \in ClientStates /\ NoDb.at = "none" /\ Idle.at = "idle"
  BY DEF NoDb, DatabaseFiles, Idle, ClientStates, NoRows, Mixed
<1>3. ArtifactTypeOK
  BY <1>1, <1>2 DEF ArtifactTypeOK
<1>4. OneAtATime /\ AtHand /\ Unmixed
  BY <1>2 DEF OneAtATime, AtHand, Unmixed, ImportPlaces, RunPlaces
<1>5. FilesAgree
  BY <1>1, <1>2 DEF FilesAgree, RowsAgree, Agrees
<1> QED
  BY <1>3, <1>4, <1>5 DEF ArtifactInv

-----------------------------------------------------------------------------
LEMMA ArtifactTypeStep ==
  ASSUME ArtifactTypeOK, AtHand, [ArtifactNext]_artifactVars PROVE ArtifactTypeOK'
<1> USE ArtifactAssumption
    DEF ArtifactTypeOK, ClientStates, ImportPlaces, RunPlaces
<1>1. CASE EditSources \/ Delete
  BY <1>1 DEF EditSources, Delete, Spend, NoDb, DatabaseFiles, NoRows, Mixed
<1>2. CASE PullArtifact
  BY <1>2 DEF PullArtifact, Artifacts, Sizes, Spend
<1>3. CASE Die
  BY <1>3 DEF Die, Idle, Spend, DatabaseFiles
<1>4. ASSUME NEW c \in Clients, Call(c) PROVE ArtifactTypeOK'
  BY <1>4 DEF Call, Goto, Spend, files
<1>5. ASSUME NEW c \in Clients, ReadSize(c) PROVE ArtifactTypeOK'
  <2>1. client' \in [Clients -> ClientStates]
    <3>1. \A n \in Nat :
            [client EXCEPT ![c].at = "read", ![c].size = n] \in [Clients -> ClientStates]
      OBVIOUS
    <3>2. meta \in Nat
      OBVIOUS
    <3> QED
      BY <1>5, <3>1, <3>2 DEF ReadSize
  <2> QED
    BY <1>5, <2>1 DEF ReadSize, files
<1>6. ASSUME NEW c \in Clients, Unpack(c) PROVE ArtifactTypeOK'
  BY <1>6 DEF Unpack, Goto, files
<1>7. ASSUME NEW c \in Clients, WriteTemp(c) \/ CheckTemp(c) PROVE ArtifactTypeOK'
  BY <1>7 DEF WriteTemp, CheckTemp, Goto
<1>8. ASSUME NEW c \in Clients, OpenTemp(c) PROVE ArtifactTypeOK'
  BY <1>8 DEF OpenTemp, Goto, AtHand, Artifacts, Mixed
<1>9. ASSUME NEW c \in Clients, Rename(c) \/ Fill(c) PROVE ArtifactTypeOK'
  <2>1. \A nodes, rows \in Nat : Whole(nodes, rows) \in DatabaseFiles
    BY DEF Whole, DatabaseFiles
  <2>2. CASE Rename(c)
    BY <2>1, <2>2 DEF Rename, Goto, AtHand, Artifacts
  <2>3. CASE Fill(c)
    BY <2>1, <2>3 DEF Fill, Goto, NoRows
  <2> QED
    BY <1>9, <2>2, <2>3
<1>10. ASSUME NEW c \in Clients, Lock(c) PROVE ArtifactTypeOK'
  BY <1>10 DEF Lock, Goto, files
<1>11. ASSUME NEW c \in Clients, Route(c) PROVE ArtifactTypeOK'
  <2>1. NoDb \in DatabaseFiles
    BY DEF NoDb, DatabaseFiles, NoRows, Mixed
  <2>2. PICK at \in {"unlock", "dump"}, full \in BOOLEAN :
          client' = [client EXCEPT ![c] = [@ EXCEPT !.at = at, !.seen = disk, !.full = full]]
    BY <1>11 DEF Route
  <2>3. [client[c] EXCEPT !.at = at, !.seen = disk, !.full = full] \in ClientStates
    OBVIOUS
  <2>4. client' \in [Clients -> ClientStates]
    BY <2>2, <2>3
  <2> QED
    BY <1>11, <2>1, <2>4 DEF Route
<1>12. ASSUME NEW c \in Clients, OpenDump(c) PROVE ArtifactTypeOK'
  <2>1. db' \in DatabaseFiles
    <3>1. [NoDb EXCEPT !.at = "part", !.by = c] \in DatabaseFiles
      BY DEF NoDb, DatabaseFiles, NoRows, Mixed
    <3> QED
      BY <1>12, <3>1 DEF OpenDump
  <2>2. client' \in [Clients -> ClientStates]
    BY <1>12 DEF OpenDump, Goto
  <2> QED
    BY <1>12, <2>1, <2>2 DEF OpenDump
<1>13. ASSUME NEW c \in Clients, WriteRows(c) PROVE ArtifactTypeOK'
  BY <1>13 DEF WriteRows, Exists, Goto, DatabaseFiles
<1>14. ASSUME NEW c \in Clients, Pack(c) PROVE ArtifactTypeOK'
  <2>1. PICK size \in Sizes, rows \in {db.rows, NoRows} :
          client' = [client EXCEPT ![c].at = "export",
                       ![c].data = [nodes |-> db.nodes, rows |-> rows, size |-> size]]
    BY <1>14 DEF Pack
  <2>2. [nodes |-> db.nodes, rows |-> rows, size |-> size] \in Artifacts
    BY <2>1 DEF NoRows, Artifacts, DatabaseFiles
  <2>3. \A a \in Artifacts :
          [client EXCEPT ![c].at = "export", ![c].data = a] \in [Clients -> ClientStates]
    OBVIOUS
  <2> QED
    BY <1>14, <2>1, <2>2, <2>3 DEF Pack, files
<1>15. ASSUME NEW c \in Clients, WritePacked(c) PROVE ArtifactTypeOK'
  BY <1>15 DEF WritePacked, Goto, AtHand
<1>16. ASSUME NEW c \in Clients, WriteMeta(c) PROVE ArtifactTypeOK'
  BY <1>16 DEF WriteMeta, Goto, AtHand, Artifacts, Sizes
<1>17. ASSUME NEW c \in Clients, Unlock(c) PROVE ArtifactTypeOK'
  BY <1>17 DEF Unlock, Idle, files
<1>18. CASE UNCHANGED artifactVars
  BY <1>18 DEF artifactVars, files
<1> QED
  BY <1>1, <1>2, <1>3, <1>4, <1>5, <1>6, <1>7, <1>8, <1>9, <1>10, <1>11, <1>12, <1>13,
     <1>14, <1>15, <1>16, <1>17, <1>18 DEF ArtifactNext, Import, Run

(* Only Lock takes a client to where runs are, and it gives the client the lock. *)
LEMMA OneAtATimeStep ==
  ASSUME ArtifactTypeOK, OneAtATime, [ArtifactNext]_artifactVars PROVE OneAtATime'
<1> USE ArtifactAssumption
    DEF OneAtATime, ArtifactTypeOK, ClientStates, ImportPlaces, RunPlaces
<1>1. CASE EditSources \/ PullArtifact \/ Delete
  BY <1>1 DEF EditSources, PullArtifact, Delete
<1>2. CASE Die
  BY <1>2 DEF Die, Idle
<1>3. ASSUME NEW c \in Clients, Call(c) PROVE OneAtATime'
  BY <1>3 DEF Call, Goto
<1>4. ASSUME NEW c \in Clients, Import(c) PROVE OneAtATime'
  BY <1>4 DEF Import, ReadSize, Unpack, WriteTemp, OpenTemp, CheckTemp, Rename, Goto
<1>5. ASSUME NEW c \in Clients, Lock(c) PROVE OneAtATime'
  BY <1>5 DEF Lock, Goto
<1>6. ASSUME NEW c \in Clients, Route(c) PROVE OneAtATime'
  BY <1>6 DEF Route
<1>7. ASSUME NEW c \in Clients, OpenDump(c) \/ Fill(c) \/ WriteRows(c) PROVE OneAtATime'
  BY <1>7 DEF OpenDump, Fill, WriteRows, Goto
<1>8. ASSUME NEW c \in Clients, Pack(c) \/ WritePacked(c) \/ WriteMeta(c)
      PROVE  OneAtATime'
  BY <1>8 DEF Pack, WritePacked, WriteMeta, Goto
<1>9. ASSUME NEW c \in Clients, Unlock(c) PROVE OneAtATime'
  BY <1>9 DEF Unlock, Idle
<1>10. CASE UNCHANGED artifactVars
  BY <1>10 DEF artifactVars
<1> QED
  BY <1>1, <1>2, <1>3, <1>4, <1>5, <1>6, <1>7, <1>8, <1>9, <1>10
  DEF ArtifactNext, Run

(* An artifact is never removed, so that it is still there to be read after Call has
   found it; what is exported stays so. *)
LEMMA AtHandStep ==
  ASSUME ArtifactTypeOK, OneAtATime, AtHand, [ArtifactNext]_artifactVars PROVE AtHand'
<1> USE ArtifactAssumption DEF AtHand, ArtifactTypeOK, ClientStates
<1>1. CASE EditSources \/ PullArtifact \/ Delete
  BY <1>1 DEF EditSources, PullArtifact, Delete
<1>2. CASE Die
  BY <1>2 DEF Die, Idle
<1>3. ASSUME NEW c \in Clients, Call(c) PROVE AtHand'
  BY <1>3 DEF Call, Goto, Exists, files
<1>4. ASSUME NEW c \in Clients, ReadSize(c) \/ Unpack(c) PROVE AtHand'
  BY <1>4 DEF ReadSize, Unpack, Goto, files
<1>5. ASSUME NEW c \in Clients, WriteTemp(c) \/ CheckTemp(c) \/ Rename(c) PROVE AtHand'
  BY <1>5 DEF WriteTemp, CheckTemp, Rename, Goto, OneAtATime, ImportPlaces
<1>6. ASSUME NEW c \in Clients, OpenTemp(c) PROVE AtHand'
  BY <1>6 DEF OpenTemp, Goto, Artifacts, Mixed, OneAtATime, ImportPlaces
<1>7. ASSUME NEW c \in Clients, Lock(c) \/ OpenDump(c) \/ Fill(c) PROVE AtHand'
  BY <1>7 DEF Lock, OpenDump, Fill, Goto, files
<1>8. ASSUME NEW c \in Clients, Route(c) PROVE AtHand'
  BY <1>8 DEF Route
<1>9. ASSUME NEW c \in Clients, WriteRows(c) PROVE AtHand'
  <2>1. PICK place \in {"pack", "unlock"} : Goto(c, place)
    BY <1>9 DEF WriteRows
  <2> QED
    BY <1>9, <2>1 DEF WriteRows, Goto
<1>10. ASSUME NEW c \in Clients, Pack(c) PROVE AtHand'
  BY <1>10 DEF Pack, files, Artifacts, DatabaseFiles, NoRows, Sizes
<1>11. ASSUME NEW c \in Clients, WritePacked(c) \/ WriteMeta(c) PROVE AtHand'
  BY <1>11 DEF WritePacked, WriteMeta, Goto
<1>12. ASSUME NEW c \in Clients, Unlock(c) PROVE AtHand'
  BY <1>12 DEF Unlock, Idle, files
<1>13. CASE UNCHANGED artifactVars
  BY <1>13 DEF artifactVars, files
<1> QED
  BY <1>1, <1>2, <1>3, <1>4, <1>5, <1>6, <1>7, <1>8, <1>9, <1>10, <1>11, <1>12, <1>13
  DEF ArtifactNext, Import, Run

(* OpenTemp either leaves the file as it is, or has found a foreign -wal. *)
LEMMA UnmixedStep ==
  ASSUME ArtifactTypeOK, OneAtATime, AtHand, Unmixed, [ArtifactNext]_artifactVars
  PROVE  Unmixed'
<1> USE ArtifactAssumption DEF Unmixed, ArtifactTypeOK, ClientStates
<1>1. CASE EditSources \/ PullArtifact \/ Delete
  BY <1>1 DEF EditSources, PullArtifact, Delete
<1>2. CASE Die
  BY <1>2 DEF Die, Idle
<1>3. ASSUME NEW c \in Clients, Call(c) \/ ReadSize(c) \/ Unpack(c) PROVE Unmixed'
  BY <1>3 DEF Call, ReadSize, Unpack, Goto, files
<1>4. ASSUME NEW c \in Clients, WriteTemp(c) \/ OpenTemp(c) PROVE Unmixed'
  <2>1. CASE WriteTemp(c)
    BY <2>1 DEF WriteTemp, Goto, AtHand, OneAtATime, ImportPlaces
  <2>2. CASE OpenTemp(c)
    BY <2>2 DEF OpenTemp, Goto, OneAtATime, ImportPlaces
  <2> QED
    BY <1>4, <2>1, <2>2
<1>5. ASSUME NEW c \in Clients, CheckTemp(c) \/ Rename(c) PROVE Unmixed'
  BY <1>5 DEF CheckTemp, Rename, Goto, OneAtATime, ImportPlaces
<1>6. ASSUME NEW c \in Clients, Lock(c) \/ OpenDump(c) \/ Fill(c) \/ WriteRows(c)
      PROVE  Unmixed'
  BY <1>6 DEF Lock, OpenDump, Fill, WriteRows, Goto, files
<1>7. ASSUME NEW c \in Clients, Route(c) PROVE Unmixed'
  BY <1>7 DEF Route
<1>8. ASSUME NEW c \in Clients, Pack(c) \/ WritePacked(c) \/ WriteMeta(c) PROVE Unmixed'
  BY <1>8 DEF Pack, WritePacked, WriteMeta, Goto, files
<1>9. ASSUME NEW c \in Clients, Unlock(c) PROVE Unmixed'
  BY <1>9 DEF Unlock, Idle, files
<1>10. CASE UNCHANGED artifactVars
  BY <1>10 DEF artifactVars, files
<1> QED
  BY <1>1, <1>2, <1>3, <1>4, <1>5, <1>6, <1>7, <1>8, <1>9, <1>10
  DEF ArtifactNext, Import, Run

(* The lock keeps the database of a run from the other clients, and a Rename that comes
   while it is taken counts as a disturbance. *)
LEMMA FilesAgreeStep ==
  ASSUME ArtifactInv, [ArtifactNext]_artifactVars PROVE FilesAgree'
<1> USE ArtifactAssumption
    DEF ArtifactInv, ArtifactTypeOK, ClientStates, FilesAgree, RowsAgree, Agrees
<1>1. CASE EditSources
  BY <1>1 DEF EditSources
<1>2. CASE PullArtifact
  BY <1>2 DEF PullArtifact
<1>3. CASE Delete
  BY <1>3 DEF Delete, NoDb, OneAtATime, RunPlaces
<1>4. CASE Die
  BY <1>4 DEF Die, Idle, DatabaseFiles
<1>5. ASSUME NEW c \in Clients, Call(c) \/ ReadSize(c) \/ Unpack(c) PROVE FilesAgree'
  BY <1>5 DEF Call, ReadSize, Unpack, Goto, files
<1>6. ASSUME NEW c \in Clients, WriteTemp(c) \/ OpenTemp(c) \/ CheckTemp(c)
      PROVE  FilesAgree'
  BY <1>6 DEF WriteTemp, OpenTemp, CheckTemp, Goto
<1>7. ASSUME NEW c \in Clients, Rename(c) PROVE FilesAgree'
  <2>1. temp \in Artifacts /\ (~disturbed => temp \in exported)
    BY <1>7 DEF Rename, AtHand, Unmixed
  <2>2. CASE lock # None
    BY <1>7, <2>2 DEF Rename
  <2>3. CASE lock = None
    <3>1. \A d \in Clients : client[d].at \notin RunPlaces /\ client'[d].at \notin RunPlaces
      BY <1>7, <2>3 DEF Rename, Goto, OneAtATime, RunPlaces
    <3>2. ~disturbed => RowsAgree'
      BY <1>7, <2>1 DEF Rename, Whole
    <3> QED
      BY <1>7, <3>1, <3>2 DEF Rename, RunPlaces
  <2> QED
    BY <2>2, <2>3
<1>8. ASSUME NEW c \in Clients, Lock(c) PROVE FilesAgree'
  BY <1>8 DEF Lock, Goto, files
<1>9. ASSUME NEW c \in Clients, Route(c) PROVE FilesAgree'
  BY <1>9 DEF Route, NoDb, OneAtATime, RunPlaces
<1>10. ASSUME NEW c \in Clients, OpenDump(c) PROVE FilesAgree'
  <2>1. \A d \in Clients : d # c => client'[d] = client[d] /\ client[d].at \notin RunPlaces
    BY <1>10 DEF OpenDump, Goto, OneAtATime, RunPlaces
  <2>2. CASE db' = [NoDb EXCEPT !.at = "part", !.by = c] /\ Goto(c, "fill")
    BY <1>10, <2>1, <2>2 DEF OpenDump, Goto, NoDb, RunPlaces
  <2>3. CASE Goto(c, "unlock") /\ UNCHANGED db
    BY <1>10, <2>1, <2>3 DEF OpenDump, Goto, RunPlaces
  <2> QED
    BY <1>10, <2>2, <2>3 DEF OpenDump
<1>11. ASSUME NEW c \in Clients, Fill(c) PROVE FilesAgree'
  BY <1>11 DEF Fill, Goto, Whole, OneAtATime, RunPlaces
<1>12. ASSUME NEW c \in Clients, WriteRows(c) PROVE FilesAgree'
  BY <1>12 DEF WriteRows, Goto, DatabaseFiles, OneAtATime, RunPlaces
<1>13. ASSUME NEW c \in Clients, Pack(c) PROVE FilesAgree'
  BY <1>13 DEF Pack, files
<1>14. ASSUME NEW c \in Clients, WritePacked(c) \/ WriteMeta(c) PROVE FilesAgree'
  BY <1>14 DEF WritePacked, WriteMeta, Goto
<1>15. ASSUME NEW c \in Clients, Unlock(c) PROVE FilesAgree'
  BY <1>15 DEF Unlock, Idle, files
<1>16. CASE UNCHANGED artifactVars
  BY <1>16 DEF artifactVars, files
<1> QED
  BY <1>1, <1>2, <1>3, <1>4, <1>5, <1>6, <1>7, <1>8, <1>9, <1>10, <1>11, <1>12, <1>13,
     <1>14, <1>15, <1>16 DEF ArtifactNext, Import, Run

LEMMA ArtifactInvHolds == ArtifactSpec => []ArtifactInv
<1>1. ArtifactInv /\ [ArtifactNext]_artifactVars => ArtifactInv'
  BY ArtifactTypeStep, OneAtATimeStep, AtHandStep, UnmixedStep, FilesAgreeStep
  DEF ArtifactInv
<1> QED
  BY <1>1, ArtifactInvInit, PTL DEF ArtifactSpec

(* What an import gives the database's name to is an artifact as it was exported, not
   one that was cut short in the buffer or that belongs to other metadata: from
   cbm_artifact_import's read of original_size to its rename. *)
THEOREM InstallsWhatWasExported == ArtifactSpec => []InstalledWasExported
<1>1. ArtifactInv => InstalledWasExported
  BY DEF ArtifactInv, Unmixed, InstalledWasExported
<1> QED
  BY <1>1, ArtifactInvHolds, PTL

(* The rows of a database that an import has left, and of those that are indexed on
   from it, describe its nodes: an incremental run that trusts them misses nothing. *)
THEOREM ImportedRowsAreTrue == ArtifactSpec => []ImportKeepsRowsTrue
<1>1. ArtifactInv => ImportKeepsRowsTrue
  BY DEF ArtifactInv, FilesAgree, ImportKeepsRowsTrue
<1> QED
  BY <1>1, ArtifactInvHolds, PTL
=============================================================================
