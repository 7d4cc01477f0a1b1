------------------------------ MODULE Artifact ------------------------------
(***************************************************************************)
(* The team-shared artifact of one project: index runs export the database *)
(* to two files in the repository, and index_repository imports them where *)
(* there is no database. The clients are the threads of one process, which *)
(* can be killed at any point; the import comes before the lock is taken.  *)
(*                                                                         *)
(* Contents are versions of the sources: nodes is the version that the     *)
(* nodes of a database were made of, rows the version that its hash rows   *)
(* describe. What a run does otherwise is the subject of IndexRun.         *)
(***************************************************************************)
EXTENDS Naturals

CONSTANTS
  Clients,      \* threads that index the project
  Importer,     \* the one that runs handle_index_repository
  None,         \* no client, no file
  MaxCalls, MaxEdits, MaxPulls, MaxKills   \* bounds

ASSUME ArtifactAssumption ==
  /\ Importer \in Clients /\ None \notin Clients
  /\ MaxCalls \in Nat /\ MaxEdits \in Nat /\ MaxPulls \in Nat /\ MaxKills \in Nat

VARIABLES
  disk,         \* the version of the sources
  packed,       \* graph.db.zst, or None
  meta,         \* original_size of artifact.json
  db,           \* the file that the name of the database means
  temp,         \* <database>.import_tmp, or None
  journal,      \* its -wal: the artifact it was written for, or None
  lock,         \* who holds the index lock
  client,       \* where each client is, and its local variables
  exported,     \* history: the artifacts that were ever exported
  disturbed,    \* history: see Rename and OpenTemp
  budget        \* bound: what may still happen

files == <<disk, packed, meta, db, temp, journal>>
artifactVars == <<files, lock, client, exported, disturbed, budget>>

Sizes == 1..2
NoRows == 0
Mixed == 0      \* nodes of more than one artifact

NoDb == [at |-> "none", nodes |-> Mixed, rows |-> NoRows, by |-> None]
Whole(nodes, rows) == [at |-> "whole", nodes |-> nodes, rows |-> rows, by |-> None]

Idle == [at |-> "idle", size |-> 0, data |-> None, seen |-> 0, full |-> FALSE]

\* cbm_artifact_exists looks for both files.
Exists == packed # None /\ meta # 0

Goto(c, place) == client' = [client EXCEPT ![c].at = place]
Spend(what) == budget[what] > 0 /\ budget' = [budget EXCEPT ![what] = @ - 1]

\* A repository without an artifact or with a teammate's, and no database.
ArtifactInit ==
  /\ disk = 1
  /\ packed \in {None} \union [nodes : {1}, rows : {1, NoRows}, size : Sizes]
  /\ meta \in IF packed = None THEN {0} ELSE {packed.size}
  /\ db = NoDb /\ temp = None /\ journal = None
  /\ lock = None
  /\ client = [c \in Clients |-> Idle]
  /\ exported = {packed} \ {None}
  /\ disturbed = FALSE
  /\ budget = [call |-> MaxCalls, edit |-> MaxEdits, pull |-> MaxPulls, kill |-> MaxKills]

(***************************************************************************)
(* The user, git and the system.                                           *)
(***************************************************************************)
\* The sources change while no run is between reading and recording them.
EditSources ==
  /\ \A c \in Clients : client[c].at \notin {"dump", "fill", "rows"}
  /\ Spend("edit") /\ disk' = disk + 1
  /\ UNCHANGED <<packed, meta, db, temp, journal, lock, client, exported, disturbed>>

\* A pull brings a teammate's artifact; a merge keeps graph.db.zst ("merge=ours"), but
\* not the metadata beside it.
PullArtifact ==
  /\ Spend("pull")
  /\ \/ \E v \in 1..disk, size \in Sizes :
          /\ packed' = [nodes |-> v, rows |-> v, size |-> size]
          /\ meta' = size
          /\ exported' = exported \union {packed'}
     \/ packed # None /\ meta' \in Sizes /\ UNCHANGED <<packed, exported>>
  /\ UNCHANGED <<disk, db, temp, journal, lock, client, disturbed>>

\* delete_project, under the lock.
Delete ==
  /\ lock = None /\ Spend("call")
  /\ db' = NoDb
  /\ UNCHANGED <<disk, packed, meta, temp, journal, lock, client, exported, disturbed>>

\* The process is killed and another one is started.
Die ==
  /\ Spend("kill")
  /\ client' = [c \in Clients |-> Idle]
  /\ lock' = None
  /\ db' = [db EXCEPT !.by = None]
  /\ UNCHANGED <<disk, packed, meta, temp, journal, exported, disturbed>>

(***************************************************************************)
(* Import: try_artifact_bootstrap and cbm_artifact_import.                 *)
(***************************************************************************)
\* A call; only index_repository looks whether there is a database, or else an artifact.
Call(c) ==
  /\ client[c].at = "idle" /\ Spend("call")
  /\ Goto(c, IF c = Importer /\ db.at = "none" /\ Exists THEN "size" ELSE "lock")
  /\ UNCHANGED <<files, lock, exported, disturbed>>

\* The size of the decompressed data is in the metadata.
ReadSize(c) ==
  /\ client[c].at = "size"
  /\ client' = [client EXCEPT ![c].at = "read", ![c].size = meta]
  /\ UNCHANGED <<files, lock, exported, disturbed, budget>>

\* Mutant: the buffer gets what fits into it.
UnpackBug(c) ==
  /\ client[c].at = "read"
  /\ client' = [client EXCEPT ![c].at = "write",
                  ![c].data = IF packed.size > client[c].size
                                THEN [packed EXCEPT !.nodes = Mixed] ELSE packed]
  /\ UNCHANGED <<files, lock, exported, disturbed, budget>>

\* Data that does not fit into a buffer of that size is refused.
Unpack(c) ==
  /\ client[c].at = "read"
  /\ IF packed.size > client[c].size
       THEN Goto(c, "lock")
       ELSE client' = [client EXCEPT ![c].at = "write", ![c].data = packed]
  /\ UNCHANGED <<files, lock, exported, disturbed, budget>>

\* Mutant: the data is written to the file that has the name.
WriteTempBug(c) ==
  /\ client[c].at = "write"
  /\ temp' = client[c].data
  /\ db' = Whole(Mixed, client[c].data.rows)
  /\ Goto(c, "open")
  /\ UNCHANGED <<disk, packed, meta, journal, lock, exported, disturbed, budget>>

\* Written aside and renamed, which may fail.
WriteTemp(c) ==
  /\ client[c].at = "write"
  /\ \/ temp' = client[c].data /\ Goto(c, "open")
     \/ Goto(c, "lock") /\ UNCHANGED temp
  /\ UNCHANGED <<disk, packed, meta, db, journal, lock, exported, disturbed, budget>>

\* cbm_store_open_path makes the missing indexes, in the -wal file. One that is there
\* already is taken for the file's own, whatever artifact it was written for.
OpenTemp(c) ==
  /\ client[c].at = "open"
  /\ LET foreign == journal \notin {None, temp}
     IN  /\ temp' = IF foreign THEN [temp EXCEPT !.nodes = Mixed] ELSE temp
         /\ disturbed' = (disturbed \/ foreign)
  /\ journal' = temp'
  /\ Goto(c, "check")
  /\ UNCHANGED <<disk, packed, meta, db, lock, exported, budget>>

\* The integrity check looks at the projects table only; closing the file empties and
\* removes the -wal.
CheckTemp(c) ==
  /\ client[c].at = "check"
  /\ journal' = None
  /\ \/ Goto(c, "rename") /\ UNCHANGED temp
     \/ temp.nodes = Mixed /\ temp' = None /\ Goto(c, "lock")
  /\ UNCHANGED <<disk, packed, meta, db, lock, exported, disturbed, budget>>

\* The file gets the name of the database, which may have come to be used meanwhile.
Rename(c) ==
  /\ client[c].at = "rename"
  /\ db' = Whole(temp.nodes, temp.rows) /\ temp' = None
  /\ disturbed' = (disturbed \/ lock # None)
  /\ Goto(c, "lock")
  /\ UNCHANGED <<disk, packed, meta, journal, lock, exported, budget>>

(***************************************************************************)
(* The run, under the lock.                                                *)
(***************************************************************************)
Lock(c) ==
  /\ client[c].at = "lock" /\ lock = None
  /\ lock' = c /\ Goto(c, "route")
  /\ UNCHANGED <<files, exported, disturbed, budget>>

\* With rows the run is incremental, and at its end if they describe the sources.
Route(c) ==
  /\ client[c].at = "route"
  /\ LET full == db.at # "whole" \/ db.rows = NoRows
     IN  /\ db' = IF full THEN NoDb ELSE db
         /\ client' = [client EXCEPT
              ![c] = [@ EXCEPT !.at = IF ~full /\ db.rows = disk THEN "unlock" ELSE "dump",
                               !.seen = disk, !.full = full]]
  /\ UNCHANGED <<disk, packed, meta, temp, journal, lock, exported, disturbed, budget>>

\* The old file is unlinked and the new one created, unless the run is cancelled.
OpenDump(c) ==
  /\ client[c].at = "dump"
  /\ \/ db' = [NoDb EXCEPT !.at = "part", !.by = c] /\ Goto(c, "fill")
     \/ Goto(c, "unlock") /\ UNCHANGED db
  /\ UNCHANGED <<disk, packed, meta, temp, journal, lock, exported, disturbed, budget>>

\* The nodes are written, to a file that may have lost the name.
Fill(c) ==
  /\ client[c].at = "fill"
  /\ db' = IF db.by = c THEN Whole(client[c].seen, NoRows) ELSE db
  /\ Goto(c, "rows")
  /\ UNCHANGED <<disk, packed, meta, temp, journal, lock, exported, disturbed, budget>>

\* The rows are written, to the file that has the name. A full run exports if the call
\* asked for it, an incremental one if there is an artifact.
WriteRows(c) ==
  /\ client[c].at = "rows"
  /\ db' = [db EXCEPT !.rows = client[c].seen]
  /\ \/ client[c].full /\ Goto(c, "pack")
     \/ client[c].full /\ Goto(c, "unlock")
     \/ ~client[c].full /\ Goto(c, IF Exists THEN "pack" ELSE "unlock")
  /\ UNCHANGED <<disk, packed, meta, temp, journal, lock, exported, disturbed, budget>>

\* cbm_artifact_export reads the database: through SQLite after a full run, else the
\* bare file, where rows are missing that are still in the -wal because another
\* connection is open.
Pack(c) ==
  /\ client[c].at = "pack"
  /\ \E size \in Sizes, rows \in IF client[c].full THEN {db.rows} ELSE {db.rows, NoRows} :
       client' = [client EXCEPT ![c].at = "export",
                    ![c].data = [nodes |-> db.nodes, rows |-> rows, size |-> size]]
  /\ UNCHANGED <<files, lock, exported, disturbed, budget>>

\* Written aside and renamed, which may fail.
WritePacked(c) ==
  /\ client[c].at = "export"
  /\ \/ /\ packed' = client[c].data /\ exported' = exported \union {packed'}
        /\ Goto(c, "meta")
     \/ Goto(c, "unlock") /\ UNCHANGED <<packed, exported>>
  /\ UNCHANGED <<disk, meta, db, temp, journal, lock, disturbed, budget>>

\* Nobody looks at the result of write_metadata.
WriteMeta(c) ==
  /\ client[c].at = "meta"
  /\ meta' \in {client[c].data.size, meta}
  /\ Goto(c, "unlock")
  /\ UNCHANGED <<disk, packed, db, temp, journal, lock, exported, disturbed, budget>>

Unlock(c) ==
  /\ client[c].at = "unlock"
  /\ lock' = None
  /\ client' = [client EXCEPT ![c] = Idle]
  /\ UNCHANGED <<files, exported, disturbed, budget>>

Import(c) ==
  \/ ReadSize(c) \/ Unpack(c) \/ WriteTemp(c) \/ OpenTemp(c) \/ CheckTemp(c) \/ Rename(c)

Run(c) ==
  \/ Lock(c) \/ Route(c) \/ OpenDump(c) \/ Fill(c) \/ WriteRows(c) \/ Pack(c)
  \/ WritePacked(c) \/ WriteMeta(c) \/ Unlock(c)

ArtifactNext ==
  \/ EditSources \/ PullArtifact \/ Delete \/ Die
  \/ \E c \in Clients : Call(c) \/ Import(c) \/ Run(c)

ArtifactSpec == ArtifactInit /\ [][ArtifactNext]_artifactVars

(***************************************************************************)
(* Properties                                                              *)
(***************************************************************************)
\* Rows vouch for nodes.
RowsAgree == db.at = "whole" /\ db.rows # NoRows => db.rows = db.nodes

\* In a database that an import has left, or that was indexed on from it, the rows
\* describe what the nodes were made of, wherever exports and imports were killed and
\* whatever a pull or a merge did to the two files: unless the import came over another
\* client's run, or found the -wal of one that was killed.
ImportKeepsRowsTrue == ~disturbed => RowsAgree

\* What an import installs is an artifact as it was exported, not one cut short or put
\* together of two.
InstalledWasExported ==
  \A c \in Clients : client[c].at = "rename" /\ ~disturbed => temp \in exported
=============================================================================
