----------------------------- MODULE GraphBuffer -----------------------------
(***************************************************************************)
(* The graph buffer with its indexes, in the order in which a run uses it: *)
(* load the database and purge files, or start from nothing; then build,   *)
(* alone or with a buffer per worker that is merged at the end of a pass.  *)
(*                                                                         *)
(* A node has an id of its own, which edges refer to, and is found by      *)
(* qualified name, by id and by label (the index by name is kept in the    *)
(* same way). Edges are known by their ends and type; their own ids serve  *)
(* only to find them in a list. Where ids come from is ParallelPasses'     *)
(* subject: here a fresh one is drawn from one counter.                    *)
(***************************************************************************)
EXTENDS Naturals, Sequences

CONSTANTS
  Names, Labels, Sources,
  Definitions,  \* what extraction may find: <<name, label, file>>
  Usages,       \* what resolution may find: <<name, type, name>>
  Workers,
  Databases,  \* node rows <<name, label, file>>, and edges between row numbers
  Null,       \* the name of a deleted node
  MaxIds      \* bound: nodes

\* The database has UNIQUE(project, qualified_name), and its edges refer to its nodes.
ASSUME GraphAssumption ==
  /\ "main" \notin Workers /\ Null \notin Names /\ MaxIds \in Nat
  /\ Definitions \subseteq Names \X Labels \X Sources
  /\ \A c \in Usages : c[1] \in Names /\ c[3] \in Names
  /\ \A db \in Databases :
       /\ db.rows \in Seq(Names \X Labels \X Sources)
       /\ \A i, j \in DOMAIN db.rows : db.rows[i][1] = db.rows[j][1] => i = j
       /\ \A e \in db.edges : {e[1], e[3]} \subseteq DOMAIN db.rows

Buffers == {"main"} \cup Workers

VARIABLES
  stage,     \* of the run
  buf,       \* the buffers
  next       \* the next id

graphVars == <<stage, buf, next>>

-----------------------------------------------------------------------------
(* The buffer *)

EmptyBuffer ==
  [nodes |-> {}, byQn |-> [q \in Names |-> 0], byId |-> {}, byLabel |-> {},
   edges |-> {}, byKey |-> {}, bySource |-> {}, byTarget |-> {}, byType |-> {}]

Live(b) == {n \in b.nodes : n.qn # Null /\ b.byQn[n.qn] # 0}

\* A known name keeps its id.
IdIn(b, n) == IF b.byQn[n.qn] # 0 THEN b.byQn[n.qn] ELSE n.id

\* Nodes of different names. One that is known is updated in place, and no list is told
\* about its new label; the others are registered in every index.
PutNodes(b, nodes) ==
  LET new == {n \in nodes : b.byQn[n.qn] = 0}
  IN  [b EXCEPT
        !.nodes = {n \in @ : \A m \in nodes : b.byQn[m.qn] # n.id}
                  \cup {[m EXCEPT !.id = IdIn(b, m)] : m \in nodes},
        !.byQn = [q \in Names |-> IF \E n \in new : n.qn = q
                                 THEN (CHOOSE n \in new : n.qn = q).id ELSE @[q]],
        !.byId = @ \cup {n.id : n \in new},
        !.byLabel = @ \cup {<<n.label, n.id>> : n \in new}]

\* Edges that are not there yet.
PutEdges(b, edges) ==
  LET new == edges \ b.byKey
  IN  [b EXCEPT !.edges = @ \cup new, !.byKey = @ \cup new, !.bySource = @ \cup new,
                !.byTarget = @ \cup new, !.byType = @ \cup new]

\* Edges that touch deleted nodes go, from every index.
Cascade(b, ids) ==
  LET gone == {e \in b.edges : e.src \in ids \/ e.tgt \in ids}
  IN  [b EXCEPT !.edges = @ \ gone, !.byKey = @ \ gone, !.bySource = @ \ gone,
                !.byTarget = @ \ gone, !.byType = @ \ gone]

\* A node is taken off the list of the label that it has now. It stays in the array
\* without its name.
DeleteByFile(b, f) ==
  LET gone == {n \in Live(b) : n.file = f}
      ids  == {n.id : n \in gone}
  IN  Cascade([b EXCEPT !.nodes = (@ \ gone) \cup {[n EXCEPT !.qn = Null] : n \in gone},
                        !.byQn = [q \in Names |-> IF @[q] \in ids THEN 0 ELSE @[q]],
                        !.byId = @ \ ids,
                        !.byLabel = @ \ {<<n.label, n.id>> : n \in gone}],
              ids)

\* The edges keep the worker's ids.
RemapBug(dst, src, id) == id
\* An end of a worker's edge that main knows by another id.
Remap(dst, src, id) ==
  LET same == {n \in Live(src) : n.id = id /\ dst.byQn[n.qn] # 0}
  IN  IF same = {} THEN id ELSE dst.byQn[(CHOOSE n \in same : TRUE).qn]

\* A worker's node updates the node of that name or is copied with its id.
Merge(dst, src) ==
  PutEdges(PutNodes(dst, Live(src)),
           {[src |-> Remap(dst, src, e.src), type |-> e.type, tgt |-> Remap(dst, src, e.tgt)]
              : e \in src.edges})

-----------------------------------------------------------------------------
(* A run *)

GraphInit ==
  /\ stage = "load"
  /\ buf = [b \in Buffers |-> EmptyBuffer]
  /\ next = 1

\* The incremental route: the rows, which get ids in their order, then the edges.
LoadFromDb ==
  /\ stage = "load"
  /\ \E db \in Databases :
       LET nodes == {[id |-> i, qn |-> db.rows[i][1], label |-> db.rows[i][2],
                      file |-> db.rows[i][3]] : i \in DOMAIN db.rows}
           edges == {[src |-> e[1], type |-> e[2], tgt |-> e[3]] : e \in db.edges}
       IN  /\ buf' = [buf EXCEPT !["main"] = PutEdges(PutNodes(@, nodes), edges)]
           /\ next' = Len(db.rows) + 1
  /\ stage' = "purge"

\* The full route starts with an empty buffer.
StartFull ==
  /\ stage = "load"
  /\ stage' = "build"
  /\ UNCHANGED <<buf, next>>

\* Also between the passes.
PurgeFileBug(f) ==
  /\ stage \in {"purge", "build"}
  /\ buf' = [buf EXCEPT !["main"] = DeleteByFile(@, f)]
  /\ UNCHANGED <<stage, next>>
\* All purges come before anything is built.
PurgeFile(f) ==
  /\ stage = "purge"
  /\ buf' = [buf EXCEPT !["main"] = DeleteByFile(@, f)]
  /\ UNCHANGED <<stage, next>>

StartBuild ==
  /\ stage = "purge"
  /\ stage' = "build"
  /\ UNCHANGED <<buf, next>>

StartPass ==
  /\ stage = "build"
  /\ stage' = "pass"
  /\ UNCHANGED <<buf, next>>

\* Main is not touched while workers are at work.
Open(b) == stage = (IF b = "main" THEN "build" ELSE "pass")

UpsertNode(b, q, l, f) ==
  /\ Open(b)
  /\ buf[b].byQn[q] # 0 \/ next <= MaxIds
  /\ buf' = [buf EXCEPT ![b] =
               PutNodes(@, {[id |-> next, qn |-> q, label |-> l, file |-> f]})]
  /\ next' = IF buf[b].byQn[q] # 0 THEN next ELSE next + 1
  /\ UNCHANGED stage

\* Passes look the ends up by name, in their own buffer or in main.
IdsOf(b, q) == {buf[b].byQn[q], buf["main"].byQn[q]} \ {0}

AddEdge(b, p, t, q) ==
  /\ Open(b)
  /\ \E s \in IdsOf(b, p), d \in IdsOf(b, q) :
       buf' = [buf EXCEPT ![b] = PutEdges(@, {[src |-> s, type |-> t, tgt |-> d]})]
  /\ UNCHANGED <<stage, next>>

EndPass ==
  /\ stage = "pass"
  /\ stage' = "merge"
  /\ UNCHANGED <<buf, next>>

MergeWorker(w) ==
  /\ stage = "merge"
  /\ buf[w] # EmptyBuffer
  /\ buf' = [buf EXCEPT !["main"] = Merge(@, buf[w]), ![w] = EmptyBuffer]
  /\ UNCHANGED <<stage, next>>

EndMerge ==
  /\ stage = "merge"
  /\ \A w \in Workers : buf[w] = EmptyBuffer
  /\ stage' = "build"
  /\ UNCHANGED <<buf, next>>

GraphNext ==
  \/ LoadFromDb \/ StartFull \/ StartBuild \/ StartPass \/ EndPass \/ EndMerge
  \/ \E f \in Sources : PurgeFile(f)
  \/ \E b \in Buffers :
       \/ \E d \in Definitions : UpsertNode(b, d[1], d[2], d[3])
       \/ \E c \in Usages : AddEdge(b, c[1], c[2], c[3])
  \/ \E w \in Workers : MergeWorker(w)

GraphSpec == GraphInit /\ [][GraphNext]_graphVars

-----------------------------------------------------------------------------
(* Properties *)

\* A lookup never leads to a deleted node or edge and never misses one that is there:
\* names and ids lead to the live nodes, every live node is in the list of one label,
\* and every edge is in its lists and joins nodes that are there. Deletion relies on it
\* that no node was relabelled before: cbm_gbuf_delete_by_file takes a node off the list
\* of the label it has now.
IndexesAgree ==
  \A x \in Buffers :
    LET b == buf[x]
        ids == {n.id : n \in Live(b)}
    IN  /\ \A n \in Live(b) : b.byQn[n.qn] = n.id
        /\ b.byId = ids
        /\ \A i \in ids : \E l \in Labels : {e \in b.byLabel : e[2] = i} = {<<l, i>>}
        /\ \A e \in b.byLabel : e[2] \in ids
        /\ \A index \in {b.byKey, b.bySource, b.byTarget, b.byType} : index = b.edges
        /\ \A e \in b.edges : {e.src, e.tgt} \subseteq b.byId \cup buf["main"].byId

\* What the buffers stand for.
NameOf(id) ==
  LET its == {n \in UNION {buf[b].nodes : b \in Buffers} : n.id = id}
  IN  IF its = {} THEN Null ELSE (CHOOSE n \in its : TRUE).qn
Absent == <<>>
Meaning(b) ==
  [entry |-> [q \in Names |->
     LET its == {n \in b.nodes : n.id = b.byQn[q]}
     IN  IF its = {} THEN Absent
         ELSE LET n == CHOOSE n \in its : TRUE IN <<n.label, n.file>>],
   links |-> {<<NameOf(e.src), e.type, NameOf(e.tgt)>> : e \in b.edges}]
MeaningOf(db) ==
  [entry |-> [q \in Names |->
     LET its == {i \in DOMAIN db.rows : db.rows[i][1] = q}
     IN  IF its = {} THEN Absent
         ELSE LET i == CHOOSE i \in its : TRUE IN <<db.rows[i][2], db.rows[i][3]>>],
   links |-> {<<db.rows[e[1]][1], e[2], db.rows[e[3]][1]>> : e \in db.edges}]

\* The buffers behave like plain graphs of names, through loads, purges, redefinitions
\* and merges: where two workers know a name by two ids, or a worker and the database do,
\* cbm_gbuf_merge leaves one node and every edge joins the names that it was made for.
Graph == INSTANCE KnowledgeGraph WITH
  Files <- Sources, Calls <- Usages,
  graph <- [b \in Buffers |-> Meaning(buf[b])],
  Stored <- {MeaningOf(db) : db \in Databases}
IsAGraph == Graph!Spec

\* graph_buffer.h:84: "Find nodes by label." It fails: an upsert or a merge that changes
\* a node's label leaves it in the list of the old one.
FoundByLabel ==
  \A x \in Buffers : \A n \in Live(buf[x]) : <<n.label, n.id>> \in buf[x].byLabel
=============================================================================
