--------------------------- MODULE ParallelPasses ---------------------------
(***************************************************************************)
(* The parallel route of an index run, after pass_structure: extraction by *)
(* workers with a graph buffer each, the merge of these buffers, the       *)
(* serial registry build, resolution by workers with an edge buffer each,  *)
(* their merge, and the serial infra passes. cbm_parallel_for is used      *)
(* through its contract, ForAll, which ParallelFor implements.             *)
(*                                                                         *)
(* What a pass does for a file is a list of upserts and edges, given by a  *)
(* constant; nodes are known by their qualified names and edges refer to   *)
(* the ids of nodes, which is what can go wrong.                           *)
(***************************************************************************)
EXTENDS Naturals, Sequences, FiniteSets

CONSTANTS
  NFiles,       \* the files of the run are 1..NFiles
  NSlots,       \* worker_count
  Sorted,       \* the order in which extraction takes the files
  FileQn,       \* the qualified name of the File node of each file
  Extracts,     \* what insert_def_into_gbuf makes for each file
  Registers,    \* what cbm_build_registry_from_cache makes
  Resolves,     \* what resolve_worker makes
  Infra         \* what the infra passes make

Files == 1..NFiles
Slots == 0..(NSlots - 1)

\* An item is an upsert of the node "from" (then "to" is the same), or an edge.
AllItems == [from : STRING, to : STRING, type : STRING]
Node(q) == [from |-> q, to |-> q, type |-> "node"]
IsNode(item) == item.type = "node"

ASSUME ParallelPassesAssumption ==
  /\ NFiles \in Nat \ {0} /\ NSlots \in Nat \ {0}
  /\ Sorted \in [Files -> Files]
  /\ \A f, g \in Files : Sorted[f] = Sorted[g] => f = g
  /\ FileQn \in [Files -> STRING]
  /\ \A f, g \in Files : FileQn[f] = FileQn[g] => f = g
  /\ \A work \in {Extracts, Registers, Resolves, Infra} :
       work \in [Files -> Seq(AllItems)]

VARIABLES
  phase,        \* "extract", "registry", "resolve", "infra", "done", "failed"
  main,         \* p->gbuf
  shared,       \* shared_ids
  local,        \* the buffer of each worker slot
  begun, finished, returned,   \* the dispatch in progress, see ForAll
  claims,       \* next_file_idx
  worker,       \* where the worker of each slot is, and with which file
  todo,         \* what it has still to make for that file
  merged,       \* the number of buffers merged
  cached,       \* the files with an entry in result_cache
  unread,       \* the files that could not be read or parsed
  serial,       \* the file the serial pass is at, and what it has to make
  cancelled     \* the cancel flag of the pipeline

dispatchVars == <<begun, finished, returned>>
workerVars == <<local, claims, worker, todo>>
vars == <<phase, main, shared, dispatchVars, workerVars, merged, cached, unread,
          serial, cancelled>>

Dispatch == INSTANCE ForAll WITH Count <- NSlots

(***************************************************************************)
(* Graph buffers: nodes, edges between ids, and the next id.               *)
(***************************************************************************)
EmptyBuffer == [nodes |-> {}, edges |-> {}, next |-> 1]

Has(b, q) == \E n \in b.nodes : n.qn = q
IdOf(b, q) == (CHOOSE n \in b.nodes : n.qn = q).id

\* cbm_gbuf_upsert_node: a known name keeps its id.
Upsert(b, q) ==
  IF Has(b, q)
    THEN b
    ELSE [nodes |-> b.nodes \union {[qn |-> q, id |-> b.next]}, edges |-> b.edges,
          next |-> b.next + 1]

\* cbm_gbuf_insert_edge: edges are deduplicated, and take their ids from the counter
\* of the nodes.
InsertEdge(b, e) ==
  IF e \in b.edges
    THEN b
    ELSE [nodes |-> b.nodes, edges |-> b.edges \union {e}, next |-> b.next + 1]

\* An end of an edge is looked up in the buffer at hand, then in the main one.
Known(b, q) == Has(b, q) \/ Has(main, q)
EndId(b, q) == IF Has(b, q) THEN IdOf(b, q) ELSE IdOf(main, q)

\* An item is made in a buffer; an edge without one of its ends is not.
Make(b, item) ==
  IF IsNode(item)
    THEN Upsert(b, item.from)
    ELSE IF Known(b, item.from) /\ Known(b, item.to) /\ item.from # item.to
           THEN InsertEdge(b, [src |-> EndId(b, item.from),
                               tgt |-> EndId(b, item.to), type |-> item.type])
           ELSE b

\* Mutant: the workers' buffers have counters of their own.
WithSharedBug(b) == b

\* A buffer with a shared counter: alloc_next_id takes from shared_ids.
WithShared(b) == [nodes |-> b.nodes, edges |-> b.edges, next |-> shared]

\* The counter after nodes were copied with their ids.
Above(next, nodes) ==
  CHOOSE m \in {next} \union {n.id + 1 : n \in nodes} :
    m >= next /\ \A n \in nodes : m > n.id

\* Mutant: the ids of the worker's buffer are taken over as they are.
RemapBug(dst, src, id) == id

\* The id in dst of a node of src whose name dst has under another id.
Remap(dst, src, id) ==
  IF \E n \in src.nodes : n.id = id /\ Has(dst, n.qn)
    THEN IdOf(dst, (CHOOSE n \in src.nodes : n.id = id).qn)
    ELSE id

\* cbm_gbuf_merge: nodes keep their ids unless the name is there already; edges
\* follow, with new ids of their own.
Merge(dst, src) ==
  LET fresh == {n \in src.nodes : ~Has(dst, n.qn)}
      edges == {[src |-> Remap(dst, src, e.src), tgt |-> Remap(dst, src, e.tgt),
                 type |-> e.type] : e \in src.edges}
  IN  [nodes |-> dst.nodes \union fresh,
       edges |-> dst.edges \union edges,
       next  |-> Above(dst.next, fresh) + Cardinality(edges \ dst.edges)]

(***************************************************************************)
(* Initial state: run_parallel_pipeline has just been called; the File     *)
(* nodes are there, and their CONTAINS_FILE edges used up ids too.         *)
(***************************************************************************)
Idle == [at |-> "idle", file |-> 1]

Init ==
  /\ phase = "extract"
  /\ main = [nodes |-> {[qn |-> FileQn[f], id |-> f] : f \in Files},
             edges |-> {}, next |-> 2 * NFiles + 1]
  /\ shared = main.next
  /\ Dispatch!Init
  /\ local = [s \in Slots |-> EmptyBuffer]
  /\ claims = 1
  /\ worker = [s \in Slots |-> Idle]
  /\ todo = [s \in Slots |-> <<>>]
  /\ merged = 0
  /\ cached = {} /\ unread = {}
  /\ serial = [file |-> 1, todo |-> <<>>]
  /\ cancelled = FALSE

InPass == phase \in {"extract", "resolve"}

\* cbm_pipeline_cancel, from another thread, at any moment.
Cancel ==
  /\ phase \notin {"done", "failed"} /\ ~cancelled
  /\ cancelled' = TRUE
  /\ UNCHANGED <<phase, main, shared, dispatchVars, workerVars, merged, cached,
                 unread, serial>>

(***************************************************************************)
(* A worker: extract_worker and resolve_worker, called with a slot.        *)
(***************************************************************************)
EnterWorker(s) ==
  /\ InPass /\ Dispatch!Begin(s)
  /\ worker' = [worker EXCEPT ![s].at = "claim"]
  /\ UNCHANGED <<phase, main, shared, local, claims, todo, merged, cached, unread,
                 serial, cancelled>>

LeaveWorker(s) ==
  /\ Dispatch!Finish(s)
  /\ worker' = [worker EXCEPT ![s].at = "idle"]

\* Extraction takes the largest files first, resolution takes them in order.
FileAt(pos) == IF phase = "extract" THEN Sorted[pos] ELSE pos

\* The worker takes the next file, or leaves when there is none.
ClaimFile(s) ==
  /\ worker[s].at = "claim"
  /\ claims' = claims + 1
  /\ \/ /\ claims <= NFiles
        /\ worker' = [worker EXCEPT ![s] = [at |-> "check", file |-> FileAt(claims)]]
        /\ UNCHANGED dispatchVars
     \/ claims > NFiles /\ LeaveWorker(s)
  /\ UNCHANGED <<phase, main, shared, local, todo, merged, cached, unread, serial,
                 cancelled>>

\* The worker leaves at the first file it claims after a cancel.
SeeCancel(s) ==
  /\ worker[s].at = "check" /\ cancelled
  /\ LeaveWorker(s)
  /\ UNCHANGED <<phase, main, shared, local, claims, todo, merged, cached, unread,
                 serial, cancelled>>

\* The file is read and parsed; its definitions are made in the worker's buffer.
ParseFile(s) ==
  /\ worker[s].at = "check" /\ ~cancelled /\ phase = "extract"
  /\ worker' = [worker EXCEPT ![s].at = "make"]
  /\ todo' = [todo EXCEPT ![s] = Extracts[worker[s].file]]
  /\ UNCHANGED <<phase, main, shared, dispatchVars, local, claims, merged, cached,
                 unread, serial, cancelled>>

\* read_file or cbm_extract_file fails; the worker counts an error and goes on.
ParseFails(s) ==
  /\ worker[s].at = "check" /\ ~cancelled /\ phase = "extract"
  /\ worker' = [worker EXCEPT ![s].at = "claim"]
  /\ unread' = unread \union {worker[s].file}
  /\ UNCHANGED <<phase, main, shared, dispatchVars, local, claims, todo, merged,
                 cached, serial, cancelled>>

\* A file of the result cache is resolved, any other one skipped.
ResolveFile(s) ==
  /\ worker[s].at = "check" /\ ~cancelled /\ phase = "resolve"
  /\ LET f == worker[s].file
     IN  /\ worker' = [worker EXCEPT ![s].at = IF f \in cached THEN "make" ELSE "claim"]
         /\ todo' = [todo EXCEPT ![s] = IF f \in cached THEN Resolves[f] ELSE <<>>]
  /\ UNCHANGED <<phase, main, shared, dispatchVars, local, claims, merged, cached,
                 unread, serial, cancelled>>

\* The worker makes one node or edge; each takes its id in one atomic step.
MakeOne(s) ==
  /\ worker[s].at = "make" /\ todo[s] # <<>>
  /\ local' = [local EXCEPT ![s] = Make(WithShared(@), Head(todo[s]))]
  /\ shared' = local'[s].next
  /\ todo' = [todo EXCEPT ![s] = Tail(@)]
  /\ UNCHANGED <<phase, main, dispatchVars, claims, worker, merged, cached, unread,
                 serial, cancelled>>

FileDone(s) ==
  /\ worker[s].at = "make" /\ todo[s] = <<>>
  /\ cached' = IF phase = "extract" THEN cached \union {worker[s].file} ELSE cached
  /\ worker' = [worker EXCEPT ![s].at = "claim"]
  /\ UNCHANGED <<phase, main, shared, dispatchVars, local, claims, todo, merged,
                 unread, serial, cancelled>>

(***************************************************************************)
(* The main thread: the merges, and the serial passes.                     *)
(***************************************************************************)
\* cbm_parallel_for returns.
DispatchReturns ==
  /\ InPass /\ Dispatch!Return
  /\ UNCHANGED <<phase, main, shared, workerVars, merged, cached, unread, serial,
                 cancelled>>

\* The buffer of the next slot is merged and freed.
MergeNext ==
  /\ InPass /\ returned /\ merged < NSlots
  /\ main' = Merge(main, local[merged])
  /\ local' = [local EXCEPT ![merged] = EmptyBuffer]
  /\ merged' = merged + 1
  /\ UNCHANGED <<phase, shared, dispatchVars, claims, worker, todo, cached, unread,
                 serial, cancelled>>

\* The next pass starts at the first file.
FirstFile == serial' = [file |-> 1, todo |-> <<>>]

\* cbm_gbuf_set_next_id(gbuf, shared_ids).
Synced(b) == [nodes |-> b.nodes, edges |-> b.edges, next |-> shared]

\* Mutant: the flag is not looked at when a pass ends.
SeenCancelledBug == FALSE

\* The check of the cancel flag at the end of a pass.
SeenCancelled == cancelled

Fail ==
  /\ phase' = "failed"
  /\ UNCHANGED <<shared, dispatchVars, workerVars, merged, cached, unread,
                 cancelled>>

\* After extraction: the run fails, or the counters are synchronised and the registry
\* is built.
ExtractEnds ==
  /\ phase = "extract" /\ merged = NSlots
  /\ \/ SeenCancelled /\ Fail /\ UNCHANGED <<main, serial>>
     \/ /\ ~SeenCancelled
        /\ phase' = "registry"
        /\ main' = Synced(main)
        /\ FirstFile
        /\ UNCHANGED <<shared, dispatchVars, workerVars, merged, cached, unread,
                       cancelled>>

\* The work of a serial pass for a file of the result cache.
SerialWork(f) ==
  IF f \notin cached THEN <<>> ELSE IF phase = "registry" THEN Registers[f] ELSE Infra[f]

InSerial == phase \in {"registry", "infra"}

\* The serial pass makes all of a file; the registry build first looks for a cancel.
SerialFile ==
  /\ InSerial /\ serial.todo = <<>> /\ serial.file <= NFiles
  /\ \/ phase = "registry" /\ SeenCancelled /\ Fail /\ UNCHANGED <<main, serial>>
     \/ /\ ~(phase = "registry" /\ SeenCancelled)
        /\ serial' = [file |-> serial.file + 1, todo |-> SerialWork(serial.file)]
        /\ UNCHANGED <<phase, main, shared, dispatchVars, workerVars, merged,
                       cached, unread, cancelled>>

SerialMake ==
  /\ InSerial /\ serial.todo # <<>>
  /\ main' = Make(main, Head(serial.todo))
  /\ serial' = [serial EXCEPT !.todo = Tail(@)]
  /\ UNCHANGED <<phase, shared, dispatchVars, workerVars, merged, cached, unread,
                 cancelled>>

SerialEnds == serial.todo = <<>> /\ serial.file > NFiles

\* The workers are dispatched again, with empty buffers and the counter shared_ids as
\* extraction left it.
RegistryEnds ==
  /\ phase = "registry" /\ SerialEnds
  /\ \/ SeenCancelled /\ Fail /\ UNCHANGED <<main, serial>>
     \/ /\ ~SeenCancelled
        /\ phase' = "resolve"
        /\ begun' = [s \in Slots |-> 0] /\ finished' = [s \in Slots |-> 0]
        /\ returned' = FALSE
        /\ claims' = 1 /\ merged' = 0
        /\ UNCHANGED <<main, shared, local, worker, todo, cached, unread, serial,
                       cancelled>>

\* After resolution the counters are synchronised and the infra passes run, cancelled
\* or not; what cbm_parallel_resolve returned counts after them. The edges that
\* cbm_pipeline_implements_go makes in between are left out: their ids are forgotten
\* here. The two infra passes are one: the second looks up no node of the first.
ResolveEnds ==
  /\ phase = "resolve" /\ merged = NSlots
  /\ phase' = "infra"
  /\ main' = Synced(main)
  /\ FirstFile
  /\ UNCHANGED <<shared, dispatchVars, workerVars, merged, cached, unread, cancelled>>

InfraEnds ==
  /\ phase = "infra" /\ SerialEnds
  /\ \/ SeenCancelled /\ Fail
     \/ /\ ~SeenCancelled /\ phase' = "done"
        /\ UNCHANGED <<shared, dispatchVars, workerVars, merged, cached, unread,
                       cancelled>>
  /\ UNCHANGED <<main, serial>>

WorkerStep(s) ==
  \/ EnterWorker(s) \/ ClaimFile(s) \/ SeeCancel(s) \/ ParseFile(s)
  \/ ParseFails(s) \/ ResolveFile(s) \/ MakeOne(s) \/ FileDone(s)

MainStep ==
  \/ DispatchReturns \/ MergeNext \/ ExtractEnds \/ SerialFile \/ SerialMake
  \/ RegistryEnds \/ ResolveEnds \/ InfraEnds

Next == MainStep \/ Cancel \/ \E s \in Slots : WorkerStep(s)

Spec == Init /\ [][Next]_vars

(***************************************************************************)
(* Properties                                                              *)
(***************************************************************************)
Passes == <<Extracts, Registers, Resolves, Infra>>
ItemsOf(work, f) == {work[f][i] : i \in 1..Len(work[f])}
Items(fs) == UNION {ItemsOf(Passes[p], f) : p \in 1..4, f \in fs}
Names == {FileQn[f] : f \in Files} \union {item.from : item \in Items(Files)}

(***************************************************************************)
(* What the passes make, when the graph is the sequential one. The         *)
(* registry build makes no node: of the nodes it could make, Channels,     *)
(* the ids would be those that resolution gives. And the end of an edge is *)
(* a file, or a node that the pass itself has made for the file before, as *)
(* a route is before the call to it, or one that only earlier passes make, *)
(* as what is looked up in the main buffer is: else it would depend on who *)
(* comes first whether the edge is made.                                   *)
(***************************************************************************)
EdgeItems == {item \in AllItems : ~IsNode(item)}
RegistryMakesNoNodes == \A f \in Files : Registers[f] \in Seq(EdgeItems)

IsFileName(q) == \E f \in Files : q = FileQn[f]
NodeIn(list, q) == \E i \in DOMAIN list : IsNode(list[i]) /\ list[i].from = q
MadeBefore(list, i, q) == \E k \in 1..(i - 1) : IsNode(list[k]) /\ list[k].from = q

EndsAreMadeBefore ==
  \A p \in 1..4, f \in Files : \A i \in DOMAIN Passes[p][f] :
    LET item == Passes[p][f][i]
    IN  IsNode(item) \/ \A q \in {item.from, item.to} :
          \/ IsFileName(q)
          \/ MadeBefore(Passes[p][f], i, q)
          \/ \A r \in p..4, g \in Files : ~NodeIn(Passes[r][g], q)

IsBuffer(b) ==
  /\ b.next \in Nat
  /\ \A n \in b.nodes : n.qn \in Names /\ n.id \in Nat
  /\ \A e \in b.edges : e.src \in Nat /\ e.tgt \in Nat

\* The types; a worker has something to make only while it is at a file, and the
\* buffers of the slots are empty but during a dispatch and its merge.
TypeOK ==
  /\ phase \in {"extract", "registry", "resolve", "infra", "done", "failed"}
  /\ IsBuffer(main) /\ \A s \in Slots : IsBuffer(local[s])
  /\ shared \in Nat /\ claims \in Nat /\ merged \in 0..NSlots
  /\ begun \in [Slots -> 0..1] /\ finished \in [Slots -> 0..1]
  /\ returned \in BOOLEAN /\ cancelled \in BOOLEAN
  /\ \A s \in Slots :
       /\ worker[s].at \in {"idle", "claim", "check", "make"}
       /\ worker[s].file \in Files
       /\ todo[s] # <<>> => worker[s].at = "make"
       /\ worker[s].at # "idle" <=> begun[s] = 1 /\ finished[s] = 0
       /\ ~InPass \/ (returned /\ s < merged) => local[s].nodes = {}
  /\ cached \subseteq Files /\ unread \subseteq Files
  /\ serial.file \in 1..(NFiles + 1)

Buffers == {main} \union {local[s] : s \in Slots}

\* In all buffers together no two nodes share an id: "shared_ids provides globally
\* unique node/edge IDs across workers", on which every edge relies.
IdsUnique ==
  \A b, c \in Buffers : \A n \in b.nodes, m \in c.nodes :
    n.id = m.id => n = m

\* What the sequential pipeline makes of the files that could be parsed: the test of
\* the parallel one asserts parity with it.
ReferenceNames ==
  {FileQn[f] : f \in Files} \union {item.from : item \in {i \in Items(cached) : IsNode(i)}}
ReferenceEdges ==
  {i \in Items(cached) : /\ ~IsNode(i) /\ i.from # i.to
                         /\ i.from \in ReferenceNames /\ i.to \in ReferenceNames}

\* What the dump writes, by name: final ids go to the nodes below the buffer's next
\* id, and the edges of any other node are dropped.
DumpedEdges(b) ==
  LET Joins(x) == /\ x[1].id = x[3].src /\ x[1].id < b.next
                  /\ x[2].id = x[3].tgt /\ x[2].id < b.next
  IN  {[from |-> x[1].qn, to |-> x[2].qn, type |-> x[3].type] :
         x \in {y \in b.nodes \X b.nodes \X b.edges : Joins(y)}}

\* However the workers interleave, and although they know some nodes under several
\* ids, the graph that gets dumped is the sequential one.
SameAsSequential ==
  phase = "done" =>
    /\ {n.qn : n \in main.nodes} = ReferenceNames
    /\ Cardinality(main.nodes) = Cardinality(ReferenceNames)
    /\ DumpedEdges(main) = ReferenceEdges

\* A run that is not reported as failed has looked at every file, whenever a cancel
\* made workers leave early.
DoneIsComplete == phase = "done" => cached \union unread = Files
=============================================================================
