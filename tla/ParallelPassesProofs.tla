------------------------ MODULE ParallelPassesProofs ------------------------
(***************************************************************************)
(* Theorems about ParallelPasses for every number of files and workers and *)
(* whatever the passes make of the files, provided that the registry build *)
(* makes no nodes: it takes ids from the counter of the main buffer while  *)
(* resolution goes on with the shared one. The invariant says whose turn   *)
(* it is: ids are below shared_ids until resolution ends, and below the    *)
(* main buffer's next id from then on; a buffer that may still receive     *)
(* nodes belongs to a worker that the dispatch has not finished. That the  *)
(* graph is the sequential one needs, besides, that the ends of an edge    *)
(* are made before it (EndsAreMadeBefore): then what has been made, by     *)
(* names, is what the passes make of the files that were claimed.          *)
(***************************************************************************)
EXTENDS ParallelPasses, TLAPS, FiniteSetTheorems

\* The dispatch: who works on a buffer, and when the buffers are empty.
Places == {"idle", "claim", "check", "make"}
SlotTypes ==
  /\ begun \in [Slots -> 0..1] /\ finished \in [Slots -> 0..1]
  /\ DOMAIN local = Slots
  /\ worker \in [Slots -> [at : Places, file : Files]]
  /\ claims \in Nat \ {0}
  /\ merged \in 0..NSlots
Ownership ==
  \A s \in Slots : /\ finished[s] = 1 => begun[s] = 1
                   /\ worker[s].at # "idle" => begun[s] = 1 /\ finished[s] = 0
ReturnInv ==
  /\ returned => \A s \in Slots : finished[s] = 1
  /\ merged > 0 \/ ~InPass => returned
EmptyInv ==
  \A s \in Slots : ~InPass \/ (returned /\ s < merged) => local[s].nodes = {}

SlotInv == SlotTypes /\ Ownership /\ ReturnInv /\ EmptyInv

\* The list of a serial pass holds items, that of the registry build edges.
RegistryInv ==
  /\ serial \in [file : Nat \ {0}, todo : Seq(AllItems)]
  /\ phase = "registry" => serial.todo \in Seq(EdgeItems)

IdsBelow(b, bound) == \A n \in b.nodes : n.id \in Nat /\ n.id < bound

\* The counters are above the ids.
CounterInv ==
  /\ shared \in Nat
  /\ phase \in {"extract", "registry", "resolve"} =>
       /\ IdsBelow(main, shared)
       /\ \A s \in Slots : IdsBelow(local[s], shared)
  /\ phase \in {"infra", "done"} => main.next \in Nat /\ IdsBelow(main, main.next)

IInv == SlotInv /\ RegistryInv /\ CounterInv /\ IdsUnique

LEMMA SizeFacts ==
  /\ NFiles \in Nat /\ NFiles > 0 /\ NSlots \in Nat /\ NSlots > 0
  /\ Sorted \in [Files -> Files]
BY ParallelPassesAssumption

USE SizeFacts

LEMMA InFiles ==
  ASSUME NEW n \in Nat \ {0}, n <= NFiles PROVE n \in Files /\ n + 1 \in Nat \ {0}
BY DEF Files

LEMMA SlotInvInit == Init => SlotInv
<1>. SUFFICES ASSUME Init PROVE SlotInv
  OBVIOUS
<1>1. SlotTypes
  BY DEF Init, SlotTypes, Places, Dispatch!Init, Dispatch!Indices, Slots, Files, Idle
<1>2. Ownership /\ ReturnInv /\ EmptyInv
  BY DEF Init, Ownership, ReturnInv, EmptyInv, InPass, Dispatch!Init,
         Dispatch!Indices, Slots, Idle
<1>. QED
  BY <1>1, <1>2 DEF SlotInv

\* A worker goes to another place, or with another file.
LEMMA WorkerMoves ==
  ASSUME worker \in [Slots -> [at : Places, file : Files]], NEW s \in Slots,
         NEW p \in Places,
         \/ worker' = [worker EXCEPT ![s].at = p]
         \/ \E f \in Files : worker' = [worker EXCEPT ![s] = [at |-> p, file |-> f]]
  PROVE  worker' \in [Slots -> [at : Places, file : Files]]
<1>. DEFINE r == [worker[s] EXCEPT !.at = p]
<1>1. r \in [at : Places, file : Files]
  OBVIOUS
<1>2. CASE worker' = [worker EXCEPT ![s].at = p]
  <2>1. worker' = [worker EXCEPT ![s] = r]
    BY <1>2
  <2>. QED
    BY <1>1, <2>1
<1>3. CASE \E f \in Files : worker' = [worker EXCEPT ![s] = [at |-> p, file |-> f]]
  BY <1>3
<1>. QED
  BY <1>2, <1>3

\* A slot becomes begun, or finished.
LEMMA SlotMarked ==
  ASSUME NEW f \in [Slots -> 0..1], NEW s \in Slots
  PROVE  [f EXCEPT ![s] = 1] \in [Slots -> 0..1]
OBVIOUS

\* A step of a worker keeps the types of the dispatch.
LEMMA WorkerKeepsTypes ==
  ASSUME SlotTypes, NEW s \in Slots, WorkerStep(s) PROVE SlotTypes'
<1>. USE DEF SlotTypes, dispatchVars, workerVars
<1>0. {"idle", "claim", "check", "make"} = Places
  BY DEF Places
<1>1. ASSUME NEW p \in Places, worker' = [worker EXCEPT ![s].at = p],
             \/ UNCHANGED <<begun, finished>>
             \/ begun' = [begun EXCEPT ![s] = 1] /\ UNCHANGED finished
             \/ finished' = [finished EXCEPT ![s] = 1] /\ UNCHANGED begun,
             UNCHANGED <<local, claims, merged>> \/ ClaimFile(s)
      PROVE  SlotTypes'
  <2>1. worker' \in [Slots -> [at : Places, file : Files]]
    BY <1>1, WorkerMoves
  <2>2. begun' \in [Slots -> 0..1] /\ finished' \in [Slots -> 0..1]
    <3>1. /\ [begun EXCEPT ![s] = 1] \in [Slots -> 0..1]
          /\ [finished EXCEPT ![s] = 1] \in [Slots -> 0..1]
      BY SlotMarked
    <3>. QED
      BY <1>1, <3>1
  <2>3. DOMAIN local' = Slots /\ claims' \in Nat \ {0} /\ merged' \in 0..NSlots
    BY <1>1 DEF ClaimFile
  <2>. QED
    BY <2>1, <2>2, <2>3
<1>2. CASE EnterWorker(s)
  BY <1>2, <1>0, <1>1 DEF EnterWorker, Dispatch!Begin
<1>3. CASE ClaimFile(s)
  <2>1. CASE claims <= NFiles /\ UNCHANGED dispatchVars
             /\ worker' = [worker EXCEPT ![s] = [at |-> "check", file |-> FileAt(claims)]]
    <3>1. claims \in Files
      BY <2>1 DEF Files
    <3>2. FileAt(claims) \in Files
      BY <3>1 DEF FileAt
    <3>3. worker' \in [Slots -> [at : Places, file : Files]]
      BY <1>0, <2>1, <3>2, WorkerMoves
    <3>. QED
      BY <1>3, <2>1, <3>3 DEF ClaimFile
  <2>2. CASE LeaveWorker(s)
    BY <1>0, <1>1, <1>3, <2>2 DEF LeaveWorker, Dispatch!Finish
  <2>. QED
    BY <1>3, <2>1, <2>2 DEF ClaimFile
<1>4. CASE SeeCancel(s)
  BY <1>4, <1>0, <1>1 DEF SeeCancel, LeaveWorker, Dispatch!Finish
<1>5. CASE ParseFile(s) \/ ParseFails(s) \/ FileDone(s)
  BY <1>5, <1>0, <1>1 DEF ParseFile, ParseFails, FileDone
<1>6. CASE ResolveFile(s)
  <2>1. \E p \in Places : worker' = [worker EXCEPT ![s].at = p]
    BY <1>6, <1>0 DEF ResolveFile
  <2>. QED
    BY <1>6, <2>1, <1>1 DEF ResolveFile
<1>7. CASE MakeOne(s)
  BY <1>7 DEF MakeOne
<1>. QED
  BY <1>2, <1>3, <1>4, <1>5, <1>6, <1>7 DEF WorkerStep

\* A worker's step is a step of the dispatch in a pass that has not returned, and
\* leaves the merge alone.
LEMMA WorkerStepFacts ==
  ASSUME SlotTypes, Ownership, ReturnInv, NEW s \in Slots, WorkerStep(s)
  PROVE  /\ InPass /\ ~returned /\ merged = 0
         /\ UNCHANGED <<phase, main, returned, merged, serial>>
<1>1. finished[s] = 0
  BY DEF WorkerStep, EnterWorker, ClaimFile, SeeCancel, ParseFile, ParseFails,
         ResolveFile, MakeOne, FileDone, Ownership, SlotTypes, Dispatch!Begin
<1>2. ~returned
  BY <1>1 DEF ReturnInv
<1>3. InPass /\ merged = 0
  BY <1>2 DEF ReturnInv, SlotTypes
<1>4. UNCHANGED <<phase, main, returned, merged, serial>>
  BY DEF WorkerStep, EnterWorker, ClaimFile, SeeCancel, ParseFile, ParseFails,
         ResolveFile, MakeOne, FileDone, LeaveWorker, Dispatch!Begin,
         Dispatch!Finish, dispatchVars
<1>. QED
  BY <1>2, <1>3, <1>4

LEMMA WorkerKeepsSlots ==
  ASSUME SlotInv, NEW s \in Slots, WorkerStep(s) PROVE SlotInv'
<1>0. SlotTypes /\ Ownership /\ ReturnInv /\ EmptyInv
  BY DEF SlotInv
<1>1. SlotTypes'
  BY <1>0, WorkerKeepsTypes
<1>2. /\ InPass /\ ~returned /\ merged = 0
      /\ UNCHANGED <<phase, main, returned, merged, serial>>
  BY <1>0, WorkerStepFacts
<1>3. ReturnInv' /\ EmptyInv'
  BY <1>2 DEF ReturnInv, EmptyInv, InPass
<1>4. Ownership'
  <2>. USE <1>0 DEF Ownership, SlotTypes, dispatchVars
  <2>1. CASE EnterWorker(s)
    BY <2>1 DEF EnterWorker, Dispatch!Begin
  <2>2. CASE ClaimFile(s)
    BY <2>2 DEF ClaimFile, LeaveWorker, Dispatch!Finish
  <2>3. CASE SeeCancel(s)
    BY <2>3 DEF SeeCancel, LeaveWorker, Dispatch!Finish
  <2>4. CASE ParseFile(s) \/ ParseFails(s) \/ ResolveFile(s) \/ FileDone(s)
    BY <2>4 DEF ParseFile, ParseFails, ResolveFile, FileDone
  <2>5. CASE MakeOne(s)
    BY <2>5 DEF MakeOne
  <2>. QED
    BY <2>1, <2>2, <2>3, <2>4, <2>5 DEF WorkerStep
<1>. QED
  BY <1>1, <1>3, <1>4 DEF SlotInv

LEMMA MainKeepsSlots ==
  ASSUME SlotInv, MainStep \/ Cancel \/ UNCHANGED vars PROVE SlotInv'
<1>0. SlotTypes /\ Ownership /\ ReturnInv /\ EmptyInv
  BY DEF SlotInv
<1>. USE <1>0 DEF SlotInv, SlotTypes, Ownership, ReturnInv, EmptyInv, InPass,
                  dispatchVars, workerVars
<1>1. CASE DispatchReturns
  <2>1. \A s \in Slots : finished[s] = 1
    BY <1>1 DEF DispatchReturns, Dispatch!Return, Dispatch!Indices, Slots
  <2>2. ~returned /\ returned' = TRUE /\ UNCHANGED <<begun, finished>>
    BY <1>1 DEF DispatchReturns, Dispatch!Return
  <2>3. merged = 0
    BY <2>2
  <2>. QED
    BY <1>1, <2>1, <2>2, <2>3 DEF DispatchReturns, Slots
<1>2. CASE MergeNext
  <2>1. merged \in Slots /\ merged' = merged + 1 /\ returned
        /\ local' = [local EXCEPT ![merged] = EmptyBuffer]
        /\ UNCHANGED <<phase, begun, finished, returned, claims, worker>>
    BY <1>2 DEF MergeNext, Slots
  <2>2. EmptyInv'
    <3>1. \A s \in Slots : local'[s] = IF s = merged THEN EmptyBuffer ELSE local[s]
      BY <2>1
    <3>2. EmptyBuffer.nodes = {}
      BY DEF EmptyBuffer
    <3>. QED
      BY <2>1, <3>1, <3>2 DEF Slots
  <2>3. SlotTypes'
    <3>1. merged' \in 0..NSlots
      <4>1. merged \in 0..(NSlots - 1) /\ merged' = merged + 1
        BY <2>1 DEF Slots
      <4>. QED
        BY <4>1
    <3>2. DOMAIN local' = Slots
      BY <2>1
    <3>. QED
      BY <2>1, <3>1, <3>2
  <2>4. Ownership' /\ ReturnInv'
    BY <2>1
  <2>. QED
    BY <2>2, <2>3, <2>4
<1>3. CASE ExtractEnds \/ ResolveEnds
  <2>1. merged = NSlots /\ returned
    BY <1>3 DEF ExtractEnds, ResolveEnds
  <2>2. \A s \in Slots : local[s].nodes = {}
    BY <2>1 DEF Slots
  <2>3. UNCHANGED <<dispatchVars, workerVars, merged>>
    BY <1>3 DEF ExtractEnds, ResolveEnds, Fail
  <2>. QED
    BY <2>1, <2>2, <2>3
<1>4. CASE SerialFile \/ SerialMake
  BY <1>4 DEF SerialFile, SerialMake, InSerial, Fail
<1>5. CASE RegistryEnds
  <2>1. returned /\ \A s \in Slots : finished[s] = 1 /\ worker[s].at = "idle"
    BY <1>5 DEF RegistryEnds
  <2>2. CASE Fail /\ UNCHANGED <<main, serial>>
    BY <1>5, <2>2 DEF Fail, RegistryEnds
  <2>3. CASE phase' = "resolve"
    <3>1. /\ begun' = [s \in Slots |-> 0] /\ finished' = [s \in Slots |-> 0]
          /\ returned' = FALSE /\ claims' = 1 /\ merged' = 0
          /\ UNCHANGED <<local, worker>>
      BY <1>5, <2>3 DEF RegistryEnds, Fail
    <3>. QED
      BY <2>1, <2>3, <3>1 DEF Slots
  <2>. QED
    BY <1>5, <2>2, <2>3 DEF RegistryEnds
<1>6. CASE InfraEnds
  <2>1. /\ ~(phase \in {"extract", "resolve"}) /\ ~(phase' \in {"extract", "resolve"})
        /\ UNCHANGED <<dispatchVars, workerVars, merged>>
    BY <1>6 DEF InfraEnds, Fail
  <2>. QED
    BY <2>1
<1>7. CASE Cancel
  BY <1>7 DEF Cancel
<1>8. CASE UNCHANGED vars
  BY <1>8 DEF vars
<1>. QED
  BY <1>1, <1>2, <1>3, <1>4, <1>5, <1>6, <1>7, <1>8 DEF MainStep

LEMMA SlotInvKept == SlotInv /\ [Next]_vars => SlotInv'
BY WorkerKeepsSlots, MainKeepsSlots DEF Next

(***************************************************************************)
(* The ids. AllNodes are the nodes of all buffers, so that IdsUnique says  *)
(* that no two of them share an id.                                        *)
(***************************************************************************)
AllNodes == main.nodes \union UNION {local[s].nodes : s \in Slots}
UniqueIn(nodes) == \A n, m \in nodes : n.id = m.id => n = m

LEMMA UniqueMeans == IdsUnique <=> UniqueIn(AllNodes)
BY DEF IdsUnique, UniqueIn, AllNodes, Buffers

LEMMA UniqueMeansPrimed == IdsUnique' <=> UniqueIn(AllNodes')
BY DEF IdsUnique, UniqueIn, AllNodes, Buffers

\* What an item adds: nothing but, for a node, one node with the next id.
LEMMA MakeAdds ==
  ASSUME NEW b, NEW item, b.next \in Nat
  PROVE  \/ /\ Make(b, item).nodes = b.nodes
            /\ Make(b, item).next \in {b.next, b.next + 1}
         \/ /\ IsNode(item)
            /\ \E q : Make(b, item).nodes = b.nodes \union {[qn |-> q, id |-> b.next]}
            /\ Make(b, item).next = b.next + 1
BY DEF Make, Upsert, InsertEdge

\* A merge adds nodes of the merged buffer only, with their ids.
LEMMA MergeAdds ==
  ASSUME NEW dst, NEW src
  PROVE  Merge(dst, src).nodes \subseteq dst.nodes \union src.nodes
BY DEF Merge

\* A node with an id above all others keeps the ids unique.
LEMMA UniqueExtended ==
  ASSUME NEW nodes, NEW new, NEW bound, NEW q, bound \in Nat, UniqueIn(nodes),
         \A n \in nodes : n.id \in Nat /\ n.id < bound,
         new \subseteq nodes \union {[qn |-> q, id |-> bound]}
  PROVE  UniqueIn(new)
BY DEF UniqueIn

LEMMA InvInit == Init => IInv
<1>. SUFFICES ASSUME Init PROVE IInv
  OBVIOUS
<1>1. \A n \in main.nodes : n.id \in Files
  BY DEF Init
<1>2. shared = 2 * NFiles + 1 /\ \A s \in Slots : local[s].nodes = {}
  BY DEF Init, EmptyBuffer
<1>3. CounterInv
  <2>1. shared \in Nat /\ \A f \in Files : f \in Nat /\ f < shared
    BY <1>2 DEF Files
  <2>2. phase = "extract"
    BY DEF Init
  <2>. QED
    BY <1>1, <1>2, <2>1, <2>2 DEF CounterInv, IdsBelow
<1>4. UniqueIn(AllNodes)
  BY <1>2 DEF Init, UniqueIn, AllNodes
<1>5. RegistryInv
  <2>1. <<>> \in Seq(AllItems)
    OBVIOUS
  <2>. QED
    BY <2>1 DEF Init, RegistryInv
<1>. QED
  BY <1>3, <1>4, <1>5, SlotInvInit, UniqueMeans DEF IInv

\* A worker's step keeps the ids unique and below the shared counter.
LEMMA WorkerKeepsIds ==
  ASSUME IInv, NEW s \in Slots, WorkerStep(s) PROVE CounterInv' /\ IdsUnique'
<1>0. /\ InPass
      /\ UNCHANGED <<phase, main, returned, merged, serial>>
      /\ DOMAIN local = Slots
  BY WorkerStepFacts DEF IInv, SlotInv, SlotTypes
<1>1. /\ shared \in Nat /\ IdsBelow(main, shared)
      /\ \A t \in Slots : IdsBelow(local[t], shared)
      /\ UniqueIn(AllNodes)
  BY <1>0, UniqueMeans DEF IInv, CounterInv, InPass
<1>2. CASE UNCHANGED <<local, shared>>
  BY <1>0, <1>1, <1>2, UniqueMeansPrimed
     DEF CounterInv, InPass, IdsBelow, AllNodes
<1>3. CASE MakeOne(s)
  <2>. DEFINE b == WithShared(local[s])
              item == Head(todo[s])
  <2>1. /\ local' = [local EXCEPT ![s] = Make(b, item)]
        /\ shared' = Make(b, item).next
    BY <1>3, <1>0 DEF MakeOne
  <2>2. b.nodes = local[s].nodes /\ b.next = shared
    BY DEF WithShared
  <2>3. \A t \in Slots : t # s => local'[t] = local[t]
    BY <1>0, <2>1
  <2>4. local'[s] = Make(b, item)
    BY <1>0, <2>1
  <2>. HIDE DEF b, item
  <2>5. PICK q : /\ shared' \in {shared, shared + 1}
                 /\ local'[s].nodes \subseteq
                      local[s].nodes \union {[qn |-> q, id |-> shared]}
                 /\ local'[s].nodes = local[s].nodes \/ shared' = shared + 1
    BY <1>1, <2>1, <2>2, <2>4, MakeAdds
  <2>6. shared' \in Nat /\ IdsBelow(main', shared')
    BY <1>0, <1>1, <2>5 DEF IdsBelow
  <2>7. ASSUME NEW t \in Slots PROVE IdsBelow(local'[t], shared')
    <3>1. CASE t = s
      BY <1>1, <2>5, <3>1 DEF IdsBelow
    <3>2. CASE t # s
      BY <1>1, <2>3, <2>5, <3>2 DEF IdsBelow
    <3>. QED
      BY <3>1, <3>2
  <2>8. AllNodes' \subseteq AllNodes \union {[qn |-> q, id |-> shared]}
    BY <1>0, <2>3, <2>5 DEF AllNodes
  <2>9. \A n \in AllNodes : n.id \in Nat /\ n.id < shared
    BY <1>1 DEF AllNodes, IdsBelow
  <2>10. UniqueIn(AllNodes')
    BY <1>1, <2>8, <2>9, UniqueExtended
  <2>11. CounterInv'
    BY <1>0, <2>6, <2>7 DEF CounterInv, InPass
  <2>. QED
    BY <2>10, <2>11, UniqueMeansPrimed
<1>. QED
  BY <1>2, <1>3 DEF WorkerStep, EnterWorker, ClaimFile, SeeCancel, ParseFile,
                    ParseFails, ResolveFile, FileDone

\* The list of the serial pass is shortened, or is that of the next file.
LEMMA RegistryInvKept ==
  ASSUME RegistryMakesNoNodes, IInv, [Next]_vars PROVE RegistryInv'
<1>0. serial \in [file : Nat \ {0}, todo : Seq(AllItems)]
  BY DEF IInv, RegistryInv
<1>1. CASE SerialFile
  <2>1. CASE UNCHANGED serial /\ phase' # "registry"
    BY <1>0, <2>1 DEF RegistryInv
  <2>2. CASE /\ serial' = [file |-> serial.file + 1, todo |-> SerialWork(serial.file)]
             /\ UNCHANGED phase
    <3>1. serial.file \in Files /\ serial.file + 1 \in Nat \ {0}
      <4>1. serial.file \in Nat \ {0}
        BY <1>0
      <4>2. serial.file <= NFiles
        BY <1>1 DEF SerialFile
      <4>. QED
        BY <4>1, <4>2, InFiles
    <3>2. SerialWork(serial.file) \in Seq(AllItems)
      BY <3>1, ParallelPassesAssumption DEF SerialWork
    <3>3. phase = "registry" => SerialWork(serial.file) \in Seq(EdgeItems)
      BY <3>1 DEF SerialWork, RegistryMakesNoNodes
    <3>. QED
      BY <2>2, <3>1, <3>2, <3>3 DEF RegistryInv
  <2>. QED
    BY <1>1, <2>1, <2>2 DEF SerialFile, Fail
<1>2. CASE SerialMake
  <2>1. /\ serial' = [serial EXCEPT !.todo = Tail(serial.todo)] /\ serial.todo # <<>>
        /\ UNCHANGED phase
    BY <1>2 DEF SerialMake
  <2>2. ASSUME NEW S, serial.todo \in Seq(S) PROVE Tail(serial.todo) \in Seq(S)
    BY <2>1, <2>2
  <2>3. Tail(serial.todo) \in Seq(AllItems)
    BY <1>0, <2>2
  <2>4. phase = "registry" => Tail(serial.todo) \in Seq(EdgeItems)
    BY <2>2 DEF IInv, RegistryInv
  <2>. QED
    BY <1>0, <2>1, <2>3, <2>4 DEF RegistryInv
<1>3. CASE (ExtractEnds \/ ResolveEnds) /\ FirstFile
  BY <1>3 DEF FirstFile, RegistryInv
<1>4. CASE UNCHANGED serial /\ (phase' = "registry" => phase = "registry")
  BY <1>4 DEF IInv, RegistryInv
<1>5. ASSUME NEW s \in Slots, WorkerStep(s) PROVE UNCHANGED <<serial, phase>>
  BY <1>5, WorkerStepFacts DEF IInv, SlotInv
<1>. QED
  BY <1>1, <1>2, <1>3, <1>4, <1>5
     DEF Next, MainStep, DispatchReturns, MergeNext, ExtractEnds, RegistryEnds,
         ResolveEnds, InfraEnds, Cancel, Fail, vars

\* The main thread keeps the ids unique: a merge adds nodes whose ids are below the
\* shared counter, the registry build none, and the infra passes take ids from the
\* main buffer when no other buffer is in use.
LEMMA MainKeepsIds ==
  ASSUME RegistryMakesNoNodes, IInv, MainStep \/ Cancel \/ UNCHANGED vars
  PROVE  CounterInv' /\ IdsUnique'
<1>0. /\ CounterInv /\ UniqueIn(AllNodes) /\ EmptyInv /\ DOMAIN local = Slots
      /\ merged \in 0..NSlots /\ RegistryInv
  BY UniqueMeans DEF IInv, SlotInv, SlotTypes
<1>1. ASSUME main'.nodes = main.nodes, UNCHANGED <<local, shared>>,
             \/ phase' = phase /\ main'.next = main.next
             \/ phase' = "failed"
             \/ phase \in {"extract", "registry"} /\ phase' \in {"registry", "resolve"}
             \/ phase = "resolve" /\ phase' = "infra" /\ main'.next = shared
             \/ phase = "infra" /\ phase' = "done" /\ main'.next = main.next
      PROVE  CounterInv' /\ IdsUnique'
  <2>1. UniqueIn(AllNodes')
    BY <1>0, <1>1 DEF AllNodes
  <2>2. CounterInv'
    BY <1>0, <1>1 DEF CounterInv, IdsBelow
  <2>. QED
    BY <2>1, <2>2, UniqueMeansPrimed
<1>2. CASE MergeNext
  <2>1. /\ main'.nodes \subseteq main.nodes \union local[merged].nodes
        /\ merged \in Slots /\ phase' = phase /\ InPass /\ UNCHANGED shared
        /\ local' = [local EXCEPT ![merged] = EmptyBuffer]
    BY <1>0, <1>2, MergeAdds DEF MergeNext, Slots
  <2>2. \A s \in Slots : local'[s].nodes \subseteq local[s].nodes
    BY <1>0, <2>1 DEF EmptyBuffer
  <2>3. AllNodes' \subseteq AllNodes
    BY <2>1, <2>2 DEF AllNodes
  <2>4. UniqueIn(AllNodes')
    BY <1>0, <2>3 DEF UniqueIn
  <2>5. CounterInv'
    BY <1>0, <2>1, <2>2 DEF CounterInv, IdsBelow, InPass
  <2>. QED
    BY <2>4, <2>5, UniqueMeansPrimed
<1>3. CASE SerialMake
  <2>. DEFINE item == Head(serial.todo)
  <2>1. /\ InSerial /\ serial.todo # <<>> /\ UNCHANGED <<phase, local, shared>>
        /\ main' = Make(main, item)
    BY <1>3 DEF SerialMake, workerVars
  <2>2. CASE phase = "registry"
    <3>1. ~IsNode(item)
      BY <1>0, <2>1, <2>2 DEF RegistryInv, EdgeItems
    <3>2. main'.nodes = main.nodes
      BY <2>1, <3>1 DEF Make, InsertEdge
    <3>3. UniqueIn(AllNodes')
      BY <1>0, <2>1, <3>2 DEF AllNodes
    <3>4. CounterInv'
      BY <1>0, <2>1, <2>2, <3>2 DEF CounterInv, IdsBelow
    <3>. QED
      BY <3>3, <3>4, UniqueMeansPrimed
  <2>3. CASE phase = "infra"
    <3>1. main.next \in Nat /\ IdsBelow(main, main.next)
      BY <1>0, <2>3 DEF CounterInv
    <3>. HIDE DEF item
    <3>2. PICK q : /\ main'.next \in {main.next, main.next + 1}
                   /\ main'.nodes \subseteq
                        main.nodes \union {[qn |-> q, id |-> main.next]}
                   /\ main'.nodes = main.nodes \/ main'.next = main.next + 1
      BY <2>1, <3>1, MakeAdds
    <3>3. AllNodes = main.nodes /\ AllNodes' = main'.nodes
      BY <1>0, <2>1, <2>3 DEF EmptyInv, InPass, AllNodes
    <3>4. UniqueIn(AllNodes')
      BY <1>0, <3>1, <3>2, <3>3, UniqueExtended DEF IdsBelow
    <3>5. main'.next \in Nat /\ IdsBelow(main', main'.next)
      BY <3>1, <3>2 DEF IdsBelow
    <3>6. CounterInv'
      BY <1>0, <2>1, <2>3, <3>5 DEF CounterInv
    <3>. QED
      BY <3>4, <3>6, UniqueMeansPrimed
  <2>. QED
    BY <2>1, <2>2, <2>3 DEF InSerial
<1>4. CASE ExtractEnds \/ RegistryEnds \/ ResolveEnds \/ InfraEnds \/ SerialFile
  BY <1>1, <1>4 DEF ExtractEnds, RegistryEnds, ResolveEnds, InfraEnds, SerialFile,
                    Fail, Synced, workerVars
<1>5. CASE DispatchReturns \/ Cancel \/ UNCHANGED vars
  BY <1>1, <1>5 DEF DispatchReturns, Cancel, vars, workerVars
<1>. QED
  BY <1>2, <1>3, <1>4, <1>5 DEF MainStep

LEMMA InvKept == ASSUME RegistryMakesNoNodes, IInv, [Next]_vars PROVE IInv'
<1>1. SlotInv' /\ RegistryInv'
  BY SlotInvKept, RegistryInvKept DEF IInv
<1>2. CounterInv' /\ IdsUnique'
  BY WorkerKeepsIds, MainKeepsIds DEF Next
<1>. QED
  BY <1>1, <1>2 DEF IInv

LEMMA InvHolds == ASSUME RegistryMakesNoNodes PROVE Spec => []IInv
<1>1. IInv /\ [Next]_vars => IInv'
  BY InvKept
<1>. QED
  BY <1>1, InvInit, PTL DEF Spec

\* IdsUnique: as long as the registry build makes no node, shared_ids provides globally
\* unique ids across workers, merges and the passes that follow.
THEOREM GloballyUniqueIds ==
  ASSUME RegistryMakesNoNodes PROVE Spec => []IdsUnique
<1>1. IInv => IdsUnique
  BY DEF IInv
<1>. QED
  BY <1>1, InvHolds, PTL

\* Then the dump reaches every node: none has an id at or above the counter the dump
\* takes for the size of its table of final ids.
THEOREM DumpReachesEveryNode ==
  ASSUME RegistryMakesNoNodes
  PROVE  Spec => [](phase = "done" => \A n \in main.nodes : n.id < main.next)
<1>1. IInv => (phase = "done" => \A n \in main.nodes : n.id < main.next)
  BY DEF IInv, CounterInv, IdsBelow
<1>. QED
  BY <1>1, InvHolds, PTL
(***************************************************************************)
(* A run that is done has looked at every file. While nobody has           *)
(* cancelled, a position the workers have claimed is that of a file that   *)
(* was parsed, was given up or is at hand, and no worker leaves before the *)
(* last one is claimed; when extraction ends none is at hand.              *)
(***************************************************************************)
Visited ==
  cached \union unread \union
    {worker[s].file : s \in {t \in Slots : worker[t].at \in {"check", "make"}}}

ClaimedAreVisited ==
  phase = "extract" /\ ~cancelled =>
    /\ \A p \in Files : p < claims => Sorted[p] \in Visited
    /\ \A s \in Slots : finished[s] = 1 => claims > NFiles

FilesInv ==
  /\ cached \subseteq Files /\ unread \subseteq Files
  /\ ClaimedAreVisited
  /\ phase \in {"registry", "resolve", "infra", "done"} => cached \union unread = Files

\* Sorted is an order of all files: no file is left out of an injection of a finite
\* set into itself.
LEMMA SortedReachesAll == \A f \in Files : \E p \in Files : Sorted[p] = f
<1>1. IsFiniteSet(Files)
  BY FS_Interval DEF Files
<1>2. Sorted \in Injection(Files, Files)
  BY ParallelPassesAssumption DEF Injection, IsInjective
<1>3. Sorted \in Surjection(Files, Files)
  BY <1>1, <1>2, FS_Injection
<1>. QED
  BY <1>3 DEF Surjection

LEMMA WorkerKeepsFiles ==
  ASSUME SlotInv, FilesInv, NEW s \in Slots, WorkerStep(s) PROVE FilesInv'
<1>0. SlotTypes /\ Ownership /\ ReturnInv
  BY DEF SlotInv
<1>1. UNCHANGED <<phase, cancelled>>
  BY <1>0, WorkerStepFacts
     DEF WorkerStep, EnterWorker, ClaimFile, SeeCancel, ParseFile, ParseFails,
         ResolveFile, MakeOne, FileDone
<1>2. worker[s].file \in Files /\ claims \in Nat \ {0}
  BY <1>0 DEF SlotTypes
<1>3. cached' \subseteq Files /\ unread' \subseteq Files
  BY <1>2 DEF FilesInv, WorkerStep, EnterWorker, ClaimFile, SeeCancel, ParseFile,
         ParseFails, ResolveFile, MakeOne, FileDone
<1>4. phase # "extract" => UNCHANGED <<cached, unread>>
  BY DEF WorkerStep, EnterWorker, ClaimFile, SeeCancel, ParseFile, ParseFails,
         ResolveFile, MakeOne, FileDone
<1>5. ASSUME phase = "extract", ~cancelled
      PROVE  /\ \A p \in Files : p < claims' => Sorted[p] \in Visited'
             /\ \A t \in Slots : finished'[t] = 1 => claims' > NFiles
  <2>1. /\ \A p \in Files : p < claims => Sorted[p] \in Visited
        /\ \A t \in Slots : finished[t] = 1 => claims > NFiles
    BY <1>5 DEF FilesInv, ClaimedAreVisited
  <2>2. \A t \in Slots : worker[t] \in [at : Places, file : Files]
    BY <1>0 DEF SlotTypes
  <2>. USE <1>0 DEF SlotTypes
  \* Every worker step but ClaimFile leaves the claims and the finished slots alone.
  <2>3. ASSUME UNCHANGED <<claims, finished>>, Visited \subseteq Visited'
        PROVE  /\ \A p \in Files : p < claims' => Sorted[p] \in Visited'
               /\ \A t \in Slots : finished'[t] = 1 => claims' > NFiles
    BY <2>1, <2>3
  \* What another worker has at hand it keeps.
  <2>4. ASSUME \A t \in Slots : t # s => worker'[t] = worker[t],
               cached \subseteq cached', unread \subseteq unread',
               \/ worker[s].at \notin {"check", "make"}
               \/ worker[s].file \in cached' \union unread'
               \/ worker'[s].at \in {"check", "make"} /\ worker'[s].file = worker[s].file
        PROVE  Visited \subseteq Visited'
    BY <2>4 DEF Visited
  <2>5. CASE EnterWorker(s)
    <3>1. /\ \A t \in Slots : t # s => worker'[t] = worker[t]
          /\ UNCHANGED <<cached, unread, claims, finished>> /\ worker[s].at = "idle"
      BY <2>5 DEF EnterWorker, Dispatch!Begin, Ownership
    <3>. QED
      BY <2>3, <2>4, <3>1
  <2>6. CASE ClaimFile(s)
    <3>1. /\ worker[s].at = "claim" /\ claims' = claims + 1 /\ UNCHANGED <<cached, unread>>
          /\ \A t \in Slots : t # s => worker'[t] = worker[t]
      BY <2>6 DEF ClaimFile, LeaveWorker
    <3>2. Visited \subseteq Visited'
      BY <2>4, <3>1
    <3>3. CASE claims <= NFiles
      <4>1. /\ worker' = [worker EXCEPT ![s] = [at |-> "check", file |-> Sorted[claims]]]
            /\ UNCHANGED finished
        BY <1>5, <2>6, <3>3 DEF ClaimFile, FileAt, dispatchVars
      <4>2. worker'[s].at = "check" /\ worker'[s].file = Sorted[claims]
        BY <4>1
      <4>3. Sorted[claims] \in Visited'
        BY <4>2 DEF Visited
      <4>4. \A p \in Files : p < claims' => p < claims \/ p = claims
        BY <1>2, <3>1 DEF Files
      <4>5. \A p \in Files : p < claims' => Sorted[p] \in Visited'
        BY <2>1, <3>2, <4>3, <4>4
      <4>6. \A t \in Slots : finished'[t] # 1
        BY <2>1, <3>3, <4>1, <1>2
      <4>. QED
        BY <4>5, <4>6
    <3>4. CASE claims > NFiles
      BY <1>2, <2>1, <3>1, <3>2, <3>4 DEF Files
    <3>. QED
      BY <1>2, <3>3, <3>4
  <2>7. CASE SeeCancel(s)
    BY <1>5, <2>7 DEF SeeCancel
  <2>8. CASE ParseFile(s)
    <3>1. /\ \A t \in Slots : t # s => worker'[t] = worker[t]
          /\ UNCHANGED <<cached, unread, claims, finished>>
          /\ worker'[s].at = "make" /\ worker'[s].file = worker[s].file
      BY <2>2, <2>8 DEF ParseFile, dispatchVars
    <3>. QED
      BY <2>3, <2>4, <3>1
  <2>9. CASE ParseFails(s)
    <3>1. /\ \A t \in Slots : t # s => worker'[t] = worker[t]
          /\ UNCHANGED <<cached, claims, finished>>
          /\ unread' = unread \union {worker[s].file}
      BY <2>9 DEF ParseFails, dispatchVars
    <3>. QED
      BY <2>3, <2>4, <3>1
  <2>10. CASE ResolveFile(s)
    BY <1>5, <2>10 DEF ResolveFile
  <2>11. CASE MakeOne(s)
    <3>1. UNCHANGED <<worker, cached, unread, claims, finished>>
      BY <2>11 DEF MakeOne, dispatchVars
    <3>. QED
      BY <2>3, <3>1 DEF Visited
  <2>12. CASE FileDone(s)
    <3>1. /\ \A t \in Slots : t # s => worker'[t] = worker[t]
          /\ UNCHANGED <<unread, claims, finished>>
          /\ cached' = cached \union {worker[s].file}
      BY <1>5, <2>12 DEF FileDone, dispatchVars
    <3>. QED
      BY <2>3, <2>4, <3>1
  <2>. QED
    BY <2>5, <2>6, <2>7, <2>8, <2>9, <2>10, <2>11, <2>12 DEF WorkerStep
<1>. QED
  BY <1>1, <1>3, <1>4, <1>5 DEF FilesInv, ClaimedAreVisited

LEMMA MainKeepsFiles ==
  ASSUME SlotInv, FilesInv, MainStep \/ Cancel \/ UNCHANGED vars PROVE FilesInv'
<1>0. SlotTypes /\ Ownership /\ ReturnInv
  BY DEF SlotInv
<1>1. UNCHANGED <<cached, unread>>
  BY DEF MainStep, DispatchReturns, MergeNext, ExtractEnds, SerialFile, SerialMake,
         RegistryEnds, ResolveEnds, InfraEnds, Fail, Cancel, vars
<1>2. CASE ExtractEnds
  <2>1. CASE phase' = "failed"
    BY <1>1, <2>1 DEF FilesInv, ClaimedAreVisited
  <2>2. CASE phase' = "registry" /\ ~cancelled
    <3>1. phase = "extract" /\ \A s \in Slots : finished[s] = 1
      BY <1>0, <1>2 DEF ExtractEnds, ReturnInv
    <3>2. \A s \in Slots : worker[s].at = "idle"
      BY <1>0, <3>1 DEF Ownership
    <3>3. Visited = cached \union unread
      BY <3>2 DEF Visited
    <3>4. 0 \in Slots
      BY DEF Slots
    <3>5. claims > NFiles
      BY <2>2, <3>1, <3>4 DEF FilesInv, ClaimedAreVisited
    <3>6. \A p \in Files : p < claims
      BY <1>0, <3>5 DEF Files, SlotTypes
    <3>7. \A p \in Files : Sorted[p] \in cached \union unread
      BY <2>2, <3>1, <3>3, <3>6 DEF FilesInv, ClaimedAreVisited
    <3>8. cached \union unread = Files
      BY <3>7, SortedReachesAll DEF FilesInv
    <3>. QED
      BY <1>1, <2>2, <3>8 DEF FilesInv, ClaimedAreVisited
  <2>. QED
    BY <1>2, <2>1, <2>2 DEF ExtractEnds, Fail, SeenCancelled
<1>3. CASE DispatchReturns \/ MergeNext
  <2>1. UNCHANGED <<phase, cancelled, claims, worker, finished>>
    BY <1>3 DEF DispatchReturns, MergeNext, Dispatch!Return, workerVars, dispatchVars
  <2>. QED
    BY <1>1, <2>1 DEF FilesInv, ClaimedAreVisited, Visited
<1>4. CASE Cancel \/ UNCHANGED vars
  <2>1. /\ UNCHANGED <<phase, claims, worker, finished>>
        /\ ~cancelled' => ~cancelled
    BY <1>4 DEF Cancel, vars, workerVars, dispatchVars
  <2>. QED
    BY <1>1, <2>1 DEF FilesInv, ClaimedAreVisited, Visited
<1>5. CASE SerialFile \/ SerialMake \/ RegistryEnds \/ ResolveEnds \/ InfraEnds
  <2>1. /\ phase' # "extract"
        /\ phase' # "failed" => phase \in {"registry", "resolve", "infra"}
    BY <1>5 DEF SerialFile, SerialMake, InSerial, RegistryEnds, ResolveEnds, InfraEnds,
                Fail
  <2>. QED
    BY <1>1, <2>1 DEF FilesInv, ClaimedAreVisited
<1>. QED
  BY <1>2, <1>3, <1>4, <1>5 DEF MainStep

LEMMA FilesInvInit == Init => FilesInv
<1>. SUFFICES ASSUME Init PROVE FilesInv
  OBVIOUS
<1>1. /\ cached = {} /\ unread = {} /\ claims = 1 /\ phase = "extract"
      /\ \A s \in Slots : finished[s] = 0
  BY DEF Init, Dispatch!Init, Dispatch!Indices, Slots
<1>. QED
  BY <1>1 DEF FilesInv, ClaimedAreVisited, Files

LEMMA FilesInvKept == SlotInv /\ FilesInv /\ [Next]_vars => FilesInv'
BY WorkerKeepsFiles, MainKeepsFiles DEF Next

\* DoneIsComplete, for any files and workers and a cancel at any time: no file is left
\* out of a run that is not reported as failed.
THEOREM NoFileLeftOut == Spec => []DoneIsComplete
<1>1. Init => SlotInv /\ FilesInv
  BY SlotInvInit, FilesInvInit
<1>2. SlotInv /\ FilesInv /\ [Next]_vars => (SlotInv /\ FilesInv)'
  BY SlotInvKept, FilesInvKept
<1>3. SlotInv /\ FilesInv => DoneIsComplete
  BY DEF FilesInv, DoneIsComplete
<1>. QED
  BY <1>1, <1>2, <1>3, PTL DEF Spec

(***************************************************************************)
(* The graph is the sequential one. Nodes are known by their names and     *)
(* edges by the names of their ends; LinkInv says that these names stand   *)
(* for something: a name is in a buffer once, and an edge has its ends in  *)
(* its own buffer or in main.                                              *)
(***************************************************************************)
\* An edge by the names of its ends.
Named(nodes, id, q) == \E n \in nodes : n.id = id /\ n.qn = q
Joins(nodes, e, item) ==
  e.type = item.type /\ Named(nodes, e.src, item.from) /\ Named(nodes, e.tgt, item.to)
AllEdges == main.edges \union UNION {local[s].edges : s \in Slots}

\* A buffer has one node of a name, and its edges have their ends in it or in main.
OneName(b) == \A n, m \in b.nodes : n.qn = m.qn => n = m
EndsIn(nodes, b) == \A e \in b.edges : /\ \E n \in nodes : n.id = e.src
                                       /\ \E n \in nodes : n.id = e.tgt
Shape(b) == /\ \A e \in b.edges : e = [src |-> e.src, tgt |-> e.tgt, type |-> e.type]
            /\ IsFiniteSet(b.nodes)
BufferOK(b) == Shape(b) /\ OneName(b) /\ EndsIn(b.nodes \union main.nodes, b)
NoEdgesInv ==
  \A s \in Slots : ~InPass \/ (returned /\ s < merged) => local[s].edges = {}

LinkInv ==
  /\ DOMAIN todo = Slots
  /\ BufferOK(main) /\ \A s \in Slots : BufferOK(local[s])
  /\ NoEdgesInv

LEMMA IdOfIn ==
  ASSUME NEW b, NEW q, Has(b, q)
  PROVE  \E n \in b.nodes : n.qn = q /\ n.id = IdOf(b, q)
BY DEF Has, IdOf

\* What an item does to a buffer: a node is added unless its name is there, an edge if
\* both ends are known.
LEMMA MakeEffect ==
  ASSUME NEW b, NEW item
  PROVE  /\ IsNode(item) =>
              /\ Make(b, item).edges = b.edges
              /\ \/ Has(b, item.from) /\ Make(b, item).nodes = b.nodes
                 \/ /\ ~Has(b, item.from)
                    /\ \E n : /\ n.qn = item.from
                              /\ Make(b, item).nodes = b.nodes \union {n}
         /\ ~IsNode(item) =>
              /\ Make(b, item).nodes = b.nodes
              /\ IF Known(b, item.from) /\ Known(b, item.to) /\ item.from # item.to
                 THEN \E e : /\ e = [src |-> e.src, tgt |-> e.tgt, type |-> e.type]
                             /\ Make(b, item).edges = b.edges \union {e}
                             /\ Joins(b.nodes \union main.nodes, e, item)
                 ELSE Make(b, item).edges = b.edges
<1>1. CASE IsNode(item)
  <2>1. Make(b, item) = Upsert(b, item.from)
    BY <1>1 DEF Make
  <2>. DEFINE n == [qn |-> item.from, id |-> b.next]
  <2>2. CASE Has(b, item.from)
    BY <1>1, <2>1, <2>2 DEF Upsert
  <2>3. CASE ~Has(b, item.from)
    <3>1. Make(b, item).edges = b.edges /\ Make(b, item).nodes = b.nodes \union {n}
      BY <2>1, <2>3 DEF Upsert
    <3>2. n.qn = item.from
      OBVIOUS
    <3>. HIDE DEF n
    <3>. QED
      BY <1>1, <2>3, <3>1, <3>2
  <2>. QED
    BY <2>2, <2>3
<1>2. CASE /\ ~IsNode(item)
           /\ Known(b, item.from) /\ Known(b, item.to) /\ item.from # item.to
  <2>. DEFINE e == [src |-> EndId(b, item.from), tgt |-> EndId(b, item.to), type |-> item.type]
  <2>1. Make(b, item) = InsertEdge(b, e)
    BY <1>2 DEF Make
  <2>2. Make(b, item).nodes = b.nodes /\ Make(b, item).edges = b.edges \union {e}
    BY <2>1 DEF InsertEdge
  <2>3. ASSUME NEW q, Known(b, q) PROVE Named(b.nodes \union main.nodes, EndId(b, q), q)
    BY <2>3, IdOfIn DEF Known, EndId, Named
  <2>4. Joins(b.nodes \union main.nodes, e, item)
    BY <1>2, <2>3 DEF Joins
  <2>5. e = [src |-> e.src, tgt |-> e.tgt, type |-> e.type]
    OBVIOUS
  <2>. HIDE DEF e
  <2>. QED
    BY <1>2, <2>2, <2>4, <2>5
<1>3. CASE /\ ~IsNode(item)
           /\ ~(Known(b, item.from) /\ Known(b, item.to) /\ item.from # item.to)
  BY <1>3 DEF Make
<1>. QED
  BY <1>1, <1>2, <1>3

LEMMA MakeKeepsBuffer ==
  ASSUME NEW b, NEW item, BufferOK(b)
  PROVE  BufferOK(Make(b, item)) /\ b.nodes \subseteq Make(b, item).nodes
<1>. DEFINE c == Make(b, item)
<1>1. CASE IsNode(item) /\ c.nodes = b.nodes
  BY <1>1, MakeEffect DEF BufferOK, Shape, OneName, EndsIn
<1>2. CASE IsNode(item) /\ c.nodes # b.nodes
  <2>1. PICK n : n.qn = item.from /\ c.nodes = b.nodes \union {n}
    BY <1>2, MakeEffect
  <2>2. c.edges = b.edges /\ \A m \in b.nodes : m.qn # item.from
    <3>1. c.edges = b.edges /\ ~Has(b, item.from)
      BY <1>2, MakeEffect
    <3>. QED
      BY <3>1 DEF Has
  <2>. HIDE DEF c
  <2>3. IsFiniteSet(c.nodes)
    BY <2>1, FS_AddElement DEF BufferOK, Shape
  <2>4. Shape(c)
    BY <2>2, <2>3 DEF BufferOK, Shape
  <2>5. OneName(c)
    BY <2>1, <2>2 DEF BufferOK, OneName
  <2>6. EndsIn(c.nodes \union main.nodes, c)
    BY <2>1, <2>2 DEF BufferOK, EndsIn
  <2>7. BufferOK(c)
    BY <2>4, <2>5, <2>6 DEF BufferOK
  <2>. QED
    BY <2>1, <2>7 DEF c
<1>3. CASE ~IsNode(item) /\ c.edges = b.edges
  BY <1>3, MakeEffect DEF BufferOK, Shape, OneName, EndsIn
<1>4. CASE ~IsNode(item) /\ c.edges # b.edges
  <2>1. c.nodes = b.nodes
    BY <1>4, MakeEffect
  <2>2. PICK e : /\ e = [src |-> e.src, tgt |-> e.tgt, type |-> e.type]
                 /\ c.edges = b.edges \union {e}
                 /\ Joins(b.nodes \union main.nodes, e, item)
    BY <1>4, MakeEffect
  <2>. HIDE DEF c
  <2>3. Shape(c)
    BY <2>1, <2>2 DEF BufferOK, Shape
  <2>4. OneName(c)
    BY <2>1 DEF BufferOK, OneName
  <2>5. EndsIn(c.nodes \union main.nodes, c)
    BY <2>1, <2>2 DEF BufferOK, EndsIn, Joins, Named
  <2>6. BufferOK(c)
    BY <2>3, <2>4, <2>5 DEF BufferOK
  <2>. QED
    BY <2>1, <2>6 DEF c
<1>. QED
  BY <1>1, <1>2, <1>3, <1>4

\* More nodes in main take no end away.
LEMMA BufferStays ==
  ASSUME NEW b, BufferOK(b), main.nodes \subseteq main'.nodes
  PROVE  /\ Shape(b) /\ OneName(b)
         /\ EndsIn(b.nodes \union main'.nodes, b)
BY DEF BufferOK, Shape, OneName, EndsIn

\* A name keeps its meaning when a worker's buffer goes into main: the worker's id of a
\* name that main has becomes that of main.
LEMMA RemapNames ==
  ASSUME NEW dst, NEW src, UniqueIn(dst.nodes \union src.nodes), NEW id, NEW q,
         Named(dst.nodes \union src.nodes, id, q)
  PROVE  Named(Merge(dst, src).nodes, Remap(dst, src, id), q)
<1>1. PICK n \in dst.nodes \union src.nodes : n.id = id /\ n.qn = q
  BY DEF Named
<1>2. Merge(dst, src).nodes = dst.nodes \union {m \in src.nodes : ~Has(dst, m.qn)}
  BY DEF Merge
<1>3. CASE n \in src.nodes /\ Has(dst, q)
  <2>1. (CHOOSE m \in src.nodes : m.id = id) = n
    <3>1. \A m \in src.nodes : m.id = id => m = n
      BY <1>1 DEF UniqueIn
    <3>. QED
      BY <1>1, <1>3, <3>1
  <2>2. Remap(dst, src, id) = IdOf(dst, q)
    BY <1>1, <1>3, <2>1 DEF Remap
  <2>. QED
    BY <1>2, <1>3, <2>2, IdOfIn DEF Named
<1>4. CASE ~(n \in src.nodes /\ Has(dst, q))
  <2>1. \A m \in src.nodes : m.id = id => m = n
    BY <1>1 DEF UniqueIn
  <2>2. Remap(dst, src, id) = id
    BY <1>1, <1>4, <2>1 DEF Remap
  <2>3. n \in Merge(dst, src).nodes
    BY <1>1, <1>2, <1>4
  <2>. QED
    BY <1>1, <2>2, <2>3 DEF Named
<1>. QED
  BY <1>3, <1>4

\* The edges after a merge are those of main and those of the worker, as remapped.
LEMMA MergeEdges ==
  ASSUME NEW dst, NEW src
  PROVE  /\ dst.edges \subseteq Merge(dst, src).edges
         /\ \A e \in src.edges : \E f \in Merge(dst, src).edges :
              /\ f.type = e.type
              /\ f.src = Remap(dst, src, e.src) /\ f.tgt = Remap(dst, src, e.tgt)
         /\ \A f \in Merge(dst, src).edges \ dst.edges :
              /\ f = [src |-> f.src, tgt |-> f.tgt, type |-> f.type]
              /\ \E e \in src.edges :
                   /\ f.type = e.type
                   /\ f.src = Remap(dst, src, e.src) /\ f.tgt = Remap(dst, src, e.tgt)
<1>. DEFINE To(e) == [src |-> Remap(dst, src, e.src), tgt |-> Remap(dst, src, e.tgt),
                      type |-> e.type]
<1>1. Merge(dst, src).edges = dst.edges \union {To(e) : e \in src.edges}
  BY DEF Merge
<1>2. \A e \in src.edges :
        /\ To(e) = [src |-> To(e).src, tgt |-> To(e).tgt, type |-> To(e).type]
        /\ To(e).src = Remap(dst, src, e.src) /\ To(e).tgt = Remap(dst, src, e.tgt)
        /\ To(e).type = e.type
  OBVIOUS
<1>. HIDE DEF To
<1>. QED
  BY <1>1, <1>2

LEMMA MergeKeepsBuffer ==
  ASSUME NEW src, BufferOK(main), BufferOK(src), UniqueIn(main.nodes \union src.nodes)
  PROVE  /\ Shape(Merge(main, src)) /\ OneName(Merge(main, src))
         /\ EndsIn(Merge(main, src).nodes, Merge(main, src))
         /\ main.nodes \subseteq Merge(main, src).nodes
<1>. DEFINE c == Merge(main, src)
<1>1. c.nodes = main.nodes \union {m \in src.nodes : ~Has(main, m.qn)}
  BY DEF Merge
<1>2. /\ main.edges \subseteq c.edges
      /\ \A f \in c.edges \ main.edges :
           /\ f = [src |-> f.src, tgt |-> f.tgt, type |-> f.type]
           /\ \E e \in src.edges :
                f.src = Remap(main, src, e.src) /\ f.tgt = Remap(main, src, e.tgt)
  BY MergeEdges
<1>3. ASSUME NEW id, \E n \in src.nodes \union main.nodes : n.id = id
      PROVE  \E n \in c.nodes : n.id = Remap(main, src, id)
  <2>1. PICK n \in src.nodes \union main.nodes : n.id = id
    BY <1>3
  <2>2. Named(main.nodes \union src.nodes, id, n.qn)
    BY <2>1 DEF Named
  <2>3. Named(c.nodes, Remap(main, src, id), n.qn)
    BY <2>2, RemapNames
  <2>. QED
    BY <2>3 DEF Named
<1>. HIDE DEF c
<1>4. EndsIn(c.nodes, c)
  <2>1. ASSUME NEW f \in main.edges
        PROVE  (\E n \in c.nodes : n.id = f.src) /\ (\E n \in c.nodes : n.id = f.tgt)
    BY <1>1 DEF BufferOK, EndsIn
  <2>2. ASSUME NEW f \in c.edges \ main.edges
        PROVE  (\E n \in c.nodes : n.id = f.src) /\ (\E n \in c.nodes : n.id = f.tgt)
    BY <1>2, <1>3 DEF BufferOK, EndsIn
  <2>. QED
    BY <2>1, <2>2 DEF EndsIn
<1>5. OneName(c)
  BY <1>1 DEF BufferOK, OneName, Has
<1>6. IsFiniteSet(c.nodes)
  <2>. DEFINE fresh == {m \in src.nodes : ~Has(main, m.qn)}
  <2>1. fresh \in SUBSET src.nodes /\ IsFiniteSet(src.nodes) /\ IsFiniteSet(main.nodes)
    BY DEF BufferOK, Shape
  <2>2. IsFiniteSet(fresh)
    BY <2>1, FS_Subset
  <2>. HIDE DEF fresh
  <2>3. IsFiniteSet(main.nodes \union fresh)
    BY <2>1, <2>2, FS_Union
  <2>. QED
    BY <1>1, <2>3 DEF fresh
<1>7. Shape(c)
  BY <1>2, <1>6 DEF BufferOK, Shape
<1>. QED
  BY <1>1, <1>4, <1>5, <1>7 DEF c

LEMMA LinkInvInit == Init => LinkInv
<1>. SUFFICES ASSUME Init PROVE LinkInv
  OBVIOUS
<1>1. /\ main.edges = {} /\ main.nodes = {[qn |-> FileQn[f], id |-> f] : f \in Files}
      /\ \A s \in Slots : local[s].nodes = {} /\ local[s].edges = {}
      /\ DOMAIN todo = Slots
  BY DEF Init, EmptyBuffer
<1>2. IsFiniteSet(main.nodes)
  <2>. DEFINE NodeFor == [f \in Files |-> [qn |-> FileQn[f], id |-> f]]
  <2>1. NodeFor \in Surjection(Files, main.nodes)
    BY <1>1 DEF Surjection
  <2>2. IsFiniteSet(Files)
    BY FS_Interval DEF Files
  <2>. HIDE DEF NodeFor
  <2>. QED
    BY <2>1, <2>2, FS_Surjection
<1>3. OneName(main)
  BY <1>1, ParallelPassesAssumption DEF OneName
<1>4. BufferOK(main)
  BY <1>1, <1>2, <1>3 DEF BufferOK, Shape, EndsIn
<1>5. ASSUME NEW s \in Slots PROVE BufferOK(local[s])
  BY <1>1, FS_EmptySet DEF BufferOK, Shape, OneName, EndsIn
<1>6. NoEdgesInv
  BY <1>1 DEF NoEdgesInv
<1>. QED
  BY <1>1, <1>4, <1>5, <1>6 DEF LinkInv

\* A step of the worker of slot s touches its buffer only by making one item.
LEMMA WorkerBuffers ==
  ASSUME SlotInv, LinkInv, NEW s \in Slots, WorkerStep(s)
  PROVE  /\ UNCHANGED main
         /\ DOMAIN todo' = Slots /\ DOMAIN local' = Slots
         /\ \A t \in Slots : t # s => local'[t] = local[t] /\ todo'[t] = todo[t]
         /\ \/ UNCHANGED local
            \/ MakeOne(s) /\ local'[s] = Make(WithShared(local[s]), Head(todo[s]))
<1>1. DOMAIN todo = Slots /\ DOMAIN local = Slots /\ UNCHANGED main
  BY WorkerStepFacts DEF LinkInv, SlotInv, SlotTypes
<1>. QED
  BY <1>1 DEF WorkerStep, EnterWorker, ClaimFile, SeeCancel, ParseFile, ParseFails,
              ResolveFile, MakeOne, FileDone

LEMMA WithSharedSame == \A b : /\ WithShared(b).nodes = b.nodes /\ WithShared(b).edges = b.edges
                               /\ BufferOK(b) => BufferOK(WithShared(b))
BY DEF WithShared, BufferOK, Shape, OneName, EndsIn

LEMMA WorkerKeepsLinks ==
  ASSUME SlotInv, LinkInv, NEW s \in Slots, WorkerStep(s) PROVE LinkInv'
<1>1. /\ InPass /\ ~returned /\ merged = 0
      /\ UNCHANGED <<phase, main, returned, merged>>
  BY WorkerStepFacts DEF SlotInv
<1>2. NoEdgesInv'
  BY <1>1 DEF NoEdgesInv, InPass
<1>3. DOMAIN todo' = Slots
  BY WorkerBuffers
<1>4. BufferOK(main)'
  BY <1>1 DEF LinkInv, BufferOK, Shape, OneName, EndsIn
<1>5. ASSUME NEW t \in Slots PROVE BufferOK(local[t])'
  <2>1. BufferOK(local'[t])
    <3>1. CASE local'[t] = local[t]
      BY <3>1 DEF LinkInv
    <3>2. CASE t = s /\ local'[s] = Make(WithShared(local[s]), Head(todo[s]))
      BY <3>2, WithSharedSame, MakeKeepsBuffer DEF LinkInv
    <3>. QED
      BY <3>1, <3>2, WorkerBuffers
  <2>. QED
    BY <1>1, <2>1 DEF BufferOK, Shape, OneName, EndsIn
<1>. QED
  BY <1>2, <1>3, <1>4, <1>5 DEF LinkInv

\* A merge as it changes the buffers.
LEMMA MergeBuffers ==
  ASSUME IInv, LinkInv, MergeNext
  PROVE  /\ merged \in Slots /\ main' = Merge(main, local[merged])
         /\ local'[merged] = EmptyBuffer /\ DOMAIN local' = Slots
         /\ \A t \in Slots : t # merged => local'[t] = local[t]
         /\ BufferOK(main) /\ \A t \in Slots : BufferOK(local[t])
         /\ UniqueIn(AllNodes) /\ UniqueIn(main.nodes \union local[merged].nodes)
         /\ UNCHANGED <<phase, returned, todo, worker, cached, cancelled, claims, finished, serial>>
<1>1. /\ merged \in 0..NSlots /\ merged < NSlots /\ DOMAIN local = Slots
      /\ main' = Merge(main, local[merged])
      /\ local' = [local EXCEPT ![merged] = EmptyBuffer]
      /\ UNCHANGED <<phase, returned, todo, worker, cached, cancelled, claims, finished, serial>>
  BY DEF IInv, SlotInv, SlotTypes, MergeNext, dispatchVars
<1>2. merged \in Slots
  BY <1>1 DEF Slots
<1>3. UniqueIn(AllNodes)
  BY UniqueMeans DEF IInv
<1>4. UniqueIn(main.nodes \union local[merged].nodes)
  BY <1>2, <1>3 DEF UniqueIn, AllNodes
<1>. QED
  BY <1>1, <1>2, <1>3, <1>4 DEF LinkInv

LEMMA MainKeepsLinks ==
  ASSUME IInv, LinkInv, MainStep \/ Cancel \/ UNCHANGED vars PROVE LinkInv'
<1>1. ASSUME UNCHANGED <<local, todo>>, NoEdgesInv', main.nodes \subseteq main'.nodes,
             Shape(main'), OneName(main'), EndsIn(main'.nodes, main')
      PROVE  LinkInv'
  <2>1. BufferOK(main)'
    BY <1>1 DEF BufferOK, Shape, OneName, EndsIn
  <2>2. ASSUME NEW t \in Slots PROVE BufferOK(local[t])'
    <3>1. BufferOK(local[t])
      BY DEF LinkInv
    <3>. QED
      BY <1>1, <3>1, BufferStays DEF BufferOK, Shape, OneName, EndsIn
  <2>. QED
    BY <1>1, <2>1, <2>2 DEF LinkInv
<1>2. ASSUME UNCHANGED <<local, todo>>, NoEdgesInv', main'.nodes = main.nodes,
             main'.edges = main.edges
      PROVE  LinkInv'
  <2>1. Shape(main') /\ OneName(main') /\ EndsIn(main'.nodes, main')
    BY <1>2 DEF LinkInv, BufferOK, Shape, OneName, EndsIn
  <2>. QED
    BY <1>1, <1>2, <2>1
<1>3. CASE DispatchReturns
  <2>1. merged = 0 /\ UNCHANGED <<main, local, todo, phase, merged>> /\ InPass
    BY <1>3 DEF DispatchReturns, Dispatch!Return, workerVars, IInv, SlotInv, ReturnInv, SlotTypes
  <2>2. NoEdgesInv'
    BY <2>1 DEF NoEdgesInv, InPass, Slots
  <2>. QED
    BY <1>2, <2>1, <2>2
<1>4. CASE MergeNext
  <2>1. /\ merged \in Slots /\ main' = Merge(main, local[merged])
        /\ local'[merged] = EmptyBuffer
        /\ \A t \in Slots : t # merged => local'[t] = local[t]
        /\ BufferOK(main) /\ \A t \in Slots : BufferOK(local[t])
        /\ UniqueIn(main.nodes \union local[merged].nodes)
        /\ UNCHANGED <<phase, returned, todo>>
    BY <1>4, MergeBuffers
  <2>2. /\ Shape(main') /\ OneName(main') /\ EndsIn(main'.nodes, main')
        /\ main.nodes \subseteq main'.nodes
    BY <2>1, MergeKeepsBuffer
  <2>3. BufferOK(main)'
    BY <2>2 DEF BufferOK, Shape, OneName, EndsIn
  <2>4. ASSUME NEW t \in Slots PROVE BufferOK(local[t])'
    <3>1. CASE t = merged
      <4>1. local'[t].nodes = {} /\ local'[t].edges = {}
        BY <2>1, <3>1 DEF EmptyBuffer
      <4>2. IsFiniteSet(local'[t].nodes)
        BY <4>1, FS_EmptySet
      <4>. QED
        BY <4>1, <4>2 DEF BufferOK, Shape, OneName, EndsIn
    <3>2. CASE t # merged
      <4>1. BufferOK(local[t]) /\ local'[t] = local[t]
        BY <2>1, <3>2
      <4>. QED
        BY <2>2, <4>1, BufferStays DEF BufferOK, Shape, OneName, EndsIn
    <3>. QED
      BY <3>1, <3>2
  <2>5. NoEdgesInv'
    <3>1. merged' = merged + 1 /\ InPass /\ returned
      BY <1>4 DEF MergeNext
    <3>2. \A s \in Slots : s < merged' => s < merged \/ s = merged
      BY <2>1, <3>1 DEF Slots
    <3>. QED
      BY <2>1, <3>1, <3>2 DEF NoEdgesInv, InPass, LinkInv, EmptyBuffer
  <2>. QED
    BY <2>1, <2>3, <2>4, <2>5 DEF LinkInv
<1>5. CASE SerialMake
  <2>1. /\ main' = Make(main, Head(serial.todo)) /\ ~InPass
        /\ UNCHANGED <<local, todo, phase, returned, merged>>
    BY <1>5 DEF SerialMake, InSerial, InPass, workerVars, dispatchVars
  <2>2. BufferOK(main') /\ main.nodes \subseteq main'.nodes
    BY <2>1, MakeKeepsBuffer DEF LinkInv
  <2>3. Shape(main') /\ OneName(main') /\ EndsIn(main'.nodes, main')
    BY <2>2 DEF BufferOK, EndsIn
  <2>4. NoEdgesInv'
    BY <2>1 DEF NoEdgesInv, InPass, LinkInv
  <2>. QED
    BY <1>1, <2>1, <2>2, <2>3, <2>4
<1>6. CASE ExtractEnds \/ ResolveEnds
  <2>1. /\ merged = NSlots /\ returned /\ InPass /\ ~(phase' \in {"extract", "resolve"})
        /\ UNCHANGED <<local, todo>>
        /\ main'.nodes = main.nodes /\ main'.edges = main.edges
    BY <1>6 DEF ExtractEnds, ResolveEnds, Fail, Synced, workerVars, InPass, IInv, SlotInv, ReturnInv
  <2>2. \A s \in Slots : local[s].edges = {}
    BY <2>1 DEF LinkInv, NoEdgesInv, Slots
  <2>3. NoEdgesInv'
    BY <2>1, <2>2 DEF NoEdgesInv
  <2>. QED
    BY <1>2, <2>1, <2>3
<1>7. CASE RegistryEnds \/ SerialFile \/ InfraEnds
  <2>1. ~InPass /\ UNCHANGED <<local, todo, main>>
    BY <1>7 DEF RegistryEnds, SerialFile, InfraEnds, InSerial, Fail, workerVars, InPass
  <2>2. \A s \in Slots : local[s].edges = {}
    BY <2>1 DEF LinkInv, NoEdgesInv
  <2>3. NoEdgesInv'
    BY <2>1, <2>2 DEF NoEdgesInv
  <2>. QED
    BY <1>2, <2>1, <2>3
<1>8. CASE Cancel \/ UNCHANGED vars
  <2>1. UNCHANGED <<local, todo, main, phase, returned, merged>>
    BY <1>8 DEF Cancel, vars, workerVars, dispatchVars
  <2>2. NoEdgesInv'
    BY <2>1 DEF NoEdgesInv, InPass, LinkInv
  <2>. QED
    BY <1>2, <2>1, <2>2
<1>. QED
  BY <1>3, <1>4, <1>5, <1>6, <1>7, <1>8 DEF MainStep

LEMMA LinkInvKept == IInv /\ LinkInv /\ [Next]_vars => LinkInv'
BY WorkerKeepsLinks, MainKeepsLinks DEF Next, IInv

\* What was said by names before a merge is said after it, and nothing else.
LEMMA MergeCarries ==
  ASSUME IInv, LinkInv, MergeNext
  PROVE  /\ AllNodes' \subseteq AllNodes
         /\ \A q : (\E n \in AllNodes : n.qn = q) => (\E n \in AllNodes' : n.qn = q)
         /\ \A e \in AllEdges : \E f \in AllEdges' :
              \A item : Joins(AllNodes, e, item) => Joins(AllNodes', f, item)
         /\ \A f \in AllEdges' : \E e \in AllEdges :
              \A item : Joins(AllNodes, e, item) => Joins(AllNodes', f, item)
<1>. DEFINE src == local[merged]
            New == AllNodes'
<1>1. /\ merged \in Slots /\ main' = Merge(main, src)
      /\ local'[merged] = EmptyBuffer
      /\ \A t \in Slots : t # merged => local'[t] = local[t]
      /\ BufferOK(main) /\ \A t \in Slots : BufferOK(local[t])
      /\ UniqueIn(AllNodes) /\ UniqueIn(main.nodes \union src.nodes)
  BY MergeBuffers
<1>2. main'.nodes = main.nodes \union {m \in src.nodes : ~Has(main, m.qn)}
  BY <1>1 DEF Merge
<1>3. /\ main.edges \subseteq main'.edges
      /\ \A e \in src.edges : \E f \in main'.edges :
           /\ f.type = e.type
           /\ f.src = Remap(main, src, e.src) /\ f.tgt = Remap(main, src, e.tgt)
      /\ \A f \in main'.edges \ main.edges : \E e \in src.edges :
           /\ f.type = e.type
           /\ f.src = Remap(main, src, e.src) /\ f.tgt = Remap(main, src, e.tgt)
  BY <1>1, MergeEdges
<1>4. /\ EmptyBuffer.nodes = {} /\ EmptyBuffer.edges = {}
  BY DEF EmptyBuffer
<1>5. New \subseteq AllNodes
  BY <1>1, <1>2, <1>4 DEF AllNodes
<1>6. \A t \in Slots : t # merged => main.nodes \union local[t].nodes \subseteq New
  BY <1>1, <1>2 DEF AllNodes
<1>7. main'.nodes \subseteq New
  BY DEF AllNodes
<1>8. ASSUME NEW n \in AllNodes PROVE \E m \in New : m.qn = n.qn
  <2>1. CASE n \in src.nodes
    <3>1. CASE Has(main, n.qn)
      BY <1>2, <1>7, <3>1 DEF Has
    <3>2. CASE ~Has(main, n.qn)
      BY <1>2, <1>7, <2>1, <3>2
    <3>. QED
      BY <3>1, <3>2
  <2>2. CASE n \notin src.nodes
    BY <1>1, <1>2, <1>6, <1>7, <2>2 DEF AllNodes
  <2>. QED
    BY <2>1, <2>2
\* An id of a node has one name.
<1>9. ASSUME NEW nodes, nodes \subseteq AllNodes, NEW id, \E n \in nodes : n.id = id,
             NEW q, Named(AllNodes, id, q)
      PROVE  Named(nodes, id, q)
  BY <1>1, <1>9 DEF UniqueIn, Named
<1>10. ASSUME NEW id, NEW q, Named(AllNodes, id, q), \E n \in src.nodes \union main.nodes : n.id = id
       PROVE  Named(New, Remap(main, src, id), q)
  <2>1. main.nodes \union src.nodes \subseteq AllNodes
    BY <1>1 DEF AllNodes
  <2>2. Named(main.nodes \union src.nodes, id, q)
    BY <1>9, <1>10, <2>1
  <2>3. Named(main'.nodes, Remap(main, src, id), q)
    BY <1>1, <2>2, RemapNames
  <2>. QED
    BY <1>7, <2>3 DEF Named
<1>11. ASSUME NEW t \in Slots, t # merged, NEW id, NEW q, Named(AllNodes, id, q),
              \E n \in local[t].nodes \union main.nodes : n.id = id
       PROVE  Named(New, id, q)
  <2>1. main.nodes \union local[t].nodes \subseteq AllNodes
    BY DEF AllNodes
  <2>2. Named(main.nodes \union local[t].nodes, id, q)
    BY <1>9, <1>11, <2>1
  <2>. QED
    BY <1>6, <1>11, <2>2 DEF Named
<1>12. ASSUME NEW id, NEW q, Named(AllNodes, id, q), \E n \in main.nodes : n.id = id
       PROVE  Named(New, id, q)
  <2>1. main.nodes \subseteq AllNodes
    BY DEF AllNodes
  <2>2. Named(main.nodes, id, q)
    BY <1>9, <1>12, <2>1
  <2>. QED
    BY <1>2, <1>7, <2>2 DEF Named
<1>. HIDE DEF src
<1>13. ASSUME NEW e \in src.edges, NEW f, f.type = e.type, f.src = Remap(main, src, e.src),
              f.tgt = Remap(main, src, e.tgt), NEW item, Joins(AllNodes, e, item)
       PROVE  Joins(New, f, item)
  <2>1. /\ \E n \in src.nodes \union main.nodes : n.id = e.src
        /\ \E n \in src.nodes \union main.nodes : n.id = e.tgt
    BY <1>1 DEF BufferOK, EndsIn, src
  <2>. QED
    BY <1>10, <1>13, <2>1 DEF Joins
<1>14. ASSUME NEW e \in main.edges, NEW item, Joins(AllNodes, e, item) PROVE Joins(New, e, item)
  <2>1. (\E n \in main.nodes : n.id = e.src) /\ (\E n \in main.nodes : n.id = e.tgt)
    BY <1>1 DEF BufferOK, EndsIn
  <2>. QED
    BY <1>12, <1>14, <2>1 DEF Joins
<1>15. ASSUME NEW t \in Slots, t # merged, NEW e \in local[t].edges, NEW item,
              Joins(AllNodes, e, item)
       PROVE  Joins(New, e, item)
  <2>1. /\ \E n \in local[t].nodes \union main.nodes : n.id = e.src
        /\ \E n \in local[t].nodes \union main.nodes : n.id = e.tgt
    BY <1>1 DEF BufferOK, EndsIn
  <2>. QED
    BY <1>11, <1>15, <2>1 DEF Joins
<1>16. ASSUME NEW e \in AllEdges
       PROVE  \E f \in AllEdges' : \A item : Joins(AllNodes, e, item) => Joins(New, f, item)
  <2>1. CASE e \in main.edges
    <3>1. e \in AllEdges'
      BY <1>3, <2>1 DEF AllEdges
    <3>. QED
      BY <1>14, <2>1, <3>1
  <2>2. CASE e \in src.edges
    <3>1. PICK f \in main'.edges : /\ f.type = e.type
             /\ f.src = Remap(main, src, e.src) /\ f.tgt = Remap(main, src, e.tgt)
      BY <1>3, <2>2
    <3>2. f \in AllEdges'
      BY DEF AllEdges
    <3>. QED
      BY <1>13, <2>2, <3>1, <3>2
  <2>3. ASSUME NEW t \in Slots, t # merged, e \in local[t].edges
        PROVE  \E f \in AllEdges' : \A item : Joins(AllNodes, e, item) => Joins(New, f, item)
    <3>1. e \in AllEdges'
      BY <1>1, <2>3 DEF AllEdges
    <3>. QED
      BY <1>15, <2>3, <3>1
  <2>. QED
    BY <2>1, <2>2, <2>3 DEF AllEdges, src
<1>17. ASSUME NEW f \in AllEdges'
       PROVE  \E e \in AllEdges : \A item : Joins(AllNodes, e, item) => Joins(New, f, item)
  <2>1. CASE f \in main.edges
    <3>1. f \in AllEdges
      BY <2>1 DEF AllEdges
    <3>. QED
      BY <1>14, <2>1, <3>1
  <2>2. CASE f \in main'.edges \ main.edges
    <3>1. PICK e \in src.edges : /\ f.type = e.type
             /\ f.src = Remap(main, src, e.src) /\ f.tgt = Remap(main, src, e.tgt)
      BY <1>3, <2>2
    <3>2. e \in AllEdges
      BY <1>1 DEF AllEdges, src
    <3>. QED
      BY <1>13, <3>1, <3>2
  <2>3. ASSUME NEW t \in Slots, t # merged, f \in local[t].edges
        PROVE  \E e \in AllEdges : \A item : Joins(AllNodes, e, item) => Joins(New, f, item)
    <3>1. f \in AllEdges
      BY <2>3 DEF AllEdges
    <3>. QED
      BY <1>15, <2>3, <3>1
  <2>. QED
    BY <1>1, <1>4, <2>1, <2>2, <2>3 DEF AllEdges
<1>. QED
  BY <1>5, <1>8, <1>16, <1>17

(***************************************************************************)
(* How far the passes are, while nobody has cancelled: what has been       *)
(* claimed and is not at hand has been made, and nothing else has.         *)
(***************************************************************************)
NamesOf(fs) ==
  {FileQn[f] : f \in Files} \union {item.from : item \in {i \in Items(fs) : IsNode(i)}}

\* A node item has its node, an edge item between known names its edge.
Linked(item) == \E e \in AllEdges : Joins(AllNodes, e, item)
Made(item, names) ==
  IF IsNode(item)
  THEN \E n \in AllNodes : n.qn = item.from
  ELSE item.from # item.to /\ item.from \in names /\ item.to \in names => Linked(item)
AllMade(list, names) == \A i \in DOMAIN list : Made(list[i], names)

\* Extraction cannot know which files will be parsed.
Target == IF phase = "extract" THEN NamesOf(Files) ELSE NamesOf(cached)
WorkOf(f) == IF phase = "extract" THEN Extracts[f] ELSE Resolves[f]
Rest(list, k) == SubSeq(list, k + 1, Len(list))

\* Nodes and edges are of the files that have been or are being looked at.
Seen == cached \union {worker[s].file : s \in {t \in Slots : worker[t].at = "make"}}
NodesSeen == \A n \in AllNodes : n.qn \in NamesOf(Seen)
EdgesSeen ==
  \A e \in AllEdges : \E item \in Items(Seen) :
    ~IsNode(item) /\ item.from # item.to /\ Joins(AllNodes, e, item)

\* A worker has made the first k items of its file, with the nodes in its own buffer.
WorkerAt(s) ==
  worker[s].at = "make" =>
    /\ phase = "resolve" => worker[s].file \in cached
    /\ \E k \in 0..Len(WorkOf(worker[s].file)) :
         /\ todo[s] = Rest(WorkOf(worker[s].file), k)
         /\ \A i \in 1..k :
              /\ Made(WorkOf(worker[s].file)[i], Target)
              /\ IsNode(WorkOf(worker[s].file)[i]) =>
                   Has(local[s], WorkOf(worker[s].file)[i].from)

\* A serial pass has made the files before the last one, and the first k items of it.
SerialAt ==
  InSerial =>
    /\ serial.file \in 1..(NFiles + 1)
    /\ serial.file = 1 => serial.todo = <<>>
    /\ \A f \in Files : f < serial.file - 1 => AllMade(SerialWork(f), Target)
    /\ serial.file > 1 =>
         \E k \in 0..Len(SerialWork(serial.file - 1)) :
           /\ serial.todo = Rest(SerialWork(serial.file - 1), k)
           /\ \A i \in 1..k : Made(SerialWork(serial.file - 1)[i], Target)

\* Main has the files, and after extraction what it has made.
MainHas ==
  /\ \A f \in Files : Has(main, FileQn[f])
  /\ phase # "extract" =>
       \A f \in cached : \A i \in DOMAIN Extracts[f] :
         IsNode(Extracts[f][i]) => Has(main, Extracts[f][i].from)

ClaimedAreMade ==
  phase = "resolve" =>
    /\ \A f \in cached : f < claims =>
         \/ AllMade(Resolves[f], Target)
         \/ \E s \in Slots : worker[s].at \in {"check", "make"} /\ worker[s].file = f
    /\ \A s \in Slots : finished[s] = 1 => claims > NFiles

PassesMade ==
  \A f \in cached :
    /\ AllMade(Extracts[f], NamesOf(Files))
    /\ phase \in {"resolve", "infra", "done"} => AllMade(Registers[f], Target)
    /\ phase \in {"infra", "done"} => AllMade(Resolves[f], Target)
    /\ phase = "done" => AllMade(Infra[f], Target)

ProgressInv ==
  /\ phase = "done" => ~cancelled
  /\ ~cancelled =>
       /\ NodesSeen /\ EdgesSeen
       /\ \A s \in Slots : WorkerAt(s)
       /\ SerialAt /\ MainHas /\ ClaimedAreMade /\ PassesMade

LEMMA PassFacts ==
  /\ Passes[1] = Extracts /\ Passes[2] = Registers /\ Passes[3] = Resolves /\ Passes[4] = Infra
  /\ \A p \in 1..4, f \in Files : Passes[p][f] \in Seq(AllItems)
BY ParallelPassesAssumption DEF Passes

LEMMA ItemsMean ==
  ASSUME NEW fs, fs \subseteq Files, NEW item
  PROVE  item \in Items(fs) <=>
           \E p \in 1..4, f \in fs : \E i \in DOMAIN Passes[p][f] : item = Passes[p][f][i]
<1>1. \A p \in 1..4, f \in fs :
        ItemsOf(Passes[p], f) = {Passes[p][f][i] : i \in DOMAIN Passes[p][f]}
  BY PassFacts DEF ItemsOf
<1>2. item \in Items(fs) <=> \E p \in 1..4, f \in fs : item \in ItemsOf(Passes[p], f)
  BY DEF Items
<1>. QED
  BY <1>1, <1>2

LEMMA NamesMean ==
  ASSUME NEW fs, fs \subseteq Files, NEW q
  PROVE  q \in NamesOf(fs) <=>
           IsFileName(q) \/ \E p \in 1..4, f \in fs : NodeIn(Passes[p][f], q)
BY ItemsMean DEF NamesOf, IsFileName, NodeIn

\* Where the end of an edge comes from, if any of the files fs makes it.
LEMMA EndIsMade ==
  ASSUME EndsAreMadeBefore, NEW p \in 1..4, NEW f \in Files, NEW i \in DOMAIN Passes[p][f],
         ~IsNode(Passes[p][f][i]),
         NEW q \in {Passes[p][f][i].from, Passes[p][f][i].to},
         NEW fs, fs \subseteq Files, q \in NamesOf(fs)
  PROVE  \/ IsFileName(q)
         \/ MadeBefore(Passes[p][f], i, q)
         \/ \E r \in 1..(p - 1), g \in fs : NodeIn(Passes[r][g], q)
<1>1. \/ IsFileName(q)
      \/ MadeBefore(Passes[p][f], i, q)
      \/ \A r \in p..4, g \in Files : ~NodeIn(Passes[r][g], q)
  BY DEF EndsAreMadeBefore
<1>2. IsFileName(q) \/ \E r \in 1..4, g \in fs : NodeIn(Passes[r][g], q)
  BY NamesMean
<1>3. \A r \in 1..4 : r \in 1..(p - 1) \/ r \in p..4
  OBVIOUS
<1>. QED
  BY <1>1, <1>2, <1>3

LEMMA RestFacts ==
  ASSUME NEW S, NEW list \in Seq(S), NEW k \in 0..Len(list)
  PROVE  /\ Rest(list, k) = <<>> => k = Len(list)
         /\ Rest(list, k) # <<>> =>
              /\ k + 1 \in DOMAIN list /\ k + 1 \in 0..Len(list)
              /\ Head(Rest(list, k)) = list[k + 1]
              /\ Tail(Rest(list, k)) = Rest(list, k + 1)
         /\ Rest(list, 0) = list
<1>. DEFINE rest == SubSeq(list, k + 1, Len(list))
<1>1. /\ rest \in Seq(S) /\ Len(rest) = Len(list) - k
      /\ \A i \in 1..(Len(list) - k) : rest[i] = list[k + i]
  OBVIOUS
<1>2. ASSUME rest # <<>>
      PROVE  /\ k + 1 \in DOMAIN list /\ k + 1 \in 0..Len(list)
             /\ Head(rest) = list[k + 1]
             /\ Tail(rest) = SubSeq(list, (k + 1) + 1, Len(list))
  <2>1. k < Len(list)
    BY <1>1, <1>2
  <2>2. Head(rest) = list[k + 1]
    BY <1>1, <1>2, <2>1
  <2>. DEFINE one == Tail(rest)
              two == SubSeq(list, (k + 1) + 1, Len(list))
  <2>3. one \in Seq(S) /\ two \in Seq(S) /\ Len(one) = Len(two)
    BY <1>1, <1>2, <2>1
  <2>4. \A i \in 1..Len(one) : one[i] = two[i]
    BY <1>1, <1>2, <2>1
  <2>. HIDE DEF one, two
  <2>5. one = two
    BY <2>3, <2>4
  <2>. QED
    BY <2>1, <2>2, <2>5 DEF one, two
<1>3. SubSeq(list, 1, Len(list)) = list
  OBVIOUS
<1>. HIDE DEF rest
<1>4. rest = <<>> => k = Len(list)
  <2>1. rest = <<>> => Len(rest) = 0
    OBVIOUS
  <2>. QED
    BY <1>1, <2>1
<1>5. /\ Rest(list, k) = rest /\ Rest(list, k + 1) = SubSeq(list, (k + 1) + 1, Len(list))
      /\ Rest(list, 0) = SubSeq(list, 1, Len(list))
  BY DEF Rest, rest
<1>. QED
  BY <1>2, <1>3, <1>4, <1>5

\* The item brings nothing but its node or edge.
OnlyAdds(item) ==
  /\ AllNodes \subseteq AllNodes' /\ AllEdges \subseteq AllEdges'
  /\ \A n \in AllNodes' : n \in AllNodes \/ (IsNode(item) /\ n.qn = item.from)
  /\ \A e \in AllEdges' : \/ e \in AllEdges
                          \/ ~IsNode(item) /\ item.from # item.to /\ Joins(AllNodes', e, item)

LEMMA MakeAddsOnly ==
  ASSUME NEW b, NEW item
  PROVE  LET c == Make(b, item)
         IN  /\ b.nodes \subseteq c.nodes /\ b.edges \subseteq c.edges
             /\ \A n \in c.nodes : n \in b.nodes \/ (IsNode(item) /\ n.qn = item.from)
             /\ \A e \in c.edges : \/ e \in b.edges
                                   \/ /\ ~IsNode(item) /\ item.from # item.to
                                      /\ Joins(b.nodes \union main.nodes, e, item)
<1>. DEFINE c == Make(b, item)
<1>1. CASE IsNode(item)
  <2>1. /\ c.edges = b.edges
        /\ c.nodes = b.nodes \/ \E n : n.qn = item.from /\ c.nodes = b.nodes \union {n}
    BY <1>1, MakeEffect
  <2>. HIDE DEF c
  <2>. QED
    BY <1>1, <2>1 DEF c
<1>2. CASE ~IsNode(item)
  <2>1. /\ c.nodes = b.nodes
        /\ \/ c.edges = b.edges
           \/ item.from # item.to /\ \E e : /\ c.edges = b.edges \union {e}
                                          /\ Joins(b.nodes \union main.nodes, e, item)
    BY <1>2, MakeEffect
  <2>. HIDE DEF c
  <2>. QED
    BY <1>2, <2>1 DEF c
<1>. QED
  BY <1>1, <1>2

\* The item is made if its ends are known, wherever the buffer is.
LEMMA MakeMakes ==
  ASSUME NEW b, NEW item, NEW names,
         ~IsNode(item) /\ item.from # item.to /\ item.from \in names /\ item.to \in names =>
           Known(b, item.from) /\ Known(b, item.to),
         Make(b, item).nodes \subseteq AllNodes', main.nodes \subseteq AllNodes',
         Make(b, item).edges \subseteq AllEdges'
  PROVE  /\ Made(item, names)'
         /\ IsNode(item) => Has(Make(b, item), item.from)
<1>1. CASE IsNode(item)
  <2>1. \E n \in Make(b, item).nodes : n.qn = item.from
    <3>1. \/ Has(b, item.from) /\ Make(b, item).nodes = b.nodes
          \/ \E n : n.qn = item.from /\ Make(b, item).nodes = b.nodes \union {n}
      BY <1>1, MakeEffect
    <3>. QED
      BY <3>1 DEF Has
  <2>. QED
    BY <1>1, <2>1 DEF Made, Has
<1>2. CASE ~IsNode(item)
  <2>1. SUFFICES ASSUME item.from # item.to, item.from \in names, item.to \in names
                 PROVE  Linked(item)'
    BY <1>2 DEF Made
  <2>2. PICK e \in Make(b, item).edges : Joins(b.nodes \union main.nodes, e, item)
    BY <1>2, <2>1, MakeEffect
  <2>3. b.nodes \union main.nodes \subseteq AllNodes'
    BY <1>2, MakeEffect
  <2>4. Joins(AllNodes', e, item)
    BY <2>2, <2>3 DEF Joins, Named
  <2>. QED
    BY <2>2, <2>4 DEF Linked
<1>. QED
  BY <1>1, <1>2

LEMMA WorkerAddsOnly ==
  ASSUME SlotInv, LinkInv, NEW s \in Slots, WorkerStep(s)
  PROVE  IF MakeOne(s) THEN OnlyAdds(Head(todo[s])) ELSE UNCHANGED <<AllNodes, AllEdges>>
<1>. DEFINE item == Head(todo[s])
<1>1. /\ UNCHANGED main
      /\ \A t \in Slots : t # s => local'[t] = local[t]
  BY WorkerBuffers
<1>2. CASE MakeOne(s)
  <2>1. local'[s] = Make(WithShared(local[s]), item)
    BY <1>2 DEF MakeOne, SlotInv, SlotTypes
  <2>2. /\ local[s].nodes \subseteq local'[s].nodes /\ local[s].edges \subseteq local'[s].edges
        /\ \A n \in local'[s].nodes : n \in local[s].nodes \/ (IsNode(item) /\ n.qn = item.from)
        /\ \A e \in local'[s].edges :
             \/ e \in local[s].edges
             \/ /\ ~IsNode(item) /\ item.from # item.to
                /\ Joins(local[s].nodes \union main.nodes, e, item)
    <3>. DEFINE b == WithShared(local[s])
    <3>1. b.nodes = local[s].nodes /\ b.edges = local[s].edges /\ local'[s] = Make(b, item)
      BY <2>1, WithSharedSame
    <3>. HIDE DEF b, item
    <3>. DEFINE c == Make(b, item)
    <3>2. /\ b.nodes \subseteq c.nodes /\ b.edges \subseteq c.edges
          /\ \A n \in c.nodes : n \in b.nodes \/ (IsNode(item) /\ n.qn = item.from)
          /\ \A e \in c.edges :
               \/ e \in b.edges
               \/ /\ ~IsNode(item) /\ item.from # item.to
                  /\ Joins(b.nodes \union main.nodes, e, item)
      BY MakeAddsOnly
    <3>3. c = local'[s]
      BY <3>1
    <3>. HIDE DEF c
    <3>. QED
      BY <3>1, <3>2, <3>3
  <2>. HIDE DEF item
  <2>3. AllNodes \subseteq AllNodes' /\ AllEdges \subseteq AllEdges'
    BY <1>1, <2>2 DEF AllNodes, AllEdges
  <2>4. \A n \in AllNodes' : n \in AllNodes \/ (IsNode(item) /\ n.qn = item.from)
    BY <1>1, <2>2 DEF AllNodes
  <2>5. local[s].nodes \union main.nodes \subseteq AllNodes'
    BY <1>1, <2>2 DEF AllNodes
  <2>6. \A e \in AllEdges' :
          \/ e \in AllEdges
          \/ /\ ~IsNode(item) /\ item.from # item.to
             /\ Joins(local[s].nodes \union main.nodes, e, item)
    BY <1>1, <2>2 DEF AllEdges
  <2>7. \A e : Joins(local[s].nodes \union main.nodes, e, item) => Joins(AllNodes', e, item)
    BY <2>5 DEF Joins, Named
  <2>8. OnlyAdds(item)
    BY <2>3, <2>4, <2>6, <2>7 DEF OnlyAdds
  <2>. QED
    BY <1>2, <2>8 DEF item
<1>3. CASE ~MakeOne(s)
  BY <1>1, <1>3, WorkerBuffers DEF AllNodes, AllEdges
<1>. QED
  BY <1>2, <1>3

LEMMA SerialAddsOnly ==
  ASSUME SerialMake PROVE OnlyAdds(Head(serial.todo))
<1>. DEFINE item == Head(serial.todo)
<1>1. main' = Make(main, item) /\ UNCHANGED local
  BY DEF SerialMake, workerVars
<1>2. /\ main.nodes \subseteq main'.nodes /\ main.edges \subseteq main'.edges
      /\ \A n \in main'.nodes : n \in main.nodes \/ (IsNode(item) /\ n.qn = item.from)
      /\ \A e \in main'.edges :
           \/ e \in main.edges
           \/ ~IsNode(item) /\ item.from # item.to /\ Joins(main.nodes \union main.nodes, e, item)
  BY <1>1, MakeAddsOnly
<1>. HIDE DEF item
<1>3. AllNodes \subseteq AllNodes' /\ AllEdges \subseteq AllEdges' /\ main.nodes \subseteq AllNodes'
  BY <1>1, <1>2 DEF AllNodes, AllEdges
<1>4. \A n \in AllNodes' : n \in AllNodes \/ (IsNode(item) /\ n.qn = item.from)
  BY <1>1, <1>2 DEF AllNodes
<1>5. \A e : Joins(main.nodes \union main.nodes, e, item) => Joins(AllNodes', e, item)
  BY <1>3 DEF Joins, Named
<1>6. \A e \in AllEdges' : \/ e \in AllEdges
                           \/ ~IsNode(item) /\ item.from # item.to /\ Joins(AllNodes', e, item)
  BY <1>1, <1>2, <1>5 DEF AllEdges
<1>7. OnlyAdds(item)
  BY <1>3, <1>4, <1>6 DEF OnlyAdds
<1>. QED
  BY <1>7 DEF item

\* The other steps of the main thread leave what the buffers have.
LEMMA MainLeaves ==
  ASSUME \/ DispatchReturns \/ ExtractEnds \/ SerialFile \/ RegistryEnds \/ ResolveEnds
         \/ InfraEnds \/ Cancel \/ UNCHANGED vars
  PROVE  UNCHANGED <<local, main.nodes, AllNodes, AllEdges>>
<1>1. UNCHANGED local /\ main'.nodes = main.nodes /\ main'.edges = main.edges
  BY DEF DispatchReturns, ExtractEnds, SerialFile, RegistryEnds, ResolveEnds, InfraEnds,
         Cancel, Fail, Synced, vars, workerVars
<1>. QED
  BY <1>1 DEF AllNodes, AllEdges

\* What was made stays made.
LEMMA MadeStays ==
  ASSUME IInv, LinkInv, [Next]_vars, NEW item, NEW names, Made(item, names)
  PROVE  Made(item, names)'
<1>1. ASSUME AllNodes \subseteq AllNodes', AllEdges \subseteq AllEdges' PROVE Made(item, names)'
  BY <1>1 DEF Made, Linked, Joins, Named
<1>2. CASE MergeNext
  <2>1. /\ \A q : (\E n \in AllNodes : n.qn = q) => (\E n \in AllNodes' : n.qn = q)
        /\ \A e \in AllEdges : \E f \in AllEdges' :
             Joins(AllNodes, e, item) => Joins(AllNodes', f, item)
    BY <1>2, MergeCarries
  <2>. QED
    BY <2>1 DEF Made, Linked
<1>3. ASSUME NEW s \in Slots, WorkerStep(s) PROVE Made(item, names)'
  BY <1>1, <1>3, WorkerAddsOnly DEF IInv, OnlyAdds
<1>4. CASE SerialMake
  BY <1>1, <1>4, SerialAddsOnly DEF OnlyAdds
<1>. QED
  BY <1>1, <1>2, <1>3, <1>4, MainLeaves DEF Next, MainStep

LEMMA MainGrows ==
  ASSUME IInv, LinkInv, [Next]_vars, NEW q, Has(main, q) PROVE Has(main, q)'
<1>1. main.nodes \subseteq main'.nodes
  <2>1. CASE MergeNext
    BY <2>1 DEF MergeNext, Merge
  <2>2. ASSUME NEW s \in Slots, WorkerStep(s) PROVE UNCHANGED main
    BY <2>2, WorkerBuffers DEF IInv
  <2>3. CASE SerialMake
    BY <2>3, MakeAddsOnly DEF SerialMake
  <2>. QED
    BY <2>1, <2>2, <2>3, MainLeaves DEF Next, MainStep
<1>. QED
  BY <1>1 DEF Has

LEMMA AllMadeStays ==
  ASSUME IInv, LinkInv, [Next]_vars, NEW list, NEW names, AllMade(list, names)
  PROVE  AllMade(list, names)'
BY MadeStays DEF AllMade

LEMMA MadeStaysFor ==
  ASSUME IInv, LinkInv, [Next]_vars, Target' = Target, NEW item, Made(item, Target)
  PROVE  Made(item, Target)'
<1>1. PICK names : names = Target
  OBVIOUS
<1>2. Made(item, names)'
  BY <1>1, MadeStays
<1>3. Target' = names
  BY <1>1
<1>. QED
  BY <1>2, <1>3 DEF Made

LEMMA AllMadeStaysFor ==
  ASSUME IInv, LinkInv, [Next]_vars, Target' = Target, NEW list, AllMade(list, Target)
  PROVE  AllMade(list, Target)'
BY MadeStaysFor DEF AllMade

\* An item of a file that is being looked at brings a node or an edge that may be there.
LEMMA SeenAfterItem ==
  ASSUME NodesSeen, EdgesSeen, Seen \subseteq Seen', Seen' \subseteq Files,
         NEW item, item \in Items(Seen'), OnlyAdds(item)
  PROVE  NodesSeen' /\ EdgesSeen'
<1>1. NamesOf(Seen) \subseteq NamesOf(Seen') /\ Items(Seen) \subseteq Items(Seen')
  BY DEF NamesOf, Items
<1>2. \A n \in AllNodes' : n.qn \in NamesOf(Seen')
  <2>. SUFFICES ASSUME NEW n \in AllNodes' PROVE n.qn \in NamesOf(Seen')
    OBVIOUS
  <2>1. CASE n \in AllNodes
    BY <1>1, <2>1 DEF NodesSeen
  <2>2. CASE IsNode(item) /\ n.qn = item.from
    BY <2>2 DEF NamesOf
  <2>. QED
    BY <2>1, <2>2 DEF OnlyAdds
<1>3. ASSUME NEW e \in AllEdges'
      PROVE  \E i \in Items(Seen') : ~IsNode(i) /\ i.from # i.to /\ Joins(AllNodes', e, i)
  <2>1. CASE e \in AllEdges
    <3>1. PICK i \in Items(Seen) : ~IsNode(i) /\ i.from # i.to /\ Joins(AllNodes, e, i)
      BY <2>1 DEF EdgesSeen
    <3>2. Joins(AllNodes', e, i)
      BY <3>1 DEF Joins, Named, OnlyAdds
    <3>. QED
      BY <1>1, <3>1, <3>2
  <2>2. CASE ~IsNode(item) /\ item.from # item.to /\ Joins(AllNodes', e, item)
    BY <2>2
  <2>. QED
    BY <2>1, <2>2 DEF OnlyAdds
<1>. QED
  BY <1>2, <1>3 DEF NodesSeen, EdgesSeen

LEMMA SeenStays ==
  ASSUME NodesSeen, EdgesSeen, Seen \subseteq Seen', UNCHANGED <<AllNodes, AllEdges>>
  PROVE  NodesSeen' /\ EdgesSeen'
<1>1. NamesOf(Seen) \subseteq NamesOf(Seen') /\ Items(Seen) \subseteq Items(Seen')
  BY DEF NamesOf, Items
<1>2. NodesSeen'
  BY <1>1 DEF NodesSeen
<1>3. EdgesSeen'
  BY <1>1 DEF EdgesSeen, Joins
<1>. QED
  BY <1>2, <1>3

\* The files that matter are files.
LEMMA SeenAreFiles == SlotInv /\ FilesInv => Seen \subseteq Files /\ cached \subseteq Files
BY DEF SlotInv, SlotTypes, FilesInv, Seen

\* What a worker's step leaves alone.
LEMMA WorkerFrame ==
  ASSUME SlotInv, LinkInv, NEW s \in Slots, WorkerStep(s), ~cancelled', WorkerAt(s)
  PROVE  /\ phase \in {"extract", "resolve"} /\ ~cancelled
         /\ UNCHANGED <<phase, main, serial, Target>>
         /\ \A t \in Slots : t # s => /\ worker'[t] = worker[t] /\ todo'[t] = todo[t]
                                      /\ local'[t] = local[t]
         /\ cached \subseteq cached' /\ (phase = "resolve" => cached' = cached)
         /\ Seen \subseteq Seen'
<1>1. /\ InPass /\ UNCHANGED <<phase, main, serial>>
      /\ worker \in [Slots -> [at : Places, file : Files]]
  BY WorkerStepFacts DEF SlotInv, SlotTypes
<1>2. /\ \A t \in Slots : t # s => worker'[t] = worker[t]
      /\ cached \subseteq cached' /\ (phase = "resolve" => cached' = cached)
      /\ cancelled' = cancelled
  BY <1>1 DEF WorkerStep, EnterWorker, ClaimFile, SeeCancel, ParseFile, ParseFails,
              ResolveFile, MakeOne, FileDone, LeaveWorker, InPass
<1>3. UNCHANGED Target
  BY <1>1, <1>2 DEF Target, InPass
<1>4. worker[s].at = "make" => worker[s].file \in cached' \/
                               (worker'[s].at = "make" /\ worker'[s].file = worker[s].file)
  BY <1>1 DEF WorkerStep, EnterWorker, ClaimFile, SeeCancel, ParseFile, ParseFails,
              ResolveFile, MakeOne, FileDone, InPass, WorkerAt, Dispatch!Begin, SlotInv, Ownership
<1>5. Seen \subseteq Seen'
  <2>. SUFFICES ASSUME NEW f \in Seen PROVE f \in Seen'
    OBVIOUS
  <2>1. CASE f \in cached
    BY <1>2, <2>1 DEF Seen
  <2>2. ASSUME NEW t \in Slots, worker[t].at = "make", worker[t].file = f PROVE f \in Seen'
    <3>1. f \in cached' \/ (worker'[t].at = "make" /\ worker'[t].file = f)
      BY <1>2, <1>4, <2>2
    <3>. QED
      BY <3>1 DEF Seen
  <2>. QED
    BY <2>1, <2>2 DEF Seen
<1>. QED
  BY <1>1, <1>2, <1>3, <1>5, WorkerBuffers DEF InPass

\* The ends of the edge that a worker is about to make are known to it.
LEMMA WorkerKnows ==
  ASSUME RegistryMakesNoNodes, EndsAreMadeBefore, SlotInv, FilesInv, MainHas,
         phase \in {"extract", "resolve"}, NEW s \in Slots, worker[s].at = "make",
         NEW list, list = WorkOf(worker[s].file),
         NEW k \in 0..Len(list), k + 1 \in DOMAIN list, ~IsNode(list[k + 1]),
         \A i \in 1..k : IsNode(list[i]) => Has(local[s], list[i].from),
         NEW q \in {list[k + 1].from, list[k + 1].to}, q \in Target
  PROVE  Known(WithShared(local[s]), q)
<1>. DEFINE f == worker[s].file
            p == IF phase = "extract" THEN 1 ELSE 3
            fs == IF phase = "extract" THEN Files ELSE cached
<1>1. f \in Files /\ p \in 1..4 /\ fs \subseteq Files /\ q \in NamesOf(fs)
  BY DEF SlotInv, SlotTypes, FilesInv, Target
<1>2. list = Passes[p][f]
  BY PassFacts DEF WorkOf
<1>. HIDE DEF f, fs
<1>3. \/ IsFileName(q)
      \/ MadeBefore(list, k + 1, q)
      \/ \E r \in 1..(p - 1), g \in fs : NodeIn(Passes[r][g], q)
  <2>1. /\ k + 1 \in DOMAIN Passes[p][f] /\ ~IsNode(Passes[p][f][k + 1])
        /\ q \in {Passes[p][f][k + 1].from, Passes[p][f][k + 1].to}
    BY <1>2
  <2>. HIDE DEF p
  <2>2. \/ IsFileName(q)
        \/ MadeBefore(Passes[p][f], k + 1, q)
        \/ \E r \in 1..(p - 1), g \in fs : NodeIn(Passes[r][g], q)
    BY <1>1, <2>1, EndIsMade
  <2>. QED
    BY <1>2, <2>2
<1>4. CASE IsFileName(q)
  BY <1>4 DEF IsFileName, MainHas, Known
<1>5. CASE MadeBefore(list, k + 1, q)
  <2>1. PICK i \in 1..k : IsNode(list[i]) /\ list[i].from = q
    BY <1>5 DEF MadeBefore
  <2>2. Has(local[s], q)
    BY <2>1
  <2>. QED
    BY <2>2, WithSharedSame DEF Known, Has
<1>6. ASSUME NEW r \in 1..(p - 1), NEW g \in fs, NodeIn(Passes[r][g], q)
      PROVE  Known(WithShared(local[s]), q)
  <2>1. phase = "resolve" /\ r \in 1..2 /\ g \in cached
    BY <1>6 DEF fs
  <2>2. PICK i \in DOMAIN Passes[r][g] : IsNode(Passes[r][g][i]) /\ Passes[r][g][i].from = q
    BY <1>6 DEF NodeIn
  <2>3. r # 2
    <3>1. r = 2 => Registers[g] \in Seq(EdgeItems) /\ i \in DOMAIN Registers[g]
                   /\ IsNode(Registers[g][i])
      BY <1>1, <1>6, <2>2, PassFacts DEF RegistryMakesNoNodes
    <3>2. \A list2 \in Seq(EdgeItems) : \A j \in DOMAIN list2 : ~IsNode(list2[j])
      BY DEF EdgeItems
    <3>. QED
      BY <3>1, <3>2
  <2>4. Passes[r][g] = Extracts[g]
    BY <2>1, <2>3, PassFacts
  <2>5. Has(main, q)
    BY <2>1, <2>2, <2>4 DEF MainHas
  <2>. QED
    BY <2>5 DEF Known
<1>. QED
  BY <1>3, <1>4, <1>5, <1>6

LEMMA OtherWorkerAt ==
  ASSUME IInv, LinkInv, [Next]_vars, UNCHANGED <<phase, Target>>, cached \subseteq cached',
         NEW t \in Slots, worker'[t] = worker[t], todo'[t] = todo[t], local'[t] = local[t],
         WorkerAt(t)
  PROVE  WorkerAt(t)'
<1>. SUFFICES ASSUME worker[t].at = "make" PROVE WorkerAt(t)'
  BY DEF WorkerAt
<1>1. WorkOf(worker[t].file)' = WorkOf(worker[t].file)
  BY DEF WorkOf
<1>2. PICK list : list = WorkOf(worker[t].file)
  OBVIOUS
<1>3. PICK k \in 0..Len(list) :
        /\ todo[t] = Rest(list, k)
        /\ \A i \in 1..k : Made(list[i], Target) /\ (IsNode(list[i]) => Has(local[t], list[i].from))
  BY <1>2 DEF WorkerAt
<1>4. \A i \in 1..k : Made(list[i], Target)' /\ (IsNode(list[i]) => Has(local'[t], list[i].from))
  BY <1>3, MadeStaysFor
<1>5. todo'[t] = Rest(list, k) /\ (phase' = "resolve" => worker'[t].file \in cached')
  BY <1>3 DEF WorkerAt
<1>6. list = WorkOf(worker[t].file)'
  BY <1>1, <1>2
<1>. QED
  BY <1>4, <1>5, <1>6 DEF WorkerAt, Made

LEMMA OwnWorkerAt ==
  ASSUME RegistryMakesNoNodes, EndsAreMadeBefore, IInv, LinkInv, FilesInv, MainHas,
         NEW s \in Slots, WorkerStep(s), ~cancelled', WorkerAt(s)
  PROVE  WorkerAt(s)'
<1>0. /\ phase \in {"extract", "resolve"} /\ ~cancelled
      /\ UNCHANGED <<phase, main, Target>> /\ cached \subseteq cached'
      /\ SlotInv /\ [Next]_vars
      /\ worker[s] \in [at : Places, file : Files] /\ DOMAIN worker = Slots
      /\ DOMAIN todo = Slots
  BY WorkerFrame DEF IInv, SlotInv, SlotTypes, Next, LinkInv
<1>1. CASE EnterWorker(s) \/ ClaimFile(s) \/ SeeCancel(s) \/ ParseFails(s) \/ FileDone(s)
  <2>1. worker'[s].at # "make"
    BY <1>0, <1>1 DEF EnterWorker, ClaimFile, SeeCancel, LeaveWorker, ParseFails, FileDone
  <2>. QED
    BY <2>1 DEF WorkerAt
<1>2. CASE ParseFile(s) \/ ResolveFile(s)
  <2>. SUFFICES ASSUME worker'[s].at = "make" PROVE WorkerAt(s)'
    BY DEF WorkerAt
  <2>1. /\ worker'[s].file = worker[s].file
        /\ phase = "extract" => todo'[s] = Extracts[worker[s].file]
        /\ phase = "resolve" => worker[s].file \in cached /\ todo'[s] = Resolves[worker[s].file]
    BY <1>0, <1>2 DEF ParseFile, ResolveFile
  <2>2. PICK list \in Seq(AllItems) : list = WorkOf(worker[s].file)'
    BY <1>0, <2>1, ParallelPassesAssumption DEF WorkOf
  <2>3. todo'[s] = Rest(list, 0) /\ 0 \in 0..Len(list)
    BY <1>0, <2>1, <2>2, RestFacts DEF WorkOf
  <2>. QED
    BY <1>0, <2>1, <2>2, <2>3 DEF WorkerAt
<1>3. CASE MakeOne(s)
  <2>1. /\ worker[s].at = "make" /\ todo[s] # <<>> /\ UNCHANGED worker
        /\ local'[s] = Make(WithShared(local[s]), Head(todo[s]))
        /\ todo'[s] = Tail(todo[s])
    BY <1>0, <1>3 DEF MakeOne, IInv, SlotInv, SlotTypes
  <2>2. PICK list \in Seq(AllItems) :
          list = WorkOf(worker[s].file) /\ list = WorkOf(worker[s].file)'
    BY <1>0, <2>1, ParallelPassesAssumption DEF WorkOf
  <2>3. PICK k \in 0..Len(list) :
          /\ todo[s] = Rest(list, k)
          /\ \A i \in 1..k : Made(list[i], Target) /\ (IsNode(list[i]) => Has(local[s], list[i].from))
    BY <2>1, <2>2 DEF WorkerAt
  <2>4. /\ k + 1 \in DOMAIN list /\ k + 1 \in 0..Len(list)
        /\ Head(todo[s]) = list[k + 1] /\ todo'[s] = Rest(list, k + 1)
    BY <2>1, <2>3, RestFacts
  <2>. DEFINE item == list[k + 1]
              b == WithShared(local[s])
  <2>5. local'[s] = Make(b, item)
    BY <2>1, <2>4
  <2>6. ~IsNode(item) /\ item.from # item.to /\ item.from \in Target /\ item.to \in Target =>
          Known(b, item.from) /\ Known(b, item.to)
    BY <1>0, <2>1, <2>2, <2>3, <2>4, WorkerKnows
  <2>7. /\ Make(b, item).nodes \subseteq AllNodes' /\ main.nodes \subseteq AllNodes'
        /\ Make(b, item).edges \subseteq AllEdges'
    BY <1>0, <2>5 DEF AllNodes, AllEdges
  <2>8. PICK names : names = Target
    OBVIOUS
  <2>. HIDE DEF item, b
  <2>9. Made(item, names)' /\ (IsNode(item) => Has(local'[s], item.from))
    BY <2>5, <2>6, <2>7, <2>8, MakeMakes
  <2>10. Made(item, Target)'
    BY <1>0, <2>8, <2>9 DEF Made
  <2>11. \A q : Has(local[s], q) => Has(local'[s], q)
    <3>1. b.nodes = local[s].nodes
      BY WithSharedSame DEF b
    <3>2. b.nodes \subseteq local'[s].nodes
      BY <2>5, MakeAddsOnly
    <3>. QED
      BY <3>1, <3>2 DEF Has
  <2>12. ASSUME NEW i \in 1..(k + 1)
         PROVE  Made(list[i], Target)' /\ (IsNode(list[i]) => Has(local'[s], list[i].from))
    <3>1. CASE i = k + 1
      BY <2>9, <2>10, <3>1 DEF item
    <3>2. CASE i \in 1..k
      BY <1>0, <2>3, <2>11, <3>2, MadeStaysFor
    <3>. QED
      BY <3>1, <3>2
  <2>13. phase' = "resolve" => worker'[s].file \in cached'
    BY <1>0, <2>1 DEF WorkerAt
  <2>. QED
    BY <2>2, <2>4, <2>12, <2>13 DEF WorkerAt, Made
<1>. QED
  BY <1>1, <1>2, <1>3 DEF WorkerStep

LEMMA WorkerKeepsSeen ==
  ASSUME IInv, LinkInv, FilesInv, NEW s \in Slots, WorkerStep(s), ~cancelled',
         WorkerAt(s), NodesSeen, EdgesSeen
  PROVE  NodesSeen' /\ EdgesSeen'
<1>1. Seen \subseteq Seen' /\ phase \in {"extract", "resolve"} /\ SlotInv
  BY WorkerFrame DEF IInv
<1>2. CASE ~MakeOne(s)
  BY <1>1, <1>2, WorkerAddsOnly, SeenStays
<1>3. CASE MakeOne(s)
  <2>1. /\ worker[s].at = "make" /\ todo[s] # <<>> /\ UNCHANGED <<worker, cached>>
        /\ worker[s].file \in Files
    BY <1>1, <1>3 DEF MakeOne, SlotInv, SlotTypes
  <2>2. PICK list \in Seq(AllItems) : list = WorkOf(worker[s].file)
    BY <2>1, ParallelPassesAssumption DEF WorkOf
  <2>3. PICK k \in 0..Len(list) : todo[s] = Rest(list, k)
    BY <2>1, <2>2 DEF WorkerAt
  <2>4. k + 1 \in DOMAIN list /\ Head(todo[s]) = list[k + 1]
    BY <2>1, <2>3, RestFacts
  <2>5. worker[s].file \in Seen' /\ Seen' = Seen /\ Seen \subseteq Files
    BY <1>1, <2>1, SeenAreFiles DEF Seen
  <2>6. \E p \in 1..4 : list = Passes[p][worker[s].file]
    BY <2>2, PassFacts DEF WorkOf
  <2>7. list[k + 1] \in Items(Seen')
    BY <2>4, <2>5, <2>6, ItemsMean
  <2>8. OnlyAdds(list[k + 1])
    BY <1>1, <1>3, <2>4, WorkerAddsOnly
  <2>. QED
    BY <1>1, <2>5, <2>7, <2>8, SeenAfterItem
<1>. QED
  BY <1>2, <1>3

\* A worker that has nothing left to make for its file has made all of it.
LEMMA NothingLeft ==
  ASSUME NEW s, WorkerAt(s), worker[s].at = "make", todo[s] = <<>>, worker[s].file \in Files
  PROVE  AllMade(WorkOf(worker[s].file), Target)
<1>1. PICK list \in Seq(AllItems) : list = WorkOf(worker[s].file)
  BY ParallelPassesAssumption DEF WorkOf
<1>2. PICK k \in 0..Len(list) :
        /\ todo[s] = Rest(list, k)
        /\ \A i \in 1..k : Made(list[i], Target)
  BY <1>1 DEF WorkerAt
<1>3. k = Len(list)
  BY <1>2, RestFacts
<1>4. \A i \in DOMAIN list : Made(list[i], Target)
  BY <1>2, <1>3
<1>. QED
  BY <1>1, <1>4 DEF AllMade

\* The files that the workers have claimed in resolution are resolved or at hand.
LEMMA WorkerKeepsClaims ==
  ASSUME IInv, LinkInv, FilesInv, NEW s \in Slots, WorkerStep(s), ~cancelled',
         WorkerAt(s), ClaimedAreMade
  PROVE  ClaimedAreMade'
<1>1. /\ phase' = phase /\ ~cancelled /\ Target' = Target /\ SlotInv /\ [Next]_vars
      /\ \A t \in Slots : t # s => worker'[t] = worker[t]
      /\ phase = "resolve" => cached' = cached
      /\ claims \in Nat /\ worker \in [Slots -> [at : Places, file : Files]]
  BY WorkerFrame DEF IInv, SlotInv, SlotTypes, Next
<1>. SUFFICES ASSUME phase = "resolve" PROVE ClaimedAreMade'
  BY <1>1 DEF ClaimedAreMade
<1>2. /\ \A f \in cached : f < claims =>
           \/ AllMade(Resolves[f], Target)
           \/ \E t \in Slots : worker[t].at \in {"check", "make"} /\ worker[t].file = f
      /\ \A t \in Slots : finished[t] = 1 => claims > NFiles
  BY DEF ClaimedAreMade
<1>3. \A f \in cached : AllMade(Resolves[f], Target) => AllMade(Resolves[f], Target)'
  BY <1>1, AllMadeStaysFor
\* Every step but a claim leaves the claims alone.
<1>4. ASSUME UNCHANGED <<claims, finished>>,
             \/ worker[s].at \notin {"check", "make"}
             \/ worker'[s].at \in {"check", "make"} /\ worker'[s].file = worker[s].file
             \/ worker[s].file \in cached => AllMade(Resolves[worker[s].file], Target)
      PROVE  ClaimedAreMade'
  <2>. SUFFICES ASSUME NEW f \in cached, f < claims
                PROVE  \/ AllMade(Resolves[f], Target)'
                       \/ \E t \in Slots : worker'[t].at \in {"check", "make"} /\ worker'[t].file = f
    BY <1>1, <1>2, <1>4 DEF ClaimedAreMade, AllMade, Made
  <2>1. CASE AllMade(Resolves[f], Target)
    BY <1>3, <2>1
  <2>2. ASSUME NEW t \in Slots, worker[t].at \in {"check", "make"}, worker[t].file = f
        PROVE  \/ AllMade(Resolves[f], Target)'
               \/ \E u \in Slots : worker'[u].at \in {"check", "make"} /\ worker'[u].file = f
    <3>1. CASE t # s
      BY <1>1, <2>2, <3>1
    <3>2. CASE t = s
      BY <1>3, <1>4, <2>2, <3>2
    <3>. QED
      BY <3>1, <3>2
  <2>. QED
    BY <1>2, <2>1, <2>2
<1>5. CASE EnterWorker(s)
  <2>1. worker[s].at = "idle"
    BY <1>1, <1>5 DEF EnterWorker, Dispatch!Begin, SlotInv, Ownership
  <2>. QED
    BY <1>4, <1>5, <2>1 DEF EnterWorker, Dispatch!Begin
<1>6. CASE ClaimFile(s)
  <2>1. worker[s].at = "claim" /\ claims' = claims + 1
    BY <1>6 DEF ClaimFile
  <2>2. CASE claims <= NFiles
    <3>1. worker'[s].at = "check" /\ worker'[s].file = claims /\ finished' = finished
      BY <1>1, <1>6, <2>2 DEF ClaimFile, FileAt, dispatchVars
    <3>2. ASSUME NEW f \in cached, f < claims'
          PROVE  \/ AllMade(Resolves[f], Target)'
                 \/ \E t \in Slots : worker'[t].at \in {"check", "make"} /\ worker'[t].file = f
      <4>1. f \in Nat
        BY DEF FilesInv, Files
      <4>2. CASE f = claims
        BY <3>1, <4>2
      <4>3. CASE f < claims
        <5>1. CASE AllMade(Resolves[f], Target)
          BY <1>3, <5>1
        <5>2. ASSUME NEW t \in Slots, worker[t].at \in {"check", "make"}, worker[t].file = f
              PROVE  worker'[t].at \in {"check", "make"} /\ worker'[t].file = f
          BY <1>1, <2>1, <5>2
        <5>. QED
          BY <1>2, <4>3, <5>1, <5>2
      <4>. QED
        BY <1>1, <2>1, <3>2, <4>1, <4>2, <4>3
    <3>3. \A t \in Slots : finished'[t] # 1
      BY <1>1, <1>2, <2>2, <3>1
    <3>. QED
      BY <1>1, <3>2, <3>3 DEF ClaimedAreMade, AllMade, Made
  <2>3. CASE claims > NFiles
    <3>1. \A f \in cached : f < claims
      BY <1>1, <2>3 DEF FilesInv, Files
    <3>2. ASSUME NEW f \in cached
          PROVE  \/ AllMade(Resolves[f], Target)'
                 \/ \E t \in Slots : worker'[t].at \in {"check", "make"} /\ worker'[t].file = f
      <4>1. CASE AllMade(Resolves[f], Target)
        BY <1>3, <4>1
      <4>2. ASSUME NEW t \in Slots, worker[t].at \in {"check", "make"}, worker[t].file = f
            PROVE  worker'[t].at \in {"check", "make"} /\ worker'[t].file = f
        BY <1>1, <2>1, <4>2
      <4>. QED
        BY <1>2, <3>1, <4>1, <4>2
    <3>3. claims' > NFiles
      BY <1>1, <2>1, <2>3
    <3>. QED
      BY <1>1, <3>2, <3>3 DEF ClaimedAreMade, AllMade, Made
  <2>. QED
    BY <1>1, <2>2, <2>3
<1>7. CASE SeeCancel(s) \/ ParseFile(s) \/ ParseFails(s)
  BY <1>1, <1>7 DEF SeeCancel, ParseFile, ParseFails
<1>8. CASE ResolveFile(s)
  <2>1. /\ UNCHANGED <<claims, finished>> /\ worker'[s].file = worker[s].file
        /\ worker[s].file \in cached => worker'[s].at = "make"
    BY <1>1, <1>8 DEF ResolveFile, dispatchVars
  <2>. QED
    BY <1>4, <2>1
<1>9. CASE MakeOne(s)
  BY <1>4, <1>9 DEF MakeOne, dispatchVars
<1>10. CASE FileDone(s)
  <2>1. AllMade(Resolves[worker[s].file], Target)
    <3>1. worker[s].at = "make" /\ todo[s] = <<>> /\ worker[s].file \in Files
      BY <1>1, <1>10 DEF FileDone
    <3>. QED
      BY <3>1, NothingLeft DEF WorkOf
  <2>. QED
    BY <1>4, <1>10, <2>1 DEF FileDone, dispatchVars
<1>. QED
  BY <1>5, <1>6, <1>7, <1>8, <1>9, <1>10 DEF WorkerStep

\* A file that enters the result cache has had all of its definitions made.
LEMMA WorkerKeepsPasses ==
  ASSUME IInv, LinkInv, FilesInv, NEW s \in Slots, WorkerStep(s), ~cancelled',
         WorkerAt(s), PassesMade
  PROVE  PassesMade'
<1>1. /\ phase' = phase /\ phase \in {"extract", "resolve"} /\ Target' = Target
      /\ SlotInv /\ [Next]_vars /\ worker \in [Slots -> [at : Places, file : Files]]
      /\ phase = "resolve" => cached' = cached
  BY WorkerFrame DEF IInv, SlotInv, SlotTypes, Next
<1>2. \A f \in cached :
        /\ AllMade(Extracts[f], NamesOf(Files))
        /\ phase = "resolve" => AllMade(Registers[f], Target)
  BY DEF PassesMade
<1>3. \A f \in cached :
        /\ AllMade(Extracts[f], NamesOf(Files))'
        /\ phase = "resolve" => AllMade(Registers[f], Target)'
  BY <1>1, <1>2, AllMadeStays, AllMadeStaysFor
<1>4. \A f \in cached' \ cached :
        /\ phase = "extract"
        /\ AllMade(Extracts[f], NamesOf(Files))
  <2>1. \A f \in cached' \ cached :
          /\ phase = "extract" /\ f = worker[s].file
          /\ worker[s].at = "make" /\ todo[s] = <<>>
    BY <1>1 DEF WorkerStep, EnterWorker, ClaimFile, SeeCancel, ParseFile, ParseFails,
                ResolveFile, MakeOne, FileDone
  <2>2. phase = "extract" => Target = NamesOf(Files)
    BY DEF Target
  <2>3. worker[s].file \in Files
    BY <1>1
  <2>. QED
    BY <2>1, <2>2, <2>3, NothingLeft DEF WorkOf
<1>5. \A f \in cached' \ cached : AllMade(Extracts[f], NamesOf(Files))'
  BY <1>1, <1>4, AllMadeStays
<1>. QED
  BY <1>1, <1>3, <1>4, <1>5 DEF PassesMade, AllMade, Made

LEMMA WorkerKeepsProgress ==
  ASSUME RegistryMakesNoNodes, EndsAreMadeBefore, IInv, LinkInv, FilesInv, ProgressInv,
         NEW s \in Slots, WorkerStep(s)
  PROVE  ProgressInv'
<1>1. UNCHANGED <<phase, main, serial>> /\ phase \in {"extract", "resolve"}
      /\ cancelled' = cancelled
  BY WorkerStepFacts
     DEF IInv, SlotInv, InPass, WorkerStep, EnterWorker, ClaimFile, SeeCancel, ParseFile,
         ParseFails, ResolveFile, MakeOne, FileDone
<1>. SUFFICES ASSUME ~cancelled' PROVE ProgressInv'
  BY <1>1 DEF ProgressInv
<1>2. /\ NodesSeen /\ EdgesSeen /\ \A t \in Slots : WorkerAt(t)
      /\ MainHas /\ ClaimedAreMade /\ PassesMade
  BY <1>1 DEF ProgressInv
<1>3. /\ UNCHANGED Target /\ cached \subseteq cached'
      /\ phase = "resolve" => cached' = cached
      /\ \A t \in Slots : t # s => /\ worker'[t] = worker[t] /\ todo'[t] = todo[t]
                                   /\ local'[t] = local[t]
      /\ [Next]_vars
  BY <1>2, WorkerFrame DEF IInv, Next
<1>4. NodesSeen' /\ EdgesSeen'
  BY <1>2, WorkerKeepsSeen
<1>5. ASSUME NEW t \in Slots PROVE WorkerAt(t)'
  <2>1. CASE t = s
    BY <1>2, <2>1, OwnWorkerAt
  <2>2. CASE t # s
    BY <1>1, <1>2, <1>3, <2>2, OtherWorkerAt
  <2>. QED
    BY <2>1, <2>2
<1>6. SerialAt'
  BY <1>1 DEF SerialAt, InSerial
<1>7. MainHas'
  BY <1>1, <1>2, <1>3 DEF MainHas, Has
<1>8. ClaimedAreMade' /\ PassesMade'
  BY <1>2, WorkerKeepsClaims, WorkerKeepsPasses
<1>. QED
  BY <1>1, <1>4, <1>5, <1>6, <1>7, <1>8 DEF ProgressInv

\* A step of the main thread that neither makes an item nor ends a pass.
LEMMA QuietKeepsProgress ==
  ASSUME IInv, LinkInv, FilesInv, ProgressInv, [Next]_vars, ~cancelled',
         UNCHANGED <<phase, worker, todo, cached, cancelled, claims, finished>>,
         NodesSeen', EdgesSeen', \A s \in Slots : WorkerAt(s)', SerialAt'
  PROVE  ProgressInv'
<1>1. MainHas /\ ClaimedAreMade /\ PassesMade /\ UNCHANGED Target
  BY DEF ProgressInv, Target
<1>2. MainHas'
  BY <1>1, MainGrows DEF MainHas
<1>3. PassesMade'
  <2>. SUFFICES ASSUME NEW f \in cached
                PROVE  /\ AllMade(Extracts[f], NamesOf(Files))'
                       /\ phase \in {"resolve", "infra", "done"} => AllMade(Registers[f], Target)'
                       /\ phase \in {"infra", "done"} => AllMade(Resolves[f], Target)'
                       /\ phase = "done" => AllMade(Infra[f], Target)'
    BY DEF PassesMade, AllMade, Made
  <2>. QED
    BY <1>1, AllMadeStays, AllMadeStaysFor DEF PassesMade
<1>4. ClaimedAreMade'
  <2>. SUFFICES ASSUME phase = "resolve" PROVE ClaimedAreMade'
    BY DEF ClaimedAreMade
  <2>1. \A f \in cached : AllMade(Resolves[f], Target) => AllMade(Resolves[f], Target)'
    BY <1>1, AllMadeStaysFor
  <2>. QED
    BY <1>1, <2>1 DEF ClaimedAreMade, AllMade, Made
<1>. QED
  BY <1>2, <1>3, <1>4 DEF ProgressInv

\* Between the passes no worker has a file at hand.
LEMMA WorkersIdle ==
  ASSUME SlotInv, returned
  PROVE  /\ \A s \in Slots : worker[s].at = "idle" /\ finished[s] = 1
         /\ Seen = cached
<1>1. \A s \in Slots : worker[s].at = "idle" /\ finished[s] = 1
  BY DEF SlotInv, ReturnInv, Ownership
<1>. QED
  BY <1>1 DEF Seen

\* When all buffers are merged main is all there is.
LEMMA AllInMain ==
  ASSUME SlotInv, LinkInv, ~InPass \/ merged = NSlots
  PROVE  AllNodes = main.nodes /\ AllEdges = main.edges /\ returned
<1>1. returned
  BY DEF SlotInv, ReturnInv
<1>2. \A s \in Slots : local[s].nodes = {} /\ local[s].edges = {}
  BY <1>1 DEF SlotInv, EmptyInv, LinkInv, NoEdgesInv, Slots
<1>. QED
  BY <1>1, <1>2 DEF AllNodes, AllEdges

LEMMA MergeKeepsProgress ==
  ASSUME IInv, LinkInv, FilesInv, ProgressInv, MergeNext PROVE ProgressInv'
<1>1. /\ UNCHANGED <<phase, returned, todo, worker, cached, cancelled, claims, finished, serial>>
      /\ InPass /\ returned /\ SlotInv /\ [Next]_vars
  BY MergeBuffers DEF IInv, MergeNext, Next, MainStep
<1>. SUFFICES ASSUME ~cancelled' PROVE ProgressInv'
  BY <1>1 DEF ProgressInv, InPass
<1>2. NodesSeen /\ EdgesSeen /\ Seen' = Seen
  BY <1>1 DEF ProgressInv, Seen
<1>3. NodesSeen'
  BY <1>2, MergeCarries DEF NodesSeen
<1>4. EdgesSeen'
  <2>. SUFFICES ASSUME NEW f \in AllEdges'
                PROVE  \E i \in Items(Seen) : ~IsNode(i) /\ i.from # i.to /\ Joins(AllNodes', f, i)
    BY <1>2 DEF EdgesSeen
  <2>1. PICK e \in AllEdges : \A i : Joins(AllNodes, e, i) => Joins(AllNodes', f, i)
    BY MergeCarries
  <2>2. PICK i \in Items(Seen) : ~IsNode(i) /\ i.from # i.to /\ Joins(AllNodes, e, i)
    BY <1>2 DEF EdgesSeen
  <2>. QED
    BY <2>1, <2>2
<1>5. \A s \in Slots : WorkerAt(s)'
  BY <1>1, WorkersIdle DEF WorkerAt
<1>6. SerialAt'
  BY <1>1 DEF SerialAt, InSerial, InPass
<1>. QED
  BY <1>1, <1>3, <1>4, <1>5, <1>6, QuietKeepsProgress

LEMMA ReturnKeepsProgress ==
  ASSUME IInv, LinkInv, FilesInv, ProgressInv, DispatchReturns \/ UNCHANGED vars
  PROVE  ProgressInv'
<1>1. UNCHANGED <<phase, main, todo, worker, cached, cancelled, claims, finished, serial, local>>
      /\ [Next]_vars
  BY DEF DispatchReturns, Dispatch!Return, workerVars, Next, MainStep, vars, dispatchVars
<1>. SUFFICES ASSUME ~cancelled' PROVE ProgressInv'
  BY <1>1 DEF ProgressInv
<1>2. /\ NodesSeen /\ EdgesSeen /\ Seen' = Seen /\ UNCHANGED Target
      /\ UNCHANGED <<AllNodes, AllEdges>>
  BY <1>1 DEF ProgressInv, Seen, Target, AllNodes, AllEdges
<1>3. NodesSeen' /\ EdgesSeen'
  BY <1>2, SeenStays
<1>4. ASSUME NEW s \in Slots PROVE WorkerAt(s)'
  BY <1>1, <1>2, OtherWorkerAt DEF ProgressInv
<1>5. SerialAt'
  <2>. SUFFICES ASSUME InSerial PROVE SerialAt'
    BY <1>1 DEF SerialAt, InSerial
  <2>1. \A item : Made(item, Target)' <=> Made(item, Target)
    BY <1>2 DEF Made, Linked, Joins, Named
  <2>. QED
    BY <1>1, <2>1 DEF SerialAt, ProgressInv, AllMade, SerialWork, InSerial
<1>. QED
  BY <1>1, <1>3, <1>4, <1>5, QuietKeepsProgress

LEMMA SerialWorkIs ==
  ASSUME InSerial, NEW f \in Files
  PROVE  /\ SerialWork(f) \in Seq(AllItems)
         /\ f \notin cached => SerialWork(f) = <<>>
         /\ f \in cached =>
              SerialWork(f) = Passes[IF phase = "registry" THEN 2 ELSE 4][f]
<1>1. <<>> \in Seq(AllItems)
  OBVIOUS
<1>. QED
  BY <1>1, ParallelPassesAssumption, PassFacts DEF SerialWork, InSerial

\* The ends of the edge that a serial pass is about to make are in main.
LEMMA SerialKnows ==
  ASSUME EndsAreMadeBefore, IInv, LinkInv, FilesInv, MainHas, PassesMade,
         InSerial, NEW f \in cached, NEW list, list = SerialWork(f),
         NEW k \in 0..Len(list), k + 1 \in DOMAIN list, ~IsNode(list[k + 1]),
         \A i \in 1..k : Made(list[i], Target),
         NEW q \in {list[k + 1].from, list[k + 1].to}, q \in Target
  PROVE  Known(main, q)
<1>. DEFINE p == IF phase = "registry" THEN 2 ELSE 4
<1>1. p \in 1..4 /\ f \in Files /\ cached \subseteq Files /\ phase # "extract"
  BY DEF FilesInv, InSerial
<1>2. list = Passes[p][f] /\ q \in NamesOf(cached)
  BY <1>1, SerialWorkIs DEF Target
<1>3. AllNodes = main.nodes
  BY AllInMain DEF IInv, InSerial, InPass
<1>4. \/ IsFileName(q)
      \/ MadeBefore(list, k + 1, q)
      \/ \E r \in 1..(p - 1), g \in cached : NodeIn(Passes[r][g], q)
  <2>1. /\ k + 1 \in DOMAIN Passes[p][f] /\ ~IsNode(Passes[p][f][k + 1])
        /\ q \in {Passes[p][f][k + 1].from, Passes[p][f][k + 1].to}
    BY <1>2
  <2>. HIDE DEF p
  <2>2. \/ IsFileName(q)
        \/ MadeBefore(Passes[p][f], k + 1, q)
        \/ \E r \in 1..(p - 1), g \in cached : NodeIn(Passes[r][g], q)
    BY <1>1, <1>2, <2>1, EndIsMade
  <2>. QED
    BY <1>2, <2>2
<1>5. CASE IsFileName(q)
  BY <1>5 DEF IsFileName, MainHas, Known
<1>6. CASE MadeBefore(list, k + 1, q)
  <2>1. PICK i \in 1..k : IsNode(list[i]) /\ list[i].from = q
    BY <1>6 DEF MadeBefore
  <2>. QED
    BY <1>3, <2>1 DEF Made, Known, Has
<1>7. ASSUME NEW r \in 1..(p - 1), NEW g \in cached, NodeIn(Passes[r][g], q)
      PROVE  Known(main, q)
  <2>1. PICK i \in DOMAIN Passes[r][g] : IsNode(Passes[r][g][i]) /\ Passes[r][g][i].from = q
    BY <1>7 DEF NodeIn
  <2>2. r = 1 \/ (phase = "infra" /\ r \in 2..3)
    BY DEF InSerial
  <2>3. \E names : AllMade(Passes[r][g], names)
    <3>1. r = 1 => AllMade(Passes[r][g], NamesOf(Files))
      BY PassFacts DEF PassesMade
    <3>2. phase = "infra" /\ r = 2 => AllMade(Passes[r][g], Target)
      BY PassFacts DEF PassesMade
    <3>3. phase = "infra" /\ r = 3 => AllMade(Passes[r][g], Target)
      BY PassFacts DEF PassesMade
    <3>. QED
      BY <2>2, <3>1, <3>2, <3>3
  <2>4. \E n \in AllNodes : n.qn = q
    BY <2>1, <2>3 DEF AllMade, Made
  <2>. QED
    BY <1>3, <2>4 DEF Known, Has
<1>. QED
  BY <1>4, <1>5, <1>6, <1>7

LEMMA SerialMakeKeepsProgress ==
  ASSUME EndsAreMadeBefore, IInv, LinkInv, FilesInv, ProgressInv, SerialMake
  PROVE  ProgressInv'
<1>1. /\ UNCHANGED <<phase, returned, todo, worker, cached, cancelled, claims, finished, local>>
      /\ InSerial /\ SlotInv /\ [Next]_vars /\ serial.todo # <<>>
      /\ main' = Make(main, Head(serial.todo))
      /\ serial' = [serial EXCEPT !.todo = Tail(serial.todo)]
      /\ serial \in [file : Nat \ {0}, todo : Seq(AllItems)]
  BY DEF IInv, SerialMake, Next, MainStep, workerVars, dispatchVars, RegistryInv
<1>. SUFFICES ASSUME ~cancelled' PROVE ProgressInv'
  BY <1>1 DEF ProgressInv, InSerial
<1>2. /\ NodesSeen /\ EdgesSeen /\ Seen' = Seen /\ UNCHANGED Target
      /\ SerialAt /\ MainHas /\ PassesMade
  BY <1>1 DEF ProgressInv, Seen, Target
<1>3. /\ returned /\ AllNodes = main.nodes /\ AllEdges = main.edges /\ ~InPass
  BY <1>1, AllInMain DEF InSerial, InPass
<1>4. Seen = cached /\ \A s \in Slots : worker[s].at = "idle"
  BY <1>1, <1>3, WorkersIdle
<1>. DEFINE sf == serial.file - 1
<1>5. sf \in Files /\ serial.file > 1 /\ serial.file = sf + 1
  BY <1>1, <1>2 DEF SerialAt, Files
<1>6. PICK list \in Seq(AllItems) : list = SerialWork(sf)
  BY <1>1, <1>5, SerialWorkIs
<1>7. PICK k \in 0..Len(list) :
        /\ serial.todo = Rest(list, k)
        /\ \A i \in 1..k : Made(list[i], Target)
  BY <1>1, <1>2, <1>5, <1>6 DEF SerialAt
<1>8. /\ k + 1 \in DOMAIN list /\ k + 1 \in 0..Len(list)
      /\ Head(serial.todo) = list[k + 1] /\ Tail(serial.todo) = Rest(list, k + 1)
  <2>1. serial.todo = Rest(list, k) /\ Rest(list, k) # <<>>
    BY <1>1, <1>7
  <2>2. /\ k + 1 \in DOMAIN list /\ k + 1 \in 0..Len(list)
        /\ Head(Rest(list, k)) = list[k + 1]
        /\ Tail(Rest(list, k)) = Rest(list, k + 1)
    BY <2>1, <1>6, <1>7, RestFacts
  <2>. QED
    BY <2>1, <2>2
<1>9. sf \in cached /\ \E p \in 1..4 : list = Passes[p][sf]
  <2>1. list # <<>> /\ InSerial
    BY <1>1, <1>8
  <2>2. sf \in cached
    BY <1>5, <1>6, <2>1, SerialWorkIs
  <2>3. list = Passes[IF phase = "registry" THEN 2 ELSE 4][sf]
    BY <1>5, <1>6, <2>1, <2>2, SerialWorkIs
  <2>. QED
    BY <2>2, <2>3
<1>. HIDE DEF sf
<1>. DEFINE item == list[k + 1]
<1>10. item \in Items(cached)
  BY <1>8, <1>9, ItemsMean DEF FilesInv
<1>11. ~IsNode(item) /\ item.from # item.to /\ item.from \in Target /\ item.to \in Target =>
         Known(main, item.from) /\ Known(main, item.to)
  BY <1>1, <1>2, <1>6, <1>7, <1>8, <1>9, SerialKnows
<1>12. OnlyAdds(item)
  BY <1>8, SerialAddsOnly
<1>13. main'.nodes \subseteq AllNodes' /\ main'.edges \subseteq AllEdges' /\ main.nodes \subseteq AllNodes'
  BY <1>12, <1>3 DEF AllNodes, AllEdges, OnlyAdds
<1>14. PICK names : names = Target
  OBVIOUS
<1>15. main' = Make(main, item)
  BY <1>1, <1>8
<1>. HIDE DEF item
<1>16. Made(item, names)'
  BY <1>11, <1>13, <1>14, <1>15, MakeMakes
<1>17. Made(item, Target)'
  BY <1>2, <1>14, <1>16 DEF Made
<1>18. NodesSeen' /\ EdgesSeen'
  <2>1. Seen \subseteq Seen' /\ Seen' \subseteq Files /\ item \in Items(Seen')
    BY <1>2, <1>4, <1>10 DEF FilesInv
  <2>. QED
    BY <1>2, <1>12, <2>1, SeenAfterItem
<1>19. \A s \in Slots : WorkerAt(s)'
  BY <1>1, <1>4 DEF WorkerAt
<1>20. SerialAt'
  <2>1. serial'.file = serial.file /\ serial'.todo = Rest(list, k + 1)
    BY <1>1, <1>8
  <2>2. \A f : SerialWork(f)' = SerialWork(f)
    BY <1>1 DEF SerialWork
  <2>3. ASSUME NEW f \in Files, f < serial.file - 1 PROVE AllMade(SerialWork(f), Target)'
    <3>1. PICK l : l = SerialWork(f)
      OBVIOUS
    <3>2. AllMade(l, Target)
      BY <1>1, <1>2, <2>3, <3>1 DEF SerialAt
    <3>3. AllMade(l, Target)'
      BY <1>1, <1>2, <3>2, AllMadeStaysFor
    <3>. QED
      BY <2>2, <3>1, <3>3 DEF AllMade
  <2>4. \A i \in 1..(k + 1) : Made(list[i], Target)'
    <3>1. \A i \in 1..k : Made(list[i], Target)'
      BY <1>1, <1>2, <1>7, MadeStaysFor
    <3>2. \A i \in 1..(k + 1) : i = k + 1 \/ i \in 1..k
      OBVIOUS
    <3>. QED
      BY <1>17, <3>1, <3>2 DEF item
  <2>5. list = SerialWork(serial.file - 1)'
    BY <1>1, <1>6, <2>1 DEF sf, SerialWork
  <2>6. \E j \in 0..Len(list) : /\ serial'.todo = Rest(list, j)
                                /\ \A i \in 1..j : Made(list[i], Target)'
    BY <1>8, <2>1, <2>4
  <2>7. serial.file \in 1..(NFiles + 1)
    BY <1>1, <1>2 DEF SerialAt
  <2>. QED
    BY <1>5, <2>1, <2>2, <2>3, <2>5, <2>6, <2>7 DEF SerialAt, Made
<1>. QED
  BY <1>1, <1>18, <1>19, <1>20, QuietKeepsProgress

\* A serial pass that has nothing left of a file has made all of it.
LEMMA SerialFileMade ==
  ASSUME FilesInv, InSerial, SerialAt, serial.todo = <<>>
  PROVE  /\ serial.file \in 1..(NFiles + 1)
         /\ \A f \in Files : f < serial.file => AllMade(SerialWork(f), Target)
<1>1. serial.file \in 1..(NFiles + 1)
  BY DEF SerialAt
<1>2. ASSUME NEW f \in Files, f = serial.file - 1 PROVE AllMade(SerialWork(f), Target)
  <2>1. PICK list \in Seq(AllItems) : list = SerialWork(f)
    BY SerialWorkIs
  <2>2. serial.file > 1
    BY <1>1, <1>2 DEF Files
  <2>3. PICK k \in 0..Len(list) :
          /\ serial.todo = Rest(list, k)
          /\ \A i \in 1..k : Made(list[i], Target)
    BY <1>2, <2>1, <2>2 DEF SerialAt
  <2>4. k = Len(list)
    BY <2>3, RestFacts
  <2>5. \A i \in DOMAIN list : Made(list[i], Target)
    BY <2>3, <2>4
  <2>. QED
    BY <2>1, <2>5 DEF AllMade
<1>3. \A f \in Files : f < serial.file => f = serial.file - 1 \/ f < serial.file - 1
  BY <1>1 DEF Files
<1>. QED
  BY <1>1, <1>2, <1>3 DEF SerialAt

LEMMA SerialFileKeepsProgress ==
  ASSUME IInv, LinkInv, FilesInv, ProgressInv, SerialFile PROVE ProgressInv'
<1>1. /\ UNCHANGED <<main, todo, worker, cached, cancelled, claims, finished, local>>
      /\ InSerial /\ [Next]_vars /\ serial.todo = <<>> /\ serial.file <= NFiles
  BY DEF SerialFile, Fail, Next, MainStep, workerVars, dispatchVars
<1>2. CASE cancelled
  <2>1. phase' # "done"
    BY <1>1, <1>2 DEF SerialFile, Fail, InSerial
  <2>. QED
    BY <1>1, <1>2, <2>1 DEF ProgressInv
<1>3. CASE ~cancelled
  <2>1. UNCHANGED phase /\ serial' = [file |-> serial.file + 1, todo |-> SerialWork(serial.file)]
    BY <1>3 DEF SerialFile, SeenCancelled
  <2>2. /\ NodesSeen /\ EdgesSeen /\ Seen' = Seen /\ UNCHANGED Target
        /\ UNCHANGED <<AllNodes, AllEdges>> /\ SerialAt
    BY <1>1, <1>3, <2>1 DEF ProgressInv, Seen, Target, AllNodes, AllEdges
  <2>3. NodesSeen' /\ EdgesSeen'
    BY <2>2, SeenStays
  <2>4. ASSUME NEW s \in Slots PROVE WorkerAt(s)'
    BY <1>1, <1>3, <2>1, <2>2, OtherWorkerAt DEF ProgressInv
  <2>5. SerialAt'
    <3>1. /\ serial.file \in 1..(NFiles + 1)
          /\ \A f \in Files : f < serial.file => AllMade(SerialWork(f), Target)
      BY <1>1, <2>2, SerialFileMade
    <3>2. serial.file \in Files
      BY <1>1, <3>1 DEF Files
    <3>3. PICK list \in Seq(AllItems) : list = SerialWork(serial.file)
      BY <1>1, <3>2, SerialWorkIs
    <3>4. list = Rest(list, 0) /\ 0 \in 0..Len(list)
      BY <3>3, RestFacts
    <3>5. /\ serial'.file = serial.file + 1 /\ serial'.todo = list
          /\ serial'.file - 1 = serial.file /\ serial'.file \in 1..(NFiles + 1) /\ serial'.file # 1
      BY <1>1, <2>1, <3>1, <3>3
    <3>6. \A f : SerialWork(f)' = SerialWork(f)
      BY <1>1, <2>1 DEF SerialWork
    <3>7. \A item : Made(item, Target)' <=> Made(item, Target)
      BY <2>2 DEF Made, Linked, Joins, Named
    <3>8. \A f \in Files : f < serial'.file - 1 => AllMade(SerialWork(f), Target)'
      BY <3>1, <3>5, <3>6, <3>7 DEF AllMade
    <3>9. \E k \in 0..Len(list) : serial'.todo = Rest(list, k) /\ \A i \in 1..k : Made(list[i], Target)'
      BY <3>4, <3>5
    <3>10. list = SerialWork(serial.file - 1)'
      <4>1. UNCHANGED <<cached, phase>>
        BY <1>1, <2>1
      <4>. QED
        BY <3>3, <3>5, <4>1 DEF SerialWork
    <3>. QED
      BY <3>3, <3>5, <3>8, <3>9, <3>10 DEF SerialAt, Made
  <2>. QED
    BY <1>1, <1>3, <2>1, <2>3, <2>4, <2>5, QuietKeepsProgress
<1>. QED
  BY <1>2, <1>3

\* What holds when a pass has ended without a cancel: nobody is at work, and what is
\* there is in main.
LEMMA PassEnded ==
  ASSUME IInv, LinkInv, FilesInv, ProgressInv, ~cancelled', phase' # "failed",
         ExtractEnds \/ RegistryEnds \/ ResolveEnds \/ InfraEnds
  PROVE  /\ UNCHANGED <<cached, cancelled>> /\ [Next]_vars
         /\ AllNodes = main.nodes /\ UNCHANGED <<AllNodes, AllEdges>> /\ NodesSeen' /\ EdgesSeen'
         /\ \A s \in Slots : WorkerAt(s)' /\ worker[s].at = "idle" /\ finished[s] = 1
         /\ MainHas /\ PassesMade /\ ClaimedAreMade
         /\ \A f \in Files : Has(main, FileQn[f])'
         /\ \A list, names : AllMade(list, names) => AllMade(list, names)'
         /\ phase # "extract" => SerialAt /\ UNCHANGED Target
<1>1. UNCHANGED <<cached, cancelled, worker>> /\ [Next]_vars
  BY DEF ExtractEnds, RegistryEnds, ResolveEnds, InfraEnds, Fail, Next, MainStep, workerVars
<1>2. /\ NodesSeen /\ EdgesSeen /\ MainHas /\ PassesMade /\ ClaimedAreMade /\ SerialAt
  BY <1>1 DEF ProgressInv
<1>3. ~InPass \/ merged = NSlots
  BY DEF ExtractEnds, RegistryEnds, ResolveEnds, InfraEnds, InPass
<1>4. AllNodes = main.nodes /\ returned /\ SlotInv
  BY <1>3, AllInMain DEF IInv
<1>5. \A s \in Slots : worker[s].at = "idle" /\ finished[s] = 1
  BY <1>4, WorkersIdle
<1>6. UNCHANGED <<AllNodes, AllEdges>> /\ main'.nodes = main.nodes
  BY MainLeaves
<1>7. Seen \subseteq Seen'
  BY <1>1 DEF Seen
<1>8. NodesSeen' /\ EdgesSeen'
  BY <1>2, <1>6, <1>7, SeenStays
<1>9. \A s \in Slots : WorkerAt(s)'
  BY <1>1, <1>5 DEF WorkerAt
<1>10. \A f \in Files : Has(main, FileQn[f])'
  BY <1>2, <1>6 DEF MainHas, Has
<1>11. \A list, names : AllMade(list, names) => AllMade(list, names)'
  BY <1>1, AllMadeStays
<1>12. phase # "extract" => UNCHANGED Target
  <2>1. phase # "extract" => phase' # "extract"
    BY DEF ExtractEnds, RegistryEnds, ResolveEnds, InfraEnds, Fail
  <2>. QED
    BY <1>1, <2>1 DEF Target
<1>. QED
  BY <1>1, <1>2, <1>4, <1>5, <1>6, <1>8, <1>9, <1>10, <1>11, <1>12

\* The next serial pass starts at the first file.
LEMMA SerialStarts == FirstFile => SerialAt'
<1>. SUFFICES ASSUME FirstFile PROVE SerialAt'
  OBVIOUS
<1>1. serial'.file = 1 /\ serial'.todo = <<>>
  BY DEF FirstFile
<1>2. \A f \in Files : ~(f < serial'.file - 1)
  BY <1>1 DEF Files
<1>. QED
  BY <1>1, <1>2 DEF SerialAt

LEMMA ExtractEndsKeepsProgress ==
  ASSUME IInv, LinkInv, FilesInv, ProgressInv, ExtractEnds, ~cancelled', phase' # "failed"
  PROVE  ProgressInv'
<1>1. phase = "extract" /\ phase' = "registry" /\ FirstFile
  BY DEF ExtractEnds, Fail
<1>2. /\ UNCHANGED <<cached, cancelled>> /\ AllNodes = main.nodes /\ UNCHANGED AllNodes
      /\ PassesMade
      /\ \A list, names : AllMade(list, names) => AllMade(list, names)'
      /\ \A f \in Files : Has(main, FileQn[f])'
  BY PassEnded
<1>3. MainHas'
  <2>. SUFFICES ASSUME NEW f \in cached, NEW i \in DOMAIN Extracts[f], IsNode(Extracts[f][i])
                PROVE  Has(main, Extracts[f][i].from)'
    BY <1>2 DEF MainHas
  <2>1. \E n \in AllNodes : n.qn = Extracts[f][i].from
    BY <1>2 DEF PassesMade, AllMade, Made
  <2>2. main'.nodes = main.nodes
    BY MainLeaves
  <2>. QED
    BY <1>2, <2>1, <2>2 DEF Has
<1>4. PassesMade'
  BY <1>1, <1>2 DEF PassesMade, AllMade, Made
<1>5. SerialAt' /\ ClaimedAreMade'
  BY <1>1, SerialStarts DEF ClaimedAreMade
<1>. QED
  BY <1>1, <1>3, <1>4, <1>5, PassEnded DEF ProgressInv

\* The part that the ends of the later passes share.
LEMMA LaterEndKeepsProgress ==
  ASSUME IInv, LinkInv, FilesInv, ProgressInv, ~cancelled', phase' # "failed",
         RegistryEnds \/ ResolveEnds \/ InfraEnds,
         phase \in {"registry", "resolve", "infra"},
         SerialAt', ClaimedAreMade',
         \A f \in cached :
           /\ phase = "registry" => AllMade(Registers[f], Target)
           /\ phase = "resolve" => AllMade(Resolves[f], Target)
           /\ phase = "infra" => AllMade(Infra[f], Target),
         << phase, phase' >> \in {<<"registry", "resolve">>, <<"resolve", "infra">>,
                                  <<"infra", "done">>}
  PROVE  ProgressInv'
<1>1. /\ UNCHANGED <<cached, cancelled, Target>> /\ UNCHANGED AllNodes
      /\ MainHas /\ PassesMade
      /\ \A list, names : AllMade(list, names) => AllMade(list, names)'
      /\ \A f \in Files : Has(main, FileQn[f])'
  BY PassEnded
<1>2. MainHas'
  <2>1. main'.nodes = main.nodes
    BY MainLeaves
  <2>. QED
    BY <1>1, <2>1 DEF MainHas, Has
<1>3. ASSUME NEW f \in cached
      PROVE  /\ AllMade(Extracts[f], NamesOf(Files))
             /\ phase' \in {"resolve", "infra", "done"} => AllMade(Registers[f], Target)
             /\ phase' \in {"infra", "done"} => AllMade(Resolves[f], Target)
             /\ phase' = "done" => AllMade(Infra[f], Target)
  <2>1. /\ AllMade(Extracts[f], NamesOf(Files))
        /\ phase \in {"resolve", "infra", "done"} => AllMade(Registers[f], Target)
        /\ phase \in {"infra", "done"} => AllMade(Resolves[f], Target)
    BY <1>1 DEF PassesMade
  <2>. QED
    BY <2>1
<1>4. PICK names : names = Target
  OBVIOUS
<1>5. Target' = names
  BY <1>1, <1>4
<1>6. PassesMade'
  <2>. SUFFICES ASSUME NEW f \in cached
                PROVE  /\ AllMade(Extracts[f], NamesOf(Files))'
                       /\ phase' \in {"resolve", "infra", "done"} => AllMade(Registers[f], names)'
                       /\ phase' \in {"infra", "done"} => AllMade(Resolves[f], names)'
                       /\ phase' = "done" => AllMade(Infra[f], names)'
    BY <1>1, <1>5 DEF PassesMade, AllMade, Made
  <2>. QED
    BY <1>1, <1>3, <1>4
<1>. QED
  BY <1>2, <1>6, PassEnded DEF ProgressInv

LEMMA SerialPassMade ==
  ASSUME IInv, FilesInv, InSerial, SerialAt, SerialEnds, NEW f \in cached
  PROVE  AllMade(IF phase = "registry" THEN Registers[f] ELSE Infra[f], Target)
<1>1. f \in Files /\ f < serial.file
  <2>1. serial.todo = <<>> /\ serial.file > NFiles
    BY DEF SerialEnds
  <2>2. f \in Files
    BY DEF FilesInv
  <2>3. serial.file \in 1..(NFiles + 1)
    BY DEF SerialAt
  <2>. QED
    BY <2>1, <2>2, <2>3 DEF Files
<1>2. AllMade(SerialWork(f), Target)
  BY <1>1, SerialFileMade DEF SerialEnds
<1>. QED
  BY <1>2 DEF SerialWork

LEMMA LaterEndsKeepProgress ==
  ASSUME IInv, LinkInv, FilesInv, ProgressInv, ~cancelled', phase' # "failed",
         RegistryEnds \/ ResolveEnds \/ InfraEnds
  PROVE  ProgressInv'
<1>1. CASE RegistryEnds
  <2>1. /\ phase = "registry" /\ phase' = "resolve" /\ SerialEnds
        /\ finished' = [s \in Slots |-> 0] /\ claims' = 1
    BY <1>1 DEF RegistryEnds, Fail
  <2>2. SerialAt' /\ ClaimedAreMade'
    <3>1. cached' \subseteq Files
      <4>1. cached' = cached
        BY PassEnded
      <4>. QED
        BY <4>1 DEF FilesInv
    <3>2. \A f \in cached' : ~(f < claims')
      BY <2>1, <3>1 DEF Files
    <3>. QED
      BY <2>1, <3>2 DEF SerialAt, InSerial, ClaimedAreMade
  <2>3. \A f \in cached : AllMade(Registers[f], Target)
    BY <2>1, PassEnded, SerialPassMade DEF InSerial
  <2>. QED
    BY <1>1, <2>1, <2>2, <2>3, LaterEndKeepsProgress
<1>2. CASE ResolveEnds
  <2>1. phase = "resolve" /\ phase' = "infra" /\ FirstFile
    BY <1>2 DEF ResolveEnds
  <2>2. SerialAt' /\ ClaimedAreMade'
    BY <2>1, SerialStarts DEF ClaimedAreMade
  <2>3. ASSUME NEW f \in cached PROVE AllMade(Resolves[f], Target)
    <3>1. ClaimedAreMade /\ \A s \in Slots : worker[s].at = "idle" /\ finished[s] = 1
      BY PassEnded
    <3>2. 0 \in Slots
      BY DEF Slots
    <3>3. claims > NFiles
      BY <2>1, <3>1, <3>2 DEF ClaimedAreMade
    <3>4. f < claims
      <4>1. claims \in Nat /\ f \in Files
        BY DEF IInv, SlotInv, SlotTypes, FilesInv
      <4>. QED
        BY <3>3, <4>1 DEF Files
    <3>. QED
      BY <2>1, <3>1, <3>4 DEF ClaimedAreMade
  <2>. QED
    BY <1>2, <2>1, <2>2, <2>3, LaterEndKeepsProgress
<1>3. CASE InfraEnds
  <2>1. phase = "infra" /\ phase' = "done" /\ SerialEnds
    BY <1>3 DEF InfraEnds, Fail
  <2>2. SerialAt' /\ ClaimedAreMade'
    BY <2>1 DEF SerialAt, InSerial, ClaimedAreMade
  <2>3. \A f \in cached : AllMade(Infra[f], Target)
    BY <2>1, PassEnded, SerialPassMade DEF InSerial
  <2>. QED
    BY <1>3, <2>1, <2>2, <2>3, LaterEndKeepsProgress
<1>. QED
  BY <1>1, <1>2, <1>3

\* A pass that ends after a cancel does not end the run as done.
LEMMA CancelledIsNotDone ==
  ASSUME ProgressInv, \/ ExtractEnds \/ RegistryEnds \/ ResolveEnds \/ InfraEnds \/ Cancel,
         cancelled' \/ phase' = "failed"
  PROVE  ProgressInv'
<1>1. phase' = "failed" => cancelled'
  BY DEF ExtractEnds, RegistryEnds, ResolveEnds, InfraEnds, Cancel, Fail, SeenCancelled
<1>2. phase' # "done"
  BY <1>1 DEF ExtractEnds, RegistryEnds, ResolveEnds, InfraEnds, Cancel, Fail, SeenCancelled
<1>. QED
  BY <1>1, <1>2 DEF ProgressInv

LEMMA ProgressInvKept ==
  ASSUME RegistryMakesNoNodes, EndsAreMadeBefore, IInv, LinkInv, FilesInv, ProgressInv,
         [Next]_vars
  PROVE  ProgressInv'
<1>1. CASE ExtractEnds \/ RegistryEnds \/ ResolveEnds \/ InfraEnds \/ Cancel
  <2>1. Cancel => cancelled'
    BY DEF Cancel
  <2>. QED
    BY <1>1, <2>1, CancelledIsNotDone, ExtractEndsKeepsProgress, LaterEndsKeepProgress
<1>2. CASE DispatchReturns \/ UNCHANGED vars
  BY <1>2, ReturnKeepsProgress
<1>3. CASE MergeNext
  BY <1>3, MergeKeepsProgress
<1>4. CASE SerialFile
  BY <1>4, SerialFileKeepsProgress
<1>5. CASE SerialMake
  BY <1>5, SerialMakeKeepsProgress
<1>6. ASSUME NEW s \in Slots, WorkerStep(s) PROVE ProgressInv'
  BY <1>6, WorkerKeepsProgress
<1>. QED
  BY <1>1, <1>2, <1>3, <1>4, <1>5, <1>6 DEF Next, MainStep

LEMMA ProgressInvInit == Init => ProgressInv
<1>. SUFFICES ASSUME Init PROVE ProgressInv
  OBVIOUS
<1>1. /\ phase = "extract" /\ ~cancelled /\ cached = {}
      /\ main.nodes = {[qn |-> FileQn[f], id |-> f] : f \in Files} /\ main.edges = {}
      /\ \A s \in Slots : local[s].nodes = {} /\ local[s].edges = {} /\ worker[s].at = "idle"
  BY DEF Init, EmptyBuffer, Idle
<1>2. \A f \in Files : [qn |-> FileQn[f], id |-> f] \in main.nodes
  BY <1>1
<1>3. NodesSeen /\ EdgesSeen
  BY <1>1 DEF NodesSeen, EdgesSeen, NamesOf, AllNodes, AllEdges
<1>4. MainHas
  <2>1. \A f \in Files : [qn |-> FileQn[f], id |-> f].qn = FileQn[f]
    OBVIOUS
  <2>. QED
    BY <1>1, <1>2, <2>1 DEF MainHas, Has
<1>5. ClaimedAreMade /\ PassesMade /\ SerialAt /\ \A s \in Slots : WorkerAt(s)
  BY <1>1 DEF ClaimedAreMade, PassesMade, SerialAt, InSerial, WorkerAt
<1>. QED
  BY <1>1, <1>3, <1>4, <1>5 DEF ProgressInv

(***************************************************************************)
(* What is in main when the run is done, by name.                          *)
(***************************************************************************)
LEMMA DoneFacts ==
  ASSUME IInv, LinkInv, FilesInv, ProgressInv, phase = "done"
  PROVE  /\ cached \subseteq Files
         /\ AllNodes = main.nodes /\ AllEdges = main.edges /\ Seen = cached
         /\ NodesSeen /\ EdgesSeen /\ MainHas /\ Target = NamesOf(cached)
         /\ \A p \in 1..4, f \in cached : \E names :
              AllMade(Passes[p][f], names) /\ NamesOf(cached) \subseteq names
         /\ BufferOK(main) /\ UniqueIn(main.nodes)
         /\ main.next \in Nat /\ \A n \in main.nodes : n.id \in Nat /\ n.id < main.next
<1>1. ~InPass /\ SlotInv /\ cached \subseteq Files
  BY DEF InPass, IInv, FilesInv
<1>2. AllNodes = main.nodes /\ AllEdges = main.edges /\ Seen = cached
  BY <1>1, AllInMain, WorkersIdle
<1>3. NodesSeen /\ EdgesSeen /\ MainHas /\ PassesMade /\ Target = NamesOf(cached)
  BY DEF ProgressInv, Target
<1>4. NamesOf(cached) \subseteq NamesOf(Files)
  BY <1>1 DEF NamesOf, Items
<1>5. ASSUME NEW p \in 1..4, NEW f \in cached
      PROVE  \E names : AllMade(Passes[p][f], names) /\ NamesOf(cached) \subseteq names
  <2>1. /\ AllMade(Extracts[f], NamesOf(Files)) /\ AllMade(Registers[f], NamesOf(cached))
        /\ AllMade(Resolves[f], NamesOf(cached)) /\ AllMade(Infra[f], NamesOf(cached))
    BY <1>3 DEF PassesMade
  <2>2. CASE p = 1
    BY <1>4, <2>1, <2>2, PassFacts
  <2>3. CASE p \in 2..4
    <3>1. AllMade(Passes[p][f], NamesOf(cached))
      BY <2>1, <2>3, PassFacts
    <3>. QED
      BY <3>1
  <2>. QED
    BY <2>2, <2>3
<1>6. UniqueIn(main.nodes)
  BY <1>2, UniqueMeans DEF IInv
<1>7. main.next \in Nat /\ \A n \in main.nodes : n.id \in Nat /\ n.id < main.next
  BY DEF IInv, CounterInv, IdsBelow
<1>. QED
  BY <1>1, <1>2, <1>3, <1>5, <1>6, <1>7 DEF LinkInv

LEMMA NamesAreSequential ==
  ASSUME IInv, LinkInv, FilesInv, ProgressInv, phase = "done"
  PROVE  /\ {n.qn : n \in main.nodes} = ReferenceNames
         /\ Cardinality(main.nodes) = Cardinality(ReferenceNames)
<1>1. ReferenceNames = NamesOf(cached)
  BY DEF ReferenceNames, NamesOf
<1>2. \A n \in main.nodes : n.qn \in NamesOf(cached)
  BY DoneFacts DEF NodesSeen
<1>3. ASSUME NEW q \in NamesOf(cached) PROVE \E n \in main.nodes : n.qn = q
  <2>1. CASE IsFileName(q)
    BY <2>1, DoneFacts DEF IsFileName, MainHas, Has
  <2>2. ASSUME NEW p \in 1..4, NEW f \in cached, NodeIn(Passes[p][f], q)
        PROVE  \E n \in main.nodes : n.qn = q
    <3>1. \E names : AllMade(Passes[p][f], names)
      BY <2>2, DoneFacts
    <3>2. \E n \in AllNodes : n.qn = q
      BY <2>2, <3>1 DEF NodeIn, AllMade, Made
    <3>. QED
      BY <3>2, DoneFacts
  <2>. QED
    BY <2>1, <2>2, DoneFacts, NamesMean
<1>4. {n.qn : n \in main.nodes} = ReferenceNames
  BY <1>1, <1>2, <1>3
<1>. DEFINE NameOf == [n \in main.nodes |-> n.qn]
<1>5. IsFiniteSet(main.nodes) /\ OneName(main)
  BY DoneFacts DEF BufferOK, Shape
<1>6. NameOf \in Surjection(main.nodes, ReferenceNames)
  BY <1>4 DEF Surjection
<1>7. \A n, m \in main.nodes : NameOf[n] = NameOf[m] => n = m
  BY <1>5 DEF OneName
<1>. HIDE DEF NameOf
<1>8. NameOf \in Injection(main.nodes, ReferenceNames)
  BY <1>6, <1>7 DEF Surjection, Injection, IsInjective
<1>9. Cardinality(main.nodes) = Cardinality(ReferenceNames)
  BY <1>5, <1>6, <1>8, FS_Surjection
<1>. QED
  BY <1>4, <1>9

\* An edge that is made joins the nodes of its names, and is dumped.
LEMMA DumpMeans ==
  ASSUME NEW b, \A n \in b.nodes : n.id < b.next, NEW d
  PROVE  d \in DumpedEdges(b) <=>
           \E n \in b.nodes, m \in b.nodes, e \in b.edges :
             /\ n.id = e.src /\ m.id = e.tgt
             /\ d = [from |-> n.qn, to |-> m.qn, type |-> e.type]
<1>. DEFINE Edge(x) == [from |-> x[1].qn, to |-> x[2].qn, type |-> x[3].type]
            Meet(x) == /\ x[1].id = x[3].src /\ x[1].id < b.next
                       /\ x[2].id = x[3].tgt /\ x[2].id < b.next
<1>1. DumpedEdges(b) = {Edge(x) : x \in {y \in b.nodes \X b.nodes \X b.edges : Meet(y)}}
  BY DEF DumpedEdges
<1>2. d \in DumpedEdges(b) <=> \E x \in b.nodes \X b.nodes \X b.edges : Meet(x) /\ d = Edge(x)
  <2>. HIDE DEF Edge, Meet
  <2>. QED
    BY <1>1
<1>3. \A x \in b.nodes \X b.nodes \X b.edges :
        x[1] \in b.nodes /\ x[2] \in b.nodes /\ x[3] \in b.edges
  OBVIOUS
<1>4. \A n \in b.nodes, m \in b.nodes, e \in b.edges :
        /\ <<n, m, e>> \in b.nodes \X b.nodes \X b.edges
        /\ <<n, m, e>>[1] = n /\ <<n, m, e>>[2] = m /\ <<n, m, e>>[3] = e
  OBVIOUS
<1>5. ASSUME NEW x \in b.nodes \X b.nodes \X b.edges, Meet(x), d = Edge(x)
      PROVE  \E n \in b.nodes, m \in b.nodes, e \in b.edges :
               /\ n.id = e.src /\ m.id = e.tgt
               /\ d = [from |-> n.qn, to |-> m.qn, type |-> e.type]
  BY <1>3, <1>5
<1>6. ASSUME NEW n \in b.nodes, NEW m \in b.nodes, NEW e \in b.edges,
             n.id = e.src, m.id = e.tgt, d = [from |-> n.qn, to |-> m.qn, type |-> e.type]
      PROVE  \E x \in b.nodes \X b.nodes \X b.edges : Meet(x) /\ d = Edge(x)
  <2>1. Meet(<<n, m, e>>) /\ d = Edge(<<n, m, e>>)
    BY <1>6
  <2>. QED
    BY <1>4, <2>1
<1>. HIDE DEF Edge, Meet
<1>. QED
  BY <1>2, <1>5, <1>6

LEMMA EdgesAreSequential ==
  ASSUME IInv, LinkInv, FilesInv, ProgressInv, phase = "done"
  PROVE  DumpedEdges(main) = ReferenceEdges
<1>1. ReferenceNames = NamesOf(cached)
  BY DEF ReferenceNames, NamesOf
<1>2. \A n \in main.nodes : n.id < main.next
  BY DoneFacts
<1>3. \A item \in Items(cached) : item \in AllItems
  <2>1. cached \subseteq Files
    BY DoneFacts
  <2>2. \A p \in 1..4, f \in cached : \A i \in DOMAIN Passes[p][f] : Passes[p][f][i] \in AllItems
    BY <2>1, PassFacts
  <2>. QED
    BY <2>1, <2>2, ItemsMean
<1>4. ASSUME NEW d \in DumpedEdges(main) PROVE d \in ReferenceEdges
  <2>1. PICK n \in main.nodes, m \in main.nodes, e \in main.edges :
          /\ n.id = e.src /\ m.id = e.tgt
          /\ d = [from |-> n.qn, to |-> m.qn, type |-> e.type]
    BY <1>2, <1>4, DumpMeans
  <2>2. PICK item \in Items(cached) :
          ~IsNode(item) /\ item.from # item.to /\ Joins(main.nodes, e, item)
    BY DoneFacts DEF EdgesSeen
  <2>3. n.qn = item.from /\ m.qn = item.to /\ e.type = item.type
    <3>1. PICK a \in main.nodes, b \in main.nodes :
            a.id = e.src /\ a.qn = item.from /\ b.id = e.tgt /\ b.qn = item.to
      BY <2>2 DEF Joins, Named
    <3>2. a = n /\ b = m
      BY <2>1, <3>1, DoneFacts DEF UniqueIn
    <3>. QED
      BY <2>2, <3>1, <3>2 DEF Joins
  <2>4. item = d
    BY <1>3, <2>1, <2>3 DEF AllItems
  <2>5. item.from \in ReferenceNames /\ item.to \in ReferenceNames
    <3>1. \A x \in main.nodes : x.qn \in NamesOf(cached)
      BY DoneFacts DEF NodesSeen
    <3>. QED
      BY <1>1, <2>3, <3>1
  <2>. QED
    BY <2>2, <2>4, <2>5 DEF ReferenceEdges
<1>5. ASSUME NEW item \in ReferenceEdges PROVE item \in DumpedEdges(main)
  <2>1. /\ item \in Items(cached) /\ ~IsNode(item) /\ item.from # item.to
        /\ item.from \in NamesOf(cached) /\ item.to \in NamesOf(cached)
    BY <1>1, <1>5 DEF ReferenceEdges
  <2>2. PICK p \in 1..4, f \in cached : \E i \in DOMAIN Passes[p][f] : item = Passes[p][f][i]
    BY <2>1, DoneFacts, ItemsMean
  <2>3. PICK names : AllMade(Passes[p][f], names) /\ NamesOf(cached) \subseteq names
    BY DoneFacts
  <2>4. Made(item, names)
    BY <2>2, <2>3 DEF AllMade
  <2>5. Linked(item)
    BY <2>1, <2>3, <2>4 DEF Made
  <2>6. PICK e \in main.edges : Joins(main.nodes, e, item)
    BY <2>5, DoneFacts DEF Linked
  <2>7. PICK n \in main.nodes, m \in main.nodes :
          n.id = e.src /\ n.qn = item.from /\ m.id = e.tgt /\ m.qn = item.to
    BY <2>6 DEF Joins, Named
  <2>8. item = [from |-> n.qn, to |-> m.qn, type |-> e.type]
    BY <1>3, <2>1, <2>6, <2>7 DEF AllItems, Joins
  <2>. QED
    BY <1>2, <2>7, <2>8, DumpMeans
<1>. QED
  BY <1>4, <1>5

\* SameAsSequential, for any files and workers and whatever the passes make of them, if
\* the registry build makes no node and the ends of edges are made before: a run that is
\* done has the nodes and edges of the sequential pipeline, each once, however the
\* workers interleaved.
THEOREM GraphIsSequential ==
  ASSUME RegistryMakesNoNodes, EndsAreMadeBefore PROVE Spec => []SameAsSequential
<1>. DEFINE Inv == IInv /\ LinkInv /\ FilesInv /\ ProgressInv
<1>1. Init => Inv
  BY InvInit, LinkInvInit, FilesInvInit, ProgressInvInit
<1>2. Inv /\ [Next]_vars => Inv'
  <2>. SUFFICES ASSUME Inv, [Next]_vars PROVE Inv'
    OBVIOUS
  <2>1. IInv' /\ LinkInv' /\ FilesInv'
    BY InvKept, LinkInvKept, FilesInvKept DEF IInv
  <2>2. ProgressInv'
    BY ProgressInvKept
  <2>. QED
    BY <2>1, <2>2
<1>3. Inv => SameAsSequential
  BY NamesAreSequential, EdgesAreSequential DEF SameAsSequential
<1>. QED
  BY <1>1, <1>2, <1>3, PTL DEF Spec
=============================================================================
