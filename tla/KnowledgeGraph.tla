--------------------------- MODULE KnowledgeGraph ---------------------------
(***************************************************************************)
(* What a graph buffer stands for: which qualified names there are, with   *)
(* what label and of what file, and which of them are linked. A run has    *)
(* one graph, and one for each worker while a parallel pass is on, whose   *)
(* links may also go to names of the main one.                             *)
(***************************************************************************)
EXTENDS Naturals

CONSTANTS
  Names, Files,
  Definitions,  \* <<name, label, file>>
  Calls,        \* <<name, type, name>>
  Workers,
  Stored,    \* the graphs that a database may hold
  Absent     \* in place of an entry, for a name that is not there

VARIABLE graph   \* of the run ("main") and of each worker

Nothing == [entry |-> [q \in Names |-> Absent], links |-> {}]
Present(g) == {q \in Names : g.entry[q] # Absent}

Init == graph = [b \in {"main"} \cup Workers |-> Nothing]

Load ==
  \E g \in Stored : graph["main"] = Nothing /\ graph' = [graph EXCEPT !["main"] = g]

\* The later definition of a name wins.
Define(b, q, l, f) == graph' = [graph EXCEPT ![b].entry[q] = <<l, f>>]

Link(b, p, t, q) ==
  /\ {p, q} \subseteq Present(graph[b]) \cup Present(graph["main"])
  /\ graph' = [graph EXCEPT ![b].links = @ \cup {<<p, t, q>>}]

\* A file's names go, and all links that touch them.
Forget(f) ==
  LET g    == graph["main"]
      gone == {q \in Present(g) : g.entry[q][2] = f}
  IN  graph' = [graph EXCEPT !["main"] =
        [entry |-> [q \in Names |-> IF q \in gone THEN Absent ELSE g.entry[q]],
         links |-> {k \in g.links : k[1] \notin gone /\ k[3] \notin gone}]]

\* A worker's graph is added to the main one and wins.
Absorb(w) ==
  LET g == graph["main"]  h == graph[w]
  IN  graph' = [graph EXCEPT
        !["main"] = [entry |-> [q \in Names |-> IF h.entry[q] # Absent THEN h.entry[q]
                                                ELSE g.entry[q]],
                     links |-> g.links \cup h.links],
        ![w] = Nothing]

Next ==
  \/ Load
  \/ \E f \in Files : Forget(f)
  \/ \E b \in {"main"} \cup Workers :
       \/ \E d \in Definitions : Define(b, d[1], d[2], d[3])
       \/ \E c \in Calls : Link(b, c[1], c[2], c[3])
  \/ \E w \in Workers : Absorb(w)

Spec == Init /\ [][Next]_graph
=============================================================================
