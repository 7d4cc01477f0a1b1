--------------------------- MODULE IndexRegister ---------------------------
(***************************************************************************)
(* What the database file of a project promises to the clients of the      *)
(* query tools: every answer is the whole index of some past state of the  *)
(* sources, and a client of one server is never taken back to an older     *)
(* one, least of all behind an index run of its own.  It does not promise  *)
(* that an answer is up to date.                                           *)
(***************************************************************************)
EXTENDS Naturals

CONSTANTS
  Servers,
  States     \* of the sources: numbers that grow

VARIABLES
  published,  \* the states of the sources that were indexed
  seen        \* the latest one each server has shown its client

vars == <<published, seen>>

Init ==
  /\ published = {}
  /\ seen = [s \in Servers |-> 0]

Publish ==
  /\ \E g \in States : (\A h \in published : h <= g) /\ published' = published \cup {g}
  /\ UNCHANGED seen

\* A query answered, or an index call that returns.
Show(s) ==
  /\ \E g \in published : g >= seen[s] /\ seen' = [seen EXCEPT ![s] = g]
  /\ UNCHANGED published

\* A new process, whose clients have seen nothing yet.
Restart ==
  /\ seen' = [s \in Servers |-> 0]
  /\ UNCHANGED published

Next == Publish \/ (\E s \in Servers : Show(s)) \/ Restart

Spec == Init /\ [][Next]_vars
=============================================================================
