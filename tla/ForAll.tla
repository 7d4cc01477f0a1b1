------------------------------- MODULE ForAll -------------------------------
(***************************************************************************)
(* What cbm_parallel_for promises its caller: fn is called once for every  *)
(* index, in any order and in any overlap, and the dispatch returns when   *)
(* all the calls have returned.                                            *)
(***************************************************************************)
EXTENDS Naturals

CONSTANT Count   \* the number of iterations

VARIABLES
  begun,      \* how often fn was called with each index
  finished,   \* how often such a call returned
  returned    \* the dispatch is over

vars == <<begun, finished, returned>>

Indices == 0..(Count - 1)

Init ==
  /\ begun = [i \in Indices |-> 0]
  /\ finished = [i \in Indices |-> 0]
  /\ returned = FALSE

Begin(i) ==
  /\ begun[i] = 0
  /\ begun' = [begun EXCEPT ![i] = 1]
  /\ UNCHANGED <<finished, returned>>

Finish(i) ==
  /\ begun[i] = 1 /\ finished[i] = 0
  /\ finished' = [finished EXCEPT ![i] = 1]
  /\ UNCHANGED <<begun, returned>>

Return ==
  /\ ~returned
  /\ \A i \in Indices : finished[i] = 1
  /\ returned' = TRUE
  /\ UNCHANGED <<begun, finished>>

Next == Return \/ \E i \in Indices : Begin(i) \/ Finish(i)

Spec == Init /\ [][Next]_vars
=============================================================================
