------------------------------ MODULE RunMutex ------------------------------
(***************************************************************************)
(* What the global index lock promises its users: at most one indexing run *)
(* or database deletion is in progress at a time, and the right to work on *)
(* a database passes from one thread to another only by being given up.    *)
(***************************************************************************)
CONSTANTS Threads,  \* the threads that index or delete
          NoThread  \* nobody

VARIABLE holder     \* the thread that may touch the database files

Init == holder = NoThread

Enter(t) == holder = NoThread /\ holder' = t

Leave(t) == holder = t /\ holder' = NoThread

Next == \E t \in Threads : Enter(t) \/ Leave(t)

Spec == Init /\ [][Next]_holder
=============================================================================
