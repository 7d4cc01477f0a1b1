------------------------------ MODULE MCWatcher ------------------------------
(***************************************************************************)
(* The scenarios of the runs of TLC: an undisturbed user, an unruly one    *)
(* with other threads that index, and everything, with a missing root,     *)
(* deleted projects and shutdown.                                          *)
(***************************************************************************)
EXTENDS Watcher

Calm == {}
Unruly == {"busy", "fail", "revert", "window", "again", "early"}
All == {Calm, Unruly, Disturbances}
=============================================================================
