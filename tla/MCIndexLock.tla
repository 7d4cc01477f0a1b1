----------------------------- MODULE MCIndexLock ----------------------------
(***************************************************************************)
(* An instance of IndexLock: the server process with its stdio thread,     *)
(* HTTP thread, auto-index thread and watcher.                             *)
(***************************************************************************)
EXTENDS IndexLock

CONSTANTS main, http, auto, watch, server

OneProcess == [t \in {main, http, auto, watch} |-> server]
=============================================================================
