---------------------------- MODULE MCStoreFile ----------------------------
(* A server process: the stdio loop, the HTTP thread, and a watcher. *)
EXTENDS StoreFile

MCInodes == 1..7
=============================================================================
