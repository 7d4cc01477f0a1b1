------------------------------- MODULE Server -------------------------------
(***************************************************************************)
(* The server process from start to exit: the stdio loop on the main       *)
(* thread, the HTTP, watcher, update and auto-index threads, the signal    *)
(* handler, and the order in which main stops, joins and frees.            *)
(*                                                                         *)
(* What the watcher does while it runs is in Watcher, what runs do with    *)
(* the lock in IndexLock, with the file in StoreFile.                      *)
(***************************************************************************)
EXTENDS ServerLoop, FiniteSets

CONSTANTS
  AutoIndex,   \* the setting auto_index
  MaxSignals   \* bound: signals

ASSUME ServerAssumption == AutoIndex \in BOOLEAN /\ MaxSignals \in Nat

Owners == {"http", "watcher"}            \* objects with a thread of their own
Objects == Owners \cup {"server"}
Autos == DOMAIN script                   \* auto-index threads, at most one per message

VARIABLES
  db,        \* the session's project has a database
  thread,    \* of each owner
  stopped,   \* their stop flags
  update,    \* update_check_thread
  auto,      \* each auto-index thread
  autoTid,   \* srv->autoindex_tid, 0 before the first
  alive,     \* objects that have not been freed
  globals,   \* the pointers that the signal handler goes by
  misuse,    \* history: who has used what after it was freed
  signals

threadVars == <<db, thread, stopped, update, auto, autoTid, alive, globals, misuse, signals>>
vars == <<loopVars, threadVars>>

\* The types, the marks in the order of the stream, and a body that begins where
\* the loop has got to.
TypeOK ==
  /\ script \in Scripts
  /\ 0 <= taken /\ taken <= fetched /\ fetched <= written /\ written <= Len(Stream)
  /\ closed \in BOOLEAN /\ gone \in BOOLEAN
  /\ start \in 0..taken /\ need \in 0..TooLong
  /\ pc \in {"poll", "peek", "block", "line", "header", "body", "handle", "ended",
             "join http", "null http", "stop watcher", "join watcher", "join rest",
             "null", "returned"}
  /\ handled \in Seq({0} \cup DOMAIN script)
  /\ db \in BOOLEAN
  /\ thread \in [Owners -> {"none", "run", "done"}] /\ stopped \in [Owners -> BOOLEAN]
  /\ update \in {"none", "run", "done"}
  /\ auto \in [Autos -> {"none", "run", "register", "done"}]
  /\ autoTid \in {0} \cup Autos /\ (autoTid # 0 => auto[autoTid] # "none")
  /\ alive \subseteq Objects /\ globals \subseteq Objects
  /\ misuse \subseteq {"signal", "auto", "update"} \X Objects
  /\ signals \in 0..MaxSignals

\* The HTTP server is optional.
Init ==
  /\ LoopInit
  /\ db \in BOOLEAN
  /\ \E h \in {"none", "run"} :
       /\ thread = [o \in Owners |-> IF o = "http" THEN h ELSE "run"]
       /\ alive = IF h = "none" THEN Objects \ {"http"} ELSE Objects
  /\ stopped = [o \in Owners |-> FALSE]
  /\ update = "none" /\ auto = [a \in Autos |-> "none"] /\ autoTid = 0
  /\ globals = alive /\ misuse = {} /\ signals = 0

Uses(who, os) == misuse' = misuse \cup ({who} \X (os \ alive))

-----------------------------------------------------------------------------
(* initialize, and the threads that it starts *)

\* maybe_auto_index: watch a project that is indexed, else index it if that is on.
StartAuto ==
  \/ UNCHANGED <<auto, autoTid>>
  \/ /\ AutoIndex /\ ~db
     /\ autoTid' = Min({a \in Autos : auto[a] = "none"})
     /\ auto' = [auto EXCEPT ![autoTid'] = "run"]

Initialize ==
  /\ update' = IF update = "none" THEN "run" ELSE update
  /\ StartAuto
  /\ UNCHANGED <<db, thread, stopped, alive, globals, misuse, signals>>

AnswerInit ==
  /\ Answer
  /\ script[Last(handled)].kind = "init"
  /\ Initialize

AnswerOther ==
  /\ Answer
  /\ script[Last(handled)].kind # "init"
  /\ UNCHANGED threadVars

\* curl is given five seconds.
UpdateEnds ==
  /\ update = "run"
  /\ update' = "done"
  /\ Uses("update", {"server"})
  /\ UNCHANGED <<loopVars, db, thread, stopped, auto, autoTid, alive, globals, signals>>

\* The run of autoindex_thread succeeds or fails.
AutoRuns(a) ==
  /\ auto[a] = "run"
  /\ \/ auto' = [auto EXCEPT ![a] = "register"] /\ db' = TRUE
     \/ auto' = [auto EXCEPT ![a] = "done"] /\ UNCHANGED db
  /\ UNCHANGED <<loopVars, thread, stopped, update, autoTid, alive, globals, misuse, signals>>

\* cbm_watcher_watch(srv->watcher, ...)
AutoRegisters(a) ==
  /\ auto[a] = "register"
  /\ auto' = [auto EXCEPT ![a] = "done"]
  /\ Uses("auto", {"server", "watcher"})
  /\ UNCHANGED <<loopVars, db, thread, stopped, update, autoTid, alive, globals, signals>>

\* http_thread and watcher_thread return when they see the flag.
ThreadEnds(o) ==
  /\ thread[o] = "run" /\ stopped[o]
  /\ thread' = [thread EXCEPT ![o] = "done"]
  /\ UNCHANGED <<loopVars, db, stopped, update, auto, autoTid, alive, globals, misuse, signals>>

-----------------------------------------------------------------------------
(* The signal handler, on the main thread *)

\* It sets the stop flags through the global pointers and closes stdin, which
\* makes the loop's reads fail; a poll that sleeps is interrupted.
Signal ==
  /\ signals < MaxSignals
  /\ signals' = signals + 1
  /\ stopped' = [o \in Owners |-> stopped[o] \/ o \in globals]
  /\ Uses("signal", globals)
  /\ gone' = TRUE
  /\ pc' = IF pc = "block" THEN "ended" ELSE pc
  /\ UNCHANGED <<script, marks, closed, start, need, handled, db, thread, update, auto,
                 autoTid, alive, globals>>

-----------------------------------------------------------------------------
(* main after the loop *)

\* Stop flags are set from here, too.
StopBug(o, before, after) ==
  /\ pc = before
  /\ Goto(after)
  /\ UNCHANGED <<script, marks, closed, gone, start, need, handled, threadVars>>

Stop(o, before, after) ==
  /\ pc = before
  /\ stopped' = [stopped EXCEPT ![o] = thread[o] # "none"]
  /\ Goto(after)
  /\ UNCHANGED <<script, marks, closed, gone, start, need, handled, db, thread, update,
                 auto, autoTid, alive, globals, misuse, signals>>

\* cbm_thread_join and the object's free.
JoinedBug(o) == TRUE
Joined(o) == thread[o] # "run"
Free(o, before, after) ==
  /\ pc = before
  /\ Joined(o)
  /\ alive' = alive \ {o}
  /\ Goto(after)
  /\ UNCHANGED <<script, marks, closed, gone, start, need, handled, db, thread, stopped,
                 update, auto, autoTid, globals, misuse, signals>>

\* cbm_mcp_server_free joins the update thread and the last auto-index thread.
FreeServer ==
  /\ pc = "join rest"
  /\ update # "run" /\ (autoTid # 0 => auto[autoTid] = "done")
  /\ alive' = alive \ {"server"}
  /\ Goto("null")
  /\ UNCHANGED <<script, marks, closed, gone, start, need, handled, db, thread, stopped,
                 update, auto, autoTid, globals, misuse, signals>>

\* The HTTP pointer is cleared at once, the others at the very end.
Clear(os, before, after) ==
  /\ pc = before
  /\ globals' = globals \ os
  /\ Goto(after)
  /\ UNCHANGED <<script, marks, closed, gone, start, need, handled, db, thread, stopped,
                 update, auto, autoTid, alive, misuse, signals>>

StopHttp == Stop("http", "ended", "join http")
FreeHttp == Free("http", "join http", "null http")
ClearHttp == Clear({"http"}, "null http", "stop watcher")
StopWatcher == Stop("watcher", "stop watcher", "join watcher")
FreeWatcher == Free("watcher", "join watcher", "join rest")
ClearAll == Clear(Objects, "null", "returned")
Main == StopHttp \/ FreeHttp \/ ClearHttp \/ StopWatcher \/ FreeWatcher \/ FreeServer \/ ClearAll

-----------------------------------------------------------------------------
ReadStep == Fetch \/ TakeLine \/ TakeHeader \/ TakeBody \/ ReadFails
Wait == PollNow \/ Peek \/ Awake

\* The process is there until main returns.
Next ==
  /\ pc # "returned"
  /\ \/ (Client \/ Wait \/ Timeout \/ ReadStep) /\ UNCHANGED threadVars
     \/ AnswerInit \/ AnswerOther
     \/ UpdateEnds
     \/ \E a \in Autos : AutoRuns(a) \/ AutoRegisters(a)
     \/ \E o \in Owners : ThreadEnds(o)
     \/ Signal
     \/ Main

\* Threads run, and so do requests, index runs and the update check come to an end.
Fairness ==
  /\ WF_vars((Wait \/ ReadStep) /\ UNCHANGED threadVars)
  /\ WF_vars(AnswerInit \/ AnswerOther) /\ WF_vars(Main)
  /\ WF_vars(UpdateEnds)
  /\ \A a \in 1..3 : WF_vars(a \in Autos /\ (AutoRuns(a) \/ AutoRegisters(a)))
  /\ \A o \in Owners : WF_vars(ThreadEnds(o))

Spec == Init /\ [][Next]_vars /\ Fairness
-----------------------------------------------------------------------------
\* "Only if both phases confirm no data, do blocking poll": the loop never sleeps
\* on a message that a former read has already drawn out of the pipe.
NoSleepOnInput == pc = "block" /\ ~gone => BufferEmpty

\* Unless a client leaves or a signal comes in the middle, or a frame is too long.
Whole == ~gone /\ (closed => written = Len(Stream))
Moderate == \A i \in DOMAIN script : script[i].framing # "huge"

\* However the bytes arrive in pieces, each message is handled whole, in order and
\* once, whether it comes as a line or in a frame.
EachInOrder ==
  Whole /\ Moderate => handled = [n \in 1..Len(handled) |-> n]

\* Every message that was sent is handled, also when the client has closed its end.
AllHandled ==
  (Moderate /\ written = Len(Stream)) ~> (gone \/ Len(handled) = Len(script))

\* Wherever the loop is, when the client closes its end or a signal comes, the
\* threads are stopped and main returns.
ShutsDown == closed \/ gone ~> pc = "returned"

\* No object is freed under the thread that runs on it: "call after thread has been
\* joined".
JoinedFirst ==
  /\ \A o \in Owners \ alive : thread[o] # "run"
  /\ "server" \notin alive => update # "run"

\* Nobody uses what has been freed. (Fails: the watcher is freed before the
\* auto-index thread is joined and before its global pointer is cleared.)
FreedIsUnused == misuse = {}
=============================================================================
