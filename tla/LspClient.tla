----------------------------- MODULE LspClient -----------------------------
(***************************************************************************)
(* The clangd pass of an index run: a client that asks a language server,  *)
(* its child process, over two pipes. The server answers in any order,     *)
(* late or not at all, sends notifications between, and may die. A read    *)
(* that times out has lost what it had read of its frame.                  *)
(*                                                                         *)
(* A restart is not modelled: it waits for kill(pid, 0) to fail, which it  *)
(* never does before the child has been waited for.                        *)
(***************************************************************************)
EXTENDS Integers, Sequences, SequencesExt, FiniteSets

CONSTANTS
  NFiles,       \* files listed in compile_commands.json
  MAX_POLL_FIRST,   \* polls for the symbols of one of the first files
  MAX_POLL_NORMAL,  \* and of any later one
  FirstFiles,   \* how many files are first: 3 in the code
  MaxReads,     \* messages one request looks at: 100 in the code
  PipeIgnored,  \* SIGPIPE is ignored: mongoose does that when the UI runs
  MaxNotes,     \* bound: notifications of the server
  MaxCrashes    \* bound: deaths of the server

ASSUME LspAssumption ==
  /\ NFiles \in Nat \ {0} /\ FirstFiles \in Nat /\ MaxReads \in Nat \ {0}
  /\ MAX_POLL_FIRST \in Nat \ {0} /\ MAX_POLL_NORMAL \in Nat \ {0}
  /\ PipeIgnored \in BOOLEAN
  /\ MaxNotes \in Nat /\ MaxCrashes \in Nat

VARIABLES
  pc,        \* what the pass is doing
  what,      \* the request it is at
  file,      \* the file it is at
  attempt,   \* polls of this file
  asked,     \* history: the requests so far; next_id is one more than their number
  got,       \* what the present cbm_lsp_read_response has read
  reads,     \* messages this request has looked at
  answer,    \* the id of the response that was accepted last, 0 for none
  cut,       \* history: a read has given up within a frame
  child,     \* the language server
  ended,     \* its stdin is closed
  inq,       \* requests that it has not answered
  pending,   \* what it is writing
  out,       \* the pipe from it
  notes, crashes

clientVars == <<pc, what, file, attempt, asked, got, reads, answer, cut>>
childVars == <<child, ended, inq, pending, out, notes, crashes>>
vars == <<clientVars, childVars>>

\* A frame in three pieces, two of its header and its body. Notifications have no
\* id, which is id 0 to yyjson_get_int.
Frame(id) == <<<<id, 1>>, <<id, 2>>, <<id, 3>>>>
Ids == 0..Len(asked)
max_attempts(f) == IF f <= FirstFiles THEN MAX_POLL_FIRST ELSE MAX_POLL_NORMAL
Requests == [what : {"init", "symbols", "calls", "shutdown"}, file : 0..(NFiles + 1)]

\* The types, a file's polls, and that nothing is read before a request is made.
TypeOK ==
  /\ pc \in {"spawn", "ask", "read", "ok", "fail", "initialized", "next", "didOpen",
             "didClose", "exit", "wait", "free", "done", "killed"}
  /\ what \in {"init", "symbols", "calls", "shutdown"}
  /\ file \in 0..(NFiles + 1) /\ attempt \in 0..max_attempts(file) /\ reads \in 0..MaxReads
  /\ asked \in Seq(Requests)
  /\ got \in Seq(Ids \X (1..3)) /\ (got # <<>> => pc = "read")
  /\ answer \in Ids /\ cut \in BOOLEAN
  /\ child \in {"none", "up", "dead", "reaped"} /\ ended \in BOOLEAN
  /\ inq \subseteq Ids \ {0}
  /\ pending \in Seq(Ids \X (1..3)) /\ out \in Seq(Ids \X (1..3))
  /\ notes \in 0..MaxNotes /\ crashes \in 0..MaxCrashes

Init ==
  /\ pc = "spawn" /\ what = "init" /\ file = 0 /\ attempt = 0
  /\ asked = <<>> /\ got = <<>> /\ reads = 0 /\ answer = 0 /\ cut = FALSE
  /\ child = "none" /\ ended = FALSE /\ inq = {} /\ pending = <<>> /\ out = <<>>
  /\ notes = 0 /\ crashes = 0

-----------------------------------------------------------------------------
(* The server *)

ChildAnswers ==
  /\ child = "up" /\ pending = <<>>
  /\ \E id \in inq : inq' = inq \ {id} /\ pending' = Frame(id)
  /\ UNCHANGED <<clientVars, child, ended, out, notes, crashes>>

ChildNotifies ==
  /\ child = "up" /\ pending = <<>>
  /\ notes < MaxNotes
  /\ notes' = notes + 1 /\ pending' = Frame(0)
  /\ UNCHANGED <<clientVars, child, ended, inq, out, crashes>>

\* A write in pieces.
ChildWrites ==
  /\ child = "up"
  /\ \E n \in DOMAIN pending :
       out' = out \o SubSeq(pending, 1, n) /\ pending' = SubSeq(pending, n + 1, Len(pending))
  /\ UNCHANGED <<clientVars, child, ended, inq, notes, crashes>>

ChildDies ==
  /\ child = "up"
  /\ crashes < MaxCrashes
  /\ crashes' = crashes + 1
  /\ child' = "dead"
  /\ UNCHANGED <<clientVars, ended, inq, pending, out, notes>>

\* It goes when its stdin is closed.
ChildExits ==
  /\ child = "up" /\ ended
  /\ child' = "dead"
  /\ UNCHANGED <<clientVars, ended, inq, pending, out, notes, crashes>>

Child == ChildAnswers \/ ChildNotifies \/ ChildWrites \/ ChildDies \/ ChildExits

-----------------------------------------------------------------------------
(* The client *)

Goto(label) == pc' = label

\* cbm_bidir_write on the pipe of a dead process raises SIGPIPE, or fails.
Written(label) == IF child = "up" \/ PipeIgnored THEN label ELSE "killed"

\* cbm_bidir_spawn
Spawn ==
  /\ pc = "spawn"
  /\ \/ child' = "up" /\ Goto("ask")
     \/ UNCHANGED child /\ Goto("done")
  /\ UNCHANGED <<what, file, attempt, asked, got, reads, answer, cut, ended, inq, pending,
                 out, notes, crashes>>

\* cbm_lsp_client_request, up to the first read
Ask ==
  /\ pc = "ask"
  /\ asked' = Append(asked, [what |-> what, file |-> file])
  /\ reads' = 0
  /\ inq' = IF child = "up" THEN inq \cup {Len(asked')} ELSE inq
  /\ Goto(Written(IF child = "up" THEN "read" ELSE "fail"))
  /\ UNCHANGED <<what, file, attempt, got, answer, cut, child, ended, pending, out, notes,
                 crashes>>

\* The notifications that the client sends.
Tell(from, label) ==
  /\ pc = from
  /\ Goto(Written(label))
  /\ UNCHANGED <<what, file, attempt, asked, got, reads, answer, cut, childVars>>

Initialized == Tell("initialized", "next")
DidOpen == Tell("didOpen", "ask")
DidClose == Tell("didClose", "next")
Exit == Tell("exit", "wait")

-----------------------------------------------------------------------------
(* cbm_lsp_read_response *)

HeaderEnded(g) == \E i \in DOMAIN g : g[i][2] = 2
HeaderGood(g) == Len(g) >= 2 /\ g[1][2] = 1 /\ g[2][2] = 2
CompleteBug(g) == HeaderGood(g) /\ Len(g) = 2
Complete(g) == HeaderGood(g) /\ Len(g) = 3
\* No Content-Length where it should be; a header without end fills the buffer at
\* some point of a body.
HeaderBad(g) ==
  \/ HeaderEnded(g) /\ ~HeaderGood(g)
  \/ ~HeaderEnded(g) /\ \E i \in DOMAIN g : g[i][2] = 3

Sofar == Append(got, Head(out))

ReadPiece ==
  /\ pc = "read" /\ out # <<>>
  /\ ~Complete(Sofar) /\ ~(HeaderEnded(Sofar) /\ ~HeaderGood(Sofar))
  /\ got' = Sofar /\ out' = Tail(out)
  /\ UNCHANGED <<pc, what, file, attempt, asked, reads, answer, cut, child, ended, inq,
                 pending, notes, crashes>>

ReadGarbage ==
  /\ pc = "read" /\ out # <<>>
  /\ HeaderBad(Sofar)
  /\ got' = <<>> /\ out' = Tail(out) /\ cut' = TRUE
  /\ Goto("fail")
  /\ UNCHANGED <<what, file, attempt, asked, reads, answer, child, ended, inq, pending,
                 notes, crashes>>

\* A body of more than ten megabytes is left where it is.
ReadTooLong ==
  /\ pc = "read" /\ out # <<>>
  /\ HeaderGood(Sofar) /\ Len(Sofar) = 2
  /\ got' = <<>> /\ out' = Tail(out) /\ cut' = TRUE
  /\ Goto("fail")
  /\ UNCHANGED <<what, file, attempt, asked, reads, answer, child, ended, inq, pending,
                 notes, crashes>>

\* The timeout, or the end of a dead server's output.
ReadFails ==
  /\ pc = "read" /\ out = <<>>
  /\ got' = <<>> /\ cut' = (cut \/ got # <<>>)
  /\ Goto("fail")
  /\ UNCHANGED <<what, file, attempt, asked, reads, answer, childVars>>

\* Whether a message answers the request that was made last.
MatchesBug(id) == id # 0
Matches(id) == id = Len(asked)

\* An answer ends the request, well or with an error of the server; any other
\* message is dropped and the next one is read.
ReadMessage ==
  /\ pc = "read" /\ out # <<>>
  /\ Complete(Sofar)
  /\ got' = <<>> /\ out' = Tail(out)
  /\ LET id == Sofar[1][1] IN
     \/ /\ Matches(id)
        /\ \/ Goto("ok") /\ answer' = id
           \/ Goto("fail") /\ UNCHANGED answer
        /\ UNCHANGED reads
     \/ /\ ~Matches(id)
        /\ reads' = reads + 1
        /\ Goto(IF reads' < MaxReads THEN "read" ELSE "fail")
        /\ UNCHANGED answer
  /\ UNCHANGED <<what, file, attempt, asked, cut, child, ended, inq, pending, notes, crashes>>

-----------------------------------------------------------------------------
(* pass_clangd *)

\* cbm_lsp_client_new gives up when initialize fails.
InitReturnsBug ==
  /\ what = "init"
  /\ \/ pc = "ok" /\ Goto("initialized")
     \/ pc = "fail" /\ Goto("done")
  /\ UNCHANGED <<what, file, attempt, asked, got, reads, answer, cut, childVars>>

InitReturns ==
  /\ what = "init"
  /\ \/ pc = "ok" /\ Goto("initialized")
     \/ pc = "fail" /\ Goto("free")
  /\ UNCHANGED <<what, file, attempt, asked, got, reads, answer, cut, childVars>>

\* The next file, if any and if the run has not been cancelled. The child is alive
\* to kill(pid, 0), dead or not.
NextFile ==
  /\ pc = "next"
  /\ attempt' = 0
  /\ \/ /\ file < NFiles
        /\ file' = file + 1
        /\ what' = "symbols"
        /\ Goto("didOpen")
     \/ /\ what' = "shutdown" /\ file' = NFiles + 1
        /\ Goto("ask")
  /\ UNCHANGED <<asked, got, reads, answer, cut, childVars>>

\* documentSymbol is asked again until there are functions among the symbols.
SymbolsReturn ==
  /\ what = "symbols"
  /\ \/ /\ pc = "ok"
        /\ what' = "calls" /\ Goto("ask")
        /\ UNCHANGED attempt
     \/ /\ pc \in {"ok", "fail"}
        /\ attempt' = attempt + 1
        /\ Goto(IF attempt' < max_attempts(file) THEN "ask" ELSE "didClose")
        /\ UNCHANGED what
  /\ UNCHANGED <<file, asked, got, reads, answer, cut, childVars>>

\* The call hierarchy of the file's functions: one of the requests stands for all.
CallsReturn ==
  /\ what = "calls" /\ pc \in {"ok", "fail"}
  /\ Goto("didClose")
  /\ UNCHANGED <<what, file, attempt, asked, got, reads, answer, cut, childVars>>

\* cbm_lsp_client_shutdown does not mind what became of its request.
ShutdownReturns ==
  /\ what = "shutdown" /\ pc \in {"ok", "fail"}
  /\ Goto("exit")
  /\ UNCHANGED <<what, file, attempt, asked, got, reads, answer, cut, childVars>>

\* cbm_bidir_shutdown closes the child's stdin and waits for it.
CloseStdinBug ==
  /\ pc = "wait" /\ ~ended
  /\ child = "dead"
  /\ ended' = TRUE
  /\ UNCHANGED <<clientVars, child, inq, pending, out, notes, crashes>>

CloseStdin ==
  /\ pc = "wait" /\ ~ended
  /\ ended' = TRUE
  /\ UNCHANGED <<clientVars, child, inq, pending, out, notes, crashes>>

WaitPid ==
  /\ pc = "wait" /\ ended
  /\ child = "dead"
  /\ child' = "reaped"
  /\ Goto("free")
  /\ UNCHANGED <<what, file, attempt, asked, got, reads, answer, cut, ended, inq, pending,
                 out, notes, crashes>>

\* cbm_bidir_free kills and waits.
Free ==
  /\ pc = "free"
  /\ child' = "reaped" /\ ended' = TRUE
  /\ Goto("done")
  /\ UNCHANGED <<what, file, attempt, asked, got, reads, answer, cut, inq, pending, out,
                 notes, crashes>>

Client ==
  \/ Spawn \/ Ask \/ Initialized \/ DidOpen \/ DidClose \/ Exit
  \/ ReadPiece \/ ReadGarbage \/ ReadTooLong \/ ReadFails \/ ReadMessage
  \/ InitReturns \/ NextFile \/ SymbolsReturn \/ CallsReturn \/ ShutdownReturns
  \/ CloseStdin \/ WaitPid \/ Free

Next == Client \/ Child

\* The client runs, every read has a timeout, and a server whose stdin is closed goes.
Fairness == WF_vars(Client) /\ WF_vars(ChildExits)

Spec == Init /\ [][Next]_vars /\ Fairness
-----------------------------------------------------------------------------
\* A response that is taken for the answer to a request is the answer to that very
\* one, however many came late: no file gets the symbols or calls of another.
AnswersAsked ==
  pc = "ok" => answer # 0 /\ asked[answer] = [what |-> what, file |-> file]

\* As long as no read has given up within a frame, requests begin between frames: a
\* late answer, an error, a notification or a limit reached costs its own request
\* at most.
Boundary(s) == s = <<>> \/ s[1][2] = 1
InStep == pc = "ask" /\ ~cut => Boundary(out \o pending)

\* Whatever the server does, the pass comes to an end and the run goes on.
PassEnds == <>(pc \in {"done", "killed"})

\* No language server is left behind, running or unreaped.
NoOrphan == pc = "done" => child \in {"none", "reaped"}

\* "clangd crashes: one automatic restart, or leave gracefully": its death is never
\* that of the server. (Fails when the UI is off.)
SurvivesCrash == pc # "killed"
=============================================================================
