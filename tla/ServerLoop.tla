----------------------------- MODULE ServerLoop -----------------------------
(***************************************************************************)
(* The stdio loop of the server (cbm_mcp_server_run): one thread that      *)
(* polls the descriptor but reads through a FILE buffer, takes messages    *)
(* that are lines or frames with a Content-Length, and handles them one by *)
(* one. The client's bytes are a stream of tokens with three marks in it:  *)
(* what has been written to the pipe, fetched into the FILE buffer, and    *)
(* taken out of the buffer.                                                *)
(***************************************************************************)
EXTENDS Integers, Sequences, SequencesExt

CONSTANTS
  Scripts,    \* what clients send: sequences of messages
  BufCap      \* tokens that one read fetches

\* kind: initialize, another request, or a notification.
Messages == [kind : {"init", "call", "note"}, framing : {"line", "length", "huge"}]

ASSUME LoopAssumption ==
  /\ BufCap \in Nat \ {0}
  /\ \A s \in Scripts : s \in Seq(Messages)

VARIABLES
  script,                   \* the messages of this client
  written, fetched, taken,  \* marks in the stream
  closed,     \* the client's end
  gone,       \* the signal handler has closed stdin
  start,      \* where the line or body being read begins
  need,       \* content_len
  pc,         \* what the loop is doing
  handled     \* history: what cbm_mcp_server_handle was given: a message, or 0 for none

marks == <<written, fetched, taken>>
loopVars == <<script, marks, closed, gone, start, need, pc, handled>>

-----------------------------------------------------------------------------
(* The stream *)

NL == <<0, 0>>
Header(n) == <<0, n>>
IsHeader(t) == t[1] = 0 /\ t[2] # 0
OtherHeader == <<-1, 0>>
TooLong == 9   \* a Content-Length above the limit of ten megabytes

\* A frame's text may have line breaks in it, a line's text may not.
Text(i, m) == IF m.framing = "length" THEN <<<<i, 1>>, NL, <<i, 2>>>> ELSE <<<<i, 1>>>>
Wire(i, m) ==
  LET head == [line   |-> <<>>,
               length |-> <<Header(3), NL, OtherHeader, NL, NL>>,
               huge   |-> <<Header(TooLong), NL, NL>>]
      tail == [line |-> <<NL>>, length |-> <<>>, huge |-> <<>>]
  IN  head[m.framing] \o Text(i, m) \o tail[m.framing]

StreamOf == [s \in Scripts |-> FlattenSeq([i \in DOMAIN s |-> Wire(i, s[i])])]
Stream == StreamOf[script]

\* The message that a text is, whole and alone; 0 is a parse error.
MessageOf(text) ==
  LET is == {i \in DOMAIN script : Text(i, script[i]) = text}
  IN  IF is = {} THEN 0 ELSE CHOOSE i \in is : TRUE

KernelEmpty == fetched = written
BufferEmpty == taken = fetched
\* poll() reports data, a hang-up, and a descriptor that is closed.
Ready == ~KernelEmpty \/ closed \/ gone
\* No read will return anything any more.
AtEof == gone \/ (closed /\ KernelEmpty /\ BufferEmpty)

-----------------------------------------------------------------------------
(* The client *)

Write ==
  /\ ~closed
  /\ written' \in (written + 1)..Len(Stream)
  /\ UNCHANGED <<script, fetched, taken, closed, gone, start, need, pc, handled>>

Close ==
  /\ ~closed
  /\ closed' = TRUE
  /\ UNCHANGED <<script, marks, gone, start, need, pc, handled>>

-----------------------------------------------------------------------------
(* poll_for_input_unix *)

Goto(label) == pc' = label

\* Phase 1, which does not wait.
PollNow ==
  /\ pc = "poll"
  /\ Goto(IF Ready THEN "line" ELSE "peek")
  /\ start' = taken
  /\ UNCHANGED <<script, marks, closed, gone, need, handled>>

\* Phase 2: fgetc on a descriptor that does not block, and ungetc.
PeekBug ==
  /\ pc = "peek"
  /\ Goto("block")
  /\ UNCHANGED <<script, marks, closed, gone, start, need, handled>>

Peek ==
  /\ pc = "peek"
  /\ fetched' = IF BufferEmpty /\ ~gone THEN Min({written, fetched + BufCap}) ELSE fetched
  /\ Goto(IF ~gone /\ taken # fetched' THEN "line"
          ELSE IF closed /\ ~gone THEN "ended" ELSE "block")
  /\ UNCHANGED <<script, written, taken, closed, gone, start, need, handled>>

\* Phase 3: sleep up to the idle timeout.
Awake ==
  /\ pc = "block"
  /\ Ready
  /\ Goto("line")
  /\ UNCHANGED <<script, marks, closed, gone, start, need, handled>>

\* The minute has passed: idle connections are evicted (Evict of StoreFile).
Timeout ==
  /\ pc = "block"
  /\ ~Ready
  /\ Goto("poll")
  /\ UNCHANGED <<script, marks, closed, gone, start, need, handled>>

-----------------------------------------------------------------------------
(* Reading *)

BreakIn(a, b) == \E p \in a..b : Stream[p] = NL

\* The line or body is not complete: read() waits for more.
Wants ==
  \/ pc \in {"line", "header"} /\ ~BreakIn(taken + 1, fetched)
  \/ pc = "body" /\ fetched - start < need

Fetch ==
  /\ Wants
  /\ ~gone /\ ~KernelEmpty
  /\ fetched' = Min({written, fetched + BufCap})
  /\ UNCHANGED <<script, written, taken, closed, gone, start, need, pc, handled>>

\* Where a line that getline returns ends: at its break, or at the end of the input.
LineEnd ==
  IF BreakIn(taken + 1, fetched)
  THEN Min({p \in (taken + 1)..fetched : Stream[p] = NL})
  ELSE fetched

HasLine == ~gone /\ (BreakIn(taken + 1, fetched) \/ (closed /\ KernelEmpty /\ ~BufferEmpty))

\* Without the line break at its end.
Trimmed ==
  SubSeq(Stream, start + 1, IF Stream[LineEnd] = NL THEN LineEnd - 1 ELSE LineEnd)

\* cbm_mcp_server_handle takes its time over a request. A notification gets no
\* answer, a text that cannot be parsed an error.
Dispatch(i) ==
  /\ handled' = Append(handled, i)
  /\ Goto(IF i # 0 /\ script[i].kind # "note" THEN "handle" ELSE "poll")

\* cbm_getline in the loop returns a line.
TakeLine ==
  /\ pc = "line"
  /\ HasLine
  /\ taken' = LineEnd
  /\ \/ /\ Trimmed = <<>>
        /\ Goto("poll")
        /\ UNCHANGED <<need, handled>>
     \/ /\ Trimmed # <<>> /\ IsHeader(Trimmed[1])
        /\ need' = Trimmed[1][2]
        /\ Goto(IF need' < TooLong THEN "header" ELSE "poll")
        /\ UNCHANGED handled
     \/ /\ Trimmed # <<>> /\ ~IsHeader(Trimmed[1])
        /\ Dispatch(MessageOf(Trimmed))
        /\ UNCHANGED need
  /\ start' = taken'
  /\ UNCHANGED <<script, written, fetched, closed, gone>>

\* The other headers of a frame, up to the blank line.
TakeHeader ==
  /\ pc = "header"
  /\ HasLine
  /\ taken' = LineEnd /\ start' = taken'
  /\ Goto(IF Trimmed = <<>> THEN "body" ELSE "header")
  /\ UNCHANGED <<script, written, fetched, closed, gone, need, handled>>

\* fread returns what was asked for, or what there is at the end of the input.
BodyEndBug == start + need + 1
BodyEnd == start + need
TakeBody ==
  /\ pc = "body"
  /\ \/ ~gone /\ fetched >= BodyEnd /\ taken' = BodyEnd
     \/ ~gone /\ closed /\ KernelEmpty /\ fetched < BodyEnd /\ taken' = fetched
     \/ gone /\ taken' = taken
  /\ Dispatch(IF gone THEN 0 ELSE MessageOf(SubSeq(Stream, start + 1, taken')))
  /\ UNCHANGED <<script, written, fetched, closed, gone, start, need>>

\* Nothing to read: the loop ends, a frame goes on to its body.
ReadFails ==
  /\ pc \in {"line", "header"}
  /\ AtEof
  /\ Goto(IF pc = "line" THEN "ended" ELSE "body")
  /\ UNCHANGED <<script, marks, closed, gone, start, need, handled>>

\* The handler returns, the answer is written and flushed.
Answer ==
  /\ pc = "handle"
  /\ Goto("poll")
  /\ UNCHANGED <<script, marks, closed, gone, start, need, handled>>

LoopInit ==
  /\ script \in Scripts
  /\ written = 0 /\ fetched = 0 /\ taken = 0
  /\ closed = FALSE /\ gone = FALSE
  /\ start = 0 /\ need = 0 /\ pc = "poll"
  /\ handled = <<>>

Client == Write \/ Close
=============================================================================
