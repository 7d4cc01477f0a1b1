--------------------------- MODULE LspClientProofs ---------------------------
(***************************************************************************)
(* Proofs about LspClient, for any number of files, polls, reads,          *)
(* notifications and deaths of the language server:                        *)
(*   - the type invariant;                                                 *)
(*   - the answer that a request gets is its own;                          *)
(*   - requests begin between frames unless a read was cut off;            *)
(*   - no child is left behind.                                            *)
(*                                                                         *)
(* What is on its way from the server is taken as one sequence: what the   *)
(* present read has got of its frame, the pipe, and what the server is     *)
(* about to write. Until a read gives up within a frame, it is a sequence  *)
(* of whole frames, so that its pieces are of kind 1, 2, 3, 1, 2, 3, ...   *)
(***************************************************************************)
EXTENDS LspClient, SequenceTheorems, TLAPS

Piece == Nat \X (1..3)

(* The parts of the type invariant. *)

\* Where the pass is, with the polls and reads that it still has.
Control ==
  /\ pc \in {"spawn", "ask", "read", "ok", "fail", "initialized", "next", "didOpen",
             "didClose", "exit", "wait", "free", "done", "killed"}
  /\ what \in {"init", "symbols", "calls", "shutdown"}
  /\ file \in 0..(NFiles + 1) /\ attempt \in 0..max_attempts(file) /\ reads \in 0..MaxReads
  /\ what = "symbols" /\ pc \in {"didOpen", "ask", "read", "ok", "fail"}
       => attempt < max_attempts(file)
  /\ (pc = "read" => reads < MaxReads) /\ (pc = "spawn" => what = "init")

\* The requests, and what refers to them.
Asked == asked \in Seq(Requests) /\ answer \in Ids /\ inq \subseteq Ids \ {0}

\* What is on its way to the client.
Way ==
  /\ got \in Seq(Ids \X (1..3)) /\ (got # <<>> => pc = "read")
  /\ pending \in Seq(Ids \X (1..3)) /\ out \in Seq(Ids \X (1..3))

Rest ==
  /\ child \in {"none", "up", "dead", "reaped"}
  /\ notes \in 0..MaxNotes /\ crashes \in 0..MaxCrashes
Booleans == cut \in BOOLEAN /\ ended \in BOOLEAN

Types == Control /\ Asked /\ Way /\ Rest /\ Booleans

LEMMA ControlStep ==
  ASSUME Control, [Next]_vars PROVE Control'
<1> USE LspAssumption DEF Control, Goto, max_attempts
<1>1. CASE ChildAnswers \/ ChildNotifies
  BY <1>1 DEF ChildAnswers, ChildNotifies, clientVars
<1>2. CASE ChildWrites
  BY <1>2 DEF ChildWrites, clientVars
<1>3. CASE ChildDies \/ ChildExits
  BY <1>3 DEF ChildDies, ChildExits, clientVars
<1>4. CASE Spawn
  BY <1>4 DEF Spawn
<1>5. CASE Ask
  BY <1>5 DEF Ask, Written
<1>6. CASE Initialized \/ DidOpen \/ DidClose \/ Exit
  BY <1>6 DEF Initialized, DidOpen, DidClose, Exit, Tell, Written, childVars
<1>7. CASE ReadPiece
  BY <1>7 DEF ReadPiece
<1>8. CASE ReadGarbage \/ ReadTooLong
  BY <1>8 DEF ReadGarbage, ReadTooLong
<1>9. CASE ReadFails
  BY <1>9 DEF ReadFails, childVars
<1>10. CASE ReadMessage
  BY <1>10 DEF ReadMessage
<1>11. CASE InitReturns \/ NextFile
  BY <1>11 DEF InitReturns, NextFile, childVars
<1>12. CASE SymbolsReturn
  BY <1>12 DEF SymbolsReturn, childVars
<1>13. CASE CallsReturn \/ ShutdownReturns
  BY <1>13 DEF CallsReturn, ShutdownReturns, childVars
<1>14. CASE CloseStdin
  BY <1>14 DEF CloseStdin, clientVars
<1>15. CASE WaitPid \/ Free
  BY <1>15 DEF WaitPid, Free
<1>16. CASE UNCHANGED vars
  BY <1>16 DEF vars, clientVars, childVars
<1> QED
  BY <1>1, <1>2, <1>3, <1>4, <1>5, <1>6, <1>7, <1>8, <1>9, <1>10, <1>11, <1>12, <1>13,
     <1>14, <1>15, <1>16 DEF Next, Client, Child

LEMMA AskedStep ==
  ASSUME Control, Asked, [Next]_vars PROVE Asked'
<1> USE DEF Control, Asked, Ids, Requests, Goto
<1>1. CASE ChildAnswers \/ ChildNotifies
  BY <1>1 DEF ChildAnswers, ChildNotifies, clientVars
<1>2. CASE ChildWrites
  BY <1>2 DEF ChildWrites, clientVars
<1>3. CASE ChildDies \/ ChildExits
  BY <1>3 DEF ChildDies, ChildExits, clientVars
<1>4. CASE Spawn
  BY <1>4 DEF Spawn
<1>5. CASE Ask
<2>1. asked' \in Seq(Requests) /\ Len(asked) \in Nat /\ Len(asked') = Len(asked) + 1
    BY <1>5, AppendProperties, LenProperties DEF Ask
  <2>2. inq' \subseteq inq \cup {Len(asked')} /\ answer' = answer
    BY <1>5 DEF Ask
  <2>3. answer' \in 0..Len(asked')
    BY <2>1, <2>2
  <2>4. ASSUME NEW id \in inq' PROVE id \in (0..Len(asked')) \ {0}
    <3>1. CASE id \in inq
      BY <2>1, <3>1
    <3>2. CASE id = Len(asked')
      BY <2>1, <3>2
    <3> QED
      BY <2>2, <3>1, <3>2
  <2> QED
    BY <2>1, <2>3, <2>4
<1>6. CASE Initialized \/ DidOpen \/ DidClose \/ Exit
  BY <1>6 DEF Initialized, DidOpen, DidClose, Exit, Tell, Written, childVars
<1>7. CASE ReadPiece
  BY <1>7 DEF ReadPiece
<1>8. CASE ReadGarbage \/ ReadTooLong
  BY <1>8 DEF ReadGarbage, ReadTooLong
<1>9. CASE ReadFails
  BY <1>9 DEF ReadFails, childVars
<1>10. CASE ReadMessage
  BY <1>10 DEF ReadMessage, Matches
<1>11. CASE InitReturns \/ NextFile
  BY <1>11 DEF InitReturns, NextFile, childVars
<1>12. CASE SymbolsReturn
  BY <1>12 DEF SymbolsReturn, childVars
<1>13. CASE CallsReturn \/ ShutdownReturns
  BY <1>13 DEF CallsReturn, ShutdownReturns, childVars
<1>14. CASE CloseStdin
  BY <1>14 DEF CloseStdin, clientVars
<1>15. CASE WaitPid \/ Free
  BY <1>15 DEF WaitPid, Free
<1>16. CASE UNCHANGED vars
  BY <1>16 DEF vars, clientVars, childVars
<1> QED
  BY <1>1, <1>2, <1>3, <1>4, <1>5, <1>6, <1>7, <1>8, <1>9, <1>10, <1>11, <1>12, <1>13,
     <1>14, <1>15, <1>16 DEF Next, Client, Child

LEMMA FramesAreSequences ==
  ASSUME NEW id \in Ids PROVE Frame(id) \in Seq(Ids \X (1..3)) /\ Len(Frame(id)) = 3
BY DEF Frame

LEMMA WayStep ==
  ASSUME Control, Asked, Way, [Next]_vars PROVE Way'
<1> USE DEF Way, Goto
<1>1. CASE ChildAnswers \/ ChildNotifies
<2>1. PICK id \in Ids : pending' = Frame(id)
    BY <1>1 DEF ChildAnswers, ChildNotifies, Asked, Ids
  <2>2. pending' \in Seq(Ids \X (1..3))
    BY <2>1, FramesAreSequences
  <2> QED
    BY <1>1, <2>2 DEF ChildAnswers, ChildNotifies, clientVars, Ids
<1>2. CASE ChildWrites
<2> DEFINE P == Ids \X (1..3)
  <2>1. PICK n \in DOMAIN pending :
          /\ out' = out \o SubSeq(pending, 1, n)
          /\ pending' = SubSeq(pending, n + 1, Len(pending))
    BY <1>2 DEF ChildWrites
  <2>2. n \in 1..Len(pending) /\ Len(pending) \in Nat /\ \A i \in 1..Len(pending) : pending[i] \in P
    BY ElementOfSeq, LenProperties
  <2>3. SubSeq(pending, 1, n) \in Seq(P) /\ SubSeq(pending, n + 1, Len(pending)) \in Seq(P)
    BY <2>2, SubSeqProperties
  <2>4. out' \in Seq(P) /\ pending' \in Seq(P)
    BY <2>1, <2>3, ConcatProperties
  <2> QED
    BY <1>2, <2>4 DEF ChildWrites, clientVars, Ids
<1>3. CASE ChildDies \/ ChildExits
  BY <1>3 DEF ChildDies, ChildExits, clientVars, Ids
<1>4. CASE Spawn
  BY <1>4 DEF Spawn, Ids
<1>5. CASE Ask
<2>1. Ids \subseteq Ids'
    <3>1. Len(asked') = Len(asked) + 1 /\ Len(asked) \in Nat
      BY <1>5, LenProperties, AppendProperties DEF Ask, Asked, Control, Requests
    <3> QED
      BY <3>1 DEF Ids
  <2>2. Ids \X (1..3) \subseteq Ids' \X (1..3)
    BY <2>1
  <2>3. /\ got \in Seq(Ids' \X (1..3)) /\ pending \in Seq(Ids' \X (1..3))
        /\ out \in Seq(Ids' \X (1..3))
    BY <2>2, SeqMonotonic
  <2> QED
    BY <1>5, <2>3 DEF Ask, Written
<1>6. CASE Initialized \/ DidOpen \/ DidClose \/ Exit
  BY <1>6 DEF Initialized, DidOpen, DidClose, Exit, Tell, Written, childVars, Ids
<1>7. CASE ReadPiece
<2>1. Sofar \in Seq(Ids \X (1..3)) /\ Tail(out) \in Seq(Ids \X (1..3))
    BY <1>7, AppendProperties, HeadTailProperties DEF ReadPiece, Sofar
  <2> QED
    BY <1>7, <2>1 DEF ReadPiece, Ids
<1>8. CASE ReadGarbage \/ ReadTooLong
<2>1. Tail(out) \in Seq(Ids \X (1..3)) /\ <<>> \in Seq(Ids \X (1..3))
    BY <1>8, HeadTailProperties, EmptySeq DEF ReadGarbage, ReadTooLong
  <2> QED
    BY <1>8, <2>1 DEF ReadGarbage, ReadTooLong, Ids
<1>9. CASE ReadFails
  BY <1>9, EmptySeq DEF ReadFails, childVars, Ids
<1>10. CASE ReadMessage
<2>1. Tail(out) \in Seq(Ids \X (1..3)) /\ <<>> \in Seq(Ids \X (1..3))
    BY <1>10, HeadTailProperties, EmptySeq DEF ReadMessage
  <2> QED
    BY <1>10, <2>1 DEF ReadMessage, Ids
<1>11. CASE InitReturns \/ NextFile
  BY <1>11 DEF InitReturns, NextFile, childVars, Ids
<1>12. CASE SymbolsReturn
  BY <1>12 DEF SymbolsReturn, childVars, Ids
<1>13. CASE CallsReturn \/ ShutdownReturns
  BY <1>13 DEF CallsReturn, ShutdownReturns, childVars, Ids
<1>14. CASE CloseStdin
  BY <1>14 DEF CloseStdin, clientVars, Ids
<1>15. CASE WaitPid \/ Free
  BY <1>15 DEF WaitPid, Free, Ids
<1>16. CASE UNCHANGED vars
  BY <1>16 DEF vars, clientVars, childVars, Ids
<1> QED
  BY <1>1, <1>2, <1>3, <1>4, <1>5, <1>6, <1>7, <1>8, <1>9, <1>10, <1>11, <1>12, <1>13,
     <1>14, <1>15, <1>16 DEF Next, Client, Child

LEMMA RestStep ==
  ASSUME Rest, [Next]_vars PROVE Rest'
<1> USE LspAssumption DEF Rest
<1>1. CASE ChildAnswers \/ ChildNotifies
  BY <1>1 DEF ChildAnswers, ChildNotifies, clientVars
<1>2. CASE ChildWrites
  BY <1>2 DEF ChildWrites, clientVars
<1>3. CASE ChildDies \/ ChildExits
  BY <1>3 DEF ChildDies, ChildExits, clientVars
<1>4. CASE Spawn
  BY <1>4 DEF Spawn
<1>5. CASE Ask
  BY <1>5 DEF Ask, Written
<1>6. CASE Initialized \/ DidOpen \/ DidClose \/ Exit
  BY <1>6 DEF Initialized, DidOpen, DidClose, Exit, Tell, Written, childVars
<1>7. CASE ReadPiece
  BY <1>7 DEF ReadPiece
<1>8. CASE ReadGarbage \/ ReadTooLong
  BY <1>8 DEF ReadGarbage, ReadTooLong
<1>9. CASE ReadFails
  BY <1>9 DEF ReadFails, childVars
<1>10. CASE ReadMessage
  BY <1>10 DEF ReadMessage
<1>11. CASE InitReturns \/ NextFile
  BY <1>11 DEF InitReturns, NextFile, childVars
<1>12. CASE SymbolsReturn
  BY <1>12 DEF SymbolsReturn, childVars
<1>13. CASE CallsReturn \/ ShutdownReturns
  BY <1>13 DEF CallsReturn, ShutdownReturns, childVars
<1>14. CASE CloseStdin
  BY <1>14 DEF CloseStdin, clientVars
<1>15. CASE WaitPid \/ Free
  BY <1>15 DEF WaitPid, Free
<1>16. CASE UNCHANGED vars
  BY <1>16 DEF vars, clientVars, childVars
<1> QED
  BY <1>1, <1>2, <1>3, <1>4, <1>5, <1>6, <1>7, <1>8, <1>9, <1>10, <1>11, <1>12, <1>13,
     <1>14, <1>15, <1>16 DEF Next, Client, Child

LEMMA BooleansStep ==
  ASSUME Booleans, [Next]_vars PROVE Booleans'
<1> USE DEF Booleans
<1>1. CASE ChildAnswers \/ ChildNotifies
  BY <1>1 DEF ChildAnswers, ChildNotifies, clientVars
<1>2. CASE ChildWrites
  BY <1>2 DEF ChildWrites, clientVars
<1>3. CASE ChildDies \/ ChildExits
  BY <1>3 DEF ChildDies, ChildExits, clientVars
<1>4. CASE Spawn
  BY <1>4 DEF Spawn
<1>5. CASE Ask
  BY <1>5 DEF Ask, Written
<1>6. CASE Initialized \/ DidOpen \/ DidClose \/ Exit
  BY <1>6 DEF Initialized, DidOpen, DidClose, Exit, Tell, Written, childVars
<1>7. CASE ReadPiece
  BY <1>7 DEF ReadPiece
<1>8. CASE ReadGarbage \/ ReadTooLong
  BY <1>8 DEF ReadGarbage, ReadTooLong
<1>9. CASE ReadFails
  BY <1>9 DEF ReadFails, childVars
<1>10. CASE ReadMessage
  BY <1>10 DEF ReadMessage
<1>11. CASE InitReturns \/ NextFile
  BY <1>11 DEF InitReturns, NextFile, childVars
<1>12. CASE SymbolsReturn
  BY <1>12 DEF SymbolsReturn, childVars
<1>13. CASE CallsReturn \/ ShutdownReturns
  BY <1>13 DEF CallsReturn, ShutdownReturns, childVars
<1>14. CASE CloseStdin
  BY <1>14 DEF CloseStdin, clientVars
<1>15. CASE WaitPid \/ Free
  BY <1>15 DEF WaitPid, Free
<1>16. CASE UNCHANGED vars
  BY <1>16 DEF vars, clientVars, childVars
<1> QED
  BY <1>1, <1>2, <1>3, <1>4, <1>5, <1>6, <1>7, <1>8, <1>9, <1>10, <1>11, <1>12, <1>13,
     <1>14, <1>15, <1>16 DEF Next, Client, Child

LEMMA InitTypes == Init => Types
<1> SUFFICES ASSUME Init PROVE Types
  OBVIOUS
<1>1. Control /\ Rest
  BY LspAssumption DEF Init, Control, Rest, max_attempts
<1>2. Asked
  BY EmptySeq DEF Init, Asked, Ids, Requests
<1>3. Way
  BY EmptySeq DEF Init, Way, Ids
<1>4. Booleans
  BY DEF Init, Booleans
<1> QED
  BY <1>1, <1>2, <1>3, <1>4 DEF Types

LEMMA TypesStep == Types /\ [Next]_vars => Types'
BY ControlStep, AskedStep, WayStep, RestStep, BooleansStep DEF Types

(* The types: polls and messages are within their limits, responses and pieces of
   frames belong to requests that were made. *)
THEOREM TypeCorrect == Spec => []TypeOK
<1>1. Types => TypeOK
  BY DEF Types, Control, Asked, Way, Rest, Booleans, TypeOK
<1> QED
  BY <1>1, InitTypes, TypesStep, PTL DEF Spec

-----------------------------------------------------------------------------
(* Answers *)

\* What is read for, or has been answered, is the request that was made last.
LastAsked ==
  /\ pc \in {"read", "ok"}
       => asked # <<>> /\ asked[Len(asked)] = [what |-> what, file |-> file]
  /\ pc = "ok" => answer = Len(asked)

LEMMA LastAskedStep ==
  ASSUME Types, LastAsked, [Next]_vars PROVE LastAsked'
<1> USE DEF LastAsked, Goto
<1>1. CASE ChildAnswers \/ ChildNotifies
  BY <1>1 DEF ChildAnswers, ChildNotifies, clientVars
<1>2. CASE ChildWrites
  BY <1>2 DEF ChildWrites, clientVars
<1>3. CASE ChildDies \/ ChildExits
  BY <1>3 DEF ChildDies, ChildExits, clientVars
<1>4. CASE Spawn
  BY <1>4 DEF Spawn
<1>5. CASE Ask
<2>1. asked' # <<>> /\ asked'[Len(asked')] = [what |-> what, file |-> file]
    BY <1>5, AppendProperties DEF Ask, Types, Asked, Control, Requests
  <2> QED
    BY <1>5, <2>1 DEF Ask, Written
<1>6. CASE Initialized \/ DidOpen \/ DidClose \/ Exit
  BY <1>6 DEF Initialized, DidOpen, DidClose, Exit, Tell, Written, childVars
<1>7. CASE ReadPiece
  BY <1>7 DEF ReadPiece
<1>8. CASE ReadGarbage \/ ReadTooLong
  BY <1>8 DEF ReadGarbage, ReadTooLong
<1>9. CASE ReadFails
  BY <1>9 DEF ReadFails, childVars
<1>10. CASE ReadMessage
  BY <1>10 DEF ReadMessage, Matches
<1>11. CASE InitReturns \/ NextFile
  BY <1>11 DEF InitReturns, NextFile, childVars
<1>12. CASE SymbolsReturn
  BY <1>12 DEF SymbolsReturn, childVars
<1>13. CASE CallsReturn \/ ShutdownReturns
  BY <1>13 DEF CallsReturn, ShutdownReturns, childVars
<1>14. CASE CloseStdin
  BY <1>14 DEF CloseStdin, clientVars
<1>15. CASE WaitPid \/ Free
  BY <1>15 DEF WaitPid, Free
<1>16. CASE UNCHANGED vars
  BY <1>16 DEF vars, clientVars, childVars
<1> QED
  BY <1>1, <1>2, <1>3, <1>4, <1>5, <1>6, <1>7, <1>8, <1>9, <1>10, <1>11, <1>12, <1>13,
     <1>14, <1>15, <1>16 DEF Next, Client, Child

(* Whatever comes late or in another order, an answer is to the request that the pass
   is at: no file gets the symbols or calls of another. *)
THEOREM AnswersAreAsked == Spec => []AnswersAsked
<1>1. Init => LastAsked
  BY DEF Init, LastAsked
<1>2. Types /\ LastAsked => AnswersAsked
  BY EmptySeq, LenProperties DEF Types, Asked, LastAsked, AnswersAsked
<1> QED
  BY <1>1, <1>2, InitTypes, TypesStep, LastAskedStep, PTL DEF Spec

-----------------------------------------------------------------------------
(* Steps between frames *)

Stream == got \o (out \o pending)
Framed(s) == Len(s) % 3 = 0 /\ \A i \in 1..Len(s) : s[i][2] = 1 + ((i - 1) % 3)
WholeFrames == ~cut => Framed(Stream)

LEMMA Pieces ==
  ASSUME Types
  PROVE  got \in Seq(Piece) /\ out \in Seq(Piece) /\ pending \in Seq(Piece)
<1>1. Ids \X (1..3) \subseteq Piece
  BY DEF Ids, Piece
<1> QED
  BY <1>1, SeqMonotonic DEF Types, Way

LEMMA Associative ==
  ASSUME NEW s \in Seq(Piece), NEW t \in Seq(Piece), NEW u \in Seq(Piece)
  PROVE  (s \o t) \o u = s \o (t \o u)
BY ConcatAssociative

LEMMA WholeFramesBefore ==
  ASSUME NEW a \in Nat, NEW b \in Nat, a % 3 = 0 PROVE (a + b) % 3 = b % 3
OBVIOUS

LEMMA FramedAfter ==
  ASSUME NEW s \in Seq(Piece), NEW t \in Seq(Piece), Framed(s), Framed(t)
  PROVE  Framed(s \o t)
<1>1. /\ Len(s) \in Nat /\ Len(t) \in Nat /\ Len(s \o t) = Len(s) + Len(t)
      /\ \A i \in 1..Len(s) + Len(t) : (s \o t)[i] = IF i <= Len(s) THEN s[i] ELSE t[i - Len(s)]
  BY ConcatProperties, LenProperties
<1>2. Len(s \o t) % 3 = 0
  BY <1>1, WholeFramesBefore DEF Framed
<1>3. ASSUME NEW i \in 1..Len(s \o t) PROVE (s \o t)[i][2] = 1 + ((i - 1) % 3)
  <2>1. CASE i <= Len(s)
    BY <1>1, <2>1 DEF Framed
  <2>2. CASE i > Len(s)
    <3>1. i - Len(s) \in 1..Len(t) /\ (s \o t)[i] = t[i - Len(s)]
      BY <1>1, <2>2
    <3>2. i - Len(s) - 1 \in Nat /\ Len(s) + (i - Len(s) - 1) = i - 1
      BY <1>1, <2>2
    <3>3. (i - Len(s) - 1) % 3 = (i - 1) % 3
      BY <1>1, <3>2, WholeFramesBefore DEF Framed
    <3> QED
      BY <3>1, <3>3 DEF Framed
  <2> QED
    BY <1>1, <2>1, <2>2
<1> QED
  BY <1>2, <1>3 DEF Framed

LEMMA FramedRest ==
  ASSUME NEW s \in Seq(Piece), NEW t \in Seq(Piece), Framed(s \o t), Len(s) = 3
  PROVE  Framed(t)
<1>1. /\ Len(t) \in Nat /\ Len(s \o t) = 3 + Len(t)
      /\ \A i \in 1..3 + Len(t) : (s \o t)[i] = IF i <= 3 THEN s[i] ELSE t[i - 3]
  <2>1. /\ Len(t) \in Nat /\ Len(s \o t) = Len(s) + Len(t)
        /\ \A i \in 1..Len(s) + Len(t) :
             (s \o t)[i] = IF i <= Len(s) THEN s[i] ELSE t[i - Len(s)]
    BY ConcatProperties, LenProperties
  <2> QED
    BY <2>1
<1>2. Len(t) % 3 = 0
  BY <1>1, WholeFramesBefore DEF Framed
<1>3. ASSUME NEW i \in 1..Len(t) PROVE t[i][2] = 1 + ((i - 1) % 3)
  <2>1. i + 3 \in 1..3 + Len(t) /\ i + 3 > 3 /\ (i + 3) - 3 = i
    BY <1>1
  <2>2. (s \o t)[i + 3] = t[i]
    BY <1>1, <2>1
  <2>3. (s \o t)[i + 3][2] = 1 + (((i + 3) - 1) % 3)
    BY <1>1, <2>1 DEF Framed
  <2>4. ((i + 3) - 1) % 3 = (i - 1) % 3
    <3>1. i - 1 \in Nat /\ 3 + (i - 1) = (i + 3) - 1 /\ 3 % 3 = 0
      BY <1>1
    <3> QED
      BY <3>1, WholeFramesBefore
  <2> QED
    BY <2>2, <2>3, <2>4
<1> QED
  BY <1>2, <1>3 DEF Framed

LEMMA FrameIsFramed == ASSUME NEW id \in Nat PROVE Frame(id) \in Seq(Piece) /\ Framed(Frame(id))
BY DEF Frame, Framed, Piece

(* A piece that is read goes from the pipe to what has been got. *)
LEMMA ReadKeepsStream ==
  ASSUME Types, out # <<>>
  PROVE  /\ Sofar \in Seq(Piece) /\ Tail(out) \in Seq(Piece)
         /\ Stream = Sofar \o (Tail(out) \o pending)
<1>1. got \in Seq(Piece) /\ out \in Seq(Piece) /\ pending \in Seq(Piece)
  BY Pieces
<1>2. Head(out) \in Piece /\ Tail(out) \in Seq(Piece) /\ <<Head(out)>> \in Seq(Piece)
  BY <1>1, HeadTailProperties
<1>3. out = <<Head(out)>> \o Tail(out)
  BY <1>1, <1>2
<1>4. Sofar = got \o <<Head(out)>> /\ Sofar \in Seq(Piece)
  BY <1>1, <1>2, AppendIsConcat, AppendProperties DEF Sofar
<1>5. out \o pending = <<Head(out)>> \o (Tail(out) \o pending)
  <2>1. (<<Head(out)>> \o Tail(out)) \o pending = <<Head(out)>> \o (Tail(out) \o pending)
    BY <1>1, <1>2, Associative, Zenon
  <2> QED
    BY <1>3, <2>1, Zenon
<1>6. Tail(out) \o pending \in Seq(Piece)
  BY <1>1, <1>2, ConcatProperties
<1>7. got \o (<<Head(out)>> \o (Tail(out) \o pending))
        = (got \o <<Head(out)>>) \o (Tail(out) \o pending)
  BY <1>1, <1>2, <1>6, Associative, Zenon
<1> QED
  BY <1>2, <1>4, <1>5, <1>7 DEF Stream

(* So does one that is written, from the server to the pipe. *)
LEMMA WriteKeepsStream ==
  ASSUME Types, ChildWrites PROVE Stream' = Stream
<1>1. got \in Seq(Piece) /\ out \in Seq(Piece) /\ pending \in Seq(Piece)
  BY Pieces
<1>2. PICK n \in DOMAIN pending :
        /\ out' = out \o SubSeq(pending, 1, n)
        /\ pending' = SubSeq(pending, n + 1, Len(pending))
  BY DEF ChildWrites
<1>3. /\ n \in 1..Len(pending) /\ Len(pending) \in Nat
      /\ \A i \in 1..Len(pending) : pending[i] \in Piece
  BY <1>1, ElementOfSeq, LenProperties
<1> DEFINE a == SubSeq(pending, 1, n)
           b == SubSeq(pending, n + 1, Len(pending))
<1>4. a \in Seq(Piece) /\ b \in Seq(Piece)
  BY <1>3, SubSeqProperties
<1>5. a \o b = pending
  <2>1. 1 \in 1..Len(pending) + 1 /\ n \in (1 - 1)..Len(pending) /\ Len(pending) \in n..Len(pending)
    BY <1>3
  <2>2. a \o b = SubSeq(pending, 1, Len(pending))
    BY <1>1, <2>1, ConcatAdjacentSubSeq
  <2> QED
    BY <1>1, <2>2, SubSeqFull
<1>6. (out \o a) \o b = out \o pending
  <2>1. (out \o a) \o b = out \o (a \o b)
    <3> HIDE DEF a, b
    <3> QED
      BY <1>1, <1>4, Associative, Zenon
  <2> QED
    BY <1>5, <2>1
<1> QED
  BY <1>2, <1>6 DEF Stream, ChildWrites, clientVars

LEMMA WholeFramesStep ==
  ASSUME Types, WholeFrames, [Next]_vars PROVE WholeFrames'
<1> USE DEF WholeFrames, Goto
<1>1. CASE ChildAnswers \/ ChildNotifies
<2>1. PICK id \in Nat : pending' = Frame(id)
    BY <1>1 DEF ChildAnswers, ChildNotifies, Types, Asked, Ids
  <2>2. got \in Seq(Piece) /\ out \in Seq(Piece) /\ pending = <<>>
    BY <1>1, Pieces DEF ChildAnswers, ChildNotifies
  <2>3. got' = got /\ out' = out /\ cut' = cut
    BY <1>1 DEF ChildAnswers, ChildNotifies, clientVars
  <2>4. Stream = got \o out
    BY <2>2, ConcatEmptySeq DEF Stream
  <2>5. Stream' = (got \o out) \o Frame(id)
    <3>1. Stream' = got \o (out \o Frame(id))
      BY <2>1, <2>3 DEF Stream
    <3>2. Frame(id) \in Seq(Piece)
      BY FrameIsFramed
    <3>3. (got \o out) \o Frame(id) = got \o (out \o Frame(id))
      BY <2>2, <3>2, Associative, Zenon
    <3> QED
      BY <3>1, <3>3
  <2>6. got \o out \in Seq(Piece)
    BY <2>2, ConcatProperties
  <2>7. Framed(got \o out) => Framed((got \o out) \o Frame(id))
    BY <2>6, FrameIsFramed, FramedAfter
  <2> QED
    BY <2>3, <2>4, <2>5, <2>7
<1>2. CASE ChildWrites
  BY <1>2, WriteKeepsStream DEF ChildWrites, clientVars
<1>3. CASE ChildDies \/ ChildExits
  BY <1>3 DEF ChildDies, ChildExits, clientVars, Stream
<1>4. CASE Spawn
  BY <1>4 DEF Spawn, Stream
<1>5. CASE Ask
  BY <1>5 DEF Ask, Stream
<1>6. CASE Initialized \/ DidOpen \/ DidClose \/ Exit
  BY <1>6 DEF Initialized, DidOpen, DidClose, Exit, Tell, Written, childVars, Stream
<1>7. CASE ReadPiece
<2>1. Stream' = Sofar \o (Tail(out) \o pending) /\ out # <<>>
    BY <1>7 DEF ReadPiece, Stream
  <2> QED
    BY <1>7, <2>1, ReadKeepsStream DEF ReadPiece
<1>8. CASE ReadGarbage \/ ReadTooLong
  BY <1>8 DEF ReadGarbage, ReadTooLong
<1>9. CASE ReadFails
<2>1. CASE got = <<>>
    BY <1>9, <2>1 DEF ReadFails, childVars, Stream
  <2>2. CASE got # <<>>
    BY <1>9, <2>2 DEF ReadFails
  <2> QED
    BY <2>1, <2>2
<1>10. CASE ReadMessage
<2>1. out # <<>> /\ Len(Sofar) = 3 /\ cut' = cut
    BY <1>10 DEF ReadMessage, Complete
  <2>2. Tail(out) \o pending \in Seq(Piece)
    BY <2>1, Pieces, ReadKeepsStream, ConcatProperties
  <2>3. Stream' = Tail(out) \o pending
    BY <1>10, <2>2, ConcatEmptySeq DEF ReadMessage, Stream
  <2>4. Framed(Stream) => Framed(Tail(out) \o pending)
    BY <2>1, <2>2, ReadKeepsStream, FramedRest
  <2> QED
    BY <2>1, <2>3, <2>4
<1>11. CASE InitReturns \/ NextFile
  BY <1>11 DEF InitReturns, NextFile, childVars, Stream
<1>12. CASE SymbolsReturn
  BY <1>12 DEF SymbolsReturn, childVars, Stream
<1>13. CASE CallsReturn \/ ShutdownReturns
  BY <1>13 DEF CallsReturn, ShutdownReturns, childVars, Stream
<1>14. CASE CloseStdin
  BY <1>14 DEF CloseStdin, clientVars, Stream
<1>15. CASE WaitPid \/ Free
  BY <1>15 DEF WaitPid, Free, Stream
<1>16. CASE UNCHANGED vars
  BY <1>16 DEF vars, clientVars, childVars, Stream
<1> QED
  BY <1>1, <1>2, <1>3, <1>4, <1>5, <1>6, <1>7, <1>8, <1>9, <1>10, <1>11, <1>12, <1>13,
     <1>14, <1>15, <1>16 DEF Next, Client, Child

(* Late answers, errors, notifications and limits cost their own request at most: until
   a read gives up within a frame, the next request begins between frames. *)
THEOREM StaysInStep == Spec => []InStep
<1>1. Init => WholeFrames
  <2> SUFFICES ASSUME Init PROVE Framed(<<>>) /\ Stream = <<>>
    BY DEF WholeFrames
  <2> QED
    BY DEF Init, Framed, Stream
<1>2. Types /\ WholeFrames => InStep
  <2> SUFFICES ASSUME Types, WholeFrames, pc = "ask", ~cut, out \o pending # <<>>
               PROVE  (out \o pending)[1][2] = 1
    BY DEF InStep, Boundary
  <2>1. out \o pending \in Seq(Piece) /\ got = <<>>
    BY Pieces, ConcatProperties DEF Types, Way
  <2>2. Framed(out \o pending)
    BY <2>1, ConcatEmptySeq DEF WholeFrames, Stream
  <2>3. 1 \in 1..Len(out \o pending)
    BY <2>1, EmptySeq
  <2> QED
    BY <2>2, <2>3 DEF Framed
<1> QED
  BY <1>1, <1>2, InitTypes, TypesStep, WholeFramesStep, PTL DEF Spec

-----------------------------------------------------------------------------
(* The child *)

\* Whoever has not started a child has none, and who has done with it has waited.
Reaped ==
  /\ pc = "spawn" => child = "none"
  /\ pc = "done" => child \in {"none", "reaped"}

LEMMA ReapedStep ==
  ASSUME Reaped, [Next]_vars PROVE Reaped'
<1> USE DEF Reaped, Goto
<1>1. CASE ChildAnswers \/ ChildNotifies
  BY <1>1 DEF ChildAnswers, ChildNotifies, clientVars
<1>2. CASE ChildWrites
  BY <1>2 DEF ChildWrites, clientVars
<1>3. CASE ChildDies \/ ChildExits
  BY <1>3 DEF ChildDies, ChildExits, clientVars
<1>4. CASE Spawn
  BY <1>4 DEF Spawn
<1>5. CASE Ask
  BY <1>5 DEF Ask, Written
<1>6. CASE Initialized \/ DidOpen \/ DidClose \/ Exit
  BY <1>6 DEF Initialized, DidOpen, DidClose, Exit, Tell, Written, childVars
<1>7. CASE ReadPiece
  BY <1>7 DEF ReadPiece
<1>8. CASE ReadGarbage \/ ReadTooLong
  BY <1>8 DEF ReadGarbage, ReadTooLong
<1>9. CASE ReadFails
  BY <1>9 DEF ReadFails, childVars
<1>10. CASE ReadMessage
  BY <1>10 DEF ReadMessage
<1>11. CASE InitReturns \/ NextFile
  BY <1>11 DEF InitReturns, NextFile, childVars
<1>12. CASE SymbolsReturn
  BY <1>12 DEF SymbolsReturn, childVars
<1>13. CASE CallsReturn \/ ShutdownReturns
  BY <1>13 DEF CallsReturn, ShutdownReturns, childVars
<1>14. CASE CloseStdin
  BY <1>14 DEF CloseStdin, clientVars
<1>15. CASE WaitPid \/ Free
  BY <1>15 DEF WaitPid, Free
<1>16. CASE UNCHANGED vars
  BY <1>16 DEF vars, clientVars, childVars
<1> QED
  BY <1>1, <1>2, <1>3, <1>4, <1>5, <1>6, <1>7, <1>8, <1>9, <1>10, <1>11, <1>12, <1>13,
     <1>14, <1>15, <1>16 DEF Next, Client, Child

(* Whatever the language server does, the pass leaves none running or unreaped. *)
THEOREM NoneLeftBehind == Spec => []NoOrphan
<1>1. Init => Reaped
  BY DEF Init, Reaped
<1>2. Reaped => NoOrphan
  BY DEF Reaped, NoOrphan
<1> QED
  BY <1>1, <1>2, ReapedStep, PTL DEF Spec
=============================================================================
