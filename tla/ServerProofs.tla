---------------------------- MODULE ServerProofs ----------------------------
(***************************************************************************)
(* Proofs about Server and about IndexJobs, which have no variable in      *)
(* common: the server on stdio, and the jobs of its UI.                    *)
(*                                                                         *)
(* Server, for any client, buffer, number of signals and setting of        *)
(* auto_index: main frees the HTTP server, the watcher and the server      *)
(* object after the threads that run on them have been joined; and the     *)
(* loop does not sleep on input that it has already fetched. The first     *)
(* argument is the order of the labels: once the server object is freed,   *)
(* no request is handled any more, so that nothing starts the update check *)
(* again, and a thread that has returned does not run a second time.       *)
(* And unless the input is cut off or a frame is too long, the messages    *)
(* are handled whole, in order and once: the invariant places the loop at  *)
(* the beginning of the message that follows those it has handled, or at   *)
(* a line of its frame.                                                    *)
(*                                                                         *)
(* IndexJobs, for any number of slots, jobs, lines and places of the ring: *)
(* a slot has one job, the log of a job that is alone reaches the ring     *)
(* whole and in order, and the ring shows its newest lines. The invariant  *)
(* is JobsInv, in four parts that are proved one after the other: the      *)
(* types, the ring, the slots with the phases of the jobs, and what is     *)
(* where of the log of a job that has the log file to itself.              *)
(***************************************************************************)
EXTENDS Server, IndexJobs, TLAPS, WellFoundedInduction, SequenceTheorems

ShutdownInv ==
  /\ thread \in [Owners -> {"none", "run", "done"}]
  /\ JoinedFirst
  /\ "server" \notin alive => pc \in {"null", "returned"}

LEMMA InitShutdown == Init => ShutdownInv
BY DEF Init, LoopInit, ShutdownInv, JoinedFirst, Owners, Objects

(* The loop leaves the threads alone, and stays in the loop. *)
LEMMA LoopKeepsShutdown ==
  ASSUME ShutdownInv, Client \/ Wait \/ Timeout \/ ReadStep, UNCHANGED threadVars
  PROVE  ShutdownInv'
<1>1. pc \in {"null", "returned"} => pc' = pc
  BY DEF Client, Write, Close, Wait, PollNow, Peek, Awake, Timeout, ReadStep, Fetch,
         TakeLine, TakeHeader, TakeBody, ReadFails
<1> QED
  BY <1>1 DEF ShutdownInv, JoinedFirst, threadVars

(* Main joins before it frees. *)
LEMMA MainKeepsShutdown ==
  ASSUME ShutdownInv, Main PROVE ShutdownInv'
<1> USE DEF ShutdownInv, JoinedFirst, Goto
<1>1. CASE FreeServer
  BY <1>1 DEF FreeServer, Owners
<1>2. CASE ClearHttp
  BY <1>2 DEF ClearHttp, Clear
<1>3. CASE ClearAll
  BY <1>3 DEF ClearAll, Clear
<1>4. CASE StopHttp \/ StopWatcher
  BY <1>4 DEF StopHttp, StopWatcher, Stop, Owners
<1>5. CASE FreeHttp \/ FreeWatcher
  BY <1>5 DEF FreeHttp, FreeWatcher, Free, Joined, Owners
<1> QED
  BY <1>1, <1>2, <1>3, <1>4, <1>5 DEF Main

LEMMA ShutdownInductive == ShutdownInv /\ [Next]_vars => ShutdownInv'
<1> SUFFICES ASSUME ShutdownInv, [Next]_vars PROVE ShutdownInv'
  OBVIOUS
<1>1. CASE (Client \/ Wait \/ Timeout \/ ReadStep) /\ UNCHANGED threadVars
  BY <1>1, LoopKeepsShutdown
<1>2. CASE AnswerInit
  BY <1>2 DEF AnswerInit, Answer, Initialize, ShutdownInv, JoinedFirst
<1>3. CASE AnswerOther
  BY <1>3 DEF AnswerOther, Answer, threadVars, ShutdownInv, JoinedFirst
<1>4. CASE UpdateEnds
  BY <1>4 DEF UpdateEnds, loopVars, ShutdownInv, JoinedFirst
<1>5. ASSUME NEW a \in Autos, AutoRuns(a) \/ AutoRegisters(a) PROVE ShutdownInv'
  BY <1>5 DEF AutoRuns, AutoRegisters, loopVars, ShutdownInv, JoinedFirst
<1>6. ASSUME NEW o \in Owners, ThreadEnds(o) PROVE ShutdownInv'
  BY <1>6 DEF ThreadEnds, loopVars, ShutdownInv, JoinedFirst
<1>7. CASE Signal
  BY <1>7 DEF Signal, ShutdownInv, JoinedFirst
<1>8. CASE Main
  BY <1>8, MainKeepsShutdown
<1>9. CASE UNCHANGED vars
  BY <1>9 DEF vars, loopVars, threadVars, ShutdownInv, JoinedFirst
<1> QED
  BY <1>1, <1>2, <1>3, <1>4, <1>5, <1>6, <1>7, <1>8, <1>9 DEF Next

(* No object is freed while the thread that runs on it may still use it: "call after
   thread has been joined" holds of the HTTP server, the watcher and the update check. *)
THEOREM ThreadsAreJoinedFirst == Spec => []JoinedFirst
<1>1. ShutdownInv => JoinedFirst
  BY DEF ShutdownInv
<1> QED
  BY <1>1, InitShutdown, ShutdownInductive, PTL DEF Spec

-----------------------------------------------------------------------------
LEMMA AsleepStep == NoSleepOnInput /\ [Next]_vars => NoSleepOnInput'
<1> SUFFICES ASSUME NoSleepOnInput, [Next]_vars PROVE NoSleepOnInput'
  OBVIOUS
<1> USE DEF NoSleepOnInput, BufferEmpty, Goto
<1>1. CASE Client
  BY <1>1 DEF Client, Write, Close, marks
<1>2. CASE Peek
  BY <1>2 DEF Peek, BufferEmpty
<1>3. CASE PollNow \/ Awake \/ Timeout
  BY <1>3 DEF PollNow, Awake, Timeout, marks
<1>4. CASE Fetch
  BY <1>4 DEF Fetch, Wants
<1>5. CASE TakeLine
  BY <1>5 DEF TakeLine, Dispatch
<1>6. CASE TakeHeader \/ ReadFails
  BY <1>6 DEF TakeHeader, ReadFails
<1>7. CASE TakeBody
  BY <1>7 DEF TakeBody, Dispatch
<1>8. CASE AnswerInit \/ AnswerOther
  BY <1>8 DEF AnswerInit, AnswerOther, Answer
<1>9. CASE UpdateEnds
  BY <1>9 DEF UpdateEnds, loopVars, marks
<1>10. ASSUME NEW a \in Autos, AutoRuns(a) \/ AutoRegisters(a) PROVE NoSleepOnInput'
  BY <1>10 DEF AutoRuns, AutoRegisters, loopVars, marks
<1>11. ASSUME NEW o \in Owners, ThreadEnds(o) PROVE NoSleepOnInput'
  BY <1>11 DEF ThreadEnds, loopVars, marks
<1>12. CASE Signal
  BY <1>12 DEF Signal
<1>13. CASE Main
  BY <1>13 DEF Main, StopHttp, FreeHttp, ClearHttp, StopWatcher, FreeWatcher, FreeServer,
               ClearAll, Stop, Free, Clear
<1>14. CASE UNCHANGED vars
  BY <1>14 DEF vars, loopVars, marks
<1> QED
  BY <1>1, <1>2, <1>3, <1>4, <1>5, <1>6, <1>7, <1>8, <1>9, <1>10, <1>11, <1>12, <1>13,
     <1>14 DEF Next, Wait, ReadStep

(* The loop goes to sleep only on an empty buffer, and nothing fills it meanwhile: no
   message that has been drawn in waits there until the client sends another. *)
THEOREM NeverSleepsOnInput == Spec => []NoSleepOnInput
<1>1. Init => NoSleepOnInput
  BY DEF Init, LoopInit, NoSleepOnInput
<1> QED
  BY <1>1, AsleepStep, PTL DEF Spec

-----------------------------------------------------------------------------
(***************************************************************************)
(* Induction. The provers cannot use a theorem that has an operator as a   *)
(* parameter, but they can use that "less than" on the naturals is well    *)
(* founded: a nonempty set of naturals has a least member, and what holds  *)
(* of a, and of m + 1 where it holds of m, has no least counterexample.    *)
(* With it, what FlattenSeq, a recursive function, makes of a list.        *)
(***************************************************************************)
\* A nonempty set of naturals has a least member.
LEMMA LeastNatural ==
  ASSUME NEW S \in SUBSET Nat, S # {}
  PROVE  \E k \in S : \A j \in S : k <= j
<1>. DEFINE R == OpToRel(<, Nat)
<1>0. \A j, k \in Nat : j < k => <<j, k>> \in R
  BY DEF OpToRel
<1>1. IsWellFoundedOn(R, Nat)
  BY NatLessThanWellFounded, Zenon
<1>. HIDE DEF R
<1>2. \E k \in S : \A j \in S : <<j, k>> \notin R
  BY <1>1, WFMin
<1>4. PICK k \in S : \A j \in S : <<j, k>> \notin R
  BY <1>2
<1>5. \A j \in S : ~(j < k)
  BY <1>0, <1>4
<1>. QED
  BY <1>5

\* Induction, for what is true of the members of a set.
LEMMA UpTo ==
  ASSUME NEW a \in Nat, NEW n \in Nat, NEW S, a \in S,
         \A m \in a..(n - 1) : m \in S => m + 1 \in S
  PROVE  \A m \in a..n : m \in S
<1>. DEFINE Bad == {m \in a..n : m \notin S}
<1>1. SUFFICES ASSUME Bad # {} PROVE FALSE
  OBVIOUS
<1>2. Bad \in SUBSET Nat
  OBVIOUS
<1>. HIDE DEF Bad
<1>3. PICK m \in Bad : \A j \in Bad : m <= j
  BY <1>1, <1>2, LeastNatural
<1>4. m \in a..n /\ m \notin S /\ m # a
  BY <1>3 DEF Bad
<1>5. m - 1 \in a..(n - 1) /\ m - 1 \in a..n /\ ~(m <= m - 1) /\ m - 1 + 1 = m
  BY <1>4
<1>6. m - 1 \notin Bad
  BY <1>3, <1>5
<1>7. m - 1 \in S
  BY <1>5, <1>6 DEF Bad
<1>. QED
  BY <1>4, <1>5, <1>7

\* What a list flattens to, part by part: the parts up to the i-th end at at[i].
Layout(parts, n, at, flat) ==
  /\ at \in [0..n -> Nat] /\ at[0] = 0 /\ Len(flat) = at[n]
  /\ \A i \in 1..n : at[i] = at[i - 1] + Len(parts[i])
  /\ \A i \in 1..n : \A k \in 1..Len(parts[i]) : flat[at[i - 1] + k] = parts[i][k]

\* The recursive function in FlattenSeq exists.
LEMMA FlattenExists ==
  ASSUME NEW T, NEW parts \in Seq(Seq(T)), NEW n \in 1..Len(parts)
  PROVE  \E g : g = [i \in 1..n |-> IF i = 1 THEN parts[i] ELSE g[i - 1] \o parts[i]]
<1>. DEFINE Is(m, g) == g = [i \in 1..m |-> IF i = 1 THEN parts[i] ELSE g[i - 1] \o parts[i]]
<1>1. \E g : Is(1, g)
  <2>. DEFINE g == [i \in 1..1 |-> parts[i]]
  <2>1. g = [i \in 1..1 |-> IF i = 1 THEN parts[i] ELSE g[i - 1] \o parts[i]]
    OBVIOUS
  <2>. QED
    BY <2>1
<1>2. ASSUME NEW m \in 1..(n - 1), NEW g, Is(m, g) PROVE \E h : Is(m + 1, h)
  <2>. DEFINE h == [i \in 1..(m + 1) |-> IF i = m + 1 THEN g[m] \o parts[i] ELSE g[i]]
              new == [i \in 1..(m + 1) |-> IF i = 1 THEN parts[i] ELSE h[i - 1] \o parts[i]]
  <2>1. ASSUME NEW i \in 1..(m + 1) PROVE h[i] = new[i]
    <3>1. CASE i = m + 1
      <4>1. i # 1 /\ i - 1 \in 1..(m + 1) /\ i - 1 # m + 1 /\ i - 1 = m
        BY <3>1
      <4>. QED
        BY <3>1, <4>1
    <3>2. CASE i # m + 1 /\ i = 1
      <4>1. i \in 1..m
        BY <3>2
      <4>2. g[i] = parts[i]
        BY <1>2, <3>2, <4>1
      <4>. QED
        BY <3>2, <4>2
    <3>3. CASE i # m + 1 /\ i # 1
      <4>1. i \in 1..m /\ i - 1 \in 1..(m + 1) /\ i - 1 # m + 1
        BY <3>3
      <4>2. g[i] = g[i - 1] \o parts[i]
        BY <1>2, <3>3, <4>1
      <4>3. h[i] = g[i] /\ h[i - 1] = g[i - 1]
        BY <3>3, <4>1
      <4>. QED
        BY <3>3, <4>2, <4>3
    <3>. QED
      BY <3>1, <3>2, <3>3
  <2>2. h = new
    <3>. HIDE DEF h
    <3>1. DOMAIN new = 1..(m + 1)
      OBVIOUS
    <3>. HIDE DEF new
    <3>2. h = [i \in 1..(m + 1) |-> h[i]]
      BY DEF h
    <3>3. new = [i \in 1..(m + 1) |-> new[i]]
      BY DEF new
    <3>. QED
      BY <2>1, <3>2, <3>3
  <2>. QED
    BY <2>2
<1>. DEFINE Good == {m \in 1..n : \E g : Is(m, g)}
<1>. HIDE DEF Is
<1>3. n \in Nat /\ n \in 1..n /\ 1 \in 1..n /\ \A m \in 1..(n - 1) : m + 1 \in 1..n
  OBVIOUS
<1>4. 1 \in Good /\ \A m \in 1..(n - 1) : m \in Good => m + 1 \in Good
  BY <1>1, <1>2, <1>3
<1>. HIDE DEF Good
<1>5. n \in Good
  BY <1>3, <1>4, UpTo
<1>. QED
  BY <1>5 DEF Good, Is

\* FlattenSeq appends one part after the other.
LEMMA FlattenSteps ==
  ASSUME NEW T, NEW parts \in Seq(Seq(T)), parts # <<>>
  PROVE  \E g : /\ g = [i \in 1..Len(parts) |-> IF i = 1 THEN parts[i] ELSE g[i - 1] \o parts[i]]
                /\ FlattenSeq(parts) = g[Len(parts)]
<1>. DEFINE G == CHOOSE g : g = [i \in 1..Len(parts) |->
                                   IF i = 1 THEN parts[i] ELSE g[i - 1] \o parts[i]]
<1>1. Len(parts) # 0 /\ Len(parts) \in 1..Len(parts)
  OBVIOUS
<1>2. FlattenSeq(parts) = G[Len(parts)]
  BY <1>1 DEF FlattenSeq
<1>3. \E g : g = [i \in 1..Len(parts) |-> IF i = 1 THEN parts[i] ELSE g[i - 1] \o parts[i]]
  BY <1>1, FlattenExists
<1>4. G = [i \in 1..Len(parts) |-> IF i = 1 THEN parts[i] ELSE G[i - 1] \o parts[i]]
  BY <1>3
<1>. QED
  BY <1>2, <1>4

\* No part ends after the last.
LEMMA LayoutRises ==
  ASSUME NEW T, NEW parts \in Seq(Seq(T)), NEW n \in 0..Len(parts), NEW at, NEW flat,
         Layout(parts, n, at, flat)
  PROVE  \A i \in 0..n : at[i] <= at[n]
<1>. DEFINE Low == {d \in 0..n : at[n - d] <= at[n]}
<1>1. n \in Nat /\ \A i \in 0..n : at[i] \in Nat
  BY DEF Layout
<1>2. 0 \in Low
  BY <1>1
<1>3. ASSUME NEW d \in 0..(n - 1), d \in Low PROVE d + 1 \in Low
  <2>1. n - d \in 1..n /\ n - d \in 0..n /\ n - (d + 1) \in 0..n /\ (n - d) - 1 = n - (d + 1)
        /\ d + 1 \in 0..n
    OBVIOUS
  <2>2. at[n - d] = at[n - (d + 1)] + Len(parts[n - d])
    BY <2>1 DEF Layout
  <2>3. Len(parts[n - d]) \in Nat
    BY <2>1
  <2>. QED
    BY <1>1, <1>3, <2>1, <2>2, <2>3
<1>. HIDE DEF Low
<1>4. \A d \in 0..n : d \in Low
  BY <1>1, <1>2, <1>3, UpTo
<1>5. ASSUME NEW i \in 0..n PROVE at[i] <= at[n]
  <2>1. n - i \in 0..n /\ n - (n - i) = i
    OBVIOUS
  <2>. QED
    BY <1>4, <2>1 DEF Low
<1>. QED
  BY <1>5

\* One more part is laid out behind the others.
LEMMA LayoutExtends ==
  ASSUME NEW T, NEW parts \in Seq(Seq(T)), NEW m \in 0..(Len(parts) - 1), NEW flat \in Seq(T),
         NEW at, Layout(parts, m, at, flat)
  PROVE  /\ flat \o parts[m + 1] \in Seq(T)
         /\ \E new : Layout(parts, m + 1, new, flat \o parts[m + 1])
<1>. DEFINE new == [i \in 0..(m + 1) |-> IF i = m + 1 THEN at[m] + Len(parts[m + 1]) ELSE at[i]]
<1>1. /\ m \in Nat /\ m \in 0..Len(parts) /\ m + 1 - 1 = m
      /\ \A i \in 1..(m + 1) : i \in DOMAIN parts
  OBVIOUS
<1>2. PICK part \in Seq(T) : part = parts[m + 1]
  BY <1>1
<1>3. PICK long \in Seq(T) : long = flat \o parts[m + 1]
  BY <1>2, ConcatProperties
<1>4. PICK end \in Nat : end = Len(flat) /\ end = at[m]
  BY DEF Layout
<1>5. PICK more \in Nat : more = Len(part)
  OBVIOUS
<1>6. /\ Len(long) = end + more
      /\ \A i \in 1..end : long[i] = flat[i]
      /\ \A k \in 1..more : long[end + k] = part[k]
  <2>1. /\ Len(long) = Len(flat) + Len(part)
        /\ \A i \in 1..(Len(flat) + Len(part)) :
             long[i] = IF i <= Len(flat) THEN flat[i] ELSE part[i - Len(flat)]
    BY <1>2, <1>3, ConcatProperties
  <2>2. \A i \in 1..(end + more) : long[i] = IF i <= end THEN flat[i] ELSE part[i - end]
    BY <2>1, <1>4, <1>5
  <2>3. ASSUME NEW k \in 1..more PROVE long[end + k] = part[k]
    <3>1. end + k \in 1..(end + more) /\ ~(end + k <= end) /\ end + k - end = k
      OBVIOUS
    <3>. QED
      BY <2>2, <3>1
  <2>4. ASSUME NEW i \in 1..end PROVE long[i] = flat[i]
    <3>1. i \in 1..(end + more) /\ i <= end
      OBVIOUS
    <3>. QED
      BY <2>2, <3>1
  <2>. QED
    BY <2>1, <2>3, <2>4, <1>4, <1>5
<1>7. /\ new[0] = 0 /\ new[m + 1] = end + more
      /\ \A i \in 0..m : new[i] = at[i]
      /\ new \in [0..(m + 1) -> Nat]
  <2>1. at \in [0..m -> Nat] /\ at[0] = 0
    BY DEF Layout
  <2>2. at[m] + Len(parts[m + 1]) = end + more /\ end + more \in Nat
    BY <1>2, <1>4, <1>5
  <2>3. \A i \in 0..m : i \in 0..(m + 1) /\ i # m + 1
    OBVIOUS
  <2>4. 0 \in 0..m /\ m + 1 \in 0..(m + 1)
    OBVIOUS
  <2>5. \A i \in 0..m : new[i] = at[i]
    BY <2>3
  <2>6. new[m + 1] = end + more
    BY <2>2, <2>4
  <2>7. \A i \in 0..(m + 1) : i = m + 1 \/ i \in 0..m
    OBVIOUS
  <2>8. new \in [0..(m + 1) -> Nat]
    BY <2>1, <2>2, <2>7
  <2>. QED
    BY <2>1, <2>4, <2>5, <2>6, <2>8
<1>. HIDE DEF new
<1>8. \A i \in 0..m : at[i] <= end
  BY <1>1, <1>4, LayoutRises
<1>9. Layout(parts, m + 1, new, long)
  <2>1. ASSUME NEW i \in 1..(m + 1)
        PROVE  /\ new[i] = new[i - 1] + Len(parts[i])
               /\ \A k \in 1..Len(parts[i]) : long[new[i - 1] + k] = parts[i][k]
    <3>1. CASE i = m + 1
      <4>1. new[i - 1] = end /\ new[i] = end + more /\ part = parts[i]
        BY <1>1, <1>2, <1>4, <1>7, <3>1
      <4>. QED
        BY <1>5, <1>6, <4>1
    <3>2. CASE i # m + 1
      <4>1. i \in 1..m /\ i \in 0..m /\ i - 1 \in 0..m
        BY <3>2
      <4>2. /\ at[i] = at[i - 1] + Len(parts[i])
            /\ \A k \in 1..Len(parts[i]) : flat[at[i - 1] + k] = parts[i][k]
        BY <4>1 DEF Layout
      <4>3. PICK p \in Nat : p = Len(parts[i])
        BY <1>1
      <4>4. PICK b \in Nat : b = at[i - 1]
        BY <4>1 DEF Layout
      <4>5. new[i] = b + p /\ new[i - 1] = b /\ b + p <= end
        BY <1>7, <1>8, <4>1, <4>2, <4>3, <4>4
      <4>6. ASSUME NEW k \in 1..p PROVE long[b + k] = parts[i][k]
        <5>1. b + k \in 1..end
          BY <4>5
        <5>. QED
          BY <1>6, <4>2, <4>3, <4>4, <5>1
      <4>. QED
        BY <4>3, <4>5, <4>6
    <3>. QED
      BY <3>1, <3>2
  <2>. QED
    BY <1>6, <1>7, <2>1 DEF Layout
<1>. QED
  BY <1>3, <1>9

\* What is flattened has each part where the parts before it end.
LEMMA FlattenLayout ==
  ASSUME NEW T, NEW parts \in Seq(Seq(T))
  PROVE  /\ FlattenSeq(parts) \in Seq(T)
         /\ \E at : Layout(parts, Len(parts), at, FlattenSeq(parts))
<1>1. CASE parts = <<>>
  <2>1. FlattenSeq(parts) = <<>> /\ Len(parts) = 0
    BY <1>1 DEF FlattenSeq
  <2>2. Layout(parts, 0, [i \in 0..0 |-> 0], <<>>)
    BY DEF Layout
  <2>. QED
    BY <2>1, <2>2
<1>2. CASE parts # <<>>
  <2>. DEFINE n == Len(parts)
  <2>0. n \in Nat \ {0} /\ \A i \in 1..n : parts[i] \in Seq(T)
    BY <1>2
  <2>1. PICK g : /\ g = [i \in 1..n |-> IF i = 1 THEN parts[i] ELSE g[i - 1] \o parts[i]]
                 /\ FlattenSeq(parts) = g[n]
    BY <1>2, FlattenSteps
  <2>. DEFINE Good(m) == g[m] \in Seq(T) /\ \E at : Layout(parts, m, at, g[m])
              All == {m \in 1..n : Good(m)}
  <2>2. Good(1)
    <3>1. 1 \in 1..n
      BY <2>0
    <3>2. g[1] = parts[1] /\ parts[1] \in Seq(T)
      BY <2>0, <2>1, <3>1
    <3>. DEFINE at == [i \in 0..1 |-> IF i = 0 THEN 0 ELSE Len(parts[1])]
    <3>3. at[0] = 0 /\ at[1] = Len(parts[1]) /\ at \in [0..1 -> Nat]
      BY <3>2
    <3>. HIDE DEF at
    <3>4. Layout(parts, 1, at, g[1])
      <4>1. \A i \in 1..1 : i = 1 /\ i - 1 = 0
        OBVIOUS
      <4>2. Len(g[1]) = at[1] /\ at[1] = at[1 - 1] + Len(parts[1])
        BY <3>2, <3>3
      <4>3. \A k \in 1..Len(parts[1]) : g[1][at[1 - 1] + k] = parts[1][k]
        BY <3>2, <3>3
      <4>. QED
        BY <3>3, <4>1, <4>2, <4>3 DEF Layout
    <3>. QED
      BY <3>2, <3>4
  <2>3. ASSUME NEW m \in 1..(n - 1), Good(m) PROVE Good(m + 1)
    <3>1. m + 1 \in 1..n /\ m + 1 # 1 /\ m + 1 - 1 = m /\ m \in 0..(n - 1)
      BY <2>0
    <3>2. g[m + 1] = g[m] \o parts[m + 1]
      <4>. HIDE DEF n
      <4>0. \A j \in 1..n : g[j] = IF j = 1 THEN parts[j] ELSE g[j - 1] \o parts[j]
        BY <2>1
      <4>1. \A j \in 1..n : j # 1 => g[j] = g[j - 1] \o parts[j]
        BY <4>0
      <4>2. PICK j \in 1..n : j = m + 1 /\ j # 1 /\ j - 1 = m
        BY <3>1
      <4>. QED
        BY <4>1, <4>2
    <3>3. PICK at : Layout(parts, m, at, g[m])
      BY <2>3
    <3>4. PICK flat \in Seq(T) : flat = g[m]
      BY <2>3
    <3>5. /\ flat \o parts[m + 1] \in Seq(T)
          /\ \E new : Layout(parts, m + 1, new, flat \o parts[m + 1])
      BY <3>1, <3>3, <3>4, LayoutExtends
    <3>. QED
      BY <3>2, <3>4, <3>5
  <2>. HIDE DEF Good
  <2>4. n \in Nat /\ n \in 1..n /\ 1 \in 1..n /\ \A m \in 1..(n - 1) : m + 1 \in 1..n
    BY <2>0
  <2>5. 1 \in All /\ \A m \in 1..(n - 1) : m \in All => m + 1 \in All
    BY <2>2, <2>3, <2>4
  <2>. HIDE DEF All, n
  <2>6. n \in All
    BY <2>4, <2>5, UpTo
  <2>. QED
    BY <2>1, <2>6 DEF All, Good, n
<1>. QED
  BY <1>1, <1>2

-----------------------------------------------------------------------------
(***************************************************************************)
(* The messages of a client, for any scripts. MarksOK is about the marks   *)
(* in the stream whatever the client does. InOrder says, while nothing is  *)
(* cut off, that the loop is at the beginning of the message after those   *)
(* that it has handled, or at a line of that message's frame.              *)
(***************************************************************************)
Tokens == Int \X Nat
Parts(s) == [i \in DOMAIN s |-> Wire(i, s[i])]

\* The wire of a message, token by token.
LEMMA WireIs ==
  ASSUME NEW i \in Nat \ {0}, NEW m \in Messages
  PROVE  /\ Wire(i, m) \in Seq(Tokens)
         /\ m.framing = "line" =>
              /\ Text(i, m) = <<<<i, 1>>>> /\ Len(Wire(i, m)) = 2
              /\ Wire(i, m)[1] = <<i, 1>> /\ Wire(i, m)[2] = NL
         /\ m.framing = "length" =>
              /\ Text(i, m) = <<<<i, 1>>, NL, <<i, 2>>>> /\ Len(Wire(i, m)) = 8
              /\ Wire(i, m)[1] = Header(3) /\ Wire(i, m)[2] = NL
              /\ Wire(i, m)[3] = OtherHeader /\ Wire(i, m)[4] = NL /\ Wire(i, m)[5] = NL
              /\ Wire(i, m)[6] = <<i, 1>> /\ Wire(i, m)[7] = NL /\ Wire(i, m)[8] = <<i, 2>>
<1>. DEFINE text == Text(i, m)
<1>1. m.framing \in {"line", "length", "huge"}
  BY DEF Messages
<1>2. /\ NL \in Tokens /\ OtherHeader \in Tokens /\ Header(3) \in Tokens
      /\ Header(TooLong) \in Tokens /\ <<i, 1>> \in Tokens /\ <<i, 2>> \in Tokens
  BY DEF NL, OtherHeader, Header, TooLong, Tokens
<1>. HIDE DEF Tokens, NL, OtherHeader, Header
<1>3. CASE m.framing = "line"
  <2>1. text = <<<<i, 1>>>> /\ Wire(i, m) = <<>> \o text \o <<NL>>
    BY <1>3 DEF Wire, Text
  <2>2. text \in Seq(Tokens) /\ <<>> \in Seq(Tokens) /\ <<NL>> \in Seq(Tokens)
        /\ Len(text) = 1 /\ Len(<<NL>>) = 1
    BY <1>2, <2>1
  <2>3. <<>> \o text = text
    BY <2>2, ConcatEmptySeq
  <2>4. /\ text \o <<NL>> \in Seq(Tokens) /\ Len(text \o <<NL>>) = 2
        /\ (text \o <<NL>>)[1] = text[1] /\ (text \o <<NL>>)[2] = NL
    BY <2>1, <2>2, ConcatProperties
  <2>. QED
    BY <1>3, <2>1, <2>3, <2>4
<1>4. CASE m.framing = "length"
  <2>. DEFINE head == <<Header(3), NL, OtherHeader, NL, NL>>
  <2>1. text = <<<<i, 1>>, NL, <<i, 2>>>> /\ Wire(i, m) = head \o text \o <<>>
    BY <1>4 DEF Wire, Text
  <2>2. text \in Seq(Tokens) /\ <<>> \in Seq(Tokens) /\ head \in Seq(Tokens)
        /\ Len(text) = 3 /\ Len(head) = 5
    BY <1>2, <2>1
  <2>5. /\ head[1] = Header(3) /\ head[2] = NL /\ head[3] = OtherHeader
        /\ head[4] = NL /\ head[5] = NL
        /\ text[1] = <<i, 1>> /\ text[2] = NL /\ text[3] = <<i, 2>>
    BY <2>1
  <2>. HIDE DEF head, text
  <2>3. PICK whole \in Seq(Tokens) :
          /\ whole = head \o text /\ Len(whole) = 8
          /\ \A k \in 1..8 : whole[k] = IF k <= 5 THEN head[k] ELSE text[k - 5]
    <3>1. /\ head \o text \in Seq(Tokens) /\ Len(head \o text) = Len(head) + Len(text)
          /\ \A k \in 1..(Len(head) + Len(text)) :
               (head \o text)[k] = IF k <= Len(head) THEN head[k] ELSE text[k - Len(head)]
      BY <2>2, ConcatProperties
    <3>2. Len(head) + Len(text) = 8
      BY <2>2
    <3>. QED
      BY <2>2, <3>1, <3>2
  <2>4. Wire(i, m) = whole
    BY <2>1, <2>3, ConcatEmptySeq
  <2>6. /\ whole[1] = head[1] /\ whole[2] = head[2] /\ whole[3] = head[3]
        /\ whole[4] = head[4] /\ whole[5] = head[5]
    <3>0. \A k \in 1..5 : k \in 1..8 /\ k <= 5
      OBVIOUS
    <3>1. \A k \in 1..5 : whole[k] = head[k]
      BY <2>3, <3>0
    <3>. QED
      BY <3>1
  <2>7. whole[6] = text[6 - 5] /\ whole[7] = text[7 - 5] /\ whole[8] = text[8 - 5]
    BY <2>3
  <2>8. whole[6] = text[1] /\ whole[7] = text[2] /\ whole[8] = text[3]
    BY <2>7
  <2>. QED
    BY <1>4, <2>1, <2>3, <2>4, <2>5, <2>6, <2>8 DEF text
<1>5. CASE m.framing = "huge"
  <2>. DEFINE head == <<Header(TooLong), NL, NL>>
  <2>1. text = <<<<i, 1>>>> /\ Wire(i, m) = head \o text \o <<>>
    BY <1>5 DEF Wire, Text
  <2>2. text \in Seq(Tokens) /\ <<>> \in Seq(Tokens) /\ head \in Seq(Tokens)
    BY <1>2, <2>1
  <2>3. head \o text \in Seq(Tokens)
    BY <2>2, ConcatProperties
  <2>. QED
    BY <1>5, <2>1, <2>3, ConcatEmptySeq
<1>. QED
  BY <1>1, <1>3, <1>4, <1>5

\* The message whose text has been read.
LEMMA MessageOfText ==
  ASSUME script \in Scripts, NEW i \in DOMAIN script PROVE MessageOf(Text(i, script[i])) = i
<1>1. script \in Seq(Messages) /\ DOMAIN script \subseteq Nat
  BY LoopAssumption
<1>2. \A j \in DOMAIN script : Text(j, script[j])[1] = <<j, 1>>
  BY DEF Text
<1>3. ASSUME NEW j \in DOMAIN script, Text(j, script[j]) = Text(i, script[i]) PROVE j = i
  <2>1. <<j, 1>> = <<i, 1>>
    BY <1>2, <1>3
  <2>. QED
    BY <2>1
<1>. DEFINE is == {j \in DOMAIN script : Text(j, script[j]) = Text(i, script[i])}
<1>4. is = {i}
  BY <1>3
<1>5. (CHOOSE j \in is : TRUE) = i
  BY <1>4
<1>. QED
  BY <1>4, <1>5 DEF MessageOf

\* Where the messages of a client lie in its stream.
LEMMA StreamLayout ==
  ASSUME NEW s \in Scripts
  PROVE  /\ s \in Seq(Messages) /\ StreamOf[s] \in Seq(Tokens)
         /\ Parts(s) \in Seq(Seq(Tokens)) /\ Len(Parts(s)) = Len(s)
         /\ \A i \in 1..Len(s) : Parts(s)[i] = Wire(i, s[i])
         /\ \E at : Layout(Parts(s), Len(s), at, StreamOf[s])
<1>1. s \in Seq(Messages)
  BY LoopAssumption
<1>2. \A i \in 1..Len(s) : i \in Nat \ {0} /\ s[i] \in Messages /\ DOMAIN s = 1..Len(s)
  BY <1>1
<1>3. \A i \in 1..Len(s) : Wire(i, s[i]) \in Seq(Tokens)
  BY <1>2, WireIs
<1>4. Parts(s) = [i \in 1..Len(s) |-> Wire(i, s[i])] /\ Len(s) \in Nat
  BY <1>1 DEF Parts
<1>5. /\ Parts(s) \in Seq(Seq(Tokens)) /\ Len(Parts(s)) = Len(s)
      /\ \A i \in 1..Len(s) : Parts(s)[i] = Wire(i, s[i])
  BY <1>3, <1>4
<1>6. StreamOf[s] = FlattenSeq(Parts(s))
  BY DEF StreamOf, Parts
<1>. QED
  BY <1>1, <1>5, <1>6, FlattenLayout

-----------------------------------------------------------------------------
Reading == {"peek", "block", "line", "header", "body"}

\* The marks are in the order of the stream, and a line or a body begins where the
\* loop has got to.
MarksOK ==
  /\ script \in Scripts /\ closed \in BOOLEAN /\ gone \in BOOLEAN
  /\ written \in Nat /\ fetched \in Nat /\ taken \in Nat /\ start \in Nat /\ need \in Nat
  /\ start <= taken /\ taken <= fetched /\ fetched <= written /\ written <= Len(Stream)
  /\ pc \in Reading => start = taken
  /\ handled \in Seq(Nat)

LEMMA MinIs ==
  ASSUME NEW S \in SUBSET Nat, S # {} PROVE Min(S) \in S /\ \A y \in S : Min(S) <= y
<1>1. \E x \in S : \A y \in S : x <= y
  BY LeastNatural
<1>. QED
  BY <1>1 DEF Min

LEMMA StreamFacts ==
  ASSUME script \in Scripts
  PROVE  /\ Stream \in Seq(Tokens) /\ Len(Stream) \in Nat
         /\ \A p \in 1..Len(Stream) : Stream[p] \in Tokens
<1>1. Stream \in Seq(Tokens)
  BY StreamLayout DEF Stream
<1>. QED
  BY <1>1

LEMMA OneToken ==
  ASSUME script \in Scripts, NEW p \in 1..Len(Stream)
  PROVE  SubSeq(Stream, p, p) = <<Stream[p]>>
<1>1. p \in Int /\ p - p + 1 = 1 /\ p + 1 - 1 = p /\ Stream[p] \in Tokens
  BY StreamFacts
<1>2. \A i \in p..p : Stream[i] \in Tokens
  BY <1>1
<1>3. /\ SubSeq(Stream, p, p) \in Seq(Tokens) /\ Len(SubSeq(Stream, p, p)) = p - p + 1
      /\ \A i \in 1..(p - p + 1) : SubSeq(Stream, p, p)[i] = Stream[p + i - 1]
  BY <1>1, <1>2, SubSeqProperties
<1>. DEFINE one == SubSeq(Stream, p, p)
<1>4. one \in Seq(Tokens) /\ Len(one) = 1 /\ one[1] = Stream[p]
  BY <1>1, <1>3
<1>. HIDE DEF one
<1>5. one = <<Stream[p]>>
  BY <1>4
<1>. QED
  BY <1>5 DEF one

LEMMA LineEndIs ==
  ASSUME MarksOK, HasLine
  PROVE  /\ LineEnd \in (taken + 1)..fetched
         /\ BreakIn(taken + 1, fetched) =>
              /\ Stream[LineEnd] = NL
              /\ \A p \in (taken + 1)..fetched : Stream[p] = NL => LineEnd <= p
<1>. DEFINE S == {p \in (taken + 1)..fetched : Stream[p] = NL}
<1>1. CASE BreakIn(taken + 1, fetched)
  <2>1. S \in SUBSET Nat /\ S # {} /\ LineEnd = Min(S)
    BY <1>1 DEF BreakIn, LineEnd, MarksOK
  <2>2. LineEnd \in S /\ \A p \in S : LineEnd <= p
    BY <2>1, MinIs
  <2>. QED
    BY <2>2
<1>2. CASE ~BreakIn(taken + 1, fetched)
  <2>1. LineEnd = fetched /\ taken # fetched
    BY <1>2 DEF LineEnd, HasLine, BufferEmpty
  <2>. QED
    BY <1>2, <2>1 DEF MarksOK
<1>. QED
  BY <1>1, <1>2

LEMMA FetchedMoreIs ==
  ASSUME MarksOK
  PROVE  LET m == Min({written, fetched + BufCap})
         IN  m \in Nat /\ fetched <= m /\ m <= written
<1>1. {written, fetched + BufCap} \in SUBSET Nat /\ fetched <= fetched + BufCap
  BY LoopAssumption DEF MarksOK
<1>2. /\ Min({written, fetched + BufCap}) \in {written, fetched + BufCap}
      /\ Min({written, fetched + BufCap}) <= written
  BY <1>1, MinIs
<1>. QED
  BY <1>1, <1>2 DEF MarksOK

LEMMA DispatchKeepsHandled ==
  ASSUME MarksOK, NEW i \in Nat, Dispatch(i)
  PROVE  /\ handled' \in Seq(Nat) /\ pc' \notin Reading
BY DEF Dispatch, Goto, Reading, MarksOK

LEMMA MessageOfIs ==
  ASSUME script \in Scripts, NEW text PROVE MessageOf(text) \in Nat
<1>. DEFINE is == {i \in DOMAIN script : Text(i, script[i]) = text}
<1>1. is \subseteq Nat
  BY LoopAssumption
<1>2. is = {} \/ (CHOOSE i \in is : TRUE) \in Nat
  BY <1>1
<1>. QED
  BY <1>2 DEF MessageOf

LEMMA LoopKeepsMarks ==
  ASSUME MarksOK, Client \/ Wait \/ Timeout \/ ReadStep PROVE MarksOK'
<1>1. ASSUME script' = script PROVE Stream' = Stream
  BY <1>1 DEF Stream
<1>2. CASE Write
  BY <1>1, <1>2, StreamFacts DEF Write, MarksOK
<1>3. CASE Close \/ PollNow \/ Awake \/ Timeout \/ ReadFails
  <2>1. /\ UNCHANGED <<script, marks, need, gone, handled>> /\ closed' \in BOOLEAN
        /\ start' = start \/ start' = taken
        /\ pc' \in Reading /\ pc \notin Reading => start' = taken
    BY <1>3 DEF Close, PollNow, Awake, Timeout, ReadFails, Goto, MarksOK, Reading
  <2>. QED
    BY <1>1, <2>1 DEF MarksOK, marks
<1>4. CASE Peek
  <2>1. fetched' \in Nat /\ fetched <= fetched' /\ fetched' <= written
    BY <1>4, FetchedMoreIs DEF Peek, MarksOK
  <2>. QED
    BY <1>1, <1>4, <2>1 DEF Peek, MarksOK, Reading
<1>5. CASE Fetch
  <2>1. fetched' \in Nat /\ fetched <= fetched' /\ fetched' <= written
    BY <1>5, FetchedMoreIs DEF Fetch
  <2>. QED
    BY <1>1, <1>5, <2>1 DEF Fetch, MarksOK, Reading
<1>6. CASE TakeLine
  <2>1. taken' \in Nat /\ taken < taken' /\ taken' <= fetched /\ start' = taken'
    BY <1>6, LineEndIs DEF TakeLine, MarksOK
  <2>2. need' \in Nat /\ handled' \in Seq(Nat)
    <3>1. CASE UNCHANGED <<need, handled>>
      BY <3>1 DEF MarksOK
    <3>2. CASE Trimmed # <<>> /\ IsHeader(Trimmed[1]) /\ need' = Trimmed[1][2] /\ UNCHANGED handled
      <4>1. start = taken /\ start + 1 \in 1..Len(Stream)
        BY <1>6, <2>1 DEF TakeLine, MarksOK, Reading
      <4>2. LineEnd - 1 \in Int /\ LineEnd \in Int
        BY <1>6, <2>1 DEF TakeLine
      <4>3. PICK end \in Int : end <= LineEnd /\ Trimmed = SubSeq(Stream, start + 1, end)
        <5>1. Trimmed = SubSeq(Stream, start + 1, LineEnd - 1) \/ Trimmed = SubSeq(Stream, start + 1, LineEnd)
          BY DEF Trimmed
        <5>2. LineEnd - 1 <= LineEnd
          BY <4>2
        <5>. QED
          BY <4>2, <5>1, <5>2
      <4>4. start + 1 <= end
        BY <3>2, <4>1, <4>2, <4>3, SubSeqEmpty
      <4>5. Trimmed[1] \in Tokens
        <5>1. \A p \in (start + 1)..end : Stream[p] \in Tokens
          BY <1>6, <2>1, <4>1, <4>2, <4>3, StreamFacts DEF TakeLine, MarksOK
        <5>2. Trimmed[1] = Stream[start + 1 + 1 - 1]
          BY <4>1, <4>3, <4>4, <5>1, SubSeqProperties DEF MarksOK
        <5>. QED
          BY <4>1, <4>4, <5>1, <5>2 DEF MarksOK
      <4>. QED
        BY <3>2, <4>5 DEF Tokens, IsHeader, MarksOK
    <3>3. CASE Dispatch(MessageOf(Trimmed)) /\ UNCHANGED need
      BY <3>3, MessageOfIs, DispatchKeepsHandled DEF MarksOK
    <3>. QED
      BY <1>6, <3>1, <3>2, <3>3 DEF TakeLine
  <2>. QED
    BY <1>1, <1>6, <2>1, <2>2 DEF TakeLine, MarksOK
<1>7. CASE TakeHeader
  <2>1. taken' \in Nat /\ taken < taken' /\ taken' <= fetched /\ start' = taken'
    BY <1>7, LineEndIs DEF TakeHeader, MarksOK
  <2>. QED
    BY <1>1, <1>7, <2>1 DEF TakeHeader, MarksOK
<1>8. CASE TakeBody
  <2>1. start = taken
    BY <1>8 DEF TakeBody, MarksOK, Reading
  <2>2. taken' \in Nat /\ start <= taken' /\ taken' <= fetched
    BY <1>8, <2>1 DEF TakeBody, BodyEnd, MarksOK
  <2>3. handled' \in Seq(Nat) /\ pc' \notin Reading
    BY <1>8, MessageOfIs, DispatchKeepsHandled DEF TakeBody, MarksOK
  <2>. QED
    BY <1>1, <1>8, <2>2, <2>3 DEF TakeBody, MarksOK
<1>. QED
  BY <1>2, <1>3, <1>4, <1>5, <1>6, <1>7, <1>8 DEF Client, Wait, ReadStep

LEMMA OthersKeepMarks ==
  ASSUME MarksOK,
         \/ AnswerInit \/ AnswerOther \/ UpdateEnds \/ Signal \/ Main \/ UNCHANGED vars
         \/ \E a \in Autos : AutoRuns(a) \/ AutoRegisters(a)
         \/ \E o \in Owners : ThreadEnds(o)
  PROVE  MarksOK'
<1>1. /\ UNCHANGED <<script, marks, closed, start, need, handled>> /\ gone' \in BOOLEAN
      /\ pc' \in Reading => pc' = pc
  <2>1. CASE AnswerInit \/ AnswerOther
    BY <2>1 DEF AnswerInit, AnswerOther, Answer, Goto, MarksOK, Reading
  <2>2. CASE UpdateEnds \/ UNCHANGED vars
    BY <2>2 DEF UpdateEnds, vars, loopVars, MarksOK
  <2>3. CASE Signal
    BY <2>3 DEF Signal, Reading
  <2>4. ASSUME NEW a \in Autos, AutoRuns(a) \/ AutoRegisters(a)
        PROVE  UNCHANGED loopVars
    BY <2>4 DEF AutoRuns, AutoRegisters
  <2>5. ASSUME NEW o \in Owners, ThreadEnds(o) PROVE UNCHANGED loopVars
    BY <2>5 DEF ThreadEnds
  <2>6. CASE Main
    BY <2>6 DEF Main, StopHttp, FreeHttp, ClearHttp, StopWatcher, FreeWatcher, FreeServer,
                ClearAll, Stop, Free, Clear, Goto, MarksOK, Reading
  <2>7. UNCHANGED loopVars => /\ UNCHANGED <<script, marks, closed, start, need, handled, pc, gone>>
    BY DEF loopVars
  <2>. QED
    BY <2>1, <2>2, <2>3, <2>4, <2>5, <2>6, <2>7 DEF MarksOK
<1>2. Stream' = Stream
  BY <1>1 DEF Stream
<1>. QED
  BY <1>1, <1>2 DEF MarksOK, marks

LEMMA MarksInductive == (Init => MarksOK) /\ (MarksOK /\ [Next]_vars => MarksOK')
<1>1. ASSUME Init PROVE MarksOK
  <2>1. Len(Stream) \in Nat
    BY <1>1, StreamFacts DEF Init, LoopInit
  <2>. QED
    <3>1. /\ script \in Scripts /\ written = 0 /\ fetched = 0 /\ taken = 0 /\ start = 0
          /\ closed \in BOOLEAN /\ gone \in BOOLEAN
          /\ need = 0 /\ pc = "poll" /\ handled = <<>>
      BY <1>1 DEF Init, LoopInit
    <3>2. handled \in Seq(Nat) /\ pc \notin Reading
      BY <3>1 DEF Reading
    <3>. QED
      BY <2>1, <3>1, <3>2 DEF MarksOK
<1>2. ASSUME MarksOK, [Next]_vars PROVE MarksOK'
  <2>1. \/ Client \/ Wait \/ Timeout \/ ReadStep
        \/ AnswerInit \/ AnswerOther \/ UpdateEnds \/ Signal \/ Main \/ UNCHANGED vars
        \/ \E a \in Autos : AutoRuns(a) \/ AutoRegisters(a)
        \/ \E o \in Owners : ThreadEnds(o)
    BY <1>2 DEF Next
  <2>. QED
    BY <1>2, <2>1, LoopKeepsMarks, OthersKeepMarks
<1>. QED
  BY <1>1, <1>2

-----------------------------------------------------------------------------
\* Where the messages begin and end in the stream.
At == CHOOSE at : Layout(Parts(script), Len(script), at, Stream)

\* While the client has left nothing unfinished, the loop is at the beginning of the
\* message that follows those that it has handled, or within that message's frame.
InOrder ==
  Whole /\ Moderate =>
    /\ Len(handled) <= Len(script) /\ \A n \in 1..Len(handled) : handled[n] = n
    /\ pc \in {"poll", "peek", "block", "line", "handle"} => taken = At[Len(handled)]
    /\ pc \in {"header", "body"} =>
         /\ Len(handled) < Len(script)
         /\ script[Len(handled) + 1].framing = "length" /\ need = 3
    /\ pc = "header" => taken \in {At[Len(handled)] + 2, At[Len(handled)] + 4}
    /\ pc = "body" => taken = At[Len(handled)] + 5

LEMMA AtFacts ==
  ASSUME script \in Scripts
  PROVE  /\ Len(script) \in Nat /\ At \in [0..Len(script) -> Nat] /\ At[0] = 0
         /\ Len(Stream) = At[Len(script)]
         /\ \A i \in 0..Len(script) : At[i] <= Len(Stream)
         /\ \A i \in 1..Len(script) :
              /\ script[i] \in Messages
              /\ At[i] = At[i - 1] + Len(Wire(i, script[i]))
              /\ \A k \in 1..Len(Wire(i, script[i])) : Stream[At[i - 1] + k] = Wire(i, script[i])[k]
<1>1. /\ script \in Seq(Messages) /\ Parts(script) \in Seq(Seq(Tokens))
      /\ Len(Parts(script)) = Len(script)
      /\ \A i \in 1..Len(script) : Parts(script)[i] = Wire(i, script[i])
      /\ \E at : Layout(Parts(script), Len(script), at, Stream)
  BY StreamLayout DEF Stream
<1>2. Layout(Parts(script), Len(script), At, Stream)
  BY <1>1 DEF At
<1>3. Len(script) \in Nat /\ Len(script) \in 0..Len(Parts(script))
  BY <1>1
<1>4. \A i \in 0..Len(script) : At[i] <= At[Len(script)]
  BY <1>1, <1>2, <1>3, LayoutRises
<1>5. /\ At \in [0..Len(script) -> Nat] /\ At[0] = 0 /\ Len(Stream) = At[Len(script)]
      /\ \A i \in 1..Len(script) : At[i] = At[i - 1] + Len(Parts(script)[i])
      /\ \A i \in 1..Len(script) : \A k \in 1..Len(Parts(script)[i]) :
           Stream[At[i - 1] + k] = Parts(script)[i][k]
  BY <1>2 DEF Layout
<1>6. \A i \in 1..Len(script) : script[i] \in Messages
  BY <1>1
<1>. QED
  BY <1>1, <1>3, <1>4, <1>5, <1>6

\* The tokens of the message after the first h.
LEMMA MessageAt ==
  ASSUME script \in Scripts, Moderate, NEW h \in Nat, h < Len(script)
  PROVE  /\ h + 1 \in DOMAIN script /\ At[h] \in Nat /\ At[h + 1] <= Len(Stream)
         /\ script[h + 1].framing \in {"line", "length"}
         /\ script[h + 1].framing = "line" =>
              /\ At[h + 1] = At[h] + 2 /\ Text(h + 1, script[h + 1]) = <<<<h + 1, 1>>>>
              /\ Stream[At[h] + 1] = <<h + 1, 1>> /\ Stream[At[h] + 2] = NL
         /\ script[h + 1].framing = "length" =>
              /\ At[h + 1] = At[h] + 8
              /\ Text(h + 1, script[h + 1]) = <<<<h + 1, 1>>, NL, <<h + 1, 2>>>>
              /\ Stream[At[h] + 1] = Header(3) /\ Stream[At[h] + 2] = NL
              /\ Stream[At[h] + 3] = OtherHeader /\ Stream[At[h] + 4] = NL
              /\ Stream[At[h] + 5] = NL /\ Stream[At[h] + 6] = <<h + 1, 1>>
              /\ Stream[At[h] + 7] = NL /\ Stream[At[h] + 8] = <<h + 1, 2>>
<1>. DEFINE i == h + 1
<1>1. /\ i \in 1..Len(script) /\ i \in 0..Len(script) /\ h \in 0..Len(script)
      /\ i - 1 = h /\ i \in Nat \ {0}
  BY AtFacts
<1>2. /\ script[i] \in Messages /\ At[i] = At[h] + Len(Wire(i, script[i]))
      /\ \A k \in 1..Len(Wire(i, script[i])) : Stream[At[h] + k] = Wire(i, script[i])[k]
      /\ At[i] <= Len(Stream) /\ At[h] \in Nat
  <2>. HIDE DEF i
  <2>. QED
    BY <1>1, AtFacts
<1>3. i \in DOMAIN script /\ script[i].framing \in {"line", "length"}
  <2>1. DOMAIN script = 1..Len(script)
    BY LoopAssumption
  <2>. QED
    BY <1>1, <1>2, <2>1 DEF Moderate, Messages
<1>. HIDE DEF i
<1>4. CASE script[i].framing = "line"
  <2>1. /\ Text(i, script[i]) = <<<<i, 1>>>> /\ Len(Wire(i, script[i])) = 2
        /\ Wire(i, script[i])[1] = <<i, 1>> /\ Wire(i, script[i])[2] = NL
    BY <1>1, <1>2, <1>4, WireIs
  <2>2. 1 \in 1..2 /\ 2 \in 1..2
    OBVIOUS
  <2>3. Stream[At[h] + 1] = <<i, 1>> /\ Stream[At[h] + 2] = NL
    BY <1>2, <2>1, <2>2
  <2>. QED
    BY <1>2, <1>3, <1>4, <2>1, <2>3 DEF i
<1>5. CASE script[i].framing = "length"
  <2>1. /\ Text(i, script[i]) = <<<<i, 1>>, NL, <<i, 2>>>> /\ Len(Wire(i, script[i])) = 8
        /\ Wire(i, script[i])[1] = Header(3) /\ Wire(i, script[i])[2] = NL
        /\ Wire(i, script[i])[3] = OtherHeader /\ Wire(i, script[i])[4] = NL
        /\ Wire(i, script[i])[5] = NL /\ Wire(i, script[i])[6] = <<i, 1>>
        /\ Wire(i, script[i])[7] = NL /\ Wire(i, script[i])[8] = <<i, 2>>
    BY <1>1, <1>2, <1>5, WireIs
  <2>2. \A k \in 1..8 : Stream[At[h] + k] = Wire(i, script[i])[k]
    BY <1>2, <2>1
  <2>3. /\ Stream[At[h] + 1] = Header(3) /\ Stream[At[h] + 2] = NL
        /\ Stream[At[h] + 3] = OtherHeader /\ Stream[At[h] + 4] = NL
    BY <2>1, <2>2
  <2>4. /\ Stream[At[h] + 5] = NL /\ Stream[At[h] + 6] = <<i, 1>>
        /\ Stream[At[h] + 7] = NL /\ Stream[At[h] + 8] = <<i, 2>>
    BY <2>1, <2>2
  <2>. QED
    BY <1>2, <1>3, <1>5, <2>1, <2>3, <2>4 DEF i
<1>. QED
  BY <1>3, <1>4, <1>5 DEF i

\* A line ends at its first break, also if the client has closed its end.
LEMMA LineEndsAt ==
  ASSUME MarksOK, Whole, HasLine, NEW e \in Nat \ {0}, taken + e <= Len(Stream),
         Stream[taken + e] = NL, \A d \in 1..(e - 1) : Stream[taken + d] # NL
  PROVE  LineEnd = taken + e
<1>1. taken \in Nat /\ fetched \in Nat /\ fetched <= Len(Stream) /\ Len(Stream) \in Nat
  BY StreamFacts DEF MarksOK
<1>2. CASE taken + e <= fetched
  <2>1. BreakIn(taken + 1, fetched)
    BY <1>1, <1>2 DEF BreakIn
  <2>2. /\ LineEnd \in (taken + 1)..fetched /\ Stream[LineEnd] = NL
        /\ \A p \in (taken + 1)..fetched : Stream[p] = NL => LineEnd <= p
    BY <2>1, LineEndIs
  <2>3. LineEnd <= taken + e
    BY <1>1, <1>2, <2>2
  <2>4. PICK d \in Int : d = LineEnd - taken
    BY <1>1, <2>2
  <2>5. LineEnd = taken + d /\ d \in 1..e
    BY <1>1, <2>2, <2>3, <2>4
  <2>6. d \notin 1..(e - 1)
    BY <2>2, <2>5
  <2>. QED
    BY <2>5, <2>6
<1>3. CASE ~(taken + e <= fetched)
  <2>1. ~BreakIn(taken + 1, fetched)
    <3>1. SUFFICES ASSUME NEW p \in (taken + 1)..fetched, Stream[p] = NL PROVE FALSE
      BY DEF BreakIn
    <3>2. PICK d \in 1..(e - 1) : p = taken + d
      <4>1. p - taken \in 1..(e - 1) /\ p = taken + (p - taken)
        BY <1>1, <1>3
      <4>. QED
        BY <4>1
    <3>. QED
      BY <3>1, <3>2
  <2>2. fetched = written /\ written = Len(Stream)
    BY <2>1 DEF HasLine, KernelEmpty, Whole
  <2>. QED
    BY <1>3, <2>2
<1>. QED
  BY <1>2, <1>3

\* A handled message is the next one.
LEMMA HandledIs ==
  ASSUME MarksOK, InOrder, Whole, Moderate, Len(handled) < Len(script),
         Dispatch(Len(handled) + 1), UNCHANGED script, taken' = At[Len(handled) + 1]
  PROVE  InOrder'
<1>. DEFINE h == Len(handled)
<1>1. /\ handled \in Seq(Nat) /\ h \in Nat /\ handled' = Append(handled, h + 1)
      /\ pc' \in {"handle", "poll"} /\ \A n \in 1..h : handled[n] = n
  BY DEF Dispatch, Goto, MarksOK, InOrder
<1>2. Len(handled') = h + 1 /\ \A n \in 1..(h + 1) : handled'[n] = n
  BY <1>1
<1>3. At' = At /\ script' = script /\ Len(script) \in Nat
  BY AtFacts DEF At, Parts, Stream, MarksOK
<1>. HIDE DEF h
<1>4. Len(handled') <= Len(script')
  BY <1>1, <1>2, <1>3 DEF h
<1>. QED
  BY <1>1, <1>2, <1>3, <1>4 DEF InOrder, h

LEMMA TakeLineInOrder ==
  ASSUME MarksOK, InOrder, Whole, Moderate, TakeLine PROVE InOrder'
<1>. DEFINE h == Len(handled)
            a == At[h]
            m == script[h + 1]
<1>1. /\ h \in Nat /\ pc = "line" /\ taken = a /\ start = taken /\ HasLine /\ script \in Scripts
      /\ UNCHANGED script /\ taken' = LineEnd /\ h <= Len(script)
      /\ \A n \in 1..h : handled[n] = n
  BY DEF InOrder, MarksOK, TakeLine, Reading
<1>2. h < Len(script)
  <2>1. LineEnd \in (taken + 1)..fetched /\ taken \in Nat /\ fetched \in Nat
    BY <1>1, LineEndIs DEF MarksOK
  <2>2. taken < Len(Stream)
    BY <2>1, StreamFacts DEF MarksOK
  <2>3. taken # At[Len(script)]
    BY <1>1, <2>1, <2>2, AtFacts
  <2>. QED
    BY <1>1, <2>3, AtFacts
<1>3. /\ h + 1 \in DOMAIN script /\ a \in Nat /\ At[h + 1] <= Len(Stream)
      /\ m.framing \in {"line", "length"} /\ Len(Stream) \in Nat
  BY <1>1, <1>2, MessageAt, StreamFacts
<1>4. At' = At
  BY <1>1 DEF At, Parts, Stream
<1>. HIDE DEF h
<1>5. ASSUME NEW e \in Nat, LineEnd = taken + e, e = 2, Stream[a + 2] = NL, a + 2 <= Len(Stream)
      PROVE  Trimmed = <<Stream[a + 1]>>
  <2>1. Trimmed = SubSeq(Stream, a + 1, a + 1)
    <3>1. LineEnd = a + 2 /\ LineEnd - 1 = a + 1 /\ start + 1 = a + 1
      BY <1>1, <1>3, <1>5
    <3>. QED
      BY <1>5, <3>1 DEF Trimmed
  <2>2. a + 1 \in 1..Len(Stream)
    BY <1>3, <1>5
  <2>. QED
    BY <1>1, <2>1, <2>2, OneToken
<1>6. CASE m.framing = "line"
  <2>1. /\ At[h + 1] = a + 2 /\ Text(h + 1, m) = <<<<h + 1, 1>>>>
        /\ Stream[a + 1] = <<h + 1, 1>> /\ Stream[a + 2] = NL
    BY <1>1, <1>2, <1>6, MessageAt
  <2>2. Stream[a + 1] # NL
    BY <1>1, <2>1 DEF NL
  <2>3. LineEnd = taken + 2
    <3>1. taken + 2 <= Len(Stream) /\ Stream[taken + 2] = NL
      BY <1>1, <1>3, <2>1
    <3>2. \A d \in 1..(2 - 1) : Stream[taken + d] # NL
      BY <1>1, <2>2
    <3>. QED
      BY <1>1, <3>1, <3>2, LineEndsAt
  <2>4. Trimmed = Text(h + 1, m)
    BY <1>3, <1>5, <2>1, <2>3
  <2>5. Trimmed # <<>> /\ Trimmed[1] = <<h + 1, 1>>
    BY <2>1, <2>4
  <2>6. ~IsHeader(Trimmed[1])
    BY <1>1, <2>5 DEF IsHeader
  <2>7. MessageOf(Trimmed) = h + 1
    BY <1>1, <1>3, <2>4, MessageOfText
  <2>8. Dispatch(h + 1)
    BY <2>5, <2>6, <2>7 DEF TakeLine
  <2>9. taken' = At[h + 1]
    BY <1>1, <2>1, <2>3
  <2>. QED
    BY <1>1, <1>2, <2>8, <2>9, HandledIs DEF h
<1>7. CASE m.framing = "length"
  <2>1. /\ At[h + 1] = a + 8 /\ Stream[a + 1] = Header(3) /\ Stream[a + 2] = NL
    BY <1>1, <1>2, <1>7, MessageAt
  <2>2. Stream[a + 1] # NL /\ IsHeader(Stream[a + 1]) /\ Stream[a + 1][2] = 3
    BY <2>1 DEF NL, Header, IsHeader
  <2>3. LineEnd = taken + 2
    <3>1. taken + 2 <= Len(Stream) /\ Stream[taken + 2] = NL
      BY <1>1, <1>3, <2>1
    <3>2. \A d \in 1..(2 - 1) : Stream[taken + d] # NL
      BY <1>1, <2>2
    <3>. QED
      BY <1>1, <3>1, <3>2, LineEndsAt
  <2>4. Trimmed = <<Stream[a + 1]>>
    BY <1>3, <1>5, <2>1, <2>3
  <2>5. Trimmed # <<>> /\ Trimmed[1] = Stream[a + 1]
    BY <2>4
  <2>6. need' = 3 /\ pc' = "header" /\ UNCHANGED handled
    BY <2>2, <2>5 DEF TakeLine, Goto, TooLong
  <2>7. taken' = a + 2
    BY <1>1, <2>3
  <2>. QED
    BY <1>1, <1>2, <1>4, <1>7, <2>6, <2>7 DEF InOrder, h
<1>. QED
  BY <1>3, <1>6, <1>7

LEMMA TakeHeaderInOrder ==
  ASSUME MarksOK, InOrder, Whole, Moderate, TakeHeader PROVE InOrder'
<1>. DEFINE h == Len(handled)
            a == At[h]
<1>1. /\ h \in Nat /\ pc = "header" /\ start = taken /\ HasLine /\ script \in Scripts
      /\ taken \in {a + 2, a + 4} /\ h < Len(script) /\ need = 3
      /\ script[h + 1].framing = "length" /\ \A n \in 1..h : handled[n] = n
      /\ UNCHANGED <<script, need, handled>> /\ taken' = LineEnd
      /\ pc' = IF Trimmed = <<>> THEN "body" ELSE "header"
  BY DEF InOrder, MarksOK, TakeHeader, Reading, Goto
<1>2. /\ a \in Nat /\ a + 8 <= Len(Stream) /\ Len(Stream) \in Nat
      /\ Stream[a + 3] = OtherHeader /\ Stream[a + 4] = NL /\ Stream[a + 5] = NL
  BY <1>1, MessageAt, StreamFacts
<1>3. At' = At
  BY <1>1 DEF At, Parts, Stream
<1>. HIDE DEF h, a
<1>4. CASE taken = a + 2
  <2>1. Stream[taken + 1] # NL /\ Stream[taken + 2] = NL /\ taken + 2 <= Len(Stream)
    BY <1>2, <1>4 DEF OtherHeader, NL
  <2>2. \A d \in 1..(2 - 1) : Stream[taken + d] # NL
    BY <2>1
  <2>3. LineEnd = taken + 2
    BY <1>1, <2>1, <2>2, LineEndsAt
  <2>4. Trimmed = SubSeq(Stream, taken + 1, taken + 1)
    <3>1. LineEnd - 1 = taken + 1 /\ Stream[LineEnd] = NL
      BY <1>2, <1>4, <2>1, <2>3
    <3>. QED
      BY <1>1, <3>1 DEF Trimmed
  <2>5. Trimmed # <<>>
    <3>1. taken + 1 \in 1..Len(Stream)
      BY <1>2, <1>4
    <3>2. Trimmed = <<Stream[taken + 1]>>
      BY <1>1, <2>4, <3>1, OneToken
    <3>. QED
      BY <3>2
  <2>6. taken' = a + 4 /\ pc' = "header"
    BY <1>1, <1>2, <1>4, <2>3, <2>5
  <2>. QED
    BY <1>1, <1>3, <2>6 DEF InOrder, h, a
<1>5. CASE taken = a + 4
  <2>1. Stream[taken + 1] = NL /\ taken + 1 <= Len(Stream)
    BY <1>2, <1>5
  <2>2. LineEnd = taken + 1
    BY <1>1, <2>1, LineEndsAt
  <2>3. Trimmed = SubSeq(Stream, taken + 1, taken)
    <3>1. LineEnd - 1 = taken /\ Stream[LineEnd] = NL
      BY <1>2, <1>5, <2>1, <2>2
    <3>. QED
      BY <1>1, <3>1 DEF Trimmed
  <2>4. Trimmed = <<>>
    <3>1. taken \in Int /\ taken + 1 \in Int /\ taken < taken + 1
      BY <1>2, <1>5
    <3>. QED
      BY <2>3, <3>1, SubSeqEmpty
  <2>5. taken' = a + 5 /\ pc' = "body"
    BY <1>1, <1>2, <1>5, <2>2, <2>4
  <2>. QED
    BY <1>1, <1>3, <2>5 DEF InOrder, h, a
<1>. QED
  BY <1>1, <1>4, <1>5

LEMMA TakeBodyInOrder ==
  ASSUME MarksOK, InOrder, Whole, Moderate, TakeBody PROVE InOrder'
<1>. DEFINE h == Len(handled)
            a == At[h]
            m == script[h + 1]
            text == SubSeq(Stream, taken + 1, taken + 3)
<1>1. /\ h \in Nat /\ pc = "body" /\ start = taken /\ script \in Scripts /\ ~gone
      /\ taken = a + 5 /\ h < Len(script) /\ need = 3 /\ m.framing = "length"
      /\ UNCHANGED script
  BY DEF InOrder, MarksOK, TakeBody, Reading, Whole
<1>2. /\ h + 1 \in DOMAIN script /\ a \in Nat /\ a + 8 <= Len(Stream) /\ At[h + 1] = a + 8
      /\ Text(h + 1, m) = <<<<h + 1, 1>>, NL, <<h + 1, 2>>>>
      /\ Stream[a + 6] = <<h + 1, 1>> /\ Stream[a + 7] = NL /\ Stream[a + 8] = <<h + 1, 2>>
      /\ Len(Stream) \in Nat /\ \A p \in 1..Len(Stream) : Stream[p] \in Tokens
  BY <1>1, MessageAt, StreamFacts
<1>3. taken' = taken + 3
  <2>1. BodyEnd = taken + 3
    BY <1>1 DEF BodyEnd
  <2>2. closed /\ KernelEmpty => fetched >= BodyEnd
    BY <1>1, <1>2, <2>1 DEF Whole, KernelEmpty
  <2>3. fetched \in Nat
    BY DEF MarksOK
  <2>. QED
    BY <1>1, <1>2, <2>1, <2>2, <2>3 DEF TakeBody
<1>4. text = Text(h + 1, m)
  <2>. HIDE DEF h, a, m
  <2>1. /\ taken + 1 \in Int /\ taken + 3 \in Int /\ taken + 1 <= taken + 3
        /\ (taken + 3) - (taken + 1) + 1 = 3
        /\ taken + 1 + 1 - 1 = a + 6 /\ taken + 1 + 2 - 1 = a + 7 /\ taken + 1 + 3 - 1 = a + 8
    BY <1>1, <1>2
  <2>2. \A p \in (taken + 1)..(taken + 3) : Stream[p] \in Tokens
    BY <1>1, <1>2
  <2>3. /\ text \in Seq(Tokens) /\ Len(text) = (taken + 3) - (taken + 1) + 1
        /\ \A i \in 1..((taken + 3) - (taken + 1) + 1) : text[i] = Stream[taken + 1 + i - 1]
    BY <2>1, <2>2, SubSeqProperties
  <2>. HIDE DEF text
  <2>4. /\ text \in Seq(Tokens) /\ Len(text) = 3
        /\ \A i \in 1..3 : text[i] = Stream[taken + 1 + i - 1]
    BY <2>1, <2>3
  <2>5. text[1] = Stream[a + 6] /\ text[2] = Stream[a + 7] /\ text[3] = Stream[a + 8]
    BY <2>1, <2>4
  <2>6. text = <<text[1], text[2], text[3]>>
    BY <2>4
  <2>. QED
    BY <1>2, <2>5, <2>6
<1>5. Dispatch(h + 1)
  <2>1. start + 1 = taken + 1 /\ SubSeq(Stream, start + 1, taken') = text
    BY <1>1, <1>3
  <2>2. MessageOf(SubSeq(Stream, start + 1, taken')) = h + 1
    BY <1>1, <1>2, <1>4, <2>1, MessageOfText
  <2>. QED
    BY <1>1, <2>2 DEF TakeBody
<1>6. taken' = At[h + 1]
  BY <1>1, <1>2, <1>3
<1>. QED
  BY <1>1, <1>5, <1>6, HandledIs

LEMMA LoopInOrder ==
  ASSUME MarksOK, InOrder, Client \/ Wait \/ Timeout \/ ReadStep PROVE InOrder'
<1>1. UNCHANGED script
  BY DEF Client, Write, Close, Wait, PollNow, Peek, Awake, Timeout, ReadStep, Fetch,
         TakeLine, TakeHeader, TakeBody, ReadFails
<1>2. At' = At /\ Stream' = Stream /\ Moderate' = Moderate
  BY <1>1 DEF At, Parts, Stream, Moderate
<1>3. Whole' => Whole
  BY <1>2 DEF Whole, Client, Write, Close, Wait, PollNow, Peek, Awake, Timeout, ReadStep,
              Fetch, TakeLine, TakeHeader, TakeBody, ReadFails, marks
<1>4. SUFFICES ASSUME Whole, Moderate PROVE InOrder'
  BY <1>2, <1>3 DEF InOrder
<1>5. CASE Client \/ Timeout \/ Wait \/ Fetch
  <2>1. /\ UNCHANGED <<taken, handled, need>> /\ (pc' = pc \/ (pc \in {"poll", "peek", "block"} /\ pc' \in {"poll", "peek", "block", "line", "ended"}))
    BY <1>5 DEF Client, Write, Close, Wait, PollNow, Peek, Awake, Timeout, Fetch, Goto, marks
  <2>. QED
    BY <1>1, <1>2, <1>4, <2>1 DEF InOrder
<1>6. CASE ReadFails
  <2>1. UNCHANGED <<taken, handled, need>> /\ pc' \in {"ended", "body"} /\ pc \in {"line", "header"}
    BY <1>6 DEF ReadFails, Goto, marks
  <2>2. pc # "header"
    <3>1. SUFFICES ASSUME pc = "header" PROVE FALSE
      OBVIOUS
    <3>2. PICK h \in Nat : h = Len(handled)
      BY DEF MarksOK
    <3>3. /\ h < Len(script) /\ script[h + 1].framing = "length"
          /\ taken \in {At[h] + 2, At[h] + 4} /\ script \in Scripts
      BY <1>4, <3>1, <3>2 DEF InOrder, MarksOK
    <3>4. At[h] \in Nat /\ At[h] + 8 <= Len(Stream) /\ Len(Stream) \in Nat
      BY <1>4, <3>3, MessageAt, StreamFacts
    <3>5. taken = Len(Stream)
      BY <1>4, <1>6 DEF ReadFails, AtEof, Whole, KernelEmpty, BufferEmpty
    <3>. QED
      BY <3>3, <3>4, <3>5
  <2>3. pc' = "ended"
    BY <1>6, <2>1, <2>2 DEF ReadFails, Goto
  <2>. QED
    BY <1>1, <1>2, <1>4, <2>1, <2>3 DEF InOrder
<1>. QED
  BY <1>4, <1>5, <1>6, TakeLineInOrder, TakeHeaderInOrder, TakeBodyInOrder DEF ReadStep

LEMMA OthersInOrder ==
  ASSUME MarksOK, InOrder,
         \/ AnswerInit \/ AnswerOther \/ UpdateEnds \/ Signal \/ Main \/ UNCHANGED vars
         \/ \E a \in Autos : AutoRuns(a) \/ AutoRegisters(a)
         \/ \E o \in Owners : ThreadEnds(o)
  PROVE  InOrder'
<1>1. /\ UNCHANGED <<script, marks, closed, need, handled>> /\ gone' \in {TRUE, gone}
      /\ gone' \/ pc' = pc \/ (pc = "handle" /\ pc' = "poll")
               \/ pc' \notin {"poll", "peek", "block", "line", "handle", "header", "body"}
  <2>1. CASE AnswerInit \/ AnswerOther
    BY <2>1 DEF AnswerInit, AnswerOther, Answer, Goto
  <2>2. CASE UpdateEnds \/ UNCHANGED vars
    BY <2>2 DEF UpdateEnds, vars, loopVars
  <2>3. CASE Signal
    BY <2>3 DEF Signal
  <2>4. ASSUME NEW a \in Autos, AutoRuns(a) \/ AutoRegisters(a)
        PROVE  UNCHANGED loopVars
    BY <2>4 DEF AutoRuns, AutoRegisters
  <2>5. ASSUME NEW o \in Owners, ThreadEnds(o) PROVE UNCHANGED loopVars
    BY <2>5 DEF ThreadEnds
  <2>6. CASE Main
    BY <2>6 DEF Main, StopHttp, FreeHttp, ClearHttp, StopWatcher, FreeWatcher, FreeServer,
                ClearAll, Stop, Free, Clear, Goto
  <2>7. UNCHANGED loopVars => UNCHANGED <<script, marks, closed, need, handled, pc, gone>>
    BY DEF loopVars
  <2>. QED
    BY <2>1, <2>2, <2>3, <2>4, <2>5, <2>6, <2>7
<1>2. At' = At /\ Stream' = Stream /\ Moderate' = Moderate
  BY <1>1 DEF At, Parts, Stream, Moderate
<1>3. Whole' => Whole /\ ~gone'
  BY <1>1, <1>2 DEF Whole, marks
<1>. QED
  BY <1>1, <1>2, <1>3 DEF InOrder, marks

\* EachInOrder, for any clients, sizes of the buffer and signals: unless a client leaves
\* or a signal comes in the middle, or a frame is too long, the messages are handled
\* whole, in order and once, whether they come as lines or in frames, and however the
\* bytes arrive in pieces.
THEOREM MessagesInOrder == Spec => []EachInOrder
<1>1. Init => InOrder
  <2>1. SUFFICES ASSUME Init PROVE InOrder
    OBVIOUS
  <2>2. handled = <<>> /\ pc = "poll" /\ taken = 0 /\ script \in Scripts
    BY <2>1 DEF Init, LoopInit
  <2>. QED
    BY <2>2, AtFacts DEF InOrder
<1>2. MarksOK /\ InOrder /\ [Next]_vars => InOrder'
  <2>1. SUFFICES ASSUME MarksOK, InOrder, [Next]_vars PROVE InOrder'
    OBVIOUS
  <2>2. \/ Client \/ Wait \/ Timeout \/ ReadStep
        \/ AnswerInit \/ AnswerOther \/ UpdateEnds \/ Signal \/ Main \/ UNCHANGED vars
        \/ \E a \in Autos : AutoRuns(a) \/ AutoRegisters(a)
        \/ \E o \in Owners : ThreadEnds(o)
    BY <2>1 DEF Next
  <2>. QED
    BY <2>1, <2>2, LoopInOrder, OthersInOrder
<1>3. MarksOK /\ InOrder => EachInOrder
  <2>1. SUFFICES ASSUME MarksOK, InOrder, Whole, Moderate
                 PROVE  handled = [n \in 1..Len(handled) |-> n]
    BY DEF EachInOrder
  <2>2. handled \in Seq(Nat) /\ \A n \in 1..Len(handled) : handled[n] = n
    BY <2>1 DEF InOrder, MarksOK
  <2>3. Len(handled) \in Nat /\ DOMAIN handled = 1..Len(handled)
    BY <2>2
  <2>4. handled = [n \in 1..Len(handled) |-> handled[n]]
    BY <2>2, <2>3
  <2>. QED
    BY <2>2, <2>4
<1>. QED
  BY <1>1, <1>2, <1>3, MarksInductive, PTL DEF Spec

-----------------------------------------------------------------------------
(***************************************************************************)
(* The ring of log lines, for any size: the line that was appended as the  *)
(* i-th last is found i places before the head, around the end of the      *)
(* array, so that the copy that GET /api/logs makes is in order.           *)
(***************************************************************************)
Lines == [job : 0..MaxJobs, nr : Nat]

Before(i) == IF i <= log.head THEN log.head - i ELSE log.head + RingSize - i

RingOK ==
  /\ log \in [lines : [0..(RingSize - 1) -> Lines], head : 0..(RingSize - 1),
              count : 0..RingSize]
  /\ recent \in Seq(Lines) /\ Len(recent) = log.count
  /\ \A i \in 1..log.count : log.lines[Before(i)] = recent[log.count + 1 - i]

(* The remainders that the ring computes. *)
LEMMA Wraps ==
  ASSUME NEW x \in 0..(2 * RingSize - 1)
  PROVE  x % RingSize = IF x < RingSize THEN x ELSE x - RingSize
BY IndexJobsAssumption, SMTT(30)

(* Keeping the newest lines drops the oldest one, if at all. *)
LEMMA NewestOfAppend ==
  ASSUME NEW s \in Seq(Lines), Len(s) <= RingSize, NEW line \in Lines
  PROVE  LET kept == Newest(Append(s, line), RingSize)
         IN  /\ kept \in Seq(Lines)
             /\ Len(kept) = Least(Len(s) + 1, RingSize)
             /\ \A i \in 1..Len(kept) :
                  kept[Len(kept) + 1 - i] = IF i = 1 THEN line ELSE s[Len(s) + 2 - i]
<1> DEFINE longer == Append(s, line)
           length == Least(Len(s) + 1, RingSize)
           first == Len(s) + 2 - length
           kept == SubSeq(longer, first, Len(s) + 1)
<1>1. /\ longer \in Seq(Lines) /\ Len(longer) = Len(s) + 1
      /\ \A k \in 1..Len(s) : longer[k] = s[k]
      /\ longer[Len(s) + 1] = line
  OBVIOUS
<1>2. length \in 1..RingSize /\ length <= Len(s) + 1 /\ Len(s) \in Nat
  BY IndexJobsAssumption DEF Least
<1>3. Newest(longer, RingSize) = kept
  <2>1. Least(RingSize, Len(s) + 1) = length
    BY <1>2, IndexJobsAssumption DEF Least
  <2>2. Newest(longer, RingSize) =
          SubSeq(longer, (Len(s) + 1) + 1 - Least(RingSize, Len(s) + 1), Len(s) + 1)
    BY <1>1 DEF Newest
  <2>3. (Len(s) + 1) + 1 - length = first
    BY <1>2
  <2> QED
    BY <2>1, <2>2, <2>3
<1>4. first \in 1..(Len(s) + 1) /\ (Len(s) + 1) - first + 1 = length
  BY <1>2
<1> HIDE DEF longer, length, first
<1>5. /\ kept \in Seq(Lines) /\ Len(kept) = length
      /\ \A k \in 1..length : kept[k] = longer[first + k - 1]
  BY <1>1, <1>2, <1>4
<1>6. ASSUME NEW i \in 1..length
      PROVE  kept[length + 1 - i] = IF i = 1 THEN line ELSE s[Len(s) + 2 - i]
  <2>1. length + 1 - i \in 1..length /\ first + (length + 1 - i) - 1 = Len(s) + 2 - i
    BY <1>2, <1>4
  <2>2. kept[length + 1 - i] = longer[Len(s) + 2 - i]
    BY <1>5, <2>1
  <2>3. CASE i = 1
    <3>1. Len(s) + 2 - i = Len(s) + 1
      BY <1>2, <2>3
    <3> QED
      BY <1>1, <2>2, <2>3, <3>1
  <2>4. CASE i # 1
    <3>1. Len(s) + 2 - i \in 1..Len(s)
      BY <1>2, <2>4
    <3> QED
      BY <1>1, <2>2, <2>4, <3>1
  <2> QED
    BY <2>3, <2>4
<1> QED
  BY <1>3, <1>5, <1>6 DEF longer, length

LEMMA SayKeepsRing ==
  ASSUME RingOK, NEW line \in Lines, Say(line) PROVE RingOK'
<1> USE IndexJobsAssumption
<1> DEFINE old == log.head
           head == IF old + 1 < RingSize THEN old + 1 ELSE 0
           count == Least(log.count + 1, RingSize)
<1>1. /\ old \in 0..(RingSize - 1) /\ log.count \in 0..RingSize
      /\ log.lines \in [0..(RingSize - 1) -> Lines]
  BY DEF RingOK
<1>2. (old + 1) % RingSize = head
  BY <1>1, Wraps
<1>3. log' = [lines |-> [log.lines EXCEPT ![old] = line], head |-> head, count |-> count]
  BY <1>2 DEF Say, AppendLine
<1>4. /\ log'.lines = [log.lines EXCEPT ![old] = line] /\ log'.head = head
      /\ log'.count = count
  BY <1>3
<1>5. count \in 1..RingSize /\ head \in 0..(RingSize - 1)
  BY <1>1 DEF Least
<1>6. log' \in [lines : [0..(RingSize - 1) -> Lines], head : 0..(RingSize - 1),
                count : 0..RingSize]
  BY <1>1, <1>3, <1>5
<1>7. /\ recent' \in Seq(Lines) /\ Len(recent') = count
      /\ \A i \in 1..count :
           recent'[count + 1 - i] = IF i = 1 THEN line ELSE recent[log.count + 2 - i]
  <2> DEFINE kept == Newest(Append(recent, line), RingSize)
  <2>1. recent \in Seq(Lines) /\ Len(recent) = log.count /\ Len(recent) <= RingSize
    BY <1>1 DEF RingOK
  <2>2. /\ kept \in Seq(Lines)
        /\ Len(kept) = Least(Len(recent) + 1, RingSize)
        /\ \A i \in 1..Len(kept) :
             kept[Len(kept) + 1 - i] = IF i = 1 THEN line ELSE recent[Len(recent) + 2 - i]
    BY <2>1, NewestOfAppend
  <2>3. recent' = kept
    BY DEF Say
  <2> HIDE DEF kept
  <2> QED
    BY <2>1, <2>2, <2>3
<1>8. ASSUME NEW i \in 1..count PROVE log'.lines[Before(i)'] = recent'[count + 1 - i]
  <2> DEFINE at == IF i <= head THEN head - i ELSE head + RingSize - i
  <2>1. Before(i)' = at
    BY <1>4 DEF Before
  <2>2. CASE i = 1
    <3>1. at = old
      BY <1>1, <1>5, <2>2
    <3> QED
      BY <1>1, <1>4, <1>7, <2>1, <2>2, <3>1
  <2>3. CASE i # 1
    <3>1. i - 1 \in 1..log.count /\ i - 1 < RingSize
      BY <1>1, <1>5, <2>3 DEF Least
    <3>2. at = Before(i - 1) /\ at # old /\ at \in 0..(RingSize - 1)
      <4>1. CASE old + 1 < RingSize
        <5>1. head = old + 1
          BY <4>1
        <5> HIDE DEF head
        <5>2. at = IF i <= old + 1 THEN old + 1 - i ELSE old + 1 + RingSize - i
          BY <1>1, <5>1
        <5>3. Before(i - 1) = IF i - 1 <= old THEN old - (i - 1) ELSE old + RingSize - (i - 1)
          BY DEF Before
        <5>4. i \in 2..RingSize
          BY <1>5, <2>3
        <5> HIDE DEF count, at, old
        <5> QED
          BY <1>1, <5>2, <5>3, <5>4
      <4>2. CASE old + 1 = RingSize
        BY <1>1, <1>5, <2>3, <3>1, <4>2, SMTT(30) DEF Before
      <4> QED
        BY <1>1, <4>1, <4>2
    <3>3. log.lines[Before(i - 1)] = recent[log.count + 1 - (i - 1)]
      BY <3>1 DEF RingOK
    <3>4. log.count + 1 - (i - 1) = log.count + 2 - i
      BY <1>1, <1>5
    <3>5. log'.lines[at] = log.lines[at]
      BY <1>1, <1>4, <3>2
    <3>6. recent'[count + 1 - i] = recent[log.count + 2 - i]
      BY <1>7, <2>3
    <3> QED
      BY <2>1, <3>2, <3>3, <3>4, <3>5, <3>6
  <2> QED
    BY <2>2, <2>3
<1> QED
  BY <1>4, <1>6, <1>7, <1>8 DEF RingOK

(* What the handler copies is what was appended last. *)
LEMMA RingIsRead == RingOK => RingShowsNewest
<1> SUFFICES ASSUME RingOK, NEW n \in 1..RingSize PROVE Shown(n) = Newest(recent, n)
  BY DEF RingShowsNewest
<1> USE IndexJobsAssumption
<1> DEFINE count == Least(log.count, n)
           begin == ((log.head + RingSize) - count) % RingSize
<1>1. /\ log.head \in 0..(RingSize - 1) /\ log.count \in 0..RingSize
      /\ recent \in Seq(Lines) /\ Len(recent) = log.count
  BY DEF RingOK
<1>2. count \in 0..RingSize /\ count <= log.count /\ Least(n, Len(recent)) = count
  BY <1>1 DEF Least
<1>3. begin = IF log.head < count THEN log.head + RingSize - count ELSE log.head - count
  <2>1. (log.head + RingSize) - count \in 0..(2 * RingSize - 1)
    BY <1>1, <1>2
  <2>2. begin = IF (log.head + RingSize) - count < RingSize
                  THEN (log.head + RingSize) - count
                  ELSE (log.head + RingSize) - count - RingSize
    BY <2>1, Wraps
  <2> HIDE DEF count, begin
  <2> QED
    BY <1>1, <1>2, <2>2
<1> HIDE DEF count, begin
<1>4. ASSUME NEW i \in 1..count
      PROVE  log.lines[(begin + i - 1) % RingSize] = recent[log.count - count + i]
  <2> DEFINE back == count + 1 - i
  <2>1. back \in 1..log.count
    BY <1>1, <1>2
  <2>2. (begin + i - 1) % RingSize = Before(back)
    <3> DEFINE place == begin + i - 1
    <3>1. place \in 0..(2 * RingSize - 1)
      BY <1>1, <1>2, <1>3, SMTT(30)
    <3> HIDE DEF place
    <3>2. place % RingSize = IF place < RingSize THEN place ELSE place - RingSize
      BY <3>1, Wraps
    <3>3. CASE log.head < count
      <4>1. place = log.head + RingSize - back
        BY <1>1, <1>2, <1>3, <3>3 DEF place
      <4>2. place % RingSize = IF back <= log.head THEN log.head - back
                               ELSE log.head + RingSize - back
        BY <1>1, <1>2, <2>1, <3>1, <3>2, <4>1, SMTT(30)
      <4> QED
        BY <4>2 DEF Before, place
    <3>4. CASE ~(log.head < count)
      <4>1. place = log.head - back /\ back <= log.head
        BY <1>1, <1>2, <1>3, <3>4 DEF place
      <4>2. place % RingSize = log.head - back
        BY <1>1, <1>2, <2>1, <3>1, <3>2, <4>1, SMTT(30)
      <4> QED
        BY <4>1, <4>2 DEF Before, place
    <3> QED
      BY <3>3, <3>4
  <2>3. log.lines[Before(back)] = recent[log.count + 1 - back]
    BY <2>1 DEF RingOK
  <2>4. log.count + 1 - back = log.count - count + i
    BY <1>1, <1>2
  <2> QED
    BY <2>2, <2>3, <2>4
<1>5. Shown(n) = [i \in 1..count |-> log.lines[(begin + i - 1) % RingSize]]
  BY DEF Shown, count, begin
<1>6. Newest(recent, n) = [i \in 1..count |-> recent[log.count - count + i]]
  <2> DEFINE first == log.count + 1 - count
  <2>1. first \in 1..(log.count + 1) /\ log.count - first + 1 = count
    BY <1>1, <1>2
  <2>2. Newest(recent, n) = SubSeq(recent, first, log.count)
    BY <1>1, <1>2 DEF Newest
  <2>3. SubSeq(recent, first, log.count) = [i \in 1..count |-> recent[first + i - 1]]
    <3> HIDE DEF first
    <3> QED
      BY <1>1, <1>2, <2>1
  <2>4. \A i \in 1..count : first + i - 1 = log.count - count + i
    BY <1>1, <1>2
  <2> QED
    BY <2>2, <2>3, <2>4
<1> QED
  BY <1>4, <1>5, <1>6

-----------------------------------------------------------------------------
(***************************************************************************)
(* The slots of the jobs, for any number of slots and jobs.                *)
(***************************************************************************)
SlotStates ==
  [status : {"idle", "running", "done", "error"}, path : 0..MaxJobs, pid : 0..MaxJobs,
   error : {"none", "thread creation failed", "fork failed", "indexing failed"}]
Workers ==
  [at : {"none", "fork", "give up", "track", "poll", "open", "read", "log", "wait",
         "report", "tell", "gone"},
   slot : Slots, tail : Nat, exited : BOOLEAN, file : 0..MaxJobs, lines : Seq(Lines),
   failed : BOOLEAN]
Children ==
  [at : {"none", "new", "run", "zombie", "reaped"}, failed : BOOLEAN, out : 0..MaxJobs,
   wrote : Nat]

(* A thread that reads or logs has a file open, and in the latter case lines to log; a
   child that runs has a file. *)
FilesInUse ==
  \A j \in Jobs : /\ worker[j].at \in {"read", "log"} => worker[j].file # 0
                  /\ worker[j].at = "log" => worker[j].lines # <<>>
                  /\ child[j].at = "run" => child[j].out # 0

JobsTypeOK ==
  /\ started \in 0..MaxJobs
  /\ slot \in [Slots -> SlotStates]
  /\ worker \in [Jobs -> Workers]
  /\ child \in [Jobs -> Children]
  /\ name \in 0..MaxJobs
  /\ content \in [Jobs -> Seq(Lines)]
  /\ heard \in [Jobs -> Seq(Lines)]
  /\ FilesInUse

Accepted == 1..started

(* A job has a child from its fork to its second waitpid, and a slot keeps the pid of
   a job that it was the slot of. *)
InPhase ==
  /\ \A j \in Jobs :
       /\ j \notin Accepted => worker[j].at = "none"
       /\ worker[j].at \in {"none", "fork", "give up"} => child[j].at = "none"
       /\ worker[j].at \in {"report", "tell", "gone"} => child[j].at \in {"none", "reaped"}
  /\ \A s \in Slots, j \in Jobs :
       slot[s].pid = j => worker[j].slot = s /\ j \in Accepted

SlotsInv == OneJobPerSlot /\ InPhase

LEMMA SlotsInit == UiInit => SlotsInv
BY DEF UiInit, SlotsInv, OneJobPerSlot, InPhase, Busy, Jobs, Slots, Accepted

(* What a step says of the slots and of where everyone is. *)
SameSlots ==
  \A s \in Slots : /\ slot'[s].status = slot[s].status /\ slot'[s].path = slot[s].path
                   /\ slot'[s].pid = slot[s].pid
Others(j) ==
  \A k \in Jobs : /\ worker'[k].slot = worker[k].slot
                  /\ k # j => worker'[k].at = worker[k].at /\ child'[k].at = child[k].at

(* A job that has its slot before and after the step. *)
LEMMA JobGoesOn ==
  ASSUME JobsTypeOK, SlotsInv, UNCHANGED Accepted, SameSlots, NEW j \in Jobs, Others(j),
         Busy(j), worker'[j].at \notin {"none", "tell", "gone"},
         worker'[j].at \in {"fork", "give up"} => child'[j].at = "none",
         worker'[j].at = "report" => child'[j].at = "reaped"
  PROVE  SlotsInv'
<1>1. \A k \in Jobs : worker[k].slot \in Slots
  BY DEF JobsTypeOK, Workers
<1>2. OneJobPerSlot /\ InPhase
  BY DEF SlotsInv
<1>3. ASSUME NEW k \in Jobs PROVE Busy(k)' <=> Busy(k)
  BY DEF Busy, Others
<1>4. ASSUME NEW s \in Slots, NEW k \in Jobs, slot'[s].pid = k
      PROVE  worker'[k].slot = s /\ k \in Accepted'
  <2>1. slot[s].pid = k
    BY <1>4 DEF SameSlots
  <2>2. worker[k].slot = s /\ k \in Accepted
    BY <1>2, <2>1 DEF InPhase
  <2> QED
    BY <2>2 DEF Others
<1>5. ASSUME NEW k \in Jobs
      PROVE  /\ k \notin Accepted' => worker'[k].at = "none"
             /\ worker'[k].at \in {"none", "fork", "give up"} => child'[k].at = "none"
             /\ worker'[k].at \in {"report", "tell", "gone"} =>
                  child'[k].at \in {"none", "reaped"}
  <2>1. CASE k = j
    BY <1>2, <2>1 DEF InPhase, Busy
  <2>2. CASE k # j
    BY <1>2, <2>2 DEF InPhase, Others
  <2> QED
    BY <2>1, <2>2
<1>6. ASSUME NEW k \in Jobs, Busy(k)'
      PROVE  slot'[worker'[k].slot].status = "running" /\ slot'[worker'[k].slot].path = k
  <2>1. Busy(k) /\ worker[k].slot \in Slots
    BY <1>1, <1>3, <1>6
  <2>2. worker'[k].slot = worker[k].slot
    BY DEF Others
  <2>3. slot[worker[k].slot].status = "running" /\ slot[worker[k].slot].path = k
    BY <1>2, <2>1 DEF OneJobPerSlot
  <2>4. /\ slot'[worker[k].slot].status = slot[worker[k].slot].status
        /\ slot'[worker[k].slot].path = slot[worker[k].slot].path
    BY <2>1 DEF SameSlots
  <2> QED
    BY <2>2, <2>3, <2>4
<1>7. ASSUME NEW k \in Jobs, child'[k].at \in {"new", "run", "zombie"} PROVE Busy(k)'
  <2>1. Busy(k)
    BY <1>2, <1>7 DEF OneJobPerSlot, Others
  <2> QED
    BY <1>3, <2>1
<1>8. ASSUME NEW s \in Slots, slot'[s].status = "running"
      PROVE  \E k \in Jobs : Busy(k)' /\ worker'[k].slot = s
  <2>1. PICK k \in Jobs : Busy(k) /\ worker[k].slot = s
    BY <1>2, <1>8 DEF OneJobPerSlot, SameSlots
  <2>2. Busy(k)' /\ worker'[k].slot = s
    BY <1>3, <2>1 DEF Others
  <2> QED
    BY <2>2
<1>9. InPhase'
  BY <1>4, <1>5 DEF InPhase
<1>10. OneJobPerSlot'
  BY <1>4, <1>6, <1>7, <1>8, ZenonT(60) DEF OneJobPerSlot
<1> QED
  BY <1>9, <1>10 DEF SlotsInv

(* A job that gives its slot back. *)
LEMMA JobEnds ==
  ASSUME JobsTypeOK, SlotsInv, UNCHANGED <<Accepted, child>>, NEW j \in Jobs, Others(j),
         Busy(j), worker'[j].at \in {"tell", "gone"}, child[j].at \in {"none", "reaped"},
         \A s \in Slots :
           /\ slot'[s].path = slot[s].path /\ slot'[s].pid = slot[s].pid
           /\ IF s = worker[j].slot THEN slot'[s].status # "running"
                                    ELSE slot'[s].status = slot[s].status
  PROVE  SlotsInv'
<1>1. \A k \in Jobs : worker[k].slot \in Slots
  BY DEF JobsTypeOK, Workers
<1>2. OneJobPerSlot /\ InPhase
  BY DEF SlotsInv
<1>3. ASSUME NEW k \in Jobs PROVE Busy(k)' <=> Busy(k) /\ k # j
  BY DEF Busy, Others
<1>4. ASSUME NEW s \in Slots, NEW k \in Jobs, slot'[s].pid = k
      PROVE  worker'[k].slot = s /\ k \in Accepted'
  <2>1. slot[s].pid = k
    BY <1>4
  <2>2. worker[k].slot = s /\ k \in Accepted
    BY <1>2, <2>1 DEF InPhase
  <2> QED
    BY <2>2 DEF Others
<1>5. ASSUME NEW k \in Jobs
      PROVE  /\ k \notin Accepted' => worker'[k].at = "none"
             /\ worker'[k].at \in {"none", "fork", "give up"} => child'[k].at = "none"
             /\ worker'[k].at \in {"report", "tell", "gone"} =>
                  child'[k].at \in {"none", "reaped"}
  <2>1. CASE k = j
    BY <1>2, <2>1 DEF InPhase, Busy
  <2>2. CASE k # j
    BY <1>2, <2>2 DEF InPhase, Others
  <2> QED
    BY <2>1, <2>2
<1>6. ASSUME NEW k \in Jobs, Busy(k)'
      PROVE  slot'[worker'[k].slot].status = "running" /\ slot'[worker'[k].slot].path = k
  <2>1. Busy(k) /\ k # j /\ worker'[k].slot = worker[k].slot
    BY <1>3, <1>6 DEF Others
  <2>2. worker[k].slot # worker[j].slot
    BY <1>2, <2>1 DEF OneJobPerSlot
  <2> QED
    BY <1>1, <1>2, <2>1, <2>2 DEF OneJobPerSlot
<1>7. ASSUME NEW k \in Jobs, child'[k].at \in {"new", "run", "zombie"} PROVE Busy(k)'
  <2>1. Busy(k) /\ k # j
    BY <1>2, <1>7 DEF OneJobPerSlot
  <2> QED
    BY <1>3, <2>1
<1>8. ASSUME NEW s \in Slots, slot'[s].status = "running"
      PROVE  \E k \in Jobs : Busy(k)' /\ worker'[k].slot = s
  <2>1. s # worker[j].slot /\ slot[s].status = "running"
    BY <1>8
  <2>2. PICK k \in Jobs : Busy(k) /\ worker[k].slot = s
    BY <1>2, <2>1 DEF OneJobPerSlot
  <2>3. Busy(k)' /\ worker'[k].slot = s
    BY <1>3, <2>1, <2>2 DEF Others
  <2> QED
    BY <2>3
<1>9. InPhase'
  BY <1>4, <1>5 DEF InPhase
<1>10. OneJobPerSlot'
  BY <1>4, <1>6, <1>7, <1>8 DEF OneJobPerSlot
<1> QED
  BY <1>9, <1>10 DEF SlotsInv

LEMMA SlotsStep ==
  ASSUME JobsTypeOK, SlotsInv, [UiNext]_uiVars PROVE SlotsInv'
<1>1. CASE IndexStart
  <2> DEFINE j == started + 1
  <2>0. started < MaxJobs /\ started' = started + 1 /\ UNCHANGED child
    BY <1>1 DEF IndexStart
  <2>1. j \in Jobs /\ started \in 0..MaxJobs
    <3>1. started \in 0..MaxJobs
      BY DEF JobsTypeOK
    <3> QED
      BY <2>0, <3>1, IndexJobsAssumption DEF Jobs
  <2>2. PICK s \in Slots :
          /\ FirstVacant(s)
          /\ \/ /\ TakeSlot(s, j)
                /\ worker' = [worker EXCEPT ![j].at = "fork", ![j].slot = s]
             \/ /\ slot' = [slot EXCEPT ![s].path = j, ![s].status = "error",
                                        ![s].error = "thread creation failed"]
                /\ UNCHANGED worker
    BY <1>1 DEF IndexStart
  <2>3. /\ slot[s].status # "running"
        /\ \A r \in Slots : /\ slot'[r].pid = slot[r].pid
                            /\ r # s => slot'[r] = slot[r]
    <3>1. slot[s].status # "running"
      BY <2>2 DEF FirstVacant, Vacant
    <3>2. slot \in [Slots -> SlotStates]
      BY DEF JobsTypeOK
    <3>4. ASSUME NEW r \in Slots PROVE slot'[r].pid = slot[r].pid
      <4>1. CASE TakeSlot(s, j)
        BY <3>2, <4>1 DEF TakeSlot, SlotStates
      <4>2. CASE slot' = [slot EXCEPT ![s].path = j, ![s].status = "error",
                                      ![s].error = "thread creation failed"]
        BY <3>2, <4>2 DEF SlotStates
      <4> QED
        BY <2>2, <4>1, <4>2
    <3>5. \A r \in Slots : r # s => slot'[r] = slot[r]
      BY <2>2, <3>2 DEF TakeSlot, SlotStates
    <3> QED
      BY <3>1, <3>4, <3>5
  <2>4. /\ j \notin Accepted /\ UNCHANGED child
        /\ \A k \in Jobs : k \notin Accepted' => k \notin Accepted /\ k # j
        /\ j \in Accepted'
    BY <2>0, <2>1 DEF Jobs, Accepted
  <2> HIDE DEF j
  <2>7. worker[j].at = "none" /\ child[j].at = "none" /\ ~Busy(j)
    BY <2>1, <2>4 DEF SlotsInv, InPhase, Busy
  <2>5. \A k \in Jobs : worker[k].slot \in Slots /\ (Busy(k) => worker[k].slot # s)
    <3>1. \A k \in Jobs : worker[k].slot \in Slots
      BY DEF JobsTypeOK, Workers
    <3> QED
      BY <2>3, <3>1 DEF SlotsInv, OneJobPerSlot
  <2>6. \A r \in Slots : slot[r].pid # j
    BY <2>1, <2>4 DEF SlotsInv, InPhase
  <2>8. CASE /\ TakeSlot(s, j)
             /\ worker' = [worker EXCEPT ![j].at = "fork", ![j].slot = s]
    <3>1. slot'[s].status = "running" /\ slot'[s].path = j
      BY <2>8 DEF TakeSlot, JobsTypeOK, SlotStates
    <3>2. /\ worker'[j].at = "fork" /\ worker'[j].slot = s
          /\ \A k \in Jobs : k # j => worker'[k] = worker[k]
      BY <2>1, <2>8 DEF JobsTypeOK, Workers
    <3>3. \A k \in Jobs : Busy(k)' <=> Busy(k) \/ k = j
      BY <3>2 DEF Busy
    <3>4. OneJobPerSlot'
      <4>1. ASSUME NEW k \in Jobs, Busy(k)'
            PROVE  slot'[worker'[k].slot].status = "running"
                   /\ slot'[worker'[k].slot].path = k
        <5>1. CASE k = j
          BY <3>1, <3>2, <5>1
        <5>2. CASE k # j
          <6>1. Busy(k) /\ worker'[k] = worker[k] /\ worker[k].slot \in Slots
                /\ worker[k].slot # s
            BY <2>5, <3>2, <3>3, <4>1, <5>2
          <6> QED
            BY <2>3, <6>1 DEF SlotsInv, OneJobPerSlot
        <5> QED
          BY <5>1, <5>2
      <4>2. ASSUME NEW k \in Jobs, child'[k].at \in {"new", "run", "zombie"} PROVE Busy(k)'
        BY <2>4, <3>3, <4>2 DEF SlotsInv, OneJobPerSlot
      <4>3. ASSUME NEW r \in Slots, slot'[r].status = "running"
            PROVE  \E k \in Jobs : Busy(k)' /\ worker'[k].slot = r
        <5>1. CASE r = s
          BY <2>1, <3>2, <3>3, <5>1
        <5>2. CASE r # s
          <6>1. PICK k \in Jobs : Busy(k) /\ worker[k].slot = r
            BY <2>3, <4>3, <5>2 DEF SlotsInv, OneJobPerSlot
          <6>2. Busy(k)' /\ worker'[k].slot = r
            BY <2>7, <3>2, <3>3, <6>1
          <6> QED
            BY <6>2
        <5> QED
          BY <5>1, <5>2
      <4>4. ASSUME NEW r \in Slots, NEW k \in Jobs, slot'[r].pid = k
            PROVE  worker'[k].slot = r
        <5>1. slot[r].pid = k /\ k # j
          BY <2>3, <2>6, <4>4
        <5>2. worker[k].slot = r
          BY <5>1 DEF SlotsInv, InPhase
        <5> QED
          BY <3>2, <5>1, <5>2
      <4> QED
        BY <4>1, <4>2, <4>3, <4>4 DEF OneJobPerSlot
    <3>5. InPhase'
      <4>1. ASSUME NEW k \in Jobs
            PROVE  /\ k \notin Accepted' => worker'[k].at = "none"
                   /\ worker'[k].at \in {"none", "fork", "give up"} => child'[k].at = "none"
                   /\ worker'[k].at \in {"report", "tell", "gone"} =>
                        child'[k].at \in {"none", "reaped"}
        <5>1. CASE k = j
          BY <2>4, <2>7, <3>2, <5>1
        <5>2. CASE k # j
          BY <2>4, <3>2, <5>2 DEF SlotsInv, InPhase
        <5> QED
          BY <5>1, <5>2
      <4>2. ASSUME NEW r \in Slots, NEW k \in Jobs, slot'[r].pid = k
            PROVE  worker'[k].slot = r /\ k \in Accepted'
        <5>1. slot[r].pid = k /\ k # j
          BY <2>3, <2>6, <4>2
        <5>2. worker[k].slot = r /\ k \in Accepted
          BY <5>1 DEF SlotsInv, InPhase
        <5> QED
          BY <2>4, <3>2, <5>1, <5>2
      <4> QED
        BY <4>1, <4>2 DEF InPhase
    <3> QED
      BY <3>4, <3>5 DEF SlotsInv
  <2>9. CASE /\ slot' = [slot EXCEPT ![s].path = j, ![s].status = "error",
                                     ![s].error = "thread creation failed"]
             /\ UNCHANGED worker
    <3>1. slot'[s].status = "error"
      BY <2>9 DEF JobsTypeOK, SlotStates
    <3>2. \A k \in Jobs : Busy(k)' <=> Busy(k)
      BY <2>9 DEF Busy
    <3>3. OneJobPerSlot'
      <4>1. ASSUME NEW k \in Jobs, Busy(k)'
            PROVE  slot'[worker'[k].slot].status = "running"
                   /\ slot'[worker'[k].slot].path = k
        <5>1. Busy(k) /\ worker[k].slot \in Slots /\ worker[k].slot # s
          BY <2>5, <3>2, <4>1
        <5>2. slot[worker[k].slot].status = "running" /\ slot[worker[k].slot].path = k
          BY <5>1 DEF SlotsInv, OneJobPerSlot
        <5>3. slot'[worker[k].slot] = slot[worker[k].slot]
          BY <2>3, <5>1
        <5> QED
          BY <2>9, <5>2, <5>3
      <4>2. ASSUME NEW k \in Jobs, child'[k].at \in {"new", "run", "zombie"} PROVE Busy(k)'
        BY <2>4, <3>2, <4>2 DEF SlotsInv, OneJobPerSlot
      <4>3. ASSUME NEW r \in Slots, slot'[r].status = "running"
            PROVE  \E k \in Jobs : Busy(k)' /\ worker'[k].slot = r
        <5>1. slot[r].status = "running"
          BY <2>3, <3>1, <4>3
        <5>2. PICK k \in Jobs : Busy(k) /\ worker[k].slot = r
          BY <5>1 DEF SlotsInv, OneJobPerSlot
        <5> QED
          BY <2>9, <3>2, <5>2
      <4>4. \A r \in Slots, k \in Jobs : slot'[r].pid = k => worker'[k].slot = r
        BY <2>3, <2>9, ZenonT(60) DEF SlotsInv, InPhase
      <4> QED
        BY <4>1, <4>2, <4>3, <4>4 DEF OneJobPerSlot
    <3>4. InPhase'
      BY <2>3, <2>4, <2>7, <2>9, ZenonT(60) DEF SlotsInv, InPhase
    <3> QED
      BY <3>3, <3>4 DEF SlotsInv
  <2> QED
    BY <2>2, <2>8, <2>9
<1>2. ASSUME NEW j \in Jobs, Fork(j) PROVE SlotsInv'
  <2>1. /\ worker[j].at = "fork" /\ child[j].at = "none" /\ Busy(j)
        /\ UNCHANGED Accepted
    BY <1>2 DEF Fork, Busy, SlotsInv, InPhase, Accepted
  <2>2. /\ worker \in [Jobs -> Workers] /\ child \in [Jobs -> Children]
        /\ slot \in [Slots -> SlotStates]
    BY DEF JobsTypeOK
  <2>3. /\ Others(j) /\ SameSlots
        /\ \/ worker'[j].at = "track"
           \/ worker'[j].at = "give up" /\ child'[j].at = "none"
    <3>1. CASE /\ child' = [child EXCEPT ![j].at = "new"]
               /\ Move(j, "track") /\ UNCHANGED slot
      BY <2>2, <3>1 DEF Move, Others, SameSlots, Workers, Children
    <3>2. CASE /\ slot' = [slot EXCEPT ![worker[j].slot].error = "fork failed"]
               /\ Move(j, "give up") /\ UNCHANGED child
      BY <2>1, <2>2, <3>2, ZenonT(60) DEF Move, Others, SameSlots, Workers, SlotStates
    <3> QED
      BY <1>2, <3>1, <3>2 DEF Fork
  <2> QED
    BY <2>1, <2>2, <2>3, JobGoesOn
<1>3. ASSUME NEW j \in Jobs, GiveUp(j) PROVE SlotsInv'
  <2>1. Busy(j) /\ child[j].at = "none" /\ UNCHANGED <<Accepted, child>>
    BY <1>3 DEF Accepted, GiveUp, Busy, SlotsInv, InPhase
  <2>2. Others(j) /\ worker'[j].at = "gone"
    BY <1>3 DEF GiveUp, Move, Others, JobsTypeOK, Workers
  <2>3. \A s \in Slots :
          /\ slot'[s].path = slot[s].path /\ slot'[s].pid = slot[s].pid
          /\ IF s = worker[j].slot THEN slot'[s].status # "running"
                                   ELSE slot'[s].status = slot[s].status
    BY <1>3 DEF GiveUp, JobsTypeOK, SlotStates
  <2> QED
    BY <2>1, <2>2, <2>3, JobEnds
<1>4. ASSUME NEW j \in Jobs, Track(j) PROVE SlotsInv'
  <2>1. worker[j].at = "track" /\ Busy(j) /\ UNCHANGED <<Accepted, child>>
    BY <1>4 DEF Accepted, Track, Busy
  <2>2. Others(j) /\ worker'[j].at = "poll"
    BY <1>4 DEF Track, Move, Others, JobsTypeOK, Workers
  <2>3. \A s \in Slots :
          /\ slot'[s].path = slot[s].path /\ slot'[s].status = slot[s].status
          /\ slot'[s].pid = IF s = worker[j].slot THEN j ELSE slot[s].pid
    BY <1>4 DEF Track, JobsTypeOK, SlotStates
  <2>4. \A k \in Jobs : Busy(k)' <=> Busy(k)
    BY <2>1, <2>2 DEF Others, Busy
  <2>5. InPhase'
    <3>1. ASSUME NEW k \in Jobs
          PROVE  /\ k \notin Accepted' => worker'[k].at = "none"
                 /\ worker'[k].at \in {"none", "fork", "give up"} => child'[k].at = "none"
                 /\ worker'[k].at \in {"report", "tell", "gone"} =>
                      child'[k].at \in {"none", "reaped"}
      <4>1. CASE k = j
        BY <2>1, <2>2, <4>1 DEF SlotsInv, InPhase
      <4>2. CASE k # j
        BY <2>1, <2>2, <4>2 DEF SlotsInv, InPhase, Others
      <4> QED
        BY <4>1, <4>2
    <3>2. ASSUME NEW s \in Slots, NEW k \in Jobs, slot'[s].pid = k
          PROVE  worker'[k].slot = s /\ k \in Accepted'
      <4>1. CASE s = worker[j].slot
        BY <2>1, <2>2, <2>3, <3>2, <4>1, ZenonT(60) DEF SlotsInv, InPhase, Others
      <4>2. CASE s # worker[j].slot
        BY <2>1, <2>2, <2>3, <3>2, <4>2 DEF SlotsInv, InPhase, Others
      <4> QED
        BY <4>1, <4>2
    <3> QED
      BY <3>1, <3>2 DEF InPhase
  <2>6. OneJobPerSlot'
    <3>1. ASSUME NEW k \in Jobs, Busy(k)'
          PROVE  slot'[worker'[k].slot].status = "running"
                 /\ slot'[worker'[k].slot].path = k
      <4>1. Busy(k) /\ worker'[k].slot = worker[k].slot
        BY <2>2, <2>4, <3>1 DEF Others
      <4>2. worker[k].slot \in Slots
        BY DEF JobsTypeOK, Workers
      <4> QED
        BY <2>3, <4>1, <4>2 DEF SlotsInv, OneJobPerSlot
    <3>2. ASSUME NEW k \in Jobs, child'[k].at \in {"new", "run", "zombie"} PROVE Busy(k)'
      BY <2>1, <2>4, <3>2 DEF SlotsInv, OneJobPerSlot
    <3>3. ASSUME NEW s \in Slots, slot'[s].status = "running"
          PROVE  \E k \in Jobs : Busy(k)' /\ worker'[k].slot = s
      <4>1. PICK k \in Jobs : Busy(k) /\ worker[k].slot = s
        BY <2>3, <3>3 DEF SlotsInv, OneJobPerSlot
      <4>2. Busy(k)' /\ worker'[k].slot = s
        BY <2>2, <2>4, <4>1 DEF Others
      <4> QED
        BY <4>2
    <3>4. \A s \in Slots, k \in Jobs : slot'[s].pid = k => worker'[k].slot = s
      BY <2>5 DEF InPhase
    <3> QED
      BY <3>1, <3>2, <3>3, <3>4 DEF OneJobPerSlot
  <2> QED
    BY <2>5, <2>6 DEF SlotsInv
<1>5. ASSUME NEW j \in Jobs, Poll(j) \/ ReadLog(j) \/ LogLine(j) \/ Reap(j) PROVE SlotsInv'
  <2>1. Busy(j) /\ UNCHANGED Accepted /\ SameSlots
    BY <1>5 DEF Poll, ReadLog, LogLine, Reap, Busy, SameSlots, Accepted
  <2>2. /\ Others(j) /\ worker'[j].at \in {"open", "read", "log", "poll", "wait", "report"}
        /\ worker'[j].at = "report" => child'[j].at = "reaped"
    <3>1. CASE Poll(j)
      BY <3>1, ZenonT(60) DEF Poll, Others, JobsTypeOK, Workers, Children
    <3>2. CASE ReadLog(j)
      <4>1. worker \in [Jobs -> Workers] /\ UNCHANGED child
        BY <3>2 DEF ReadLog, JobsTypeOK
      <4> DEFINE file == IF worker[j].at = "open" THEN name ELSE worker[j].file
                 lines == IF file = 0 THEN <<>> ELSE content[file]
                 rest == SubSeq(lines, worker[j].tail + 1, Len(lines))
                 short == Len(lines) <= worker[j].tail
      <4>2. worker' = IF short
                        THEN [worker EXCEPT ![j].at = Onward(j), ![j].file = 0]
                        ELSE [worker EXCEPT ![j].at = "log", ![j].file = file,
                                            ![j].tail = Len(lines), ![j].lines = rest]
        BY <3>2 DEF ReadLog
      <4> HIDE DEF file, lines, rest, short
      <4>3. Onward(j) \in {"wait", "poll"}
        BY DEF Onward
      <4>4. CASE short
        <5>1. worker' = [worker EXCEPT ![j].at = Onward(j), ![j].file = 0]
          BY <4>2, <4>4
        <5> QED
          BY <4>1, <4>3, <5>1 DEF Others, Workers
      <4>5. CASE ~short
        <5>1. worker' = [worker EXCEPT ![j].at = "log", ![j].file = file,
                                       ![j].tail = Len(lines), ![j].lines = rest]
          BY <4>2, <4>5
        <5> QED
          BY <4>1, <5>1, ZenonT(60) DEF Others, Workers
      <4> QED
        BY <4>4, <4>5
    <3>3. CASE LogLine(j)
      BY <3>3 DEF LogLine, Others, JobsTypeOK, Workers
    <3>4. CASE Reap(j)
      BY <3>4, ZenonT(60) DEF Reap, Others, JobsTypeOK, Workers, Children
    <3> QED
      BY <1>5, <3>1, <3>2, <3>3, <3>4
  <2> QED
    BY <2>1, <2>2, JobGoesOn
<1>6. ASSUME NEW j \in Jobs, Report(j) PROVE SlotsInv'
  <2>1. Busy(j) /\ child[j].at \in {"none", "reaped"} /\ UNCHANGED <<Accepted, child>>
    BY <1>6 DEF Accepted, Report, Busy, SlotsInv, InPhase
  <2>2. Others(j) /\ worker'[j].at = "tell"
    BY <1>6 DEF Report, Move, Others, JobsTypeOK, Workers
  <2>3. \A s \in Slots :
          /\ slot'[s].path = slot[s].path /\ slot'[s].pid = slot[s].pid
          /\ IF s = worker[j].slot THEN slot'[s].status # "running"
                                   ELSE slot'[s].status = slot[s].status
    BY <1>6, ZenonT(60) DEF Report, JobsTypeOK, SlotStates
  <2> QED
    BY <2>1, <2>2, <2>3, JobEnds
<1>7. ASSUME NEW j \in Jobs, Tell(j) PROVE SlotsInv'
  <2>1. worker[j].at = "tell" /\ UNCHANGED <<Accepted, slot, child>>
    BY <1>7 DEF Accepted, Tell
  <2>2. Others(j) /\ worker'[j].at = "gone"
    BY <1>7 DEF Tell, Move, Others, JobsTypeOK, Workers
  <2>3. \A k \in Jobs : Busy(k)' <=> Busy(k)
    BY <2>1, <2>2 DEF Busy, Others
  <2> QED
    <3>1. OneJobPerSlot'
      BY <2>1, <2>2, <2>3 DEF SlotsInv, OneJobPerSlot, Others
    <3>2. InPhase'
      BY <2>1, <2>2, ZenonT(60) DEF SlotsInv, InPhase, Others
    <3> QED
      BY <3>1, <3>2 DEF SlotsInv
<1>8. ASSUME NEW j \in Jobs,
             ProcessKill(j) \/ ChildEnds(j) \/ ChildOpens(j) \/ ChildLogs(j)
      PROVE  SlotsInv'
  <2>1. Busy(j) /\ child[j].at # "none" /\ UNCHANGED <<Accepted, slot, worker>>
    BY <1>8 DEF Accepted, ProcessKill, ChildEnds, ChildOpens, ChildLogs, jobVars, SlotsInv,
                OneJobPerSlot
  <2>2. \A k \in Jobs : k # j => child'[k] = child[k]
    BY <1>8 DEF ProcessKill, ChildEnds, ChildOpens, ChildLogs, JobsTypeOK
  <2>3. worker[j].at \notin {"none", "fork", "give up", "report", "tell", "gone"}
    BY <1>8, <2>1 DEF SlotsInv, InPhase, Busy, ProcessKill, ChildEnds, ChildOpens, ChildLogs
  <2> QED
    BY <2>1, <2>2, <2>3, JobGoesOn DEF SameSlots, Others
<1>9. CASE UNCHANGED uiVars
  <2>1. UNCHANGED <<Accepted, slot, worker, child>>
    BY <1>9 DEF uiVars, jobVars, Accepted
  <2>2. OneJobPerSlot'
    BY <2>1 DEF SlotsInv, OneJobPerSlot, Busy
  <2>3. InPhase'
    BY <2>1 DEF SlotsInv, InPhase
  <2> QED
    BY <2>2, <2>3 DEF SlotsInv
<1> QED
  BY <1>1, <1>2, <1>3, <1>4, <1>5, <1>6, <1>7, <1>8, <1>9 DEF UiNext, Thread

(***************************************************************************)
(* The types of the state of the jobs.                                     *)
(***************************************************************************)
LEMMA JobsTypeInit == UiInit => JobsTypeOK /\ RingOK
<1> SUFFICES ASSUME UiInit PROVE JobsTypeOK /\ RingOK
  OBVIOUS
<1> USE IndexJobsAssumption
<1>1. started \in 0..MaxJobs /\ name \in 0..MaxJobs /\ FilesInUse
  BY DEF UiInit, FilesInUse
<1>2. slot \in [Slots -> SlotStates] /\ child \in [Jobs -> Children]
  BY DEF UiInit, SlotStates, Children
<1>3. worker \in [Jobs -> Workers]
  <2>1. 1 \in Slots
    BY DEF Slots
  <2>2. <<>> \in Seq(Lines) /\ 0 \in 0..MaxJobs
    OBVIOUS
  <2>3. [at |-> "none", slot |-> 1, tail |-> 0, exited |-> FALSE, file |-> 0,
         lines |-> <<>>, failed |-> FALSE] \in Workers
    BY <2>1, <2>2 DEF Workers
  <2> QED
    BY <2>3 DEF UiInit
<1>4. content \in [Jobs -> Seq(Lines)] /\ heard \in [Jobs -> Seq(Lines)]
  BY DEF UiInit
<1>5. RingOK
  <2>1. NoLine \in Lines
    BY DEF NoLine, Lines
  <2>2. log = [lines |-> [i \in 0..(RingSize - 1) |-> NoLine], head |-> 0, count |-> 0]
        /\ recent = <<>>
    BY DEF UiInit
  <2> QED
    BY <2>1, <2>2 DEF RingOK
<1> QED
  BY <1>1, <1>2, <1>3, <1>4, <1>5 DEF JobsTypeOK

(* Every line that is logged is one of Lines. *)
LEMMA SayKeepsHeard ==
  ASSUME heard \in [Jobs -> Seq(Lines)], NEW line \in Lines, Say(line)
  PROVE  heard' \in [Jobs -> Seq(Lines)]
BY DEF Say

LEMMA JobsTypeStep ==
  ASSUME JobsTypeOK, RingOK, [UiNext]_uiVars PROVE JobsTypeOK' /\ RingOK'
<1>1. /\ slot \in [Slots -> SlotStates] /\ worker \in [Jobs -> Workers]
      /\ child \in [Jobs -> Children] /\ content \in [Jobs -> Seq(Lines)]
      /\ heard \in [Jobs -> Seq(Lines)]
      /\ started \in 0..MaxJobs /\ name \in 0..MaxJobs /\ FilesInUse
  BY DEF JobsTypeOK
<1>slot. slot \in [Slots -> SlotStates]
  BY DEF JobsTypeOK
<1>worker. worker \in [Jobs -> Workers]
  BY DEF JobsTypeOK
<1>child. child \in [Jobs -> Children]
  BY DEF JobsTypeOK
<1>2. ASSUME NEW j \in Jobs
      PROVE  j \in 0..MaxJobs /\ j # 0 /\ OwnLine(j) \in Lines
  BY <1>2 DEF Jobs, OwnLine, Lines
<1>3. ASSUME NEW j \in Jobs, Fork(j) PROVE JobsTypeOK' /\ RingOK'
  <2>1. RingOK' /\ heard' \in [Jobs -> Seq(Lines)]
    BY <1>1, <1>2, <1>3, SayKeepsRing, SayKeepsHeard DEF Fork
  <2>2. UNCHANGED <<started, name, content>>
    BY <1>3 DEF Fork, fileVars
  <2>3. /\ worker' \in [Jobs -> Workers] /\ child' \in [Jobs -> Children]
        /\ slot' \in [Slots -> SlotStates] /\ FilesInUse'
    <3>1. worker[j].at = "fork"
      BY <1>3 DEF Fork
    <3>2. CASE /\ child' = [child EXCEPT ![j].at = "new"]
               /\ Move(j, "track") /\ UNCHANGED slot
      <4>1. worker' \in [Jobs -> Workers]
        BY <1>worker, <3>2, ZenonT(60) DEF Move, Workers
      <4>2. child' \in [Jobs -> Children]
        BY <1>child, <3>2 DEF Children
      <4>3. FilesInUse'
        BY <1>1, <3>1, <3>2, ZenonT(60) DEF Move, FilesInUse, Workers, Children
      <4> QED
        BY <1>slot, <3>2, <4>1, <4>2, <4>3
    <3>3. CASE /\ slot' = [slot EXCEPT ![worker[j].slot].error = "fork failed"]
               /\ Move(j, "give up") /\ UNCHANGED child
      <4>1. worker' \in [Jobs -> Workers]
        BY <1>worker, <3>3, ZenonT(60) DEF Move, Workers
      <4>2. slot' \in [Slots -> SlotStates]
        BY <1>slot, <3>3 DEF SlotStates
      <4>3. FilesInUse'
        BY <1>1, <3>1, <3>3 DEF Move, FilesInUse, Workers
      <4> QED
        BY <1>child, <3>3, <4>1, <4>2, <4>3
    <3> QED
      BY <1>3, <3>2, <3>3 DEF Fork
  <2> QED
    BY <1>1, <2>1, <2>2, <2>3 DEF JobsTypeOK
<1>4. ASSUME UNCHANGED logVars, [UiNext]_uiVars PROVE RingOK' /\ heard' \in [Jobs -> Seq(Lines)]
  BY <1>1, <1>4 DEF RingOK, Before, logVars
<1>5. CASE IndexStart
  <2>0. started < MaxJobs /\ started' = started + 1
    BY <1>5 DEF IndexStart
  <2>1. UNCHANGED <<child, name, content, logVars>> /\ started' \in 0..MaxJobs
    <3>1. UNCHANGED <<child, name, content, logVars>>
      BY <1>5 DEF IndexStart, fileVars
    <3>2. started' \in 0..MaxJobs
      BY <1>1, <2>0, IndexJobsAssumption
    <3> QED
      BY <3>1, <3>2
  <2> DEFINE j == started + 1
  <2>2. j \in Jobs /\ j \in 0..MaxJobs
    BY <1>1, <2>0, IndexJobsAssumption DEF Jobs
  <2>3. PICK s \in Slots :
          \/ /\ TakeSlot(s, j)
             /\ worker' = [worker EXCEPT ![j].at = "fork", ![j].slot = s]
          \/ /\ slot' = [slot EXCEPT ![s].path = j, ![s].status = "error",
                                     ![s].error = "thread creation failed"]
             /\ UNCHANGED worker
    BY <1>5 DEF IndexStart
  <2> HIDE DEF j
  <2>4. slot' \in [Slots -> SlotStates]
    <3>1. CASE TakeSlot(s, j)
      BY <1>slot, <2>2, <3>1, ZenonT(60) DEF TakeSlot, SlotStates
    <3>2. CASE slot' = [slot EXCEPT ![s].path = j, ![s].status = "error",
                                    ![s].error = "thread creation failed"]
      <4>1. ASSUME NEW path \in 0..MaxJobs
            PROVE  [slot EXCEPT ![s].path = path, ![s].status = "error",
                                ![s].error = "thread creation failed"]
                     \in [Slots -> SlotStates]
        BY <1>slot, ZenonT(60) DEF SlotStates
      <4> QED
        BY <2>2, <3>2, <4>1
    <3> QED
      BY <2>3, <3>1, <3>2
  <2>5. worker' \in [Jobs -> Workers] /\ FilesInUse'
    <3>1. CASE UNCHANGED worker
      BY <1>1, <2>1, <3>1 DEF FilesInUse
    <3>2. CASE worker' = [worker EXCEPT ![j].at = "fork", ![j].slot = s]
      <4>1. worker' \in [Jobs -> Workers]
        <5>1. ASSUME NEW k \in Jobs
              PROVE  [worker EXCEPT ![k].at = "fork", ![k].slot = s] \in [Jobs -> Workers]
          BY <1>worker, ZenonT(60) DEF Workers
        <5> QED
          BY <2>2, <3>2, <5>1
      <4>2. FilesInUse'
        BY <1>1, <2>1, <2>2, <3>2 DEF FilesInUse, Workers
      <4> QED
        BY <4>1, <4>2
    <3> QED
      BY <2>3, <3>1, <3>2
  <2> QED
    BY <1>1, <1>4, <2>1, <2>4, <2>5 DEF JobsTypeOK
<1>6. ASSUME NEW j \in Jobs, GiveUp(j) \/ Track(j) \/ Report(j)
      PROVE  JobsTypeOK' /\ RingOK'
  <2>1. UNCHANGED <<started, child, name, content, logVars>>
    BY <1>6 DEF GiveUp, Track, Report, fileVars
  <2>2. slot' \in [Slots -> SlotStates]
    <3>1. CASE GiveUp(j)
      BY <1>slot, <3>1 DEF GiveUp, SlotStates
    <3>2. CASE Track(j)
      BY <1>slot, <1>2, <3>2 DEF Track, SlotStates
    <3>3. CASE Report(j)
      <4>1. CASE worker[j].failed
        BY <1>slot, <3>3, <4>1, ZenonT(60) DEF Report, SlotStates
      <4>2. CASE ~worker[j].failed
        BY <1>slot, <3>3, <4>2 DEF Report, SlotStates
      <4> QED
        BY <4>1, <4>2
    <3> QED
      BY <1>6, <3>1, <3>2, <3>3
  <2>3. worker' \in [Jobs -> Workers] /\ FilesInUse'
    <3>1. PICK place \in {"gone", "poll", "tell"} : Move(j, place)
      BY <1>6 DEF GiveUp, Track, Report
    <3> QED
      BY <1>1, <2>1, <3>1, ZenonT(60) DEF Move, Workers, FilesInUse
  <2> QED
    BY <1>1, <1>4, <2>1, <2>2, <2>3 DEF JobsTypeOK
<1>7. ASSUME NEW j \in Jobs, Poll(j) PROVE JobsTypeOK' /\ RingOK'
  <2>1. UNCHANGED <<started, slot, name, content, logVars>>
    BY <1>7 DEF Poll, fileVars
  <2>2. child' \in [Jobs -> Children] /\ \A k \in Jobs : child'[k].at = "run" => child'[k] = child[k]
    BY <1>1, <1>7 DEF Poll, Children
  <2>3. worker' \in [Jobs -> Workers] /\ FilesInUse'
    <3>1. PICK exited \in BOOLEAN :
            worker' = [worker EXCEPT ![j].at = "open", ![j].exited = exited]
      BY <1>7 DEF Poll
    <3>2. worker' \in [Jobs -> Workers]
      BY <1>worker, <3>1, ZenonT(60) DEF Workers
    <3>3. FilesInUse'
      BY <1>1, <2>2, <3>1 DEF FilesInUse, Workers
    <3> QED
      BY <3>2, <3>3
  <2> QED
    BY <1>1, <1>4, <2>1, <2>2, <2>3 DEF JobsTypeOK
<1>8. ASSUME NEW j \in Jobs, ReadLog(j) PROVE JobsTypeOK' /\ RingOK'
  <2>1. UNCHANGED <<started, slot, child, name, content, logVars>>
    BY <1>8 DEF ReadLog, fileVars
  <2> DEFINE file == IF worker[j].at = "open" THEN name ELSE worker[j].file
             lines == IF file = 0 THEN <<>> ELSE content[file]
             rest == SubSeq(lines, worker[j].tail + 1, Len(lines))
  <2>2. file \in 0..MaxJobs /\ worker[j].tail \in Nat
    BY <1>1 DEF Workers
  <2>3. lines \in Seq(Lines) /\ Len(lines) \in Nat /\ (file = 0 => Len(lines) = 0)
    BY <1>1, <2>2 DEF Jobs
  <2>4. worker' = IF Len(lines) <= worker[j].tail
                    THEN [worker EXCEPT ![j].at = Onward(j), ![j].file = 0]
                    ELSE [worker EXCEPT ![j].at = "log", ![j].file = file,
                                        ![j].tail = Len(lines), ![j].lines = rest]
    BY <1>8 DEF ReadLog
  <2> HIDE DEF file, lines
  <2>5. rest \in Seq(Lines)
    BY <2>2, <2>3
  <2>6. Len(lines) > worker[j].tail => rest # <<>> /\ file # 0
    <3>1. SUFFICES ASSUME Len(lines) > worker[j].tail PROVE Len(rest) # 0 /\ file # 0
      OBVIOUS
    <3>2. Len(rest) = Len(lines) - worker[j].tail
      BY <2>2, <2>3, <3>1
    <3> QED
      BY <2>2, <2>3, <3>1, <3>2
  <2>7. Onward(j) \in {"wait", "poll"}
    BY DEF Onward
  <2> HIDE DEF rest
  <2>8. CASE Len(lines) <= worker[j].tail
    <3>1. worker' = [worker EXCEPT ![j].at = Onward(j), ![j].file = 0]
      BY <2>4, <2>8
    <3>2. worker' \in [Jobs -> Workers]
      <4>1. 0 \in 0..MaxJobs
        BY IndexJobsAssumption
      <4>2. ASSUME NEW place \in {"wait", "poll"}, NEW f \in 0..MaxJobs
            PROVE  [worker EXCEPT ![j].at = place, ![j].file = f] \in [Jobs -> Workers]
        BY <1>worker, ZenonT(60) DEF Workers
      <4> QED
        BY <2>7, <3>1, <4>1, <4>2
    <3>3. FilesInUse'
      BY <1>1, <2>1, <2>7, <3>1 DEF Workers, FilesInUse
    <3> QED
      BY <1>1, <1>4, <2>1, <3>2, <3>3 DEF JobsTypeOK
  <2>9. CASE Len(lines) > worker[j].tail
    <3>1. worker' = [worker EXCEPT ![j].at = "log", ![j].file = file,
                                   ![j].tail = Len(lines), ![j].lines = rest]
      BY <2>2, <2>3, <2>4, <2>9
    <3>2. worker' \in [Jobs -> Workers]
      <4>1. ASSUME NEW f \in 0..MaxJobs, NEW n \in Nat, NEW new \in Seq(Lines)
            PROVE  [worker EXCEPT ![j].at = "log", ![j].file = f, ![j].tail = n,
                                  ![j].lines = new] \in [Jobs -> Workers]
        <5> DEFINE w == [worker EXCEPT ![j].at = "log", ![j].file = f]
        <5>1. w \in [Jobs -> Workers]
          <6>1. ASSUME NEW place \in {"log", "read"}
                PROVE  [worker EXCEPT ![j].at = place, ![j].file = f] \in [Jobs -> Workers]
            BY <1>worker, ZenonT(60) DEF Workers
          <6> QED
            BY <6>1
        <5>2. [w EXCEPT ![j].tail = n, ![j].lines = new] \in [Jobs -> Workers]
          <6> HIDE DEF w
          <6> QED
            BY <5>1, ZenonT(60) DEF Workers
        <5> QED
          BY <5>2
      <4> QED
        BY <2>2, <2>3, <2>5, <3>1, <4>1
    <3>3. FilesInUse'
      BY <1>1, <2>1, <2>6, <2>9, <3>1 DEF Workers, FilesInUse
    <3> QED
      BY <1>1, <1>4, <2>1, <3>2, <3>3 DEF JobsTypeOK
  <2> QED
    BY <2>2, <2>3, <2>8, <2>9
<1>9. ASSUME NEW j \in Jobs, LogLine(j) PROVE JobsTypeOK' /\ RingOK'
  <2>1. UNCHANGED <<started, slot, child, name, content>>
    BY <1>9 DEF LogLine, fileVars
  <2> DEFINE lines == worker[j].lines
  <2>2. worker[j].at = "log" /\ lines \in Seq(Lines) /\ lines # <<>>
    BY <1>1, <1>9 DEF LogLine, Workers, FilesInUse
  <2> HIDE DEF lines
  <2>3. /\ Head(lines) \in Lines /\ Tail(lines) \in Seq(Lines)
        /\ Len(lines) # 1 => Tail(lines) # <<>>
    <3>1. Len(lines) \in Nat \ {0} /\ lines[1] \in Lines
      BY <2>2
    <3>2. Tail(lines) \in Seq(Lines) /\ Len(Tail(lines)) = Len(lines) - 1
      BY <2>2, <3>1
    <3>3. Len(<<>>) = 0
      OBVIOUS
    <3>4. Tail(lines) = <<>> => Len(Tail(lines)) = 0
      BY <3>3, Zenon
    <3>5. Len(lines) # 1 => Tail(lines) # <<>>
      BY <3>1, <3>2, <3>4
    <3> QED
      BY <2>2, <3>1, <3>2, <3>5
  <2>4. worker' = [worker EXCEPT ![j].at = IF Len(lines) = 1 THEN "read" ELSE "log",
                                 ![j].lines = Tail(lines)]
    BY <1>1, <1>9 DEF LogLine, lines, Workers
  <2>5. RingOK' /\ heard' \in [Jobs -> Seq(Lines)]
    <3>1. CASE UNCHANGED logVars
      BY <1>4, <3>1
    <3>2. CASE Say(Head(lines))
      BY <1>1, <2>3, <3>2, SayKeepsRing, SayKeepsHeard
    <3> QED
      BY <1>9, <3>1, <3>2 DEF LogLine, lines
  <2>6. worker' \in [Jobs -> Workers]
    <3>1. ASSUME NEW place \in {"read", "log"}, NEW new \in Seq(Lines)
          PROVE  [worker EXCEPT ![j].at = place, ![j].lines = new] \in [Jobs -> Workers]
      BY <1>worker, ZenonT(60) DEF Workers
    <3> QED
      BY <2>3, <2>4, <3>1
  <2>7. FilesInUse'
    BY <1>1, <2>1, <2>2, <2>3, <2>4 DEF Workers, FilesInUse
  <2> QED
    BY <1>1, <2>1, <2>5, <2>6, <2>7 DEF JobsTypeOK
<1>10. ASSUME NEW j \in Jobs, Reap(j) PROVE JobsTypeOK' /\ RingOK'
  <2>1. UNCHANGED <<started, slot, content, logVars>> /\ name' \in 0..MaxJobs
    BY <1>10, IndexJobsAssumption DEF Reap
  <2>2. child' \in [Jobs -> Children] /\ \A k \in Jobs : child'[k].at = "run" => child'[k] = child[k]
    BY <1>1, <1>10 DEF Reap, Children
  <2>3. worker' \in [Jobs -> Workers] /\ FilesInUse'
    <3>1. PICK failed \in BOOLEAN :
            worker' = [worker EXCEPT ![j].at = "report", ![j].failed = failed]
      BY <1>10 DEF Reap
    <3> QED
      <4>1. worker' \in [Jobs -> Workers]
        BY <1>worker, <3>1, ZenonT(60) DEF Workers
      <4>2. FilesInUse'
        BY <1>1, <2>2, <3>1 DEF FilesInUse, Workers
      <4> QED
        BY <4>1, <4>2
  <2> QED
    BY <1>1, <1>4, <2>1, <2>2, <2>3 DEF JobsTypeOK
<1>11. ASSUME NEW j \in Jobs, Tell(j) PROVE JobsTypeOK' /\ RingOK'
  <2>1. UNCHANGED <<started, slot, child, name, content>> /\ Move(j, "gone")
    BY <1>11 DEF Tell, fileVars
  <2>2. OwnLine(slot[worker[j].slot].path) \in Lines
    BY <1>1 DEF OwnLine, Lines, Workers, SlotStates
  <2>3. RingOK' /\ heard' \in [Jobs -> Seq(Lines)]
    BY <1>1, <1>11, <2>2, SayKeepsRing, SayKeepsHeard DEF Tell
  <2>4. worker' \in [Jobs -> Workers] /\ FilesInUse'
    BY <1>1, <2>1, ZenonT(60) DEF Move, Workers, FilesInUse
  <2> QED
    BY <1>1, <2>1, <2>3, <2>4 DEF JobsTypeOK
<1>12. ASSUME NEW j \in Jobs, ProcessKill(j) \/ ChildEnds(j) PROVE JobsTypeOK' /\ RingOK'
  <2>1. UNCHANGED <<started, slot, worker, name, content, logVars>>
    BY <1>12 DEF ProcessKill, ChildEnds, jobVars, fileVars
  <2>2. child' \in [Jobs -> Children] /\ FilesInUse'
    <3>1. PICK failed \in BOOLEAN :
            child' = [child EXCEPT ![j].at = "zombie", ![j].failed = failed]
      BY <1>12 DEF ProcessKill, ChildEnds
    <3> QED
      BY <1>1, <2>1, <3>1, ZenonT(60) DEF Children, FilesInUse
  <2> QED
    BY <1>1, <1>4, <2>1, <2>2 DEF JobsTypeOK
<1>13. ASSUME NEW j \in Jobs, ChildOpens(j) PROVE JobsTypeOK' /\ RingOK'
  <2>1. UNCHANGED <<started, slot, worker, logVars>>
    BY <1>13 DEF ChildOpens, jobVars
  <2>2. PICK f \in Jobs : /\ child' = [child EXCEPT ![j].at = "run", ![j].out = f]
                          /\ name' = f /\ content' = [content EXCEPT ![f] = <<>>]
    <3>1. IF name = 0 THEN j \in Jobs ELSE name \in Jobs
      BY <1>1 DEF Jobs
    <3> QED
      BY <1>13, <3>1 DEF ChildOpens
  <2>3. child' \in [Jobs -> Children] /\ FilesInUse'
    BY <1>1, <1>2, <2>1, <2>2, ZenonT(60) DEF Children, FilesInUse
  <2>4. content' \in [Jobs -> Seq(Lines)] /\ name' \in 0..MaxJobs
    BY <1>1, <1>2, <2>2
  <2> QED
    BY <1>1, <1>4, <2>1, <2>3, <2>4 DEF JobsTypeOK
<1>14. ASSUME NEW j \in Jobs, ChildLogs(j) PROVE JobsTypeOK' /\ RingOK'
  <2>1. UNCHANGED <<started, slot, worker, name, logVars>>
    BY <1>14 DEF ChildLogs, jobVars
  <2> DEFINE nr == child[j].wrote + 1
             f == child[j].out
             old == content[f]
             length == IF nr > Len(old) THEN nr ELSE Len(old)
             new == [i \in 1..length |-> IF i = nr THEN [job |-> j, nr |-> nr]
                                         ELSE IF i <= Len(old) THEN old[i] ELSE NoLine]
  <2>2. child' = [child EXCEPT ![j].wrote = nr] /\ content' = [content EXCEPT ![f] = new]
    BY <1>14 DEF ChildLogs
  <2>3. nr \in Nat /\ f \in Jobs
    <3>1. child[j].at = "run"
      BY <1>14 DEF ChildLogs
    <3> QED
      BY <1>1, <3>1 DEF Children, FilesInUse, Jobs
  <2>4. new \in Seq(Lines)
    <3>1. old \in Seq(Lines) /\ [job |-> j, nr |-> nr] \in Lines /\ NoLine \in Lines
      <4>1. old \in Seq(Lines)
        BY <1>1, <2>3
      <4>2. 0 \in 0..MaxJobs
        BY IndexJobsAssumption
      <4> HIDE DEF nr, old
      <4> QED
        BY <1>2, <2>3, <4>1, <4>2 DEF NoLine, Lines
    <3>2. length \in Nat
      BY <2>3, <3>1
    <3> HIDE DEF nr, length, old
    <3>3. \A i \in 1..length : (IF i = nr THEN [job |-> j, nr |-> nr]
                                ELSE IF i <= Len(old) THEN old[i] ELSE NoLine) \in Lines
      BY <3>1, <3>2
    <3> QED
      BY <3>2, <3>3
  <2> HIDE DEF nr, f, new
  <2>5. child' \in [Jobs -> Children] /\ FilesInUse'
    BY <1>1, <2>1, <2>2, <2>3 DEF Children, FilesInUse
  <2>6. content' \in [Jobs -> Seq(Lines)]
    BY <1>1, <2>2, <2>3, <2>4
  <2> QED
    BY <1>1, <1>4, <2>1, <2>5, <2>6 DEF JobsTypeOK
<1>15. CASE UNCHANGED uiVars
  <2>1. UNCHANGED <<started, slot, worker, child, name, content, logVars>>
    BY <1>15 DEF uiVars, jobVars, fileVars
  <2> QED
    BY <1>1, <1>4, <2>1 DEF JobsTypeOK, FilesInUse
<1> QED
  BY <1>3, <1>5, <1>6, <1>7, <1>8, <1>9, <1>10, <1>11, <1>12, <1>13, <1>14, <1>15
  DEF UiNext, Thread

(***************************************************************************)
(* The log of a job that is alone, from its child to the ring.             *)
(***************************************************************************)
LineOf(j, i) == [job |-> j, nr |-> i]

(* A job of which the log file may be. *)
FileOpen == {"track", "poll", "open", "read", "log", "wait"}

NameInUse == name # 0 => \E k \in Jobs : worker[k].at \in FileOpen /\ child[k].out # 0

(* A job begins without a file, and its thread waits only for a child that is gone. *)
InStep ==
  \A j \in Jobs :
    /\ worker[j].at \in {"none", "fork", "give up"} =>
         worker[j].tail = 0 /\ ~worker[j].exited /\ child[j].wrote = 0 /\ child[j].out = 0
    /\ child[j].at = "new" => child[j].wrote = 0 /\ child[j].out = 0
    /\ worker[j].exited => child[j].at = "reaped"
    /\ worker[j].at = "wait" => worker[j].exited

Clean(lines, j) == \A i \in DOMAIN lines : lines[i].job = j => lines[i].nr = 0

(* While job j has a slot no other one has, and the lines of its child are in no file
   and no thread of another job. *)
Apart(j) ==
  /\ Busy(j) => \A k \in Jobs : Busy(k) => k = j
  /\ name = j => worker[j].at \in FileOpen
  /\ \A k \in Jobs \ {j} : /\ child[k].out # j /\ worker[k].file # j
                           /\ Clean(content[k], j) /\ Clean(worker[k].lines, j)

(* The file of job j, once its child has opened it, has the lines of the child. *)
FileIsOwn(j) ==
  worker[j].at \in FileOpen =>
    IF child[j].out = 0
    THEN name = 0 /\ child[j].wrote = 0
    ELSE /\ child[j].out = j /\ name = j /\ Len(content[j]) = child[j].wrote
         /\ \A i \in 1..child[j].wrote : content[j][i] = LineOf(j, i)

(* The ring has had the lines before those that the thread still has to log, and at the
   end all of them. *)
HeardSoFar(j) ==
  LET said == Len(heard[j])
  IN  /\ said + Len(worker[j].lines) = worker[j].tail
      /\ \A i \in 1..said : heard[j][i] = LineOf(j, i)
      /\ \A i \in 1..Len(worker[j].lines) : worker[j].lines[i] = LineOf(j, said + i)
      /\ worker[j].tail <= child[j].wrote
      /\ worker[j].at \in {"wait", "report", "tell", "gone"} =>
           worker[j].tail = child[j].wrote
      /\ worker[j].at # "log" => worker[j].lines = <<>>
      /\ worker[j].at \in {"read", "log"} => worker[j].file = j /\ child[j].out = j

Alone(j) == Apart(j) /\ FileIsOwn(j) /\ HeardSoFar(j)

LogInv == NameInUse /\ InStep /\ \A j \in Jobs \ together : Alone(j)

LEMMA LogInit == UiInit => LogInv
<1> SUFFICES ASSUME UiInit PROVE LogInv
  OBVIOUS
<1>1. NameInUse /\ InStep
  BY DEF UiInit, NameInUse, InStep
<1>2. ASSUME NEW j \in Jobs PROVE Alone(j)
  <2>1. /\ worker[j].at = "none" /\ worker[j].tail = 0 /\ worker[j].lines = <<>>
        /\ child[j].wrote = 0 /\ heard[j] = <<>> /\ name = 0 /\ j # 0
    BY DEF UiInit, Jobs
  <2>2. Apart(j)
    <3>1. \A k \in Jobs : /\ child[k].out = 0 /\ worker[k].file = 0 /\ worker[k].at = "none"
                          /\ content[k] = <<>> /\ worker[k].lines = <<>>
      BY DEF UiInit
    <3>2. Clean(<<>>, j)
      BY DEF Clean
    <3> QED
      BY <2>1, <3>1, <3>2 DEF Apart, Busy
  <2>3. FileIsOwn(j)
    BY <2>1 DEF FileIsOwn, FileOpen
  <2>4. HeardSoFar(j)
    BY <2>1 DEF HeardSoFar
  <2> QED
    BY <2>2, <2>3, <2>4 DEF Alone
<1> QED
  BY <1>1, <1>2 DEF LogInv

(* A step that leaves the files and what is read of them as they are. *)
LEMMA LogKept ==
  ASSUME NEW j \in Jobs, Alone(j), UNCHANGED content, heard'[j] = heard[j],
         \A k \in Jobs : /\ UNCHANGED <<worker[k].lines, worker[k].tail>>
                         /\ worker'[k].file = worker[k].file
                         /\ UNCHANGED <<child[k].out, child[k].wrote>>,
         Busy(j)' => \A k \in Jobs : Busy(k)' => k = j,
         \/ name' = name /\ (worker[j].at \in FileOpen => worker'[j].at \in FileOpen)
         \/ name' = 0 /\ worker'[j].at \notin FileOpen,
         worker'[j].at \in FileOpen =>
           worker[j].at \in FileOpen \/ (child[j].out = 0 /\ name = 0 /\ child[j].wrote = 0),
         worker'[j].at \in {"wait", "report", "tell", "gone"} =>
           worker[j].tail = child[j].wrote,
         worker'[j].at = "log" <=> worker[j].at = "log",
         worker'[j].at = "read" <=> worker[j].at = "read"
  PROVE  Alone(j)'
<1>1. Apart(j) /\ FileIsOwn(j) /\ HeardSoFar(j)
  BY DEF Alone
<1>2. Apart(j)'
  <2>1. name' = j => worker'[j].at \in FileOpen
    BY <1>1 DEF Apart, Jobs
  <2>2. ASSUME NEW k \in Jobs \ {j}
        PROVE  /\ child'[k].out # j /\ worker'[k].file # j
               /\ Clean(content'[k], j) /\ Clean(worker'[k].lines, j)
    BY <1>1 DEF Apart
  <2> QED
    BY <2>1, <2>2 DEF Apart
<1>3. FileIsOwn(j)'
  BY <1>1 DEF FileIsOwn
<1>4. HeardSoFar(j)'
  BY <1>1 DEF HeardSoFar
<1> QED
  BY <1>2, <1>3, <1>4 DEF Alone

(* A step of the thread of another job. *)
LEMMA OtherThread ==
  ASSUME NEW j \in Jobs, Alone(j), UNCHANGED <<name, content, child>>, heard'[j] = heard[j],
         NEW k \in Jobs, k # j, \A i \in Jobs \ {k} : worker'[i] = worker[i],
         Busy(k)' => Busy(k), worker'[k].file # j, Clean(worker'[k].lines, j)
  PROVE  Alone(j)'
<1>1. Apart(j) /\ FileIsOwn(j) /\ HeardSoFar(j)
  BY DEF Alone
<1>2. Apart(j)'
  <2>1. \A i \in Jobs : Busy(i)' => Busy(i)
    BY DEF Busy
  <2>2. Busy(j)' => \A i \in Jobs : Busy(i)' => i = j
    BY <1>1, <2>1 DEF Apart
  <2>3. name' = j => worker'[j].at \in FileOpen
    BY <1>1 DEF Apart
  <2>4. ASSUME NEW i \in Jobs \ {j}
        PROVE  /\ child'[i].out # j /\ worker'[i].file # j
               /\ Clean(content'[i], j) /\ Clean(worker'[i].lines, j)
    <3>1. CASE i = k
      BY <1>1, <3>1 DEF Apart
    <3>2. CASE i # k
      BY <1>1, <3>2 DEF Apart
    <3> QED
      BY <3>1, <3>2
  <2> QED
    BY <2>2, <2>3, <2>4 DEF Apart
<1>3. FileIsOwn(j)'
  BY <1>1 DEF FileIsOwn
<1>4. HeardSoFar(j)'
  BY <1>1 DEF HeardSoFar
<1> QED
  BY <1>2, <1>3, <1>4 DEF Alone

SameReading ==
  \A i \in Jobs : UNCHANGED <<worker[i].lines, worker[i].tail, worker[i].file,
                              child[i].out, child[i].wrote>>

(* The ways of a thread between two looks at the log file, and with a place of its own
   the steps of the others. *)
Moves(k) ==
  \/ name' = name /\ worker'[k].at = worker[k].at
  \/ name' = name /\ worker[k].at = "fork" /\ worker'[k].at \in {"track", "give up"}
  \/ name' = name /\ worker[k].at = "give up" /\ worker'[k].at = "gone"
  \/ name' = name /\ worker[k].at = "track" /\ worker'[k].at = "poll"
  \/ name' = name /\ worker[k].at = "poll" /\ worker'[k].at = "open"
  \/ name' = 0 /\ worker[k].at = "wait" /\ worker'[k].at = "report"
  \/ name' = name /\ worker[k].at = "report" /\ worker'[k].at = "tell"
  \/ name' = name /\ worker[k].at = "tell" /\ worker'[k].at = "gone"

LEMMA MoveKeepsLog ==
  ASSUME LogInv, SameReading, UNCHANGED <<content, together>>,
         \A j \in Jobs \ together : heard'[j] = heard[j],
         NEW k \in Jobs, \A i \in Jobs \ {k} : worker'[i].at = worker[i].at, Moves(k)
  PROVE  NameInUse' /\ \A j \in Jobs \ together : Alone(j)'
<1>1. NameInUse'
  <2>1. SUFFICES ASSUME name' # 0
                 PROVE  \E i \in Jobs : worker'[i].at \in FileOpen /\ child'[i].out # 0
    BY DEF NameInUse
  <2>2. PICK i \in Jobs : worker[i].at \in FileOpen /\ child[i].out # 0
    BY <2>1 DEF LogInv, NameInUse, Moves
  <2>3. worker'[i].at \in FileOpen
    BY <2>1, <2>2 DEF Moves, FileOpen
  <2> QED
    BY <2>2, <2>3 DEF SameReading
<1>2. ASSUME NEW j \in Jobs \ together PROVE Alone(j)'
  <2>1. Alone(j) /\ Apart(j) /\ FileIsOwn(j) /\ HeardSoFar(j)
    BY DEF LogInv, Alone
  <2>2. \A i \in Jobs : Busy(i)' => Busy(i)
    BY DEF Busy, Moves
  <2>3. Busy(j)' => \A i \in Jobs : Busy(i)' => i = j
    BY <2>1, <2>2 DEF Apart
  <2>4. \/ name' = name /\ (worker[j].at \in FileOpen => worker'[j].at \in FileOpen)
        \/ name' = 0 /\ worker'[j].at \notin FileOpen
    <3>1. CASE j = k
      BY <3>1 DEF Moves, FileOpen
    <3>2. CASE j # k
      <4>1. worker[k].at = "wait" => worker[j].at \notin FileOpen
        BY <2>1, <3>2 DEF Apart, Busy, FileOpen
      <4> QED
        BY <3>2, <4>1 DEF Moves
    <3> QED
      BY <3>1, <3>2
  <2>5. worker'[j].at \in FileOpen =>
          worker[j].at \in FileOpen \/ (child[j].out = 0 /\ name = 0 /\ child[j].wrote = 0)
    <3>1. ASSUME worker'[j].at \in FileOpen, worker[j].at \notin FileOpen
          PROVE  child[j].out = 0 /\ name = 0 /\ child[j].wrote = 0
      <4>1. j = k /\ worker[j].at = "fork"
        BY <3>1 DEF Moves, FileOpen
      <4>2. child[j].out = 0 /\ child[j].wrote = 0
        BY <4>1 DEF LogInv, InStep
      <4>3. ASSUME NEW i \in Jobs PROVE worker[i].at \notin FileOpen
        BY <2>1, <4>1 DEF Apart, Busy, FileOpen
      <4> QED
        BY <4>2, <4>3 DEF LogInv, NameInUse
    <3> QED
      BY <3>1
  <2>6. worker'[j].at \in {"wait", "report", "tell", "gone"} =>
          worker[j].tail = child[j].wrote
    <3>1. CASE worker[j].at = "give up"
      BY <3>1 DEF LogInv, InStep
    <3>2. CASE worker[j].at # "give up"
      BY <2>1, <3>2 DEF Moves, HeardSoFar
    <3> QED
      BY <3>1, <3>2
  <2>7. /\ worker'[j].at = "log" <=> worker[j].at = "log"
        /\ worker'[j].at = "read" <=> worker[j].at = "read"
    BY DEF Moves
  <2> HIDE DEF Moves
  <2> QED
    BY <2>1, <2>3, <2>4, <2>5, <2>6, <2>7, LogKept DEF SameReading
<1> QED
  BY <1>1, <1>2

(* What the thread of job k logs is not heard of any other one that is alone. *)
LEMMA OwnLineIsNotHeard ==
  ASSUME JobsTypeOK, NEW line, line.nr = 0, Say(line), NEW j \in Jobs \ together
  PROVE  heard'[j] = heard[j]
BY DEF Say

LEMMA NamesAndSteps ==
  ASSUME JobsTypeOK, SlotsInv, LogInv, NEW k \in Jobs,
         \/ Fork(k) \/ GiveUp(k) \/ Track(k) \/ Poll(k) \/ Reap(k) \/ Report(k) \/ Tell(k)
         \/ ProcessKill(k) \/ ChildEnds(k)
  PROVE  LogInv'
<1>1. /\ worker \in [Jobs -> Workers] /\ child \in [Jobs -> Children] /\ InStep
  BY DEF JobsTypeOK, LogInv
<1>2. UNCHANGED <<content, together>>
  BY DEF Fork, GiveUp, Track, Poll, Reap, Report, Tell, ProcessKill, ChildEnds, fileVars,
         jobVars
<1>3. ASSUME NEW j \in Jobs \ together PROVE heard'[j] = heard[j]
  <2>1. CASE Fork(k)
    BY <2>1, OwnLineIsNotHeard DEF Fork, OwnLine
  <2>2. CASE Tell(k)
    BY <2>2, OwnLineIsNotHeard DEF Tell, OwnLine
  <2>3. CASE ~Fork(k) /\ ~Tell(k)
    BY <2>3 DEF GiveUp, Track, Poll, Reap, Report, ProcessKill, ChildEnds, logVars
  <2> QED
    BY <2>1, <2>2, <2>3
<1>4. /\ SameReading /\ \A i \in Jobs \ {k} : worker'[i].at = worker[i].at
      /\ Moves(k) /\ InStep'
  <2>1. CASE Fork(k)
    <3>1. worker[k].at = "fork" /\ name' = name
      BY <2>1 DEF Fork, fileVars
    <3>2. CASE child' = [child EXCEPT ![k].at = "new"] /\ Move(k, "track")
      BY <1>1, <3>1, <3>2, ZenonT(60) DEF Move, SameReading, Moves, InStep, Workers, Children
    <3>3. CASE UNCHANGED child /\ Move(k, "give up")
      BY <1>1, <3>1, <3>3, ZenonT(60) DEF Move, SameReading, Moves, InStep, Workers, Children
    <3> QED
      BY <2>1, <3>2, <3>3 DEF Fork
  <2>2. CASE GiveUp(k)
    BY <1>1, <2>2 DEF GiveUp, fileVars, Move, SameReading, Moves, InStep, Workers
  <2>3. CASE Track(k)
    BY <1>1, <2>3 DEF Track, fileVars, Move, SameReading, Moves, InStep, Workers
  <2>4. CASE Poll(k)
    <3>1. /\ worker[k].at = "poll" /\ name' = name
          /\ worker' = [worker EXCEPT ![k].at = "open", ![k].exited = child[k].at = "zombie"]
          /\ child' = IF child[k].at = "zombie" THEN [child EXCEPT ![k].at = "reaped"] ELSE child
      BY <2>4 DEF Poll, fileVars
    <3>2. SameReading /\ \A i \in Jobs \ {k} : worker'[i].at = worker[i].at
      BY <1>1, <3>1, ZenonT(60) DEF SameReading, Workers, Children
    <3>3. Moves(k)
      BY <1>1, <3>1 DEF Moves, Workers
    <3>4. InStep'
      <4>1. ASSUME NEW i \in Jobs, i # k PROVE worker'[i] = worker[i] /\ child'[i] = child[i]
        BY <1>1, <3>1, <4>1
      <4>2. /\ worker'[k].at = "open" /\ worker'[k].exited = (child[k].at = "zombie")
            /\ child[k].at = "zombie" => child'[k].at = "reaped"
            /\ child'[k].at = "new" => child'[k] = child[k]
        BY <1>1, <3>1 DEF Workers, Children
      <4> QED
        BY <1>1, <4>1, <4>2, ZenonT(60) DEF InStep
    <3> QED
      BY <3>2, <3>3, <3>4
  <2>5. CASE Reap(k)
    <3>1. PICK failed :
            /\ worker[k].at = "wait" /\ name' = 0
            /\ worker' = [worker EXCEPT ![k].at = "report", ![k].failed = failed]
            /\ child' = [child EXCEPT ![k].at = "reaped"]
      BY <2>5 DEF Reap
    <3>2. SameReading /\ \A i \in Jobs \ {k} : worker'[i].at = worker[i].at
      BY <1>1, <3>1, ZenonT(60) DEF SameReading, Workers, Children
    <3>3. Moves(k)
      BY <1>1, <3>1 DEF Moves, Workers
    <3>4. InStep'
      <4>1. ASSUME NEW i \in Jobs, i # k PROVE worker'[i] = worker[i] /\ child'[i] = child[i]
        BY <1>1, <3>1, <4>1
      <4>2. worker'[k].at = "report" /\ child'[k].at = "reaped"
        BY <1>1, <3>1 DEF Workers, Children
      <4> QED
        BY <1>1, <4>1, <4>2 DEF InStep
    <3> QED
      BY <3>2, <3>3, <3>4
  <2>6. CASE Report(k)
    BY <1>1, <2>6 DEF Report, fileVars, Move, SameReading, Moves, InStep, Workers
  <2>7. CASE Tell(k)
    BY <1>1, <2>7 DEF Tell, fileVars, Move, SameReading, Moves, InStep, Workers
  <2>8. CASE ProcessKill(k) \/ ChildEnds(k)
    <3>1. PICK failed : child' = [child EXCEPT ![k].at = "zombie", ![k].failed = failed]
      BY <2>8 DEF ProcessKill, ChildEnds
    <3>2. UNCHANGED <<worker, name>> /\ child[k].at \in {"new", "run"}
      BY <2>8 DEF ProcessKill, ChildEnds, jobVars, fileVars
    <3> QED
      BY <1>1, <3>1, <3>2 DEF SameReading, Moves, InStep, Children
  <2> QED
    BY <2>1, <2>2, <2>3, <2>4, <2>5, <2>6, <2>7, <2>8
<1> QED
  BY <1>2, <1>3, <1>4, MoveKeepsLog DEF LogInv

LEMMA StartKeepsLog ==
  ASSUME JobsTypeOK, SlotsInv, LogInv, IndexStart PROVE LogInv'
<1> DEFINE new == started + 1
           others == {k \in Jobs : Busy(k)}
<1>1. /\ worker \in [Jobs -> Workers] /\ InStep /\ UNCHANGED <<child, name, content, heard>>
  BY DEF JobsTypeOK, LogInv, IndexStart, fileVars, logVars
<1>2. new \in Jobs /\ worker[new].at = "none"
  <2>1. started \in 0..MaxJobs /\ started < MaxJobs
    BY DEF JobsTypeOK, IndexStart
  <2>2. new \in Jobs /\ new \notin Accepted
    BY <2>1, IndexJobsAssumption DEF Jobs, Accepted
  <2> QED
    BY <2>2 DEF SlotsInv, InPhase
<1>3. PICK s \in Slots :
        \/ /\ worker' = [worker EXCEPT ![new].at = "fork", ![new].slot = s]
           /\ together' = IF others = {} THEN together
                          ELSE together \union others \union {new}
        \/ UNCHANGED <<worker, together>>
  BY DEF IndexStart
<1> HIDE DEF new
<1>4. SameReading
  <2>1. CASE worker' = [worker EXCEPT ![new].at = "fork", ![new].slot = s]
    <3>1. \A i \in Jobs : /\ worker'[i].lines = worker[i].lines
                          /\ worker'[i].tail = worker[i].tail
                          /\ worker'[i].file = worker[i].file
      BY <1>1, <1>2, <2>1 DEF Workers
    <3> QED
      BY <1>1, <3>1 DEF SameReading
  <2>2. CASE UNCHANGED worker
    BY <1>1, <2>2 DEF SameReading
  <2> QED
    BY <1>3, <2>1, <2>2
<1>5. /\ \A i \in Jobs : i # new => worker'[i] = worker[i]
      /\ \/ worker'[new].at = "none" /\ UNCHANGED <<worker, together>>
         \/ /\ worker'[new].at = "fork" /\ worker'[new].exited = worker[new].exited
            /\ together' = IF others = {} THEN together
                           ELSE together \union others \union {new}
  BY <1>1, <1>2, <1>3, ZenonT(60) DEF Workers
<1>6. NameInUse'
  <2>1. SUFFICES ASSUME name' # 0
                 PROVE  \E i \in Jobs : worker'[i].at \in FileOpen /\ child'[i].out # 0
    BY DEF NameInUse
  <2>2. PICK i \in Jobs : worker[i].at \in FileOpen /\ child[i].out # 0
    BY <1>1, <2>1 DEF LogInv, NameInUse
  <2>3. i # new
    BY <1>2, <2>2 DEF FileOpen
  <2> QED
    BY <1>1, <1>5, <2>2, <2>3
<1>7. InStep'
  <2>1. ASSUME NEW i \in Jobs, i = new
        PROVE  worker'[i].tail = 0 /\ ~worker'[i].exited /\ child'[i].wrote = 0
               /\ child'[i].out = 0 /\ worker'[i].at \in {"none", "fork"}
    BY <1>1, <1>2, <1>4, <1>5, <2>1 DEF InStep, SameReading
  <2> QED
    BY <1>1, <1>2, <1>5, <2>1 DEF InStep
<1>8. ASSUME NEW j \in Jobs \ together' PROVE Alone(j)'
  <2>1. j \in Jobs \ together
    BY <1>5
  <2>2. Alone(j) /\ Apart(j) /\ FileIsOwn(j) /\ HeardSoFar(j)
    BY <2>1 DEF LogInv, Alone
  <2>3. CASE UNCHANGED <<worker, together>>
    <3>1. Busy(j)' => \A k \in Jobs : Busy(k)' => k = j
      BY <2>2, <2>3 DEF Apart, Busy
    <3>2. name = j => worker[j].at \in FileOpen
      BY <2>2 DEF Apart
    <3> QED
      BY <1>1, <1>4, <2>2, <2>3, <3>1, <3>2, LogKept DEF SameReading, HeardSoFar
  <2>4. CASE /\ worker'[new].at = "fork"
             /\ together' = IF others = {} THEN together
                            ELSE together \union others \union {new}
    <3>1. Busy(j)' => \A k \in Jobs : Busy(k)' => k = j
      <4>1. CASE others = {}
        BY <1>5, <4>1 DEF Busy
      <4>2. CASE others # {}
        <5>1. j \notin others /\ j # new
          BY <2>4, <4>2
        <5> QED
          BY <1>5, <5>1 DEF Busy
      <4> QED
        BY <4>1, <4>2
    <3>2. j = new \/ worker'[j].at = worker[j].at
      BY <1>5
    <3>3. /\ worker[j].at \in FileOpen <=> worker'[j].at \in FileOpen
          /\ worker'[j].at = "log" <=> worker[j].at = "log"
          /\ worker'[j].at = "read" <=> worker[j].at = "read"
          /\ worker'[j].at \in {"wait", "report", "tell", "gone"} =>
               worker[j].at \in {"wait", "report", "tell", "gone"}
      BY <1>2, <2>4, <3>2 DEF FileOpen
    <3>4. worker'[j].at \in {"wait", "report", "tell", "gone"} =>
            worker[j].tail = child[j].wrote
      BY <2>2, <3>3 DEF HeardSoFar
    <3> QED
      BY <1>1, <1>4, <2>2, <3>1, <3>3, <3>4, LogKept DEF SameReading
  <2> QED
    BY <1>5, <2>3, <2>4
<1> QED
  BY <1>6, <1>7, <1>8 DEF LogInv

LEMMA OpeningKeepsLog ==
  ASSUME JobsTypeOK, SlotsInv, LogInv, NEW k \in Jobs, ChildOpens(k) PROVE LogInv'
<1>1. /\ worker \in [Jobs -> Workers] /\ child \in [Jobs -> Children] /\ InStep
      /\ content \in [Jobs -> Seq(Lines)] /\ name \in 0..MaxJobs
  BY DEF JobsTypeOK, LogInv
<1>2. UNCHANGED <<worker, together, heard>> /\ child[k].at = "new"
  BY DEF ChildOpens, jobVars, logVars
<1>3. PICK f \in Jobs : /\ f = IF name = 0 THEN k ELSE name
                        /\ child' = [child EXCEPT ![k].at = "run", ![k].out = f]
                        /\ name' = f /\ content' = [content EXCEPT ![f] = <<>>]
  <2>1. (IF name = 0 THEN k ELSE name) \in Jobs
    BY <1>1 DEF Jobs
  <2> QED
    BY <2>1 DEF ChildOpens
<1>4. /\ child'[k].at = "run" /\ child'[k].out = f /\ child'[k].wrote = child[k].wrote
      /\ \A i \in Jobs : i # k => child'[i] = child[i]
      /\ content'[f] = <<>> /\ \A i \in Jobs : i # f => content'[i] = content[i]
  BY <1>1, <1>3 DEF Children
<1>5. Busy(k) /\ worker[k].at \in FileOpen
  <2>1. Busy(k)
    BY <1>2 DEF SlotsInv, OneJobPerSlot
  <2> QED
    BY <1>1, <1>2, <2>1 DEF SlotsInv, InPhase, Busy, FileOpen, Workers
<1>6. f # 0 /\ child[k].wrote = 0 /\ child[k].out = 0 /\ ~worker[k].exited
  <2>1. f # 0
    BY DEF Jobs
  <2>2. child[k].wrote = 0 /\ child[k].out = 0 /\ ~worker[k].exited
    BY <1>1, <1>2 DEF InStep
  <2> QED
    BY <2>1, <2>2
<1>7. NameInUse'
  BY <1>2, <1>4, <1>5, <1>6 DEF NameInUse
<1>8. InStep'
  BY <1>1, <1>2, <1>4, <1>5, <1>6, ZenonT(60) DEF InStep, FileOpen
<1>9. ASSUME NEW j \in Jobs \ together PROVE Alone(j)'
  <2>1. Alone(j) /\ Apart(j) /\ FileIsOwn(j) /\ HeardSoFar(j)
    BY DEF LogInv, Alone
  <2>2. \A i \in Jobs : Clean(content'[i], j) <=> (i = f \/ Clean(content[i], j))
    BY <1>4 DEF Clean
  <2>3. CASE j = k
    <3>1. name = 0 /\ f = j
      BY <1>3, <1>5, <1>6, <2>1, <2>3 DEF FileIsOwn
    <3>2. Apart(j)'
      <4>1. \A i \in Jobs \ {j} : /\ child'[i].out # j /\ worker'[i].file # j
                                  /\ Clean(content'[i], j) /\ Clean(worker'[i].lines, j)
        BY <1>2, <1>4, <2>1, <2>2, <2>3 DEF Apart
      <4> QED
        BY <1>2, <1>5, <2>1, <2>3, <4>1 DEF Apart, Busy
    <3>3. FileIsOwn(j)'
      <4>1. child'[j].out = j /\ name' = j /\ Len(content'[j]) = 0 /\ child'[j].wrote = 0
        BY <1>3, <1>4, <1>6, <2>3, <3>1
      <4> QED
        BY <1>6, <3>1, <4>1 DEF FileIsOwn
    <3>4. HeardSoFar(j)'
      <4>1. worker[j].at \notin {"read", "log"}
        BY <1>6, <2>1, <2>3 DEF HeardSoFar, Jobs
      <4> QED
        BY <1>2, <1>4, <2>1, <2>3, <4>1 DEF HeardSoFar
    <3> QED
      BY <3>2, <3>3, <3>4 DEF Alone
  <2>4. CASE j # k
    <3>1. ~Busy(j) /\ worker[j].at \notin FileOpen
      BY <1>5, <2>1, <2>4 DEF Apart, Busy, FileOpen
    <3>2. f # j
      BY <1>3, <2>1, <2>4, <3>1 DEF Apart
    <3>3. Apart(j)'
      <4>1. \A i \in Jobs \ {j} : /\ child'[i].out # j /\ worker'[i].file # j
                                  /\ Clean(content'[i], j) /\ Clean(worker'[i].lines, j)
        BY <1>2, <1>4, <2>1, <2>2, <3>2 DEF Apart
      <4>2. ~Busy(j)'
        BY <1>2, <3>1 DEF Busy
      <4> QED
        BY <1>3, <3>2, <4>1, <4>2 DEF Apart
    <3>4. FileIsOwn(j)'
      BY <1>2, <3>1 DEF FileIsOwn
    <3>5. HeardSoFar(j)'
      BY <1>2, <1>4, <2>1, <2>4 DEF HeardSoFar
    <3> QED
      BY <3>3, <3>4, <3>5 DEF Alone
  <2> QED
    BY <2>3, <2>4
<1> QED
  BY <1>2, <1>7, <1>8, <1>9 DEF LogInv

LEMMA ChildLineKeepsLog ==
  ASSUME JobsTypeOK, SlotsInv, LogInv, NEW k \in Jobs, ChildLogs(k) PROVE LogInv'
<1> DEFINE nr == child[k].wrote + 1
           f == child[k].out
           old == content[f]
           length == IF nr > Len(old) THEN nr ELSE Len(old)
           new == [i \in 1..length |-> IF i = nr THEN [job |-> k, nr |-> nr]
                                       ELSE IF i <= Len(old) THEN old[i] ELSE NoLine]
<1>1. /\ worker \in [Jobs -> Workers] /\ child \in [Jobs -> Children] /\ InStep
      /\ content \in [Jobs -> Seq(Lines)] /\ name \in 0..MaxJobs /\ FilesInUse
  BY DEF JobsTypeOK, LogInv
<1>2. UNCHANGED <<worker, together, heard, name>> /\ child[k].at = "run"
  BY DEF ChildLogs, jobVars, logVars
<1>3. /\ child' = [child EXCEPT ![k].wrote = nr]
      /\ content' = [content EXCEPT ![f] = new]
  BY DEF ChildLogs
<1>4. /\ f \in Jobs /\ nr \in Nat /\ old \in Seq(Lines) /\ Len(old) \in Nat
      /\ child[k].wrote \in Nat
  <2>1. f \in Jobs
    BY <1>1, <1>2 DEF Children, FilesInUse, Jobs
  <2> QED
    BY <1>1, <2>1 DEF Children
<1>5. length \in Nat /\ nr \in 1..length
  BY <1>4
<1>6. ASSUME NEW j \in Jobs, Clean(old, j), j # k PROVE Clean(new, j)
  <2>1. DOMAIN old = 1..Len(old)
    BY <1>4
  <2>2. \A i \in 1..Len(old) : old[i].job = j => old[i].nr = 0
    BY <1>6, <2>1 DEF Clean
  <2>3. NoLine.job # j
    BY DEF NoLine, Jobs
  <2> HIDE DEF nr, length, old
  <2> QED
    BY <1>5, <1>6, <2>2, <2>3, <1>4 DEF Clean
<1>7. /\ child'[k].at = "run" /\ child'[k].out = f /\ child'[k].wrote = nr
      /\ \A i \in Jobs : i # k => child'[i] = child[i]
      /\ content'[f] = new /\ \A i \in Jobs : i # f => content'[i] = content[i]
  <2> HIDE DEF new, nr
  <2> QED
    BY <1>1, <1>2, <1>3, <1>4 DEF Children
<1>8. worker[k].at \in FileOpen /\ worker[k].at # "wait" /\ Busy(k)
  <2>1. Busy(k)
    BY <1>2 DEF SlotsInv, OneJobPerSlot
  <2>2. worker[k].at # "wait"
    BY <1>1, <1>2 DEF InStep
  <2> QED
    BY <1>1, <1>2, <2>1, <2>2 DEF SlotsInv, InPhase, Busy, FileOpen, Workers
<1>9. NameInUse'
  BY <1>1, <1>2, <1>7 DEF LogInv, NameInUse
<1>10. InStep'
  BY <1>1, <1>2, <1>7, <1>8, ZenonT(60) DEF InStep, FileOpen
<1>11. ASSUME NEW j \in Jobs \ together PROVE Alone(j)'
  <2>1. Alone(j) /\ Apart(j) /\ FileIsOwn(j) /\ HeardSoFar(j)
    BY DEF LogInv, Alone
  <2>2. \A i \in Jobs : Busy(i)' <=> Busy(i)
    BY <1>2 DEF Busy
  <2>3. CASE j = k
    <3>1. f = j /\ name = j /\ Len(old) = child[j].wrote
          /\ \A i \in 1..child[j].wrote : old[i] = LineOf(j, i)
      BY <1>4, <1>8, <2>1, <2>3 DEF FileIsOwn, Jobs
    <3>2. Apart(j)'
      <4>1. \A i \in Jobs \ {j} : /\ child'[i].out # j /\ worker'[i].file # j
                                  /\ Clean(content'[i], j) /\ Clean(worker'[i].lines, j)
        BY <1>2, <1>7, <2>1, <2>3, <3>1 DEF Apart
      <4> QED
        BY <1>2, <2>1, <2>2, <4>1 DEF Apart
    <3>3. length = nr /\ nr = child[j].wrote + 1
      BY <1>4, <2>3, <3>1
    <3>4. Len(new) = nr /\ \A i \in 1..nr : new[i] = LineOf(j, i)
      <4>1. \A i \in 1..nr : i = nr \/ (i <= Len(old) /\ i \in 1..child[j].wrote)
        BY <1>4, <3>1, <3>3
      <4> HIDE DEF nr, length, old
      <4> QED
        BY <1>5, <2>3, <3>1, <3>3, <4>1 DEF LineOf
    <3>5. FileIsOwn(j)'
      <4> HIDE DEF nr, length, new
      <4> QED
        BY <1>2, <1>7, <2>3, <3>1, <3>4 DEF FileIsOwn, Jobs
    <3>6. HeardSoFar(j)'
      <4>1. worker[j].tail \in Nat /\ child[j].wrote \in Nat
        BY <1>1, <1>4 DEF Workers, Children
      <4>2. worker[j].tail <= child'[j].wrote
        BY <1>7, <2>1, <2>3, <4>1 DEF HeardSoFar
      <4>3. worker[j].at \notin {"wait", "report", "tell", "gone"}
        BY <1>8, <2>3 DEF FileOpen
      <4> HIDE DEF nr
      <4> QED
        BY <1>2, <1>7, <2>1, <2>3, <4>2, <4>3, <3>1 DEF HeardSoFar
    <3> QED
      BY <3>2, <3>5, <3>6 DEF Alone
  <2>4. CASE j # k
    <3>1. f # j
      BY <2>1, <2>4 DEF Apart
    <3>2. Apart(j)'
      <4> HIDE DEF new
      <4>1. ASSUME NEW i \in Jobs \ {j} PROVE Clean(content'[i], j)
        <5>1. CASE i = f
          BY <1>6, <1>7, <2>1, <2>4, <5>1 DEF Apart
        <5>2. CASE i # f
          BY <1>7, <2>1, <5>2 DEF Apart
        <5> QED
          BY <5>1, <5>2
      <4>2. \A i \in Jobs \ {j} : child'[i].out # j
        BY <1>7, <2>1, <2>4 DEF Apart
      <4> QED
        BY <1>2, <2>1, <2>2, <4>1, <4>2 DEF Apart
    <3>3. FileIsOwn(j)'
      BY <1>2, <1>7, <2>1, <2>4, <3>1 DEF FileIsOwn
    <3>4. HeardSoFar(j)'
      BY <1>2, <1>7, <2>1, <2>4 DEF HeardSoFar
    <3> QED
      BY <3>2, <3>3, <3>4 DEF Alone
  <2> QED
    BY <2>3, <2>4
<1> QED
  BY <1>2, <1>9, <1>10, <1>11 DEF LogInv

LEMMA ReadingKeepsLog ==
  ASSUME JobsTypeOK, SlotsInv, LogInv, NEW k \in Jobs, ReadLog(k) PROVE LogInv'
<1> DEFINE file == IF worker[k].at = "open" THEN name ELSE worker[k].file
           lines == IF file = 0 THEN <<>> ELSE content[file]
           tail == worker[k].tail
           rest == SubSeq(lines, tail + 1, Len(lines))
           short == Len(lines) <= tail
<1>1. /\ worker \in [Jobs -> Workers] /\ child \in [Jobs -> Children] /\ InStep
      /\ content \in [Jobs -> Seq(Lines)] /\ heard \in [Jobs -> Seq(Lines)]
      /\ name \in 0..MaxJobs
  BY DEF JobsTypeOK, LogInv
<1>2. /\ UNCHANGED <<child, together, heard, name, content>>
      /\ worker[k].at \in {"open", "read"} /\ Busy(k)
  BY DEF ReadLog, fileVars, logVars, Busy
<1>3. worker' = IF short
                  THEN [worker EXCEPT ![k].at = Onward(k), ![k].file = 0]
                  ELSE [worker EXCEPT ![k].at = "log", ![k].file = file,
                                      ![k].tail = Len(lines), ![k].lines = rest]
  BY DEF ReadLog
<1>4. /\ file \in 0..MaxJobs /\ lines \in Seq(Lines) /\ Len(lines) \in Nat /\ tail \in Nat
      /\ file = 0 => Len(lines) = 0
  <2>1. file \in 0..MaxJobs /\ tail \in Nat
    BY <1>1 DEF Workers
  <2>2. lines \in Seq(Lines) /\ Len(lines) \in Nat /\ (file = 0 => Len(lines) = 0)
    BY <1>1, <2>1 DEF Jobs
  <2> QED
    BY <2>1, <2>2
<1>5. ASSUME ~short
      PROVE  /\ file # 0 /\ lines = content[file] /\ Len(rest) = Len(lines) - tail
             /\ \A i \in 1..Len(rest) : rest[i] = lines[tail + i]
             /\ \A i \in 1..Len(rest) : tail + i \in 1..Len(lines)
             /\ DOMAIN rest = 1..Len(rest)
  <2>1. file # 0
    BY <1>4, <1>5
  <2> HIDE DEF file, lines, tail
  <2>2. rest \in Seq(Lines) /\ Len(rest) = Len(lines) - tail
        /\ \A i \in 1..Len(rest) : rest[i] = lines[(tail + 1) + i - 1]
    BY <1>4, <1>5
  <2> HIDE DEF rest, short
  <2>3. \A i \in 1..Len(rest) : (tail + 1) + i - 1 = tail + i /\ tail + i \in 1..Len(lines)
    BY <1>4, <2>2
  <2>4. \A i \in 1..Len(rest) : rest[i] = lines[tail + i]
    BY <2>2, <2>3
  <2>5. DOMAIN rest = 1..Len(rest)
    BY <2>2
  <2>6. lines = content[file]
    BY <2>1 DEF lines
  <2> QED
    BY <2>1, <2>2, <2>3, <2>4, <2>5, <2>6
<1>6. Onward(k) \in {"wait", "poll"} /\ (Onward(k) = "wait" => worker[k].exited)
  BY DEF Onward
<1> HIDE DEF file, lines, tail, rest, short
<1>7. /\ \A i \in Jobs : i # k => worker'[i] = worker[i]
      /\ worker'[k].exited = worker[k].exited
      /\ short => /\ worker'[k].at = Onward(k) /\ worker'[k].file = 0
                  /\ worker'[k].tail = tail /\ worker'[k].lines = worker[k].lines
      /\ ~short => /\ worker'[k].at = "log" /\ worker'[k].file = file
                   /\ worker'[k].tail = Len(lines) /\ worker'[k].lines = rest
  <2>1. CASE short
    <3>1. worker' = [worker EXCEPT ![k].at = Onward(k), ![k].file = 0]
      BY <1>3, <2>1
    <3> QED
      BY <1>1, <2>1, <3>1 DEF Workers, tail
  <2>2. CASE ~short
    <3>1. worker' = [worker EXCEPT ![k].at = "log", ![k].file = file,
                                   ![k].tail = Len(lines), ![k].lines = rest]
      BY <1>3, <2>2
    <3> QED
      BY <1>1, <2>2, <3>1, ZenonT(60) DEF Workers
  <2> QED
    BY <2>1, <2>2
<1>8. worker'[k].at \in {"log", "wait", "poll"}
  BY <1>6, <1>7
<1>9. NameInUse'
  <2>1. SUFFICES ASSUME name' # 0
                 PROVE  \E i \in Jobs : worker'[i].at \in FileOpen /\ child'[i].out # 0
    BY DEF NameInUse
  <2>2. PICK i \in Jobs : worker[i].at \in FileOpen /\ child[i].out # 0
    BY <1>2, <2>1 DEF LogInv, NameInUse
  <2>3. worker'[i].at \in FileOpen
    BY <1>7, <1>8, <2>2 DEF FileOpen
  <2> QED
    BY <1>2, <2>2, <2>3
<1>10. InStep'
  <2>1. worker'[k].at = "wait" => worker'[k].exited
    BY <1>6, <1>7
  <2> QED
    BY <1>1, <1>2, <1>7, <1>8, <2>1, ZenonT(60) DEF InStep
<1>11. ASSUME NEW j \in Jobs \ together PROVE Alone(j)'
  <2>1. Alone(j) /\ Apart(j) /\ FileIsOwn(j) /\ HeardSoFar(j)
    BY DEF LogInv, Alone
  <2>2. CASE j # k
    <3>1. file # j
      BY <1>2, <2>1, <2>2 DEF Apart, file, FileOpen, Busy
    <3>2. worker'[k].file # j
      BY <1>7, <3>1 DEF Jobs
    <3>3. Clean(worker'[k].lines, j)
      <4>1. CASE short
        BY <1>7, <2>1, <2>2, <4>1 DEF Apart
      <4>2. CASE ~short
        <5>1. Clean(lines, j)
          <6>1. file \in Jobs \ {j} /\ lines = content[file]
            BY <1>4, <1>5, <3>1, <4>2 DEF Jobs
          <6> QED
            BY <2>1, <6>1 DEF Apart
        <5>2. DOMAIN lines = 1..Len(lines)
          BY <1>4
        <5> QED
          BY <1>5, <1>7, <4>2, <5>1, <5>2 DEF Clean
      <4> QED
        BY <4>1, <4>2
    <3> QED
      BY <1>2, <1>7, <2>1, <2>2, <3>2, <3>3, OtherThread
  <2>3. CASE j = k
    <3>1. worker[j].lines = <<>> /\ Len(heard[j]) = tail
          /\ \A i \in 1..tail : heard[j][i] = LineOf(j, i)
      <4>1. worker[j].lines = <<>>
        BY <1>2, <2>1, <2>3 DEF HeardSoFar
      <4>2. Len(heard[j]) \in Nat
        BY <1>1
      <4>3. Len(heard[j]) + 0 = tail
        BY <2>1, <2>3, <4>1 DEF HeardSoFar, tail
      <4>4. Len(heard[j]) = tail
        BY <4>2, <4>3
      <4> QED
        BY <2>1, <4>1, <4>4 DEF HeardSoFar
    <3>2. child[j].wrote \in Nat /\ tail <= child[j].wrote /\ worker[j].at \in FileOpen
      BY <1>1, <1>2, <2>1, <2>3 DEF HeardSoFar, tail, FileOpen, Children
    <3>3. Len(lines) = child[j].wrote /\ (file # 0 => file = j /\ child[j].out = j)
      <4>1. CASE child[j].out = 0
        <5>1. worker[j].at = "open" /\ name = 0 /\ child[j].wrote = 0
          BY <1>2, <2>1, <2>3, <3>2, <4>1 DEF HeardSoFar, FileIsOwn, Jobs
        <5> QED
          BY <1>4, <2>3, <5>1 DEF file
      <4>2. CASE child[j].out # 0
        <5>1. name = j /\ child[j].out = j /\ Len(content[j]) = child[j].wrote
          BY <2>1, <3>2, <4>2 DEF FileIsOwn
        <5>2. file = j
          BY <1>2, <2>1, <2>3, <5>1 DEF file, HeardSoFar
        <5> QED
          BY <5>1, <5>2 DEF lines, Jobs
      <4> QED
        BY <4>1, <4>2
    <3>4. Apart(j)'
      <4>1. \A i \in Jobs : Busy(i)' <=> Busy(i)
        BY <1>2, <1>7, <1>8 DEF Busy
      <4>2. worker'[j].at \in FileOpen
        BY <1>8, <2>3 DEF FileOpen
      <4>3. \A i \in Jobs \ {j} : /\ child'[i].out # j /\ worker'[i].file # j
                                  /\ Clean(content'[i], j) /\ Clean(worker'[i].lines, j)
        BY <1>2, <1>7, <2>1, <2>3 DEF Apart
      <4> QED
        BY <2>1, <4>1, <4>2, <4>3 DEF Apart
    <3>5. FileIsOwn(j)'
      BY <1>2, <2>1, <3>2 DEF FileIsOwn
    <3>6. HeardSoFar(j)'
      <4>1. CASE short
        <5>1. tail = child[j].wrote
          BY <1>4, <3>2, <3>3, <4>1 DEF short
        <5>2. worker'[j].at \notin {"read", "log"}
          BY <1>6, <1>7, <2>3, <4>1
        <5> QED
          BY <1>2, <1>7, <2>1, <2>3, <3>1, <4>1, <5>1, <5>2 DEF HeardSoFar, tail
      <4>2. CASE ~short
        <5>1. file = j /\ child[j].out = j /\ lines = content[j] /\ worker[j].at \in FileOpen
          BY <1>5, <3>2, <3>3, <4>2
        <5>2. \A i \in 1..Len(lines) : lines[i] = LineOf(j, i)
          BY <2>1, <3>3, <5>1 DEF FileIsOwn, Jobs
        <5>3. \A i \in 1..Len(rest) : rest[i] = LineOf(j, tail + i)
          BY <1>5, <4>2, <5>2
        <5>4. tail + Len(rest) = Len(lines) /\ Len(lines) <= child[j].wrote
          BY <1>4, <1>5, <3>2, <3>3, <4>2, SMTT(30)
        <5>5. /\ worker'[j].at = "log" /\ worker'[j].file = j
              /\ worker'[j].tail = Len(lines) /\ worker'[j].lines = rest
          BY <1>7, <2>3, <4>2, <5>1
        <5> QED
          BY <1>2, <3>1, <5>1, <5>3, <5>4, <5>5 DEF HeardSoFar
      <4> QED
        BY <4>1, <4>2
    <3> QED
      BY <3>4, <3>5, <3>6 DEF Alone
  <2> QED
    BY <2>2, <2>3
<1> QED
  BY <1>2, <1>9, <1>10, <1>11 DEF LogInv

LEMMA LogLineKeepsLog ==
  ASSUME JobsTypeOK, SlotsInv, LogInv, NEW k \in Jobs, LogLine(k) PROVE LogInv'
<1> DEFINE lines == worker[k].lines
           line == Head(lines)
<1>1. /\ worker \in [Jobs -> Workers] /\ InStep /\ heard \in [Jobs -> Seq(Lines)]
      /\ FilesInUse
  BY DEF JobsTypeOK, LogInv
<1>2. UNCHANGED <<child, together, name, content>> /\ worker[k].at = "log" /\ Busy(k)
  BY DEF LogLine, fileVars, Busy
<1>3. lines \in Seq(Lines) /\ lines # <<>>
  BY <1>1, <1>2 DEF Workers, FilesInUse
<1>4. /\ Len(lines) \in Nat /\ Len(lines) >= 1 /\ line = lines[1]
      /\ Tail(lines) \in Seq(Lines) /\ Len(Tail(lines)) = Len(lines) - 1
      /\ \A i \in 1..(Len(lines) - 1) : Tail(lines)[i] = lines[i + 1]
  <2> HIDE DEF lines
  <2> QED
    BY <1>3
<1>5. worker' = [worker EXCEPT ![k].at = IF Len(lines) = 1 THEN "read" ELSE "log",
                               ![k].lines = Tail(lines)]
  BY <1>1 DEF LogLine, Workers
<1>6. IF line = NoLine THEN UNCHANGED heard ELSE Say(line)
  BY DEF LogLine, logVars
<1> HIDE DEF lines, line
<1>7. /\ \A i \in Jobs : i # k => worker'[i] = worker[i]
      /\ worker'[k].exited = worker[k].exited /\ worker'[k].tail = worker[k].tail
      /\ worker'[k].file = worker[k].file /\ worker'[k].lines = Tail(lines)
      /\ worker'[k].at = IF Len(lines) = 1 THEN "read" ELSE "log"
  BY <1>1, <1>5 DEF Workers
<1>8. NameInUse'
  <2>1. SUFFICES ASSUME name' # 0
                 PROVE  \E i \in Jobs : worker'[i].at \in FileOpen /\ child'[i].out # 0
    BY DEF NameInUse
  <2>2. PICK i \in Jobs : worker[i].at \in FileOpen /\ child[i].out # 0
    BY <1>2, <2>1 DEF LogInv, NameInUse
  <2>3. worker'[i].at \in FileOpen
    BY <1>7, <2>2 DEF FileOpen
  <2> QED
    BY <1>2, <2>2, <2>3
<1>9. InStep'
  BY <1>1, <1>2, <1>7 DEF InStep
<1>10. ASSUME NEW j \in Jobs \ together PROVE Alone(j)'
  <2>1. Alone(j) /\ Apart(j) /\ FileIsOwn(j) /\ HeardSoFar(j)
    BY DEF LogInv, Alone
  <2>2. CASE j # k
    <3>1. DOMAIN lines = 1..Len(lines) /\ DOMAIN Tail(lines) = 1..(Len(lines) - 1)
      <4>1. DOMAIN lines = 1..Len(lines)
        BY <1>3
      <4>2. DOMAIN Tail(lines) = 1..Len(Tail(lines))
        BY <1>4
      <4> QED
        BY <1>4, <4>1, <4>2
    <3>2. \A i \in 1..Len(lines) : lines[i].job = j => lines[i].nr = 0
      BY <2>1, <2>2, <3>1 DEF Apart, Clean, lines
    <3>3. Clean(Tail(lines), j)
      <4>1. \A i \in 1..(Len(lines) - 1) : i + 1 \in 1..Len(lines)
        BY <1>4
      <4> QED
        BY <1>4, <3>1, <3>2, <4>1 DEF Clean
    <3>4. heard'[j] = heard[j]
      <4>1. line.job = j => line.nr = 0
        BY <1>4, <3>2
      <4> QED
        BY <1>6, <4>1 DEF Say
    <3> QED
      BY <1>2, <1>7, <2>1, <2>2, <3>3, <3>4, OtherThread DEF Busy, Apart
  <2>3. CASE j = k
    <3> DEFINE said == Len(heard[j])
    <3>1. /\ said \in Nat /\ heard[j] \in Seq(Lines)
          /\ said + Len(lines) = worker[j].tail
          /\ \A i \in 1..said : heard[j][i] = LineOf(j, i)
          /\ \A i \in 1..Len(lines) : lines[i] = LineOf(j, said + i)
          /\ worker[j].file = j /\ child[j].out = j
          /\ worker[j].tail <= child[j].wrote
      BY <1>1, <1>2, <2>1, <2>3 DEF HeardSoFar, lines
    <3> HIDE DEF said
    <3>2. line = LineOf(j, said + 1) /\ line # NoLine
      <4>1. line = LineOf(j, said + 1)
        BY <1>4, <3>1
      <4>2. line.job = j /\ NoLine.job = 0 /\ j # 0
        BY <4>1 DEF LineOf, NoLine, Jobs
      <4> QED
        BY <4>1, <4>2
    <3>3. heard'[j] = Append(heard[j], line)
      <4>1. line.job = j /\ line.nr = said + 1
        BY <3>2 DEF LineOf
      <4>2. line.nr > 0
        BY <3>1, <4>1
      <4> QED
        BY <1>6, <3>2, <4>1, <4>2 DEF Say
    <3>4. /\ Len(heard'[j]) = said + 1 /\ heard'[j][said + 1] = line
          /\ \A i \in 1..said : heard'[j][i] = heard[j][i]
      BY <3>1, <3>3 DEF said
    <3>5. \A i \in 1..(said + 1) : heard'[j][i] = LineOf(j, i)
      <4>1. \A i \in 1..(said + 1) : i \in 1..said \/ i = said + 1
        BY <3>1
      <4> QED
        BY <3>1, <3>2, <3>4, <4>1
    <3>6. \A i \in 1..(Len(lines) - 1) : Tail(lines)[i] = LineOf(j, (said + 1) + i)
      <4>1. \A i \in 1..(Len(lines) - 1) :
              i + 1 \in 1..Len(lines) /\ said + (i + 1) = (said + 1) + i
        BY <1>4, <3>1
      <4> QED
        BY <1>4, <3>1, <4>1
    <3>7. HeardSoFar(j)'
      <4>1. (said + 1) + (Len(lines) - 1) = worker[j].tail
        BY <1>4, <3>1
      <4>2. worker'[j].at # "log" => Tail(lines) = <<>>
        BY <1>4, <1>7, <2>3
      <4>3. /\ worker'[j].at \in {"read", "log"} /\ worker'[j].file = j
            /\ worker'[j].tail = worker[j].tail /\ worker'[j].lines = Tail(lines)
        BY <1>7, <2>3, <3>1
      <4> QED
        BY <1>2, <1>4, <3>1, <3>4, <3>5, <3>6, <4>1, <4>2, <4>3 DEF HeardSoFar
    <3>8. Apart(j)'
      <4>1. \A i \in Jobs : Busy(i)' <=> Busy(i)
        BY <1>2, <1>7 DEF Busy
      <4>2. worker'[j].at \in FileOpen
        BY <1>7, <2>3 DEF FileOpen
      <4>3. \A i \in Jobs \ {j} : /\ child'[i].out # j /\ worker'[i].file # j
                                  /\ Clean(content'[i], j) /\ Clean(worker'[i].lines, j)
        BY <1>2, <1>7, <2>1, <2>3 DEF Apart
      <4> QED
        BY <2>1, <4>1, <4>2, <4>3 DEF Apart
    <3>9. FileIsOwn(j)'
      BY <1>2, <2>1, <2>3 DEF FileIsOwn, FileOpen
    <3> QED
      BY <3>7, <3>8, <3>9 DEF Alone
  <2> QED
    BY <2>2, <2>3
<1> QED
  BY <1>2, <1>8, <1>9, <1>10 DEF LogInv

LEMMA LogStep ==
  ASSUME JobsTypeOK, SlotsInv, LogInv, [UiNext]_uiVars PROVE LogInv'
<1>1. CASE UNCHANGED uiVars
  <2>1. UNCHANGED <<worker, child, name, content, heard, together>>
    BY <1>1 DEF uiVars, jobVars, fileVars, logVars
  <2>2. NameInUse' /\ InStep'
    BY <2>1 DEF LogInv, NameInUse, InStep
  <2>3. ASSUME NEW j \in Jobs \ together PROVE Alone(j)'
    <3>1. Alone(j)
      BY DEF LogInv
    <3>2. Apart(j)'
      BY <2>1, <3>1 DEF Alone, Apart, Busy
    <3>3. FileIsOwn(j)'
      BY <2>1, <3>1 DEF Alone, FileIsOwn
    <3>4. HeardSoFar(j)'
      BY <2>1, <3>1 DEF Alone, HeardSoFar
    <3> QED
      BY <3>2, <3>3, <3>4 DEF Alone
  <2> QED
    BY <2>1, <2>2, <2>3 DEF LogInv
<1> QED
  BY <1>1, StartKeepsLog, NamesAndSteps, OpeningKeepsLog, ChildLineKeepsLog, ReadingKeepsLog,
     LogLineKeepsLog DEF UiNext, Thread

(* At the end the thread has nothing left to log. *)
LEMMA LogInvIsEnough == JobsTypeOK /\ LogInv => LogIsComplete
<1> SUFFICES ASSUME JobsTypeOK, LogInv, NEW j \in Jobs \ together,
                    worker[j].at \in {"tell", "gone"}
             PROVE  heard[j] = [i \in 1..child[j].wrote |-> [job |-> j, nr |-> i]]
  BY DEF LogIsComplete
<1> DEFINE said == Len(heard[j])
<1>1. heard[j] \in Seq(Lines) /\ said \in Nat
  BY DEF JobsTypeOK
<1>2. /\ said + Len(worker[j].lines) = worker[j].tail /\ worker[j].lines = <<>>
      /\ worker[j].tail = child[j].wrote
      /\ \A i \in 1..said : heard[j][i] = LineOf(j, i)
  BY DEF LogInv, Alone, HeardSoFar
<1>3. said + 0 = child[j].wrote
  BY <1>2
<1>4. said = child[j].wrote
  BY <1>1, <1>3
<1>5. heard[j] = [i \in 1..said |-> heard[j][i]]
  BY <1>1
<1> HIDE DEF said
<1> QED
  BY <1>2, <1>4, <1>5 DEF LineOf

JobsInv == JobsTypeOK /\ RingOK /\ SlotsInv /\ LogInv

LEMMA JobsInvariant == UiSpec => []JobsInv
<1>1. UiInit => JobsInv
  BY JobsTypeInit, SlotsInit, LogInit DEF JobsInv
<1>2. JobsInv /\ [UiNext]_uiVars => JobsInv'
  BY JobsTypeStep, SlotsStep, LogStep DEF JobsInv
<1> QED
  BY <1>1, <1>2, PTL DEF UiSpec

(* handle_index_start takes a slot again only when the job that had it is over, and
   index_thread_fn stores that only when its child is gone: a slot has one job, and every
   process that the server must wait for is followed. *)
THEOREM EverySlotHasOneJob == UiSpec => []OneJobPerSlot
<1>1. JobsInv => OneJobPerSlot
  BY DEF JobsInv, SlotsInv
<1> QED
  BY <1>1, JobsInvariant, PTL

(* cbm_ui_log_append and the copy that handle_logs makes agree on the ring for any size:
   what is shown are the newest lines, in order. *)
THEOREM LogsAreTheNewest == UiSpec => []RingShowsNewest
<1>1. JobsInv => RingShowsNewest
  BY RingIsRead DEF JobsInv
<1> QED
  BY <1>1, JobsInvariant, PTL

(* What the child of a job logs into a file that no other job uses reaches the ring, every
   line once and in order, before the job is reported: the loop of index_thread_fn looks
   at the file once more after the child has gone. *)
THEOREM LoneJobIsHeard == UiSpec => []LogIsComplete
<1>1. JobsInv => LogIsComplete
  BY LogInvIsEnough DEF JobsInv
<1> QED
  BY <1>1, JobsInvariant, PTL
=============================================================================
