--------------------------- MODULE StoreFileProofs ---------------------------
(***************************************************************************)
(* Proofs about StoreFile, for any number of servers, background threads,  *)
(* inodes, requests, edits of the sources and kills:                       *)
(*   - the type invariant;                                                 *)
(*   - an undisturbed run leaves its index, a deletion sticks, and whole   *)
(*     files behind cached connections are left alone;                     *)
(*   - the file implements IndexRegister: what clients are shown is whole, *)
(*     was published, and never goes back.                                 *)
(*                                                                         *)
(* The argument: the lock makes runs serial, so that nothing is published  *)
(* between a run's reading of the sources and its end; a run that writes   *)
(* finds no whole file under the name, so the name is always of the newest *)
(* index; and a connection is only ever opened by name.                    *)
(***************************************************************************)
EXTENDS StoreFile, TLAPS

(* The numbers that states of the sources have. *)
LEMMA GenFacts ==
  /\ 0 \in Gens /\ 1 \in Gens /\ Gens \subseteq Nat
  /\ \A e \in 0..MaxEdits : e + 1 \in Gens
BY StoreAssumption DEF Gens

LEMMA InitTypes == Init => TypeOK
<1>1. Init => Numbers
  BY StoreAssumption, GenFacts DEF Init, Numbers, Kinds
<1>2. Init => Flags
  BY DEF Init, Flags
<1> QED BY <1>1, <1>2 DEF TypeOK

(* One step per action; the flags are apart because they are for another prover. *)
LEMMA NumbersStep ==
  ASSUME TypeOK, [Next]_vars PROVE Numbers'
<1> USE StoreAssumption, GenFacts DEF Threads, Kinds
<1> USE DEF Numbers, TypeOK, fileVars, histVars, boundVars, Goto, Holds, Becomes, Called,
       NewInode
<1>1. ASSUME Edit PROVE Numbers'
  BY <1>1 DEF Edit
<1>2. ASSUME Kill PROVE Numbers'
  BY <1>2 DEF Kill
<1>3. ASSUME NEW s \in Servers, QueryCached(s) PROVE Numbers'
  <2>1. seen' \in [Servers -> Gens]
    <3>1. CASE kind[conn[s]] = "whole" /\ seen' = [seen EXCEPT ![s] = gen[conn[s]]]
      BY <1>3, <3>1 DEF QueryCached
    <3> QED BY <1>3, <3>1 DEF QueryCached
  <2> QED BY <1>3, <2>1 DEF QueryCached
<1>4. ASSUME NEW s \in Servers, QueryOpen(s) PROVE Numbers'
  BY <1>4 DEF QueryOpen
<1>5. ASSUME NEW s \in Servers, QueryVerify(s) PROVE Numbers'
  <2>1. CASE Passes(kind[hold[s]])
    <3>1. seen' \in [Servers -> Gens]
      <4>1. CASE kind[hold[s]] = "whole" /\ seen' = [seen EXCEPT ![s] = gen[hold[s]]]
        BY <1>5, <4>1 DEF QueryVerify
      <4> QED BY <1>5, <2>1, <4>1 DEF QueryVerify, Passes, Fails
    <3> QED BY <1>5, <2>1, <3>1 DEF QueryVerify, Passes, Fails
  <2>2. CASE ~Passes(kind[hold[s]])
    BY <1>5, <2>2 DEF QueryVerify, Passes, Fails
  <2> QED BY <2>1, <2>2
<1>6. ASSUME NEW s \in Servers, QueryClean(s) PROVE Numbers'
  BY <1>6 DEF QueryClean
<1>7. ASSUME NEW s \in Servers, QueryElsewhere(s) PROVE Numbers'
  BY <1>7 DEF QueryElsewhere
<1>8. ASSUME NEW s \in Servers, Evict(s) PROVE Numbers'
  BY <1>8 DEF Evict
<1>9. ASSUME NEW s \in Servers, Visit(s) PROVE Numbers'
  BY <1>9 DEF Visit
<1>10. ASSUME NEW s \in Servers, Peek(s) PROVE Numbers'
  BY <1>10 DEF Peek
<1>11. ASSUME NEW s \in Servers, PeekCloses(s) PROVE Numbers'
  BY <1>11 DEF PeekCloses
<1>12. ASSUME NEW s \in Servers, DeleteCall(s) PROVE Numbers'
  BY <1>12 DEF DeleteCall
<1>13. ASSUME NEW s \in Servers, DeleteLock(s) PROVE Numbers'
  BY <1>13 DEF DeleteLock
<1>14. ASSUME NEW s \in Servers, DeleteUnlink(s) PROVE Numbers'
  BY <1>14 DEF DeleteUnlink
<1>15. ASSUME NEW s \in Servers, HttpDelete(s) PROVE Numbers'
  BY <1>15 DEF HttpDelete
<1>16. ASSUME NEW s \in Servers, HttpUnlink(s) PROVE Numbers'
  BY <1>16 DEF HttpUnlink
<1>17. ASSUME NEW t \in Threads, IndexCall(t) PROVE Numbers'
  BY <1>17 DEF IndexCall, CloseOwn
<1>18. ASSUME NEW t \in Threads, RunLock(t) PROVE Numbers'
  BY <1>18 DEF RunLock
<1>19. ASSUME NEW t \in Threads, RunRoute(t) PROVE Numbers'
  BY <1>19 DEF RunRoute
<1>20. ASSUME NEW t \in Threads, RunExtract(t) PROVE Numbers'
  BY <1>20 DEF RunExtract
<1>21. ASSUME NEW t \in Threads, RunUnlink(t) PROVE Numbers'
  BY <1>21 DEF RunUnlink
<1>22. ASSUME NEW t \in Threads, DumpOpen(t) PROVE Numbers'
  BY <1>22 DEF DumpOpen
<1>23. ASSUME NEW t \in Threads, DumpFlush(t) PROVE Numbers'
  BY <1>23 DEF DumpFlush
<1>24. ASSUME NEW t \in Threads, DumpFinish(t) PROVE Numbers'
  <2>1. read[t] \in Gens /\ hold[t] \in Inodes
    BY <1>24 DEF DumpFinish
  <2>2. kind' \in [Inodes -> Kinds] /\ gen' \in [Inodes -> Gens] /\ published' \subseteq Gens
    BY <1>24, <2>1 DEF DumpFinish
  <2> QED BY <1>24, <2>1, <2>2 DEF DumpFinish
<1>25. ASSUME NEW t \in Threads, Persist(t) PROVE Numbers'
  BY <1>25 DEF Persist
<1>26. ASSUME NEW t \in Threads, RunUnlock(t) PROVE Numbers'
  BY <1>26 DEF RunUnlock
<1>27. CASE UNCHANGED vars
  BY <1>27 DEF vars
<1> QED
  BY <1>1, <1>2, <1>3, <1>4, <1>5, <1>6, <1>7, <1>8, <1>9, <1>10, <1>11, <1>12, <1>13,
     <1>14, <1>15, <1>16, <1>17, <1>18, <1>19, <1>20, <1>21, <1>22, <1>23, <1>24, <1>25,
     <1>26, <1>27
     DEF Next, QueryStep, VisitStep, DeleteStep, RunStep

LEMMA FlagsStep ==
  ASSUME Flags, [Next]_vars PROVE Flags'
<1> USE DEF Flags, fileVars, histVars, boundVars, Meddles
<1>1. ASSUME Edit PROVE Flags'
  BY <1>1 DEF Edit
<1>2. ASSUME Kill PROVE Flags'
  BY <1>2 DEF Kill
<1>3. ASSUME NEW s \in Servers, QueryCached(s) PROVE Flags'
  BY <1>3 DEF QueryCached
<1>4. ASSUME NEW s \in Servers, QueryOpen(s) PROVE Flags'
  BY <1>4 DEF QueryOpen
<1>5. ASSUME NEW s \in Servers, QueryVerify(s) PROVE Flags'
  BY <1>5 DEF QueryVerify
<1>6. ASSUME NEW s \in Servers, QueryClean(s) PROVE Flags'
  BY <1>6 DEF QueryClean
<1>7. ASSUME NEW s \in Servers, QueryElsewhere(s) PROVE Flags'
  BY <1>7 DEF QueryElsewhere
<1>8. ASSUME NEW s \in Servers, Evict(s) PROVE Flags'
  BY <1>8 DEF Evict
<1>9. ASSUME NEW s \in Servers, Visit(s) PROVE Flags'
  BY <1>9 DEF Visit
<1>10. ASSUME NEW s \in Servers, Peek(s) PROVE Flags'
  BY <1>10 DEF Peek
<1>11. ASSUME NEW s \in Servers, PeekCloses(s) PROVE Flags'
  BY <1>11 DEF PeekCloses
<1>12. ASSUME NEW s \in Servers, DeleteCall(s) PROVE Flags'
  BY <1>12 DEF DeleteCall
<1>13. ASSUME NEW s \in Servers, DeleteLock(s) PROVE Flags'
  BY <1>13 DEF DeleteLock
<1>14. ASSUME NEW s \in Servers, DeleteUnlink(s) PROVE Flags'
  BY <1>14 DEF DeleteUnlink
<1>15. ASSUME NEW s \in Servers, HttpDelete(s) PROVE Flags'
  BY <1>15 DEF HttpDelete
<1>16. ASSUME NEW s \in Servers, HttpUnlink(s) PROVE Flags'
  BY <1>16 DEF HttpUnlink
<1>17. ASSUME NEW t \in Threads, IndexCall(t) PROVE Flags'
  BY <1>17 DEF IndexCall
<1>18. ASSUME NEW t \in Threads, RunLock(t) PROVE Flags'
  BY <1>18 DEF RunLock
<1>19. ASSUME NEW t \in Threads, RunRoute(t) PROVE Flags'
  BY <1>19 DEF RunRoute
<1>20. ASSUME NEW t \in Threads, RunExtract(t) PROVE Flags'
  BY <1>20 DEF RunExtract
<1>21. ASSUME NEW t \in Threads, RunUnlink(t) PROVE Flags'
  BY <1>21 DEF RunUnlink
<1>22. ASSUME NEW t \in Threads, DumpOpen(t) PROVE Flags'
  BY <1>22 DEF DumpOpen
<1>23. ASSUME NEW t \in Threads, DumpFlush(t) PROVE Flags'
  BY <1>23 DEF DumpFlush
<1>24. ASSUME NEW t \in Threads, DumpFinish(t) PROVE Flags'
  BY <1>24 DEF DumpFinish
<1>25. ASSUME NEW t \in Threads, Persist(t) PROVE Flags'
  BY <1>25 DEF Persist
<1>26. ASSUME NEW t \in Threads, RunUnlock(t) PROVE Flags'
  BY <1>26 DEF RunUnlock
<1>27. CASE UNCHANGED vars
  BY <1>27 DEF vars
<1> QED
  BY <1>1, <1>2, <1>3, <1>4, <1>5, <1>6, <1>7, <1>8, <1>9, <1>10, <1>11, <1>12, <1>13,
     <1>14, <1>15, <1>16, <1>17, <1>18, <1>19, <1>20, <1>21, <1>22, <1>23, <1>24, <1>25,
     <1>26, <1>27
     DEF Next, QueryStep, VisitStep, DeleteStep, RunStep

(* Every state has the types of TypeOK: one thread at most holds the lock, and who
   verifies, visits or writes a file has an inode open. *)
THEOREM TypeCorrect == Spec => []TypeOK
<1>1. TypeOK /\ [Next]_vars => TypeOK'
  BY NumbersStep, FlagsStep DEF TypeOK
<1>3. QED
  BY InitTypes, <1>1, PTL DEF Spec
-----------------------------------------------------------------------------
RunPcs == {"route", "extract", "unlink", "create", "flush", "finish", "persist", "unlock"}
Section == RunPcs \cup {"delete"}
Newest(g) == \A h \in published : h <= g

\* Runs and delete_project are in their sections one at a time.
Serial == \A t \in Threads : pc[t] \in Section => lock = {t}

\* A run that has to write found no whole file under the name, or has unlinked it, and
\* the file that it writes is not whole before its end.
NothingWhole ==
  \A t \in Threads :
    /\ pc[t] \in {"create", "flush", "finish"} \/ (pc[t] = "extract" /\ ~incr[t])
         => ~Names("whole")
    /\ pc[t] \in {"flush", "finish"} => kind[hold[t]] # "whole"

\* What a run has read is not older than anything published, and stays so to its end.
NoneNewer ==
  /\ Newest(src) /\ 0 \notin published /\ \A t \in Threads : read[t] <= src
  /\ \A t \in Threads :
       pc[t] \in {"unlink", "create", "flush", "finish", "persist", "unlock"}
         /\ read[t] # 0 => Newest(read[t])

\* Whole files are published ones, and the name is of the newest.
NameIsNewest ==
  /\ \A f \in Inodes : kind[f] = "whole" => gen[f] \in published
  /\ Names("whole") => Newest(gen[path])

\* What a server has shown was published, and what it can show next is not older.
NotBehindAt(s) ==
  /\ seen[s] \in published \cup {0}
  /\ conn[s] # 0 /\ kind[conn[s]] = "whole" => seen[s] <= gen[conn[s]]
  /\ pc[s] = "verify" /\ kind[hold[s]] = "whole" => seen[s] <= gen[hold[s]]
  /\ pc[s] \in RunPcs \cup {"wait"} => conn[s] = 0
NotBehind == \A s \in Servers : NotBehindAt(s)

\* After a deletion there is no run that could bring an index back.
NoRunBringsBack ==
  removed => ~Names("whole") /\ \A t \in Threads : pc[t] \notin RunPcs

\* What a run that nobody meddles with has got to.
OnCourse ==
  ~touched =>
    \A t \in Threads :
      /\ pc[t] = "flush" => path = hold[t] /\ kind[path] = "empty"
      /\ pc[t] = "finish" => path = hold[t] /\ kind[path] = "partial"
      /\ pc[t] \in {"persist", "unlock"} /\ read[t] # 0
           => Names("whole") /\ gen[path] = read[t]

(* Who enters a section finds the lock free. *)
LEMMA SerialStep ==
  ASSUME TypeOK, TypeOK', Serial, [Next]_vars PROVE Serial'
<1> USE DEF TypeOK, Numbers, Threads, fileVars, histVars, boundVars, Goto, Holds, Becomes,
       Called, Serial, RunPcs, Section
<1>1. ASSUME Edit PROVE Serial'
  BY <1>1 DEF Edit
<1>2. ASSUME Kill PROVE Serial'
  BY <1>2 DEF Kill
<1>3. ASSUME NEW s \in Servers, QueryCached(s) PROVE Serial'
  BY <1>3 DEF QueryCached
<1>4. ASSUME NEW s \in Servers, QueryOpen(s) PROVE Serial'
  BY <1>4 DEF QueryOpen
<1>5. ASSUME NEW s \in Servers, QueryVerify(s) PROVE Serial'
  BY <1>5 DEF QueryVerify
<1>6. ASSUME NEW s \in Servers, QueryClean(s) PROVE Serial'
  BY <1>6 DEF QueryClean
<1>7. ASSUME NEW s \in Servers, QueryElsewhere(s) PROVE Serial'
  BY <1>7 DEF QueryElsewhere
<1>8. ASSUME NEW s \in Servers, Evict(s) PROVE Serial'
  BY <1>8 DEF Evict
<1>9. ASSUME NEW s \in Servers, Visit(s) PROVE Serial'
  BY <1>9 DEF Visit
<1>10. ASSUME NEW s \in Servers, Peek(s) PROVE Serial'
  BY <1>10 DEF Peek
<1>11. ASSUME NEW s \in Servers, PeekCloses(s) PROVE Serial'
  BY <1>11 DEF PeekCloses
<1>12. ASSUME NEW s \in Servers, DeleteCall(s) PROVE Serial'
  BY <1>12 DEF DeleteCall
<1>13. ASSUME NEW s \in Servers, DeleteLock(s) PROVE Serial'
  BY <1>13 DEF DeleteLock
<1>14. ASSUME NEW s \in Servers, DeleteUnlink(s) PROVE Serial'
  BY <1>14 DEF DeleteUnlink
<1>15. ASSUME NEW s \in Servers, HttpDelete(s) PROVE Serial'
  BY <1>15 DEF HttpDelete
<1>16. ASSUME NEW s \in Servers, HttpUnlink(s) PROVE Serial'
  BY <1>16 DEF HttpUnlink
<1>17. ASSUME NEW t \in Threads, IndexCall(t) PROVE Serial'
  BY <1>17 DEF IndexCall
<1>18. ASSUME NEW t \in Threads, RunLock(t) PROVE Serial'
  BY <1>18 DEF RunLock
<1>19. ASSUME NEW t \in Threads, RunRoute(t) PROVE Serial'
  BY <1>19 DEF RunRoute
<1>20. ASSUME NEW t \in Threads, RunExtract(t) PROVE Serial'
  BY <1>20 DEF RunExtract
<1>21. ASSUME NEW t \in Threads, RunUnlink(t) PROVE Serial'
  BY <1>21 DEF RunUnlink
<1>22. ASSUME NEW t \in Threads, DumpOpen(t) PROVE Serial'
  BY <1>22 DEF DumpOpen
<1>23. ASSUME NEW t \in Threads, DumpFlush(t) PROVE Serial'
  BY <1>23 DEF DumpFlush
<1>24. ASSUME NEW t \in Threads, DumpFinish(t) PROVE Serial'
  BY <1>24 DEF DumpFinish
<1>25. ASSUME NEW t \in Threads, Persist(t) PROVE Serial'
  BY <1>25 DEF Persist
<1>26. ASSUME NEW t \in Threads, RunUnlock(t) PROVE Serial'
  BY <1>26 DEF RunUnlock
<1>27. CASE UNCHANGED vars
  BY <1>27 DEF vars
<1> QED
  BY <1>1, <1>2, <1>3, <1>4, <1>5, <1>6, <1>7, <1>8, <1>9, <1>10, <1>11, <1>12, <1>13,
     <1>14, <1>15, <1>16, <1>17, <1>18, <1>19, <1>20, <1>21, <1>22, <1>23, <1>24, <1>25,
     <1>26, <1>27
     DEF Next, QueryStep, VisitStep, DeleteStep, RunStep

(* Two threads in a section are one. *)
LEMMA OneInSection ==
  ASSUME Serial, NEW t \in Threads, NEW u \in Threads,
         pc[t] \in Section, pc[u] \in Section
  PROVE  t = u
BY DEF Serial

(* Only the end of a dump makes a file whole. *)
LEMMA NothingWholeStep ==
  ASSUME TypeOK, TypeOK', Serial, NothingWhole, [Next]_vars PROVE NothingWhole'
<1> USE StoreAssumption DEF TypeOK, Numbers, Threads, fileVars, histVars, boundVars, Goto,
       Holds, Becomes, Called, Serial, NothingWhole, Names, RunPcs, Section, NewInode,
       Referenced
<1>1. ASSUME Edit PROVE NothingWhole'
  BY <1>1 DEF Edit
<1>2. ASSUME Kill PROVE NothingWhole'
  BY <1>2 DEF Kill
<1>3. ASSUME NEW s \in Servers, QueryCached(s) PROVE NothingWhole'
  BY <1>3 DEF QueryCached
<1>4. ASSUME NEW s \in Servers, QueryOpen(s) PROVE NothingWhole'
  BY <1>4 DEF QueryOpen
<1>5. ASSUME NEW s \in Servers, QueryVerify(s) PROVE NothingWhole'
  BY <1>5 DEF QueryVerify
<1>6. ASSUME NEW s \in Servers, QueryClean(s) PROVE NothingWhole'
  BY <1>6 DEF QueryClean
<1>7. ASSUME NEW s \in Servers, QueryElsewhere(s) PROVE NothingWhole'
  BY <1>7 DEF QueryElsewhere
<1>8. ASSUME NEW s \in Servers, Evict(s) PROVE NothingWhole'
  BY <1>8 DEF Evict
<1>9. ASSUME NEW s \in Servers, Visit(s) PROVE NothingWhole'
  BY <1>9 DEF Visit
<1>10. ASSUME NEW s \in Servers, Peek(s) PROVE NothingWhole'
  BY <1>10 DEF Peek
<1>11. ASSUME NEW s \in Servers, PeekCloses(s) PROVE NothingWhole'
  BY <1>11 DEF PeekCloses
<1>12. ASSUME NEW s \in Servers, DeleteCall(s) PROVE NothingWhole'
  BY <1>12 DEF DeleteCall
<1>13. ASSUME NEW s \in Servers, DeleteLock(s) PROVE NothingWhole'
  BY <1>13 DEF DeleteLock
<1>14. ASSUME NEW s \in Servers, DeleteUnlink(s) PROVE NothingWhole'
  BY <1>14 DEF DeleteUnlink
<1>15. ASSUME NEW s \in Servers, HttpDelete(s) PROVE NothingWhole'
  BY <1>15 DEF HttpDelete
<1>16. ASSUME NEW s \in Servers, HttpUnlink(s) PROVE NothingWhole'
  BY <1>16 DEF HttpUnlink
<1>17. ASSUME NEW t \in Threads, IndexCall(t) PROVE NothingWhole'
  BY <1>17 DEF IndexCall
<1>18. ASSUME NEW t \in Threads, RunLock(t) PROVE NothingWhole'
  BY <1>18 DEF RunLock
<1>19. ASSUME NEW t \in Threads, RunRoute(t) PROVE NothingWhole'
  <2>1. pc[t] = "route" /\ Goto(t, "extract")
    BY <1>19 DEF RunRoute
  <2>2. \A u \in Threads \ {t} : pc[u] \notin Section
    BY <2>1, OneInSection DEF Section, RunPcs
  <2>3. CASE path' = 0
    BY <1>19, <2>3 DEF RunRoute
  <2>4. CASE path' # 0
    <3>1. incr' = [incr EXCEPT ![t] = TRUE]
      BY <1>19, <2>4 DEF RunRoute
    <3>2. incr'[t]
      BY <3>1, Zenon DEF Flags
    <3> QED BY <2>1, <2>2, <3>2 DEF Section, RunPcs
  <2> QED BY <2>3, <2>4
<1>20. ASSUME NEW t \in Threads, RunExtract(t) PROVE NothingWhole'
  <2>1. pc[t] = "extract" /\ UNCHANGED <<path, kind, hold>>
    BY <1>20 DEF RunExtract
  <2>2. \A u \in Threads \ {t} : pc[u] \notin Section
    BY <2>1, OneInSection DEF Section, RunPcs
  <2>3. pc' \in {[pc EXCEPT ![t] = q] : q \in {"unlock", "unlink", "create"}}
    BY <1>20, Zenon DEF RunExtract
  <2>4. CASE pc' = [pc EXCEPT ![t] = "create"]
    <3>1. ~Names("whole")
      BY <1>20, <2>4 DEF RunExtract, UpToDate, Damaged
    <3> QED BY <2>1, <2>2, <2>4, <3>1 DEF Section, RunPcs
  <2>5. CASE pc' # [pc EXCEPT ![t] = "create"]
    BY <2>1, <2>2, <2>3, <2>5 DEF Section, RunPcs
  <2> QED BY <2>4, <2>5
<1>21. ASSUME NEW t \in Threads, RunUnlink(t) PROVE NothingWhole'
  BY <1>21 DEF RunUnlink
<1>22. ASSUME NEW t \in Threads, DumpOpen(t) PROVE NothingWhole'
  BY <1>22 DEF DumpOpen
<1>23. ASSUME NEW t \in Threads, DumpFlush(t) PROVE NothingWhole'
  BY <1>23 DEF DumpFlush
<1>24. ASSUME NEW t \in Threads, DumpFinish(t) PROVE NothingWhole'
  BY <1>24 DEF DumpFinish
<1>25. ASSUME NEW t \in Threads, Persist(t) PROVE NothingWhole'
  BY <1>25 DEF Persist
<1>26. ASSUME NEW t \in Threads, RunUnlock(t) PROVE NothingWhole'
  BY <1>26 DEF RunUnlock
<1>27. CASE UNCHANGED vars
  BY <1>27 DEF vars
<1> QED
  BY <1>1, <1>2, <1>3, <1>4, <1>5, <1>6, <1>7, <1>8, <1>9, <1>10, <1>11, <1>12, <1>13,
     <1>14, <1>15, <1>16, <1>17, <1>18, <1>19, <1>20, <1>21, <1>22, <1>23, <1>24, <1>25,
     <1>26, <1>27
     DEF Next, QueryStep, VisitStep, DeleteStep, RunStep

(* A run reads under the lock, so nothing is published between its reading and its end. *)
LEMMA NoneNewerStep ==
  ASSUME TypeOK, TypeOK', Serial, NoneNewer, [Next]_vars PROVE NoneNewer'
<1> USE GenFacts, StoreAssumption DEF TypeOK, Numbers, Threads, fileVars, histVars,
       boundVars, Goto, Holds, Becomes, Called, Serial, NoneNewer, Newest, RunPcs, Section
<1>1. ASSUME Edit PROVE NoneNewer'
  <2>1. src \in Nat /\ src' = src + 1 /\ UNCHANGED <<published, read, pc>>
    BY <1>1 DEF Edit
  <2>2. published \subseteq Nat /\ read \in [Threads -> Nat]
    OBVIOUS
  <2> HIDE DEF TypeOK, Numbers
  <2>3. \A h \in published : h <= src + 1
    BY <2>1, <2>2
  <2>4. \A t \in Threads : read[t] <= src + 1
    BY <2>1, <2>2
  <2> QED BY <2>1, <2>2, <2>3, <2>4
<1>2. ASSUME Kill PROVE NoneNewer'
  BY <1>2 DEF Kill
<1>3. ASSUME NEW s \in Servers, QueryCached(s) PROVE NoneNewer'
  BY <1>3 DEF QueryCached
<1>4. ASSUME NEW s \in Servers, QueryOpen(s) PROVE NoneNewer'
  BY <1>4 DEF QueryOpen
<1>5. ASSUME NEW s \in Servers, QueryVerify(s) PROVE NoneNewer'
  BY <1>5 DEF QueryVerify
<1>6. ASSUME NEW s \in Servers, QueryClean(s) PROVE NoneNewer'
  BY <1>6 DEF QueryClean
<1>7. ASSUME NEW s \in Servers, QueryElsewhere(s) PROVE NoneNewer'
  BY <1>7 DEF QueryElsewhere
<1>8. ASSUME NEW s \in Servers, Evict(s) PROVE NoneNewer'
  BY <1>8 DEF Evict
<1>9. ASSUME NEW s \in Servers, Visit(s) PROVE NoneNewer'
  BY <1>9 DEF Visit
<1>10. ASSUME NEW s \in Servers, Peek(s) PROVE NoneNewer'
  BY <1>10 DEF Peek
<1>11. ASSUME NEW s \in Servers, PeekCloses(s) PROVE NoneNewer'
  BY <1>11 DEF PeekCloses
<1>12. ASSUME NEW s \in Servers, DeleteCall(s) PROVE NoneNewer'
  BY <1>12 DEF DeleteCall
<1>13. ASSUME NEW s \in Servers, DeleteLock(s) PROVE NoneNewer'
  BY <1>13 DEF DeleteLock
<1>14. ASSUME NEW s \in Servers, DeleteUnlink(s) PROVE NoneNewer'
  BY <1>14 DEF DeleteUnlink
<1>15. ASSUME NEW s \in Servers, HttpDelete(s) PROVE NoneNewer'
  BY <1>15 DEF HttpDelete
<1>16. ASSUME NEW s \in Servers, HttpUnlink(s) PROVE NoneNewer'
  BY <1>16 DEF HttpUnlink
<1>17. ASSUME NEW t \in Threads, IndexCall(t) PROVE NoneNewer'
  BY <1>17 DEF IndexCall
<1>18. ASSUME NEW t \in Threads, RunLock(t) PROVE NoneNewer'
  BY <1>18 DEF RunLock
<1>19. ASSUME NEW t \in Threads, RunRoute(t) PROVE NoneNewer'
  BY <1>19 DEF RunRoute
<1>20. ASSUME NEW t \in Threads, RunExtract(t) PROVE NoneNewer'
  BY <1>20 DEF RunExtract
<1>21. ASSUME NEW t \in Threads, RunUnlink(t) PROVE NoneNewer'
  BY <1>21 DEF RunUnlink
<1>22. ASSUME NEW t \in Threads, DumpOpen(t) PROVE NoneNewer'
  BY <1>22 DEF DumpOpen
<1>23. ASSUME NEW t \in Threads, DumpFlush(t) PROVE NoneNewer'
  BY <1>23 DEF DumpFlush
<1>24. ASSUME NEW t \in Threads, DumpFinish(t) PROVE NoneNewer'
  BY <1>24 DEF DumpFinish
<1>25. ASSUME NEW t \in Threads, Persist(t) PROVE NoneNewer'
  BY <1>25 DEF Persist
<1>26. ASSUME NEW t \in Threads, RunUnlock(t) PROVE NoneNewer'
  BY <1>26 DEF RunUnlock
<1>27. CASE UNCHANGED vars
  BY <1>27 DEF vars
<1> QED
  BY <1>1, <1>2, <1>3, <1>4, <1>5, <1>6, <1>7, <1>8, <1>9, <1>10, <1>11, <1>12, <1>13,
     <1>14, <1>15, <1>16, <1>17, <1>18, <1>19, <1>20, <1>21, <1>22, <1>23, <1>24, <1>25,
     <1>26, <1>27
     DEF Next, QueryStep, VisitStep, DeleteStep, RunStep

(* A dump that ends elsewhere than under the name finds the name not whole. *)
LEMMA NameIsNewestStep ==
  ASSUME TypeOK, TypeOK', Serial, NothingWhole, NoneNewer, NameIsNewest, [Next]_vars
  PROVE  NameIsNewest'
<1> USE GenFacts DEF TypeOK, Numbers, Threads, fileVars, histVars, boundVars, Goto, Holds,
       Becomes, Called, Serial, NothingWhole, NoneNewer, NameIsNewest, Names, Newest,
       RunPcs, Section
<1>1. ASSUME Edit PROVE NameIsNewest'
  BY <1>1 DEF Edit
<1>2. ASSUME Kill PROVE NameIsNewest'
  BY <1>2 DEF Kill
<1>3. ASSUME NEW s \in Servers, QueryCached(s) PROVE NameIsNewest'
  BY <1>3 DEF QueryCached
<1>4. ASSUME NEW s \in Servers, QueryOpen(s) PROVE NameIsNewest'
  BY <1>4 DEF QueryOpen
<1>5. ASSUME NEW s \in Servers, QueryVerify(s) PROVE NameIsNewest'
  BY <1>5 DEF QueryVerify
<1>6. ASSUME NEW s \in Servers, QueryClean(s) PROVE NameIsNewest'
  BY <1>6 DEF QueryClean
<1>7. ASSUME NEW s \in Servers, QueryElsewhere(s) PROVE NameIsNewest'
  BY <1>7 DEF QueryElsewhere
<1>8. ASSUME NEW s \in Servers, Evict(s) PROVE NameIsNewest'
  BY <1>8 DEF Evict
<1>9. ASSUME NEW s \in Servers, Visit(s) PROVE NameIsNewest'
  BY <1>9 DEF Visit
<1>10. ASSUME NEW s \in Servers, Peek(s) PROVE NameIsNewest'
  BY <1>10 DEF Peek
<1>11. ASSUME NEW s \in Servers, PeekCloses(s) PROVE NameIsNewest'
  BY <1>11 DEF PeekCloses
<1>12. ASSUME NEW s \in Servers, DeleteCall(s) PROVE NameIsNewest'
  BY <1>12 DEF DeleteCall
<1>13. ASSUME NEW s \in Servers, DeleteLock(s) PROVE NameIsNewest'
  BY <1>13 DEF DeleteLock
<1>14. ASSUME NEW s \in Servers, DeleteUnlink(s) PROVE NameIsNewest'
  BY <1>14 DEF DeleteUnlink
<1>15. ASSUME NEW s \in Servers, HttpDelete(s) PROVE NameIsNewest'
  BY <1>15 DEF HttpDelete
<1>16. ASSUME NEW s \in Servers, HttpUnlink(s) PROVE NameIsNewest'
  BY <1>16 DEF HttpUnlink
<1>17. ASSUME NEW t \in Threads, IndexCall(t) PROVE NameIsNewest'
  BY <1>17 DEF IndexCall
<1>18. ASSUME NEW t \in Threads, RunLock(t) PROVE NameIsNewest'
  BY <1>18 DEF RunLock
<1>19. ASSUME NEW t \in Threads, RunRoute(t) PROVE NameIsNewest'
  BY <1>19 DEF RunRoute
<1>20. ASSUME NEW t \in Threads, RunExtract(t) PROVE NameIsNewest'
  BY <1>20 DEF RunExtract
<1>21. ASSUME NEW t \in Threads, RunUnlink(t) PROVE NameIsNewest'
  BY <1>21 DEF RunUnlink
<1>22. ASSUME NEW t \in Threads, DumpOpen(t) PROVE NameIsNewest'
  BY <1>22 DEF DumpOpen
<1>23. ASSUME NEW t \in Threads, DumpFlush(t) PROVE NameIsNewest'
  BY <1>23 DEF DumpFlush
<1>24. ASSUME NEW t \in Threads, DumpFinish(t) PROVE NameIsNewest'
  BY <1>24 DEF DumpFinish
<1>25. ASSUME NEW t \in Threads, Persist(t) PROVE NameIsNewest'
  BY <1>25 DEF Persist
<1>26. ASSUME NEW t \in Threads, RunUnlock(t) PROVE NameIsNewest'
  BY <1>26 DEF RunUnlock
<1>27. CASE UNCHANGED vars
  BY <1>27 DEF vars
<1> QED
  BY <1>1, <1>2, <1>3, <1>4, <1>5, <1>6, <1>7, <1>8, <1>9, <1>10, <1>11, <1>12, <1>13,
     <1>14, <1>15, <1>16, <1>17, <1>18, <1>19, <1>20, <1>21, <1>22, <1>23, <1>24, <1>25,
     <1>26, <1>27
     DEF Next, QueryStep, VisitStep, DeleteStep, RunStep

(* What is not older than anything published is not older than what was shown. *)
LEMMA SeenBelow ==
  ASSUME TypeOK, NotBehind, NEW s \in Servers, NEW g \in Nat, Newest(g)
  PROVE  seen[s] <= g
BY DEF NotBehind, NotBehindAt, Newest

(* A connection is opened by name, and the name is of the newest. *)
LEMMA NotBehindStep ==
  ASSUME TypeOK, TypeOK', Serial, NothingWhole, NoneNewer, NameIsNewest, NotBehind, [Next]_vars
  PROVE  NotBehind'
<1> USE GenFacts, StoreAssumption DEF TypeOK, Numbers, Threads, fileVars, histVars,
       boundVars, Goto, Holds, Becomes, Called, Serial, NothingWhole, NoneNewer,
       NameIsNewest, NotBehind, NotBehindAt, Names, Newest, RunPcs, Section, NewInode,
       Referenced
<1>1. ASSUME Edit PROVE NotBehind'
  BY <1>1 DEF Edit
<1>2. ASSUME Kill PROVE NotBehind'
  BY <1>2 DEF Kill
<1>3. ASSUME NEW s \in Servers, QueryCached(s) PROVE NotBehind'
  <2>1. UNCHANGED <<pc, hold, conn, kind, gen, published>> /\ pc[s] = "idle" /\ conn[s] # 0
    BY <1>3 DEF QueryCached
  <2>2. CASE kind[conn[s]] = "whole" /\ seen' = [seen EXCEPT ![s] = gen[conn[s]]]
    <3>1. gen[conn[s]] \in published /\ gen[conn[s]] \in Nat
      BY <2>1, <2>2
    <3> QED BY <2>1, <2>2, <3>1
  <2>3. CASE UNCHANGED seen
    BY <2>1, <2>3
  <2> QED BY <1>3, <2>2, <2>3 DEF QueryCached
<1>4. ASSUME NEW s \in Servers, QueryOpen(s) PROVE NotBehind'
  <2>1. /\ UNCHANGED <<conn, kind, gen, published, seen>> /\ path \in Inodes
        /\ pc' = [pc EXCEPT ![s] = "verify"] /\ hold' = [hold EXCEPT ![s] = path]
    BY <1>4 DEF QueryOpen
  <2>2. kind[path] = "whole" => seen[s] <= gen[path]
    BY <2>1, SeenBelow
  <2> QED BY <2>1, <2>2
<1>5. ASSUME NEW s \in Servers, QueryVerify(s) PROVE NotBehind'
  <2>1. /\ pc[s] = "verify" /\ UNCHANGED <<kind, gen, published>>
        /\ hold' = [hold EXCEPT ![s] = 0] /\ hold[s] \in Inodes
        /\ pc' \in {[pc EXCEPT ![s] = "idle"], [pc EXCEPT ![s] = "clean"]}
    BY <1>5 DEF QueryVerify
  <2>2. CASE UNCHANGED <<conn, seen>>
    BY <2>1, <2>2
  <2>3. CASE conn' = [conn EXCEPT ![s] = hold[s]]
    <3>1. CASE kind[hold[s]] = "whole" /\ seen' = [seen EXCEPT ![s] = gen[hold[s]]]
      <4>1. gen[hold[s]] \in published /\ gen[hold[s]] \in Nat
        BY <2>1, <3>1
      <4> QED BY <2>1, <2>3, <3>1, <4>1
    <3>2. CASE kind[hold[s]] # "whole" /\ UNCHANGED seen
      BY <2>1, <2>3, <3>2
    <3> QED BY <1>5, <2>3, <3>1, <3>2 DEF QueryVerify, Passes, Fails
  <2> QED BY <1>5, <2>2, <2>3 DEF QueryVerify
<1>6. ASSUME NEW s \in Servers, QueryClean(s) PROVE NotBehind'
  BY <1>6 DEF QueryClean
<1>7. ASSUME NEW s \in Servers, QueryElsewhere(s) PROVE NotBehind'
  BY <1>7 DEF QueryElsewhere
<1>8. ASSUME NEW s \in Servers, Evict(s) PROVE NotBehind'
  BY <1>8 DEF Evict
<1>9. ASSUME NEW s \in Servers, Visit(s) PROVE NotBehind'
  BY <1>9 DEF Visit
<1>10. ASSUME NEW s \in Servers, Peek(s) PROVE NotBehind'
  BY <1>10 DEF Peek
<1>11. ASSUME NEW s \in Servers, PeekCloses(s) PROVE NotBehind'
  BY <1>11 DEF PeekCloses
<1>12. ASSUME NEW s \in Servers, DeleteCall(s) PROVE NotBehind'
  BY <1>12 DEF DeleteCall
<1>13. ASSUME NEW s \in Servers, DeleteLock(s) PROVE NotBehind'
  BY <1>13 DEF DeleteLock
<1>14. ASSUME NEW s \in Servers, DeleteUnlink(s) PROVE NotBehind'
  BY <1>14 DEF DeleteUnlink
<1>15. ASSUME NEW s \in Servers, HttpDelete(s) PROVE NotBehind'
  BY <1>15 DEF HttpDelete
<1>16. ASSUME NEW s \in Servers, HttpUnlink(s) PROVE NotBehind'
  BY <1>16 DEF HttpUnlink
<1>17. ASSUME NEW t \in Threads, IndexCall(t) PROVE NotBehind'
  BY <1>17 DEF IndexCall, CloseOwn
<1>18. ASSUME NEW t \in Threads, RunLock(t) PROVE NotBehind'
  BY <1>18 DEF RunLock
<1>19. ASSUME NEW t \in Threads, RunRoute(t) PROVE NotBehind'
  BY <1>19 DEF RunRoute
<1>20. ASSUME NEW t \in Threads, RunExtract(t) PROVE NotBehind'
  BY <1>20 DEF RunExtract
<1>21. ASSUME NEW t \in Threads, RunUnlink(t) PROVE NotBehind'
  BY <1>21 DEF RunUnlink
<1>22. ASSUME NEW t \in Threads, DumpOpen(t) PROVE NotBehind'
  BY <1>22 DEF DumpOpen
<1>23. ASSUME NEW t \in Threads, DumpFlush(t) PROVE NotBehind'
  BY <1>23 DEF DumpFlush
<1>24. ASSUME NEW t \in Threads, DumpFinish(t) PROVE NotBehind'
  <2>1. /\ UNCHANGED <<conn, seen>> /\ pc[t] = "finish" /\ hold[t] \in Inodes
        /\ pc' = [pc EXCEPT ![t] = "persist"] /\ hold' = [hold EXCEPT ![t] = 0]
    BY <1>24 DEF DumpFinish
  <2>2. CASE /\ read[t] # 0 /\ kind' = [kind EXCEPT ![hold[t]] = "whole"]
             /\ gen' = [gen EXCEPT ![hold[t]] = read[t]]
             /\ published' = published \cup {read[t]}
    <3>1. \A v \in Servers : seen[v] <= read[t]
      BY <2>1, <2>2, SeenBelow
    <3> QED BY <2>1, <2>2, <3>1
  <2>3. CASE /\ kind' = [kind EXCEPT ![hold[t]] = "torn"] /\ UNCHANGED <<gen, published>>
    BY <2>1, <2>3
  <2> QED BY <1>24, <2>2, <2>3 DEF DumpFinish
<1>25. ASSUME NEW t \in Threads, Persist(t) PROVE NotBehind'
  <2>1. /\ UNCHANGED <<conn, seen, gen, published, hold>>
        /\ pc[t] = "persist" /\ pc' = [pc EXCEPT ![t] = "unlock"]
    BY <1>25 DEF Persist
  <2>2. CASE kind' = kind
    BY <2>1, <2>2
  <2>3. CASE kind' # kind
    <3>1. PICK f \in Inodes : kind' = [kind EXCEPT ![f] = "ghost"]
      BY <1>25, <2>3 DEF Persist
    <3> QED BY <2>1, <3>1
  <2> QED BY <2>2, <2>3
<1>26. ASSUME NEW t \in Threads, RunUnlock(t) PROVE NotBehind'
  BY <1>26 DEF RunUnlock
<1>27. CASE UNCHANGED vars
  BY <1>27 DEF vars
<1> QED
  BY <1>1, <1>2, <1>3, <1>4, <1>5, <1>6, <1>7, <1>8, <1>9, <1>10, <1>11, <1>12, <1>13,
     <1>14, <1>15, <1>16, <1>17, <1>18, <1>19, <1>20, <1>21, <1>22, <1>23, <1>24, <1>25,
     <1>26, <1>27
     DEF Next, QueryStep, VisitStep, DeleteStep, RunStep

(* A deletion and a run exclude each other. *)
LEMMA NoRunBringsBackStep ==
  ASSUME TypeOK, TypeOK', Serial, NoRunBringsBack, [Next]_vars PROVE NoRunBringsBack'
<1> USE StoreAssumption DEF TypeOK, Numbers, Threads, fileVars, histVars, boundVars, Goto,
       Holds, Becomes, Called, Serial, NoRunBringsBack, Names, RunPcs, Section
<1>1. ASSUME Edit PROVE NoRunBringsBack'
  BY <1>1 DEF Edit
<1>2. ASSUME Kill PROVE NoRunBringsBack'
  BY <1>2 DEF Kill
<1>3. ASSUME NEW s \in Servers, QueryCached(s) PROVE NoRunBringsBack'
  BY <1>3 DEF QueryCached
<1>4. ASSUME NEW s \in Servers, QueryOpen(s) PROVE NoRunBringsBack'
  BY <1>4 DEF QueryOpen
<1>5. ASSUME NEW s \in Servers, QueryVerify(s) PROVE NoRunBringsBack'
  BY <1>5 DEF QueryVerify
<1>6. ASSUME NEW s \in Servers, QueryClean(s) PROVE NoRunBringsBack'
  BY <1>6 DEF QueryClean
<1>7. ASSUME NEW s \in Servers, QueryElsewhere(s) PROVE NoRunBringsBack'
  BY <1>7 DEF QueryElsewhere
<1>8. ASSUME NEW s \in Servers, Evict(s) PROVE NoRunBringsBack'
  BY <1>8 DEF Evict
<1>9. ASSUME NEW s \in Servers, Visit(s) PROVE NoRunBringsBack'
  BY <1>9 DEF Visit
<1>10. ASSUME NEW s \in Servers, Peek(s) PROVE NoRunBringsBack'
  BY <1>10 DEF Peek
<1>11. ASSUME NEW s \in Servers, PeekCloses(s) PROVE NoRunBringsBack'
  BY <1>11 DEF PeekCloses
<1>12. ASSUME NEW s \in Servers, DeleteCall(s) PROVE NoRunBringsBack'
  BY <1>12 DEF DeleteCall
<1>13. ASSUME NEW s \in Servers, DeleteLock(s) PROVE NoRunBringsBack'
  BY <1>13 DEF DeleteLock
<1>14. ASSUME NEW s \in Servers, DeleteUnlink(s) PROVE NoRunBringsBack'
  BY <1>14 DEF DeleteUnlink
<1>15. ASSUME NEW s \in Servers, HttpDelete(s) PROVE NoRunBringsBack'
  BY <1>15 DEF HttpDelete
<1>16. ASSUME NEW s \in Servers, HttpUnlink(s) PROVE NoRunBringsBack'
  BY <1>16 DEF HttpUnlink
<1>17. ASSUME NEW t \in Threads, IndexCall(t) PROVE NoRunBringsBack'
  BY <1>17 DEF IndexCall
<1>18. ASSUME NEW t \in Threads, RunLock(t) PROVE NoRunBringsBack'
  BY <1>18 DEF RunLock
<1>19. ASSUME NEW t \in Threads, RunRoute(t) PROVE NoRunBringsBack'
  BY <1>19 DEF RunRoute
<1>20. ASSUME NEW t \in Threads, RunExtract(t) PROVE NoRunBringsBack'
  BY <1>20 DEF RunExtract
<1>21. ASSUME NEW t \in Threads, RunUnlink(t) PROVE NoRunBringsBack'
  BY <1>21 DEF RunUnlink
<1>22. ASSUME NEW t \in Threads, DumpOpen(t) PROVE NoRunBringsBack'
  BY <1>22 DEF DumpOpen
<1>23. ASSUME NEW t \in Threads, DumpFlush(t) PROVE NoRunBringsBack'
  BY <1>23 DEF DumpFlush
<1>24. ASSUME NEW t \in Threads, DumpFinish(t) PROVE NoRunBringsBack'
  BY <1>24 DEF DumpFinish
<1>25. ASSUME NEW t \in Threads, Persist(t) PROVE NoRunBringsBack'
  BY <1>25 DEF Persist
<1>26. ASSUME NEW t \in Threads, RunUnlock(t) PROVE NoRunBringsBack'
  BY <1>26 DEF RunUnlock
<1>27. CASE UNCHANGED vars
  BY <1>27 DEF vars
<1> QED
  BY <1>1, <1>2, <1>3, <1>4, <1>5, <1>6, <1>7, <1>8, <1>9, <1>10, <1>11, <1>12, <1>13,
     <1>14, <1>15, <1>16, <1>17, <1>18, <1>19, <1>20, <1>21, <1>22, <1>23, <1>24, <1>25,
     <1>26, <1>27
     DEF Next, QueryStep, VisitStep, DeleteStep, RunStep

(* Who does not meddle is the only one in a section. *)
LEMMA NobodyElse ==
  ASSUME Serial, NEW s, lock \ {s} = {}, NEW u \in Threads, pc[u] \in Section
  PROVE  u = s
<1>1. lock = {u}
  BY DEF Serial
<1> QED BY <1>1

(* Who changes the name or the file during a run of another thread meddles. *)
LEMMA OnCourseStep ==
  ASSUME TypeOK, TypeOK', Serial, OnCourse, [Next]_vars PROVE OnCourse'
<1> USE StoreAssumption DEF TypeOK, Numbers, Threads, fileVars, histVars, boundVars, Goto,
       Holds, Becomes, Called, Serial, OnCourse, Names, RunPcs, Section
<1>1. ASSUME Edit PROVE OnCourse'
  BY <1>1 DEF Edit
<1>2. ASSUME Kill PROVE OnCourse'
  BY <1>2 DEF Kill
<1>3. ASSUME NEW s \in Servers, QueryCached(s) PROVE OnCourse'
  BY <1>3 DEF QueryCached
<1>4. ASSUME NEW s \in Servers, QueryOpen(s) PROVE OnCourse'
  BY <1>4 DEF QueryOpen
<1>5. ASSUME NEW s \in Servers, QueryVerify(s) PROVE OnCourse'
  BY <1>5 DEF QueryVerify
<1>6. ASSUME NEW s \in Servers, QueryClean(s) PROVE OnCourse'
  <2>1. touched' \/ lock \ {s} = {}
    BY <1>6, Zenon DEF QueryClean, Meddles
  <2>2. pc[s] \notin Section /\ pc'[s] \notin Section /\ \A u \in Threads \ {s} : pc'[u] =
     pc[u]
    BY <1>6 DEF QueryClean
  <2>3. CASE lock \ {s} = {}
    <3>1. ASSUME NEW u \in Threads, pc'[u] \in Section PROVE FALSE
      <4>1. u # s /\ pc[u] \in Section
        BY <2>2, <3>1
      <4> QED BY <2>3, <4>1, NobodyElse
    <3> QED BY <3>1
  <2>4. CASE touched'
    BY <2>4, Zenon
  <2> QED BY <2>1, <2>3, <2>4
<1>7. ASSUME NEW s \in Servers, QueryElsewhere(s) PROVE OnCourse'
  BY <1>7 DEF QueryElsewhere
<1>8. ASSUME NEW s \in Servers, Evict(s) PROVE OnCourse'
  BY <1>8 DEF Evict
<1>9. ASSUME NEW s \in Servers, Visit(s) PROVE OnCourse'
  BY <1>9 DEF Visit
<1>10. ASSUME NEW s \in Servers, Peek(s) PROVE OnCourse'
  <2>1. CASE UNCHANGED <<path, kind, touched>>
    BY <1>10, <2>1 DEF Peek
  <2>2. CASE Meddles(s)
    <3>1. touched' \/ lock \ {s} = {}
      BY <2>2, Zenon DEF Meddles
    <3>2. pc[s] \notin Section /\ pc'[s] \notin Section /\ \A u \in Threads \ {s} : pc'[u] =
       pc[u]
      BY <1>10 DEF Peek
    <3>3. CASE lock \ {s} = {}
      <4>1. ASSUME NEW u \in Threads, pc'[u] \in Section PROVE FALSE
        <5>1. u # s /\ pc[u] \in Section
          BY <3>2, <4>1
        <5> QED BY <3>3, <5>1, NobodyElse
      <4> QED BY <4>1
    <3>4. CASE touched'
      BY <3>4, Zenon
    <3> QED BY <3>1, <3>3, <3>4
  <2> QED BY <1>10, <2>1, <2>2 DEF Peek
<1>11. ASSUME NEW s \in Servers, PeekCloses(s) PROVE OnCourse'
  <2>1. touched' \/ lock \ {s} = {}
    BY <1>11, Zenon DEF PeekCloses, Meddles
  <2>2. pc[s] \notin Section /\ pc'[s] \notin Section /\ \A u \in Threads \ {s} : pc'[u] =
     pc[u]
    BY <1>11 DEF PeekCloses
  <2>3. CASE lock \ {s} = {}
    <3>1. ASSUME NEW u \in Threads, pc'[u] \in Section PROVE FALSE
      <4>1. u # s /\ pc[u] \in Section
        BY <2>2, <3>1
      <4> QED BY <2>3, <4>1, NobodyElse
    <3> QED BY <3>1
  <2>4. CASE touched'
    BY <2>4, Zenon
  <2> QED BY <2>1, <2>3, <2>4
<1>12. ASSUME NEW s \in Servers, DeleteCall(s) PROVE OnCourse'
  BY <1>12 DEF DeleteCall
<1>13. ASSUME NEW s \in Servers, DeleteLock(s) PROVE OnCourse'
  BY <1>13 DEF DeleteLock
<1>14. ASSUME NEW s \in Servers, DeleteUnlink(s) PROVE OnCourse'
  BY <1>14 DEF DeleteUnlink
<1>15. ASSUME NEW s \in Servers, HttpDelete(s) PROVE OnCourse'
  BY <1>15 DEF HttpDelete
<1>16. ASSUME NEW s \in Servers, HttpUnlink(s) PROVE OnCourse'
  <2>1. touched' \/ lock \ {s} = {}
    BY <1>16, Zenon DEF HttpUnlink, Meddles
  <2>2. pc[s] \notin Section /\ pc'[s] \notin Section /\ \A u \in Threads \ {s} : pc'[u] =
     pc[u]
    BY <1>16 DEF HttpUnlink
  <2>3. CASE lock \ {s} = {}
    <3>1. ASSUME NEW u \in Threads, pc'[u] \in Section PROVE FALSE
      <4>1. u # s /\ pc[u] \in Section
        BY <2>2, <3>1
      <4> QED BY <2>3, <4>1, NobodyElse
    <3> QED BY <3>1
  <2>4. CASE touched'
    BY <2>4, Zenon
  <2> QED BY <2>1, <2>3, <2>4
<1>17. ASSUME NEW t \in Threads, IndexCall(t) PROVE OnCourse'
  BY <1>17 DEF IndexCall
<1>18. ASSUME NEW t \in Threads, RunLock(t) PROVE OnCourse'
  BY <1>18 DEF RunLock
<1>19. ASSUME NEW t \in Threads, RunRoute(t) PROVE OnCourse'
  BY <1>19 DEF RunRoute
<1>20. ASSUME NEW t \in Threads, RunExtract(t) PROVE OnCourse'
  <2>1. pc[t] = "extract" /\ UNCHANGED <<path, kind, gen, hold, touched>>
    BY <1>20 DEF RunExtract
  <2>2. \A u \in Threads \ {t} : pc[u] \notin Section
    BY <2>1, OneInSection DEF Section, RunPcs
  <2>3. CASE pc'[t] = "unlock" /\ read'[t] # 0
    <3>1. Names("whole") /\ gen[path] = src /\ read' = [read EXCEPT ![t] = src]
      BY <1>20, <2>1, <2>3 DEF RunExtract, UpToDate
    <3> QED BY <1>20, <2>1, <2>2, <2>3, <3>1 DEF RunExtract
  <2>4. CASE ~(pc'[t] = "unlock" /\ read'[t] # 0)
    BY <1>20, <2>1, <2>2, <2>4 DEF RunExtract
  <2> QED BY <2>3, <2>4
<1>21. ASSUME NEW t \in Threads, RunUnlink(t) PROVE OnCourse'
  BY <1>21 DEF RunUnlink
<1>22. ASSUME NEW t \in Threads, DumpOpen(t) PROVE OnCourse'
  BY <1>22 DEF DumpOpen
<1>23. ASSUME NEW t \in Threads, DumpFlush(t) PROVE OnCourse'
  BY <1>23 DEF DumpFlush
<1>24. ASSUME NEW t \in Threads, DumpFinish(t) PROVE OnCourse'
  BY <1>24 DEF DumpFinish
<1>25. ASSUME NEW t \in Threads, Persist(t) PROVE OnCourse'
  BY <1>25 DEF Persist
<1>26. ASSUME NEW t \in Threads, RunUnlock(t) PROVE OnCourse'
  BY <1>26 DEF RunUnlock
<1>27. CASE UNCHANGED vars
  BY <1>27 DEF vars
<1> QED
  BY <1>1, <1>2, <1>3, <1>4, <1>5, <1>6, <1>7, <1>8, <1>9, <1>10, <1>11, <1>12, <1>13,
     <1>14, <1>15, <1>16, <1>17, <1>18, <1>19, <1>20, <1>21, <1>22, <1>23, <1>24, <1>25,
     <1>26, <1>27
     DEF Next, QueryStep, VisitStep, DeleteStep, RunStep
-----------------------------------------------------------------------------
StoreInv ==
  /\ TypeOK /\ Serial /\ NothingWhole /\ NoneNewer /\ NameIsNewest /\ NotBehind
  /\ NoRunBringsBack /\ OnCourse

LEMMA InitInv == Init => StoreInv
<1> SUFFICES ASSUME Init PROVE StoreInv
  OBVIOUS
<1>1. TypeOK
  BY InitTypes
<1>2. Serial /\ NothingWhole /\ NameIsNewest
  BY DEF Init, Serial, NothingWhole, NameIsNewest, Names, Newest, Section, RunPcs
<1>3. NoneNewer
  BY DEF Init, NoneNewer, Newest
<1>6. NotBehind
  <2>1. SUFFICES ASSUME NEW s \in Servers PROVE NotBehindAt(s)
    BY DEF NotBehind
  <2> QED BY DEF Init, NotBehindAt, RunPcs, Threads
<1>4. NoRunBringsBack
  BY Zenon DEF Init, NoRunBringsBack
<1>5. OnCourse
  BY DEF Init, OnCourse
<1> QED
  BY <1>1, <1>2, <1>3, <1>4, <1>5, <1>6 DEF StoreInv

LEMMA StoreInvInductive == StoreInv /\ [Next]_vars => StoreInv'
<1> SUFFICES ASSUME StoreInv, [Next]_vars PROVE StoreInv'
  OBVIOUS
<1>1. TypeOK'
  BY NumbersStep, FlagsStep DEF StoreInv, TypeOK
<1> QED
  BY <1>1, SerialStep, NothingWholeStep, NoneNewerStep, NameIsNewestStep, NotBehindStep,
     NoRunBringsBackStep, OnCourseStep DEF StoreInv

(* The inductive invariant holds in every state of the server's threads. *)
THEOREM InvariantHolds == Spec => []StoreInv
BY InitInv, StoreInvInductive, PTL DEF Spec

(* An index run during which no other thread touches the name or the file ends with
   the index of what it read under the project's name, whatever it found there. *)
THEOREM RunLeavesItsIndex == Spec => []RunLeavesIndex
<1>1. StoreInv => RunLeavesIndex
  BY DEF StoreInv, OnCourse, RunLeavesIndex
<1> QED
  BY <1>1, InvariantHolds, PTL

(* Once delete_project has unlinked an index, none is under the name before the next
   run begins: the lock keeps runs out, and short visits make empty schemas only. *)
THEOREM DeletionSticks == Spec => []DeleteSticks
<1>1. StoreInv => DeleteSticks
  BY DEF StoreInv, NoRunBringsBack, DeleteSticks
<1> QED
  BY <1>1, InvariantHolds, PTL

(* Only a dump, a visit or a persist writes to files, and none of them to a whole one
   that is under the name or held. *)
LEMMA ServedStep ==
  ASSUME StoreInv, [Next]_vars, NEW v \in Servers,
         conn[v] # 0, kind[conn[v]] = "whole", conn'[v] = conn[v]
  PROVE  \/ kind'[conn[v]] = "whole" /\ gen'[conn[v]] = gen[conn[v]]
         \/ \E u \in Servers : PeekCloses(u)
<1> DEFINE Kept ==
      \/ kind'[conn[v]] = "whole" /\ gen'[conn[v]] = gen[conn[v]]
      \/ \E u \in Servers : PeekCloses(u)
<1> SUFFICES Kept
  OBVIOUS
<1> USE StoreAssumption DEF StoreInv, TypeOK, Numbers, Threads, fileVars, Goto, Holds, Becomes,
        NothingWhole, NewInode, Referenced, Names
<1>1. ASSUME Edit PROVE Kept
  BY <1>1 DEF Edit
<1>2. ASSUME Kill PROVE Kept
  BY <1>2 DEF Kill
<1>3. ASSUME NEW s \in Servers, QueryCached(s) PROVE Kept
  BY <1>3 DEF QueryCached
<1>4. ASSUME NEW s \in Servers, QueryOpen(s) PROVE Kept
  BY <1>4 DEF QueryOpen
<1>5. ASSUME NEW s \in Servers, QueryVerify(s) PROVE Kept
  BY <1>5 DEF QueryVerify
<1>6. ASSUME NEW s \in Servers, QueryClean(s) PROVE Kept
  BY <1>6 DEF QueryClean
<1>7. ASSUME NEW s \in Servers, QueryElsewhere(s) PROVE Kept
  BY <1>7 DEF QueryElsewhere
<1>8. ASSUME NEW s \in Servers, Evict(s) PROVE Kept
  BY <1>8 DEF Evict
<1>9. ASSUME NEW s \in Servers, Visit(s) PROVE Kept
  BY <1>9 DEF Visit
<1>10. ASSUME NEW s \in Servers, Peek(s) PROVE Kept
  BY <1>10 DEF Peek
<1>11. ASSUME NEW s \in Servers, PeekCloses(s) PROVE Kept
  BY <1>11 DEF PeekCloses
<1>12. ASSUME NEW s \in Servers, DeleteCall(s) PROVE Kept
  BY <1>12 DEF DeleteCall
<1>13. ASSUME NEW s \in Servers, DeleteLock(s) PROVE Kept
  BY <1>13 DEF DeleteLock
<1>14. ASSUME NEW s \in Servers, DeleteUnlink(s) PROVE Kept
  BY <1>14 DEF DeleteUnlink
<1>15. ASSUME NEW s \in Servers, HttpDelete(s) PROVE Kept
  BY <1>15 DEF HttpDelete
<1>16. ASSUME NEW s \in Servers, HttpUnlink(s) PROVE Kept
  BY <1>16 DEF HttpUnlink
<1>17. ASSUME NEW t \in Threads, IndexCall(t) PROVE Kept
  BY <1>17 DEF IndexCall
<1>18. ASSUME NEW t \in Threads, RunLock(t) PROVE Kept
  BY <1>18 DEF RunLock
<1>19. ASSUME NEW t \in Threads, RunRoute(t) PROVE Kept
  BY <1>19 DEF RunRoute
<1>20. ASSUME NEW t \in Threads, RunExtract(t) PROVE Kept
  BY <1>20 DEF RunExtract
<1>21. ASSUME NEW t \in Threads, RunUnlink(t) PROVE Kept
  BY <1>21 DEF RunUnlink
<1>22. ASSUME NEW t \in Threads, DumpOpen(t) PROVE Kept
  BY <1>22 DEF DumpOpen
<1>23. ASSUME NEW t \in Threads, DumpFlush(t) PROVE Kept
  BY <1>23 DEF DumpFlush
<1>24. ASSUME NEW t \in Threads, DumpFinish(t) PROVE Kept
  BY <1>24 DEF DumpFinish
<1>25. ASSUME NEW t \in Threads, Persist(t) PROVE Kept
  BY <1>25 DEF Persist
<1>26. ASSUME NEW t \in Threads, RunUnlock(t) PROVE Kept
  BY <1>26 DEF RunUnlock
<1>27. CASE UNCHANGED vars
  BY <1>27 DEF vars
<1> QED
  BY <1>1, <1>2, <1>3, <1>4, <1>5, <1>6, <1>7, <1>8, <1>9, <1>10, <1>11, <1>12, <1>13,
     <1>14, <1>15, <1>16, <1>17, <1>18, <1>19, <1>20, <1>21, <1>22, <1>23, <1>24, <1>25,
     <1>26, <1>27
     DEF Next, QueryStep, VisitStep, DeleteStep, RunStep

(* The whole file behind a cached connection is never cut or rewritten by a run: the
   routes unlink before they write. The closing checkpoint of a visit is the exception. *)
THEOREM WholeStaysWhole == Spec => ServedWhole
<1>1. StoreInv /\ [Next]_vars =>
        \A s \in Servers :
          conn[s] # 0 /\ kind[conn[s]] = "whole" /\ conn'[s] = conn[s]
            => \/ kind'[conn[s]] = "whole" /\ gen'[conn[s]] = gen[conn[s]]
               \/ \E v \in Servers : PeekCloses(v)
  BY ServedStep
<1> QED
  BY <1>1, InvariantHolds, PTL DEF Spec, ServedWhole

(* Every step publishes, shows, restarts, or is not seen by clients. *)
LEMMA RegisterStep ==
  ASSUME StoreInv, [Next]_vars
  PROVE  MonotoneReads!Next \/ UNCHANGED <<published, seen>>
<1> DEFINE Maps == MonotoneReads!Next \/ UNCHANGED <<published, seen>>
<1> SUFFICES Maps
  OBVIOUS
<1> USE DEF fileVars, histVars
<1>1. ASSUME Edit PROVE Maps
  BY <1>1 DEF Edit
<1>2. ASSUME Kill PROVE Maps
  BY <1>2 DEF Kill, MonotoneReads!Next, MonotoneReads!Restart
<1>3. ASSUME NEW s \in Servers, QueryCached(s) PROVE Maps
  <2>1. CASE UNCHANGED seen
    BY <1>3, <2>1 DEF QueryCached
  <2>2. CASE ~UNCHANGED seen
    <3>1. conn[s] \in Inodes /\ kind[conn[s]] = "whole" /\ UNCHANGED published
          /\ seen' = [seen EXCEPT ![s] = gen[conn[s]]]
      BY <1>3, <2>2 DEF QueryCached, StoreInv, TypeOK, Numbers
    <3>2. gen[conn[s]] \in published /\ gen[conn[s]] >= seen[s]
      <4>1. gen[conn[s]] \in Nat /\ seen[s] \in Nat
        BY <3>1, GenFacts DEF StoreInv, TypeOK, Numbers
      <4>2. conn[s] # 0
        BY <1>3 DEF QueryCached
      <4> QED BY <3>1, <4>1, <4>2 DEF StoreInv, NameIsNewest, NotBehind, NotBehindAt
    <3> QED BY <3>1, <3>2 DEF MonotoneReads!Next, MonotoneReads!Show
  <2> QED BY <2>1, <2>2
<1>4. ASSUME NEW s \in Servers, QueryOpen(s) PROVE Maps
  BY <1>4 DEF QueryOpen
<1>5. ASSUME NEW s \in Servers, QueryVerify(s) PROVE Maps
  <2>1. CASE UNCHANGED seen
    BY <1>5, <2>1 DEF QueryVerify
  <2>2. CASE ~UNCHANGED seen
    <3>1. pc[s] = "verify" /\ hold[s] \in Inodes /\ kind[hold[s]] = "whole"
          /\ UNCHANGED published /\ seen' = [seen EXCEPT ![s] = gen[hold[s]]]
      BY <1>5, <2>2 DEF QueryVerify, StoreInv, TypeOK, Numbers, Threads
    <3>2. gen[hold[s]] \in published /\ gen[hold[s]] >= seen[s]
      <4>1. gen[hold[s]] \in Nat /\ seen[s] \in Nat
        BY <3>1, GenFacts DEF StoreInv, TypeOK, Numbers
      <4> QED BY <3>1, <4>1 DEF StoreInv, NameIsNewest, NotBehind, NotBehindAt
    <3> QED BY <3>1, <3>2 DEF MonotoneReads!Next, MonotoneReads!Show
  <2> QED BY <2>1, <2>2
<1>6. ASSUME NEW s \in Servers, QueryClean(s) PROVE Maps
  BY <1>6 DEF QueryClean
<1>7. ASSUME NEW s \in Servers, QueryElsewhere(s) PROVE Maps
  BY <1>7 DEF QueryElsewhere
<1>8. ASSUME NEW s \in Servers, Evict(s) PROVE Maps
  BY <1>8 DEF Evict
<1>9. ASSUME NEW s \in Servers, Visit(s) PROVE Maps
  BY <1>9 DEF Visit
<1>10. ASSUME NEW s \in Servers, Peek(s) PROVE Maps
  BY <1>10 DEF Peek
<1>11. ASSUME NEW s \in Servers, PeekCloses(s) PROVE Maps
  BY <1>11 DEF PeekCloses
<1>12. ASSUME NEW s \in Servers, DeleteCall(s) PROVE Maps
  BY <1>12 DEF DeleteCall
<1>13. ASSUME NEW s \in Servers, DeleteLock(s) PROVE Maps
  BY <1>13 DEF DeleteLock
<1>14. ASSUME NEW s \in Servers, DeleteUnlink(s) PROVE Maps
  BY <1>14 DEF DeleteUnlink
<1>15. ASSUME NEW s \in Servers, HttpDelete(s) PROVE Maps
  BY <1>15 DEF HttpDelete
<1>16. ASSUME NEW s \in Servers, HttpUnlink(s) PROVE Maps
  BY <1>16 DEF HttpUnlink
<1>17. ASSUME NEW t \in Threads, IndexCall(t) PROVE Maps
  BY <1>17 DEF IndexCall
<1>18. ASSUME NEW t \in Threads, RunLock(t) PROVE Maps
  BY <1>18 DEF RunLock
<1>19. ASSUME NEW t \in Threads, RunRoute(t) PROVE Maps
  BY <1>19 DEF RunRoute
<1>20. ASSUME NEW t \in Threads, RunExtract(t) PROVE Maps
  BY <1>20 DEF RunExtract
<1>21. ASSUME NEW t \in Threads, RunUnlink(t) PROVE Maps
  BY <1>21 DEF RunUnlink
<1>22. ASSUME NEW t \in Threads, DumpOpen(t) PROVE Maps
  BY <1>22 DEF DumpOpen
<1>23. ASSUME NEW t \in Threads, DumpFlush(t) PROVE Maps
  BY <1>23 DEF DumpFlush
<1>24. ASSUME NEW t \in Threads, DumpFinish(t) PROVE Maps
  <2>1. CASE UNCHANGED published
    BY <1>24, <2>1 DEF DumpFinish
  <2>2. CASE ~UNCHANGED published
    <3>1. pc[t] = "finish" /\ read[t] # 0 /\ published' = published \cup {read[t]} /\
       UNCHANGED seen
      BY <1>24, <2>2 DEF DumpFinish
    <3>2. read[t] \in Gens /\ \A h \in published : h <= read[t]
      BY <3>1 DEF StoreInv, TypeOK, Numbers, NoneNewer, Newest
    <3> QED BY <3>1, <3>2 DEF MonotoneReads!Next, MonotoneReads!Publish
  <2> QED BY <2>1, <2>2
<1>25. ASSUME NEW t \in Threads, Persist(t) PROVE Maps
  BY <1>25 DEF Persist
<1>26. ASSUME NEW t \in Threads, RunUnlock(t) PROVE Maps
  <2>1. CASE t \in Servers /\ read[t] \in published
    <3>1. pc[t] = "unlock" /\ UNCHANGED published /\ seen' = [seen EXCEPT ![t] = read[t]]
      BY <1>26, <2>1 DEF RunUnlock, StoreInv, TypeOK, Numbers
    <3>2. read[t] \in Nat /\ seen[t] \in Nat /\ read[t] # 0 /\ Newest(read[t])
      BY <2>1, <3>1, GenFacts DEF StoreInv, TypeOK, Numbers, NoneNewer
    <3>3. seen[t] <= read[t]
      BY <2>1, <3>2, SeenBelow DEF StoreInv
    <3>4. read[t] >= seen[t]
      BY <3>2, <3>3
    <3> QED BY <2>1, <3>1, <3>4 DEF MonotoneReads!Next, MonotoneReads!Show
  <2>2. CASE ~(t \in Servers /\ read[t] \in published)
    BY <1>26, <2>2 DEF RunUnlock, StoreInv, TypeOK, Numbers
  <2> QED BY <2>1, <2>2
<1>27. CASE UNCHANGED vars
  BY <1>27 DEF vars
<1> QED
  BY <1>1, <1>2, <1>3, <1>4, <1>5, <1>6, <1>7, <1>8, <1>9, <1>10, <1>11, <1>12, <1>13,
     <1>14, <1>15, <1>16, <1>17, <1>18, <1>19, <1>20, <1>21, <1>22, <1>23, <1>24, <1>25,
     <1>26, <1>27
     DEF Next, QueryStep, VisitStep, DeleteStep, RunStep

(* The threads and the file implement IndexRegister: answers are whole published
   indexes, and no client of one server process is taken back to an older one. *)
THEOREM ImplementsIndexRegister == Spec => Monotone
<1>1. Init => MonotoneReads!Init
  BY DEF Init, MonotoneReads!Init
<1>2. StoreInv /\ [Next]_vars => [MonotoneReads!Next]_(MonotoneReads!vars)
  BY RegisterStep DEF MonotoneReads!vars
<1> QED
  BY <1>1, <1>2, InvariantHolds, PTL DEF Spec, Monotone, MonotoneReads!Spec
=============================================================================
