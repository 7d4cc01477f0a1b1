----------------------------- MODULE IndexJobs ------------------------------
(***************************************************************************)
(* The index jobs of the UI server. POST /api/index takes a slot and       *)
(* starts a thread, which forks a child that indexes; the thread polls the *)
(* child, copies what the child logs into the ring of log lines that the   *)
(* UI shows, and stores the job's status. A job is the number of the       *)
(* accepted request, and stands for its path, its thread and its child; no *)
(* two children have the same pid.                                         *)
(*                                                                         *)
(* Handlers run on the one HTTP thread. They share the slots, the log file *)
(* and the ring with the threads of the jobs, which run side by side.      *)
(***************************************************************************)
EXTENDS Naturals, Sequences

CONSTANTS
  NSlots,       \* MAX_INDEX_JOBS
  RingSize,     \* LOG_RING_SIZE
  MaxJobs,      \* bound: requests that find a slot
  MaxLines      \* bound: lines that a child logs

ASSUME IndexJobsAssumption ==
  /\ NSlots \in Nat \ {0} /\ RingSize \in Nat \ {0}
  /\ MaxJobs \in Nat \ {0} /\ MaxLines \in Nat

Slots == 1..NSlots
Jobs == 1..MaxJobs

VARIABLES
  started,      \* requests that found a slot
  slot,         \* g_index_jobs
  worker,       \* where the thread of each job is, and its local variables
  child,        \* the process of each job
  name,         \* the file the name of the log file means, 0 for none
  content,      \* its lines, and those of files that have lost the name
  log,          \* the ring: g_log_ring, g_log_head, g_log_count
  recent,       \* history: the last lines appended to the ring
  heard,        \* history: those of a job that is not in together
  together      \* history: jobs that held a slot at the same time as another

jobVars == <<started, slot, worker, together>>
fileVars == <<name, content>>
logVars == <<log, recent, heard>>
uiVars == <<jobVars, child, fileVars, logVars>>

(***************************************************************************)
(* The ring of log lines. A line is [job, nr]: nr counts the lines of the  *)
(* child, and is 0 for those that the thread logs itself.                  *)
(***************************************************************************)
Least(a, b) == IF a <= b THEN a ELSE b

\* cbm_ui_log_append, under the mutex.
AppendLine(r, line) ==
  [lines |-> [r.lines EXCEPT ![r.head] = line],
   head  |-> (r.head + 1) % RingSize,
   count |-> Least(r.count + 1, RingSize)]

\* Mutant: the lines are taken from the start of the array.
ShownBug(n) ==
  LET count == Least(log.count, n)
  IN  [i \in 1..count |-> log.lines[(i - 1) % RingSize]]

\* What GET /api/logs answers with when it is asked for n lines.
Shown(n) ==
  LET count == Least(log.count, n)
      start == ((log.head + RingSize) - count) % RingSize
  IN  [i \in 1..count |-> log.lines[(start + i - 1) % RingSize]]

Newest(lines, n) == SubSeq(lines, Len(lines) + 1 - Least(n, Len(lines)), Len(lines))

\* A line is logged.
Say(line) ==
  /\ log' = AppendLine(log, line)
  /\ recent' = Newest(Append(recent, line), RingSize)
  /\ heard' = [j \in Jobs |->
       IF j \in together THEN <<>>
       ELSE IF line.job = j /\ line.nr > 0 THEN Append(heard[j], line) ELSE heard[j]]

OwnLine(j) == [job |-> j, nr |-> 0]

(***************************************************************************)
(* The server has just started.                                            *)
(***************************************************************************)
NoLine == [job |-> 0, nr |-> 0]

UiInit ==
  /\ started = 0
  /\ slot = [s \in Slots |-> [status |-> "idle", path |-> 0, pid |-> 0, error |-> "none"]]
  /\ worker = [j \in Jobs |-> [at |-> "none", slot |-> 1, tail |-> 0, exited |-> FALSE,
                               file |-> 0, lines |-> <<>>, failed |-> FALSE]]
  /\ child = [j \in Jobs |-> [at |-> "none", failed |-> FALSE, out |-> 0, wrote |-> 0]]
  /\ name = 0 /\ content = [j \in Jobs |-> <<>>]
  /\ log = [lines |-> [i \in 0..(RingSize - 1) |-> NoLine], head |-> 0, count |-> 0]
  /\ recent = <<>> /\ heard = [j \in Jobs |-> <<>>]
  /\ together = {}

\* A job whose thread has not yet stored how it ended.
Busy(j) == worker[j].at \notin {"none", "tell", "gone"}

Move(j, place) == worker' = [worker EXCEPT ![j].at = place]

(***************************************************************************)
(* Handlers, on the HTTP thread.                                           *)
(***************************************************************************)
Vacant(s) == slot[s].status # "running"
FirstVacant(s) == Vacant(s) /\ \A r \in 1..(s - 1) : ~Vacant(r)

\* Mutant: the slot is left as it is until the thread runs.
TakeSlotBug(s, j) == slot' = [slot EXCEPT ![s].path = j, ![s].error = "none"]

\* The slot is the job's; what it says of the last child stays.
TakeSlot(s, j) ==
  slot' = [slot EXCEPT ![s].path = j, ![s].error = "none", ![s].status = "running"]

\* handle_index_start finds a slot. The thread is created, or the request fails.
IndexStart ==
  /\ started < MaxJobs
  /\ started' = started + 1
  /\ LET j == started + 1
         others == {k \in Jobs : Busy(k)}
     IN  \E s \in Slots :
           /\ FirstVacant(s)
           /\ \/ /\ TakeSlot(s, j)
                 /\ worker' = [worker EXCEPT ![j].at = "fork", ![j].slot = s]
                 /\ together' = IF others = {} THEN together
                                ELSE together \union others \union {j}
              \/ /\ slot' = [slot EXCEPT ![s].path = j, ![s].status = "error",
                                         ![s].error = "thread creation failed"]
                 /\ UNCHANGED <<worker, together>>
  /\ UNCHANGED <<child, fileVars, logVars>>

\* handle_process_kill, for a pid that a running job has; a process that has ended
\* does not notice.
ProcessKill(k) ==
  /\ \E s \in Slots : slot[s].status = "running" /\ slot[s].pid = k
  /\ child[k].at \in {"new", "run"}
  /\ child' = [child EXCEPT ![k].at = "zombie", ![k].failed = TRUE]
  /\ UNCHANGED <<jobVars, fileVars, logVars>>

(***************************************************************************)
(* The child: it takes the log file for its stderr, indexes and ends.      *)
(***************************************************************************)
\* freopen creates the file, or empties the one that has the name.
ChildOpens(j) ==
  /\ child[j].at = "new"
  /\ LET f == IF name = 0 THEN j ELSE name
     IN  /\ child' = [child EXCEPT ![j].at = "run", ![j].out = f]
         /\ name' = f
         /\ content' = [content EXCEPT ![f] = <<>>]
  /\ UNCHANGED <<jobVars, logVars>>

\* A line goes where the child's last one ended, behind a hole if the file is shorter.
ChildLogs(j) ==
  /\ child[j].at = "run" /\ child[j].wrote < MaxLines
  /\ LET nr == child[j].wrote + 1
         old == content[child[j].out]
         length == IF nr > Len(old) THEN nr ELSE Len(old)
     IN  /\ child' = [child EXCEPT ![j].wrote = nr]
         /\ content' = [content EXCEPT ![child[j].out] =
              [i \in 1..length |-> IF i = nr THEN [job |-> j, nr |-> nr]
                                   ELSE IF i <= Len(old) THEN old[i] ELSE NoLine]]
  /\ UNCHANGED <<jobVars, name, logVars>>

\* It ends, or never was the program: execl failed, or it crashed.
ChildEnds(j) ==
  /\ child[j].at \in {"new", "run"}
  /\ \E failed \in BOOLEAN :
       /\ child[j].at = "new" => failed
       /\ child' = [child EXCEPT ![j].at = "zombie", ![j].failed = failed]
  /\ UNCHANGED <<jobVars, fileVars, logVars>>

(***************************************************************************)
(* The thread of a job, index_thread_fn.                                   *)
(***************************************************************************)
Fork(j) ==
  /\ worker[j].at = "fork"
  /\ Say(OwnLine(j))
  /\ \/ /\ child' = [child EXCEPT ![j].at = "new"]
        /\ Move(j, "track") /\ UNCHANGED slot
     \/ /\ slot' = [slot EXCEPT ![worker[j].slot].error = "fork failed"]
        /\ Move(j, "give up") /\ UNCHANGED child
  /\ UNCHANGED <<started, together, fileVars>>

GiveUp(j) ==
  /\ worker[j].at = "give up"
  /\ slot' = [slot EXCEPT ![worker[j].slot].status = "error"]
  /\ Move(j, "gone")
  /\ UNCHANGED <<started, together, child, fileVars, logVars>>

\* job->child_pid is stored: from now on the child can be killed.
Track(j) ==
  /\ worker[j].at = "track"
  /\ slot' = [slot EXCEPT ![worker[j].slot].pid = j]
  /\ Move(j, "poll")
  /\ UNCHANGED <<started, together, child, fileVars, logVars>>

\* Mutant: the loop is left without a last look at the log.
PollBug(j) ==
  /\ worker[j].at = "poll"
  /\ LET exited == child[j].at = "zombie"
     IN  /\ child' = IF exited THEN [child EXCEPT ![j].at = "reaped"] ELSE child
         /\ worker' = [worker EXCEPT ![j].at = IF exited THEN "wait" ELSE "open"]
  /\ UNCHANGED <<started, slot, together, fileVars, logVars>>

\* waitpid with WNOHANG.
Poll(j) ==
  /\ worker[j].at = "poll"
  /\ LET exited == child[j].at = "zombie"
     IN  /\ child' = IF exited THEN [child EXCEPT ![j].at = "reaped"] ELSE child
         /\ worker' = [worker EXCEPT ![j].at = "open", ![j].exited = exited]
  /\ UNCHANGED <<started, slot, together, fileVars, logVars>>

\* After a look at the log file.
Onward(j) == IF worker[j].exited THEN "wait" ELSE "poll"

\* fopen takes the file that has the name, if there is one, and the stream takes what
\* there is behind the lines that it has had, until there is nothing more.
ReadLog(j) ==
  /\ worker[j].at \in {"open", "read"}
  /\ LET file == IF worker[j].at = "open" THEN name ELSE worker[j].file
         lines == IF file = 0 THEN <<>> ELSE content[file]
     IN  worker' = IF Len(lines) <= worker[j].tail
                     THEN [worker EXCEPT ![j].at = Onward(j), ![j].file = 0]
                     ELSE [worker EXCEPT
                            ![j].at = "log", ![j].file = file, ![j].tail = Len(lines),
                            ![j].lines = SubSeq(lines, worker[j].tail + 1, Len(lines))]
  /\ UNCHANGED <<started, slot, together, child, fileVars, logVars>>

\* One line of these is logged; a hole is an empty line, which is not.
LogLine(j) ==
  /\ worker[j].at = "log"
  /\ LET line == Head(worker[j].lines)
     IN  IF line = NoLine THEN UNCHANGED logVars ELSE Say(line)
  /\ worker' = [worker EXCEPT ![j].at = IF Len(worker[j].lines) = 1 THEN "read" ELSE "log",
                              ![j].lines = Tail(@)]
  /\ UNCHANGED <<started, slot, together, child, fileVars>>

\* Mutant: it waits until there is a child to wait for.
ReapBug(j) ==
  /\ worker[j].at = "wait" /\ child[j].at = "zombie"
  /\ worker' = [worker EXCEPT ![j].at = "report", ![j].failed = child[j].failed]
  /\ child' = [child EXCEPT ![j].at = "reaped"]
  /\ name' = 0
  /\ UNCHANGED <<started, slot, together, content, logVars>>

\* The second waitpid, and the end of the log file. The loop has reaped the child
\* already, so waitpid fails and leaves the status 0.
Reap(j) ==
  /\ worker[j].at = "wait" /\ child[j].at \in {"zombie", "reaped"}
  /\ worker' = [worker EXCEPT ![j].at = "report",
                              ![j].failed = child[j].at = "zombie" /\ child[j].failed]
  /\ child' = [child EXCEPT ![j].at = "reaped"]
  /\ name' = 0
  /\ UNCHANGED <<started, slot, together, content, logVars>>

Report(j) ==
  /\ worker[j].at = "report"
  /\ LET s == worker[j].slot
     IN  slot' = IF worker[j].failed
                   THEN [slot EXCEPT ![s].error = "indexing failed", ![s].status = "error"]
                   ELSE [slot EXCEPT ![s].status = "done"]
  /\ Move(j, "tell")
  /\ UNCHANGED <<started, together, child, fileVars, logVars>>

\* The last line is logged with the path the slot has by now.
Tell(j) ==
  /\ worker[j].at = "tell"
  /\ Say(OwnLine(slot[worker[j].slot].path))
  /\ Move(j, "gone")
  /\ UNCHANGED <<started, slot, together, child, fileVars>>

Thread(j) ==
  \/ Fork(j) \/ GiveUp(j) \/ Track(j) \/ Poll(j) \/ ReadLog(j) \/ LogLine(j) \/ Reap(j)
  \/ Report(j) \/ Tell(j)

UiNext ==
  \/ IndexStart
  \/ \E j \in Jobs : Thread(j) \/ ProcessKill(j) \/ ChildOpens(j) \/ ChildLogs(j)
                     \/ ChildEnds(j)

UiSpec == UiInit /\ [][UiNext]_uiVars

\* The threads are scheduled; nothing is assumed of the children or of the user.
FairUiSpec == UiSpec /\ \A j \in Jobs : WF_uiVars(Thread(j))

(***************************************************************************)
(* Properties                                                              *)
(***************************************************************************)
\* A slot that says "indexing" has one job, and every process the server has to wait
\* for is followed by the thread of a job whose slot says so: a slot is taken again
\* only when the child of its job is gone, so the pid a slot still has from an earlier
\* job is that of no process that could be killed.
OneJobPerSlot ==
  /\ \A j \in Jobs : Busy(j) => /\ slot[worker[j].slot].status = "running"
                                /\ slot[worker[j].slot].path = j
  /\ \A j \in Jobs : child[j].at \in {"new", "run", "zombie"} => Busy(j)
  /\ \A s \in Slots :
       slot[s].status = "running" => \E j \in Jobs : Busy(j) /\ worker[j].slot = s
  /\ \A s \in Slots, j \in Jobs :
       slot[s].pid = j /\ child[j].at \in {"new", "run"} => worker[j].slot = s

\* When a job that had the log file to itself is reported, every line that its child
\* logged has been put into the ring, once and in order.
LogIsComplete ==
  \A j \in Jobs \ together :
    worker[j].at \in {"tell", "gone"} =>
      heard[j] = [i \in 1..child[j].wrote |-> [job |-> j, nr |-> i]]

\* GET /api/logs "returns last N log lines", whatever threads log and however often the
\* ring has gone round.
RingShowsNewest == \A n \in 1..RingSize : Shown(n) = Newest(recent, n)

\* A job whose child has ended gives its slot back, also when the child was killed or
\* another job has removed the log file.
ClosedWhenEnded == \A j \in Jobs : (child[j].at = "zombie") ~> (worker[j].at = "gone")

\* A job that is reported as done has a child that succeeded: the status is "2=done,
\* 3=error". It does not hold, see Reap.
ReportIsTrue ==
  \A s \in Slots : slot[s].status = "done" => ~child[slot[s].path].failed
=============================================================================
