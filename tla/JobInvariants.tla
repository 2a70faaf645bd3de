--------------------------- MODULE JobInvariants ---------------------------
(***************************************************************************)
(* The inductive invariants behind the safety properties of JobSystem:     *)
(* what holds between the two stores, the executions and the requests      *)
(* after every step, crashes, timeouts and database faults included.       *)
(***************************************************************************)
EXTENDS JobSystem

\* A lock held by an execution belongs to an active job, and the execution is
\* under way on that job.
LockInv ==
  /\ \A j \in Jobs : queue[j].state # "active" => queue[j].holder = NoRun
  /\ \A j \in Jobs, r \in Runs :
       queue[j].holder = r => Live(r) /\ run[r].job = j

\* A request works on a stored job, except a submission that has not inserted
\* it yet: its job is in the queue, and no other request is inserting it.
RequestInv ==
  /\ \A c \in Calls : call[c].pc \in {"retry", "remove", "mark", "ask"} =>
       db[call[c].job].status # "none"
  /\ \A c \in Calls : call[c].pc = "insert" =>
       db[call[c].job].status = "none" /\ queue[call[c].job].state # "absent"
  /\ \A c, d \in Calls :
       call[c].pc = "insert" /\ call[d].pc = "insert" /\ call[c].job = call[d].job
         => c = d

\* By how much n exceeds limit.
Over(n, limit) == IF n > limit THEN n - limit ELSE 0

\* Failures and stalls that a live job may not show: those beyond the last one
\* that leaves it another attempt.
Excess(e) == Over(e.made, MaxAttempts - 1) + Over(e.stalls, MaxStalls)

\* Every execution started is accounted for by a failure, by a stall or by the
\* success or lock it led to, and a manual retry pays for each failure or stall
\* beyond the limits.
Accounted(e, started, retried) ==
  /\ started = e.made + e.stalls + (IF e.state \in {"active", "completed"} THEN 1 ELSE 0)
  /\ Excess(e) <= retried + (IF e.state = "failed" THEN 1 ELSE 0)

BudgetInv ==
  /\ \A j \in Jobs : queue[j].state = "absent" /\ db[j].status = "none" => starts[j] = 0
  /\ \A j \in Jobs : queue[j].state # "absent" =>
       Accounted(queue[j], starts[j], retries[j])
  /\ ExecutionBudget

\* The result of j is stored, or was written while j had no row.
Backed(j) == db[j].result \/ "completed" \in lost[j]

\* A processor that returned a result has had it written.
ResultInv ==
  /\ \A r \in Runs, j \in Jobs :
       run[r].pc = "resolve" /\ run[r].job = j => Backed(j)
  /\ CompletedIsBacked
  /\ \A j \in Jobs : db[j].status = "none" => ~db[j].result

\* What holds whatever fails: locks, requests, executions and results.
SafetyInv == LockInv /\ RequestInv /\ BudgetInv /\ ResultInv

\* While Bull never gives up on a running processor, it runs under its lock.
ExclusiveInv ==
  \A r \in Runs : Live(r) => queue[run[r].job].holder = r

\* A cancelled job is gone from the queue, and so is one that cancelJob is
\* about to record.
CancelInv ==
  /\ \A j \in Jobs : db[j].status = "cancelled" => queue[j].state = "absent"
  /\ \A c \in Calls : call[c].pc = "mark" => queue[call[c].job].state = "absent"

\* The row of j and its executions count what its entry in the queue counts.
Counted(j) ==
  /\ \A r \in Runs : Live(r) /\ run[r].job = j => run[r].made = queue[j].made
  /\ queue[j].state # "absent" => db[j].retryCount <= queue[j].made
  /\ db[j].status = "none" => db[j].retryCount = 0

CountInv == \A j \in Jobs : Counted(j)

\* What the row of a job may say at each point of an execution.
OnCourse(pc, status, written) ==
  /\ pc = "begin" => status # "completed"
  /\ pc \in {"work", "complete", "fail"} => status \in {"none", "pending", "processing"}
  /\ pc = "reject" => \/ status = "failed"
                      \/ status \in {"none", "pending"} /\ "failed" \in written

\* The row of j and its entry in the queue agree.
Agreed(j) ==
  /\ queue[j].state = "active" => queue[j].holder \in Runs
  /\ \A r \in Runs : run[r].job = j => OnCourse(run[r].pc, db[j].status, lost[j])
  /\ db[j].status = "completed" =>
       \/ queue[j].state \in {"completed", "absent"}
       \/ \E r \in Runs : run[r].pc = "resolve" /\ run[r].job = j
  /\ queue[j].state = "failed" => db[j].status = "failed" \/ Overtaken(j)
  /\ db[j].status # "none" /\ queue[j].state = "absent" =>
       \/ db[j].status = "cancelled"
       \/ \E c \in Calls : call[c].pc = "mark" /\ call[c].job = j

\* While nothing crashes, fails or times out.
AgreementInv == \A j \in Jobs : Agreed(j)
=============================================================================
