----------------------------- MODULE JobSystem -----------------------------
(***************************************************************************)
(* The background jobs: the HTTP handlers of job.controller.js, the workers *)
(* worker-manager.js registers, the Bull queue and the jobs table.          *)
(*                                                                          *)
(* The two stores are written one after the other and never together, so    *)
(* every await is a point where other handlers, other workers and a crash   *)
(* of the process may come in between.                                      *)
(***************************************************************************)
EXTENDS BullQueue, JobRows, DbStatements, FiniteSets

CONSTANTS
  Jobs,        \* job ids (uuid v4, fresh for every submission)
  Runs,        \* executions of a processor that may be under way at once
  Calls,       \* HTTP requests that may be under way at once
  Servers,     \* server processes; each serves the API and runs the workers
  Users,       \* authenticated users
  Owner,       \* Owner[j]: the user who submits j
  JobType,     \* JobType[j]: the queue j is submitted to
  NoProject,   \* jobs submitted with a project id that no project has
  Concurrency, \* processors per queue and server
  MaxManualRetries, \* bound on the manual retries of one job
  Timeouts,    \* whether Bull's job timeout is in force and can expire
  Crashes,     \* whether server processes can die
  NoJob,       \* job of a call or execution that is not under way
  NoServer     \* its server

VARIABLES
  queue,       \* queue[j]: the job as the Bull queue has it
  db,          \* db[j]: its row in the jobs table
  run,         \* run[r]: an execution of a processor
  call,        \* call[c]: an HTTP request
  retries,     \* history: manual retries that put the job back
  starts,      \* history: executions started for the job
  lost         \* history: statuses written while the job had no row

vars == <<queue, db, run, call, retries, starts, lost>>

JobTypes == {"code_execution", "file_processing", "data_export"}

ASSUME CountsAssumption ==
  /\ MaxAttempts \in Nat \ {0}
  /\ MaxStalls \in Nat
  /\ Concurrency \in Nat \ {0}
  /\ MaxManualRetries \in Nat

ASSUME FlagsAssumption ==
  /\ Timeouts \in BOOLEAN
  /\ Crashes \in BOOLEAN
  /\ DbFaults \subseteq {"refused", "lostReply"}

ASSUME JobsAssumption ==
  /\ Owner \in [Jobs -> Users]
  /\ JobType \in [Jobs -> JobTypes]
  /\ NoProject \subseteq Jobs

ASSUME NamesAssumption ==
  /\ NoRun \notin Runs
  /\ DeadRun \notin Runs
  /\ NoRun # DeadRun
  /\ NoJob \notin Jobs
  /\ NoServer \notin Servers

-----------------------------------------------------------------------------
(* Executions *)

RunPcs == {"idle", "begin", "work", "complete", "fail", "resolve", "reject"}

IdleRun == [pc |-> "idle", job |-> NoJob, server |-> NoServer, made |-> 0]

Live(r) == run[r].pc # "idle"

\* Bull still waits for this execution.  One that timed out goes on unattended.
Attended(r) == Live(r) /\ queue[run[r].job].holder = r

\* The executions that take up a worker slot for jobs of type t on server s.
Busy(s, t) ==
  {r \in Runs : Attended(r) /\ run[r].server = s /\ JobType[run[r].job] = t}

(* Requests *)

CallPcs == {"idle", "insert", "retry", "remove", "mark", "ask", "answered"}

\* What a handler answers: the outcomes of ResponseUtil, and for a status
\* request the status shown.
ShownStatuses ==
  (QueueStates \ {"absent"}) \cup (RowStatuses \ {"none"})

Replies == {"none", "created", "retried", "cancelled_ok", "error", "not_found",
            "forbidden", "bad_request"} \cup ShownStatuses

IdleCall == [pc |-> "idle", job |-> NoJob, server |-> NoServer,
             seen |-> "none", reply |-> "none"]

Under(s, j, pc) == [IdleCall EXCEPT !.pc = pc, !.job = j, !.server = s]

Answered(s, j, reply) == [Under(s, j, "answered") EXCEPT !.reply = reply]

\* Call c, under way, answers.
Answer(c, reply) == call' = [call EXCEPT ![c] = Answered(@.server, @.job, reply)]

-----------------------------------------------------------------------------
Init ==
  /\ queue = [j \in Jobs |-> Absent]
  /\ db = [j \in Jobs |-> NoRow]
  /\ run = [r \in Runs |-> IdleRun]
  /\ call = [c \in Calls |-> IdleCall]
  /\ retries = [j \in Jobs |-> 0]
  /\ starts = [j \in Jobs |-> 0]
  /\ lost = [j \in Jobs |-> {}]

\* The row of j becomes row; a status written to no row is noted as lost.
Write(j, row, status) ==
  /\ db' = [db EXCEPT ![j] = row]
  /\ lost' = [lost EXCEPT ![j] = IF db[j].status = "none" THEN @ \cup {status} ELSE @]

KeepRows == UNCHANGED <<db, lost>>

-----------------------------------------------------------------------------
(* Submitting a job: submitCodeExecution and its two siblings *)

\* The id is new: queue and table have never seen it.
Fresh(j) == queue[j].state = "absent" /\ db[j].status = "none"

\* queueService.addJob
SubmitAdd(c, s, j) ==
  /\ call[c].pc = "idle"
  /\ Fresh(j)
  /\ queue' = [queue EXCEPT ![j] = Added]
  /\ call' = [call EXCEPT ![c] = Under(s, j, "insert")]
  /\ UNCHANGED <<db, run, retries, starts, lost>>

\* JobDBService.createJob; the INSERT of a job for no project is refused.
InsertRow(c) ==
  /\ call[c].pc = "insert"
  /\ \E o \in Outcomes :
       LET j == call[c].job
           refused == o = "refused" \/ j \in NoProject
       IN  /\ db' = IF refused THEN db ELSE [db EXCEPT ![j] = Created]
           /\ Answer(c, IF refused \/ Raised(o) THEN "error" ELSE "created")
  /\ UNCHANGED <<queue, run, retries, starts, lost>>

-----------------------------------------------------------------------------
(***************************************************************************)
(* Status, retry and cancel requests first read the row and check that the *)
(* caller owns the job.  Request(c, s, j, u, next) is that part, up to the *)
(* first await on the queue.                                               *)
(***************************************************************************)
Request(c, s, j, u, next) ==
  /\ call[c].pc = "idle"
  /\ \/ /\ "refused" \in DbFaults
        /\ call' = [call EXCEPT ![c] = Answered(s, j, "error")]
     \/ call' = [call EXCEPT ![c] =
          IF db[j].status = "none" THEN Answered(s, j, "not_found")
          ELSE IF u # Owner[j]     THEN Answered(s, j, "forbidden")
          ELSE next]
  /\ UNCHANGED <<queue, db, run, retries, starts, lost>>

\* retryJob: the row must say failed.
ReadForRetry(c, s, j, u) ==
  /\ retries[j] < MaxManualRetries
  /\ Request(c, s, j, u,
       IF db[j].status = "failed"
       THEN Under(s, j, "retry")
       ELSE Answered(s, j, "bad_request"))

\* Broken variant of RetryInQueue: the job is removed and added afresh.
RetryByAdding(c) ==
  LET j == call[c].job IN
  /\ call[c].pc = "retry"
  /\ CanRetry(queue[j])
  /\ queue' = [queue EXCEPT ![j] = Added]
  /\ retries' = [retries EXCEPT ![j] = @ + 1]
  /\ Answer(c, "retried")
  /\ UNCHANGED <<db, run, starts, lost>>

\* queueService.retryJob: a job the queue does not have is no error; one that
\* is not in the failed set is.
RetryInQueue(c) ==
  LET j == call[c].job IN
  /\ call[c].pc = "retry"
  /\ \/ /\ queue[j].state = "absent"
        /\ Answer(c, "retried")
        /\ UNCHANGED <<queue, retries>>
     \/ /\ CanRetry(queue[j])
        /\ queue' = [queue EXCEPT ![j] = Requeued(@)]
        /\ retries' = [retries EXCEPT ![j] = @ + 1]
        /\ Answer(c, "retried")
     \/ /\ queue[j].state # "absent" /\ ~CanRetry(queue[j])
        /\ Answer(c, "error")
        /\ UNCHANGED <<queue, retries>>
  /\ UNCHANGED <<db, run, starts, lost>>

\* cancelJob
ReadForCancel(c, s, j, u) == Request(c, s, j, u, Under(s, j, "remove"))

\* queueService.removeJob
RemoveFromQueue(c) ==
  LET j == call[c].job IN
  /\ call[c].pc = "remove"
  /\ \/ /\ CanRemove(queue[j])
        /\ queue' = [queue EXCEPT ![j] = Absent]
        /\ call' = [call EXCEPT ![c].pc = "mark"]
     \/ /\ ~CanRemove(queue[j])
        /\ Answer(c, "error")
        /\ UNCHANGED queue
  /\ UNCHANGED <<db, run, retries, starts, lost>>

\* The second half of cancelJob: updateJobStatus(jobId, "cancelled").
MarkCancelled(c) ==
  LET j == call[c].job IN
  /\ call[c].pc = "mark"
  /\ \E o \in Outcomes :
       /\ IF Applied(o) THEN Write(j, Cancelled(db[j]), "cancelled") ELSE KeepRows
       /\ Answer(c, IF Raised(o) THEN "error" ELSE "cancelled_ok")
  /\ UNCHANGED <<queue, run, retries, starts>>

\* getJobStatus
ReadForStatus(c, s, j, u) ==
  Request(c, s, j, u, [Under(s, j, "ask") EXCEPT !.seen = db[j].status])

\* The state the queue reports goes before the status read from the row.
AskQueue(c) ==
  LET j == call[c].job IN
  /\ call[c].pc = "ask"
  /\ Answer(c, IF queue[j].state = "absent" THEN call[c].seen ELSE queue[j].state)
  /\ UNCHANGED <<queue, db, run, retries, starts, lost>>

\* The response reaches the client.
Respond(c) ==
  /\ call[c].pc = "answered"
  /\ call' = [call EXCEPT ![c] = IdleCall]
  /\ UNCHANGED <<queue, db, run, retries, starts, lost>>

CallStep(c) ==
  InsertRow(c) \/ RetryInQueue(c) \/ RemoveFromQueue(c) \/ MarkCancelled(c)
    \/ AskQueue(c) \/ Respond(c)

-----------------------------------------------------------------------------
(* Processing a job: WorkerManager.registerWorker and the three workers *)

\* Broken variant of Pick: start() forgets the worker of one type.
PickOtherTypes(r, s, j) ==
  /\ ~Live(r)
  /\ queue[j].state = "waiting" /\ JobType[j] # "code_execution"
  /\ Cardinality(Busy(s, JobType[j])) < Concurrency
  /\ queue' = [queue EXCEPT ![j] = Taken(@, r)]
  /\ run' = [run EXCEPT ![r] =
       [pc |-> "begin", job |-> j, server |-> s, made |-> queue[j].made]]
  /\ starts' = [starts EXCEPT ![j] = @ + 1]
  /\ UNCHANGED <<db, call, retries, lost>>

\* Bull hands a waiting job to a free worker slot.
Pick(r, s, j) ==
  /\ ~Live(r)
  /\ queue[j].state = "waiting"
  /\ Cardinality(Busy(s, JobType[j])) < Concurrency
  /\ queue' = [queue EXCEPT ![j] = Taken(@, r)]
  /\ run' = [run EXCEPT ![r] =
       [pc |-> "begin", job |-> j, server |-> s, made |-> queue[j].made]]
  /\ starts' = [starts EXCEPT ![j] = @ + 1]
  /\ UNCHANGED <<db, call, retries, lost>>

Goto(r, pc) == run' = [run EXCEPT ![r].pc = pc]

\* An updateJobStatus of execution r: on to next, or into the catch block.
Update(r, row, status, next) ==
  /\ \E o \in Outcomes :
       /\ IF Applied(o) THEN Write(run[r].job, row, status) ELSE KeepRows
       /\ Goto(r, IF Raised(o) THEN "fail" ELSE next)
  /\ UNCHANGED <<queue, call, retries, starts>>

\* Broken variant of Begin: the row is not told that an attempt starts.
BeginUnrecorded(r) ==
  /\ run[r].pc = "begin"
  /\ Goto(r, "work")
  /\ UNCHANGED <<queue, db, call, retries, starts, lost>>

\* updateJobStatus(jobId, PROCESSING)
Begin(r) ==
  /\ run[r].pc = "begin"
  /\ Update(r, Processing(db[run[r].job]), "processing", "work")

\* The job's own work.  Of the three kinds only simulated code can throw.
Work(r) ==
  /\ run[r].pc = "work"
  /\ \/ Goto(r, "complete")
     \/ JobType[run[r].job] = "code_execution" /\ Goto(r, "fail")
  /\ UNCHANGED <<queue, db, call, retries, starts, lost>>

\* Broken variant of Complete: an error of the update is swallowed.
CompleteUnchecked(r) ==
  /\ run[r].pc = "complete"
  /\ \/ Update(r, Completed(db[run[r].job]), "completed", "resolve")
     \/ /\ "refused" \in DbFaults
        /\ Goto(r, "resolve")
        /\ UNCHANGED <<queue, db, call, retries, starts, lost>>

\* updateJobStatus(jobId, COMPLETED, { result })
Complete(r) ==
  /\ run[r].pc = "complete"
  /\ Update(r, Completed(db[run[r].job]), "completed", "resolve")

\* Broken variant of Fail: rethrows without updating the row.
FailUnrecorded(r) ==
  /\ run[r].pc = "fail"
  /\ Goto(r, "reject")
  /\ UNCHANGED <<queue, db, call, retries, starts, lost>>

\* The catch block: updateJobStatus(jobId, FAILED, { retryCount }), then throw;
\* if the update throws instead, the attempt fails all the same.
Fail(r) ==
  LET j == run[r].job IN
  /\ run[r].pc = "fail"
  /\ \E o \in Outcomes :
       IF Applied(o) THEN Write(j, Failed(db[j], run[r].made), "failed") ELSE KeepRows
  /\ Goto(r, "reject")
  /\ UNCHANGED <<queue, call, retries, starts>>

\* The processor's promise settles; Bull listens only to the lock's holder.
Settle(r, entry) ==
  /\ queue' = IF Attended(r) THEN [queue EXCEPT ![run[r].job] = entry] ELSE queue
  /\ run' = [run EXCEPT ![r] = IdleRun]
  /\ UNCHANGED <<db, call, retries, starts, lost>>

Resolve(r) == run[r].pc = "resolve" /\ Settle(r, Succeeded(queue[run[r].job]))
Reject(r) == run[r].pc = "reject" /\ Settle(r, AttemptFailed(queue[run[r].job]))

RunStep(r) ==
  Begin(r) \/ Work(r) \/ Complete(r) \/ Fail(r) \/ Resolve(r) \/ Reject(r)

\* Bull fails the attempt after JOB_TIMEOUT.  The processor is not stopped, and
\* the job object it reads attemptsMade from is the one Bull has just counted on.
Timeout(r) ==
  /\ Timeouts
  /\ Attended(r)
  /\ queue' = [queue EXCEPT ![run[r].job] = AttemptFailed(@)]
  /\ run' = [run EXCEPT ![r].made = @ + 1]
  /\ UNCHANGED <<db, call, retries, starts, lost>>

\* The backoff of a delayed job ends.
DelayedReady(j) ==
  /\ queue[j].state = "delayed"
  /\ queue' = [queue EXCEPT ![j] = Promoted(@)]
  /\ UNCHANGED <<db, run, call, retries, starts, lost>>

-----------------------------------------------------------------------------
(* A server process dies, with every request and execution on it *)

Crash(s) ==
  /\ Crashes
  /\ \/ \E r \in Runs : run[r].server = s
     \/ \E c \in Calls : call[c].server = s
  /\ queue' = [j \in Jobs |->
       IF \E r \in Runs : queue[j].holder = r /\ run[r].server = s
       THEN [queue[j] EXCEPT !.holder = DeadRun]
       ELSE queue[j]]
  /\ run' = [r \in Runs |-> IF run[r].server = s THEN IdleRun ELSE run[r]]
  /\ call' = [c \in Calls |-> IF call[c].server = s THEN IdleCall ELSE call[c]]
  /\ UNCHANGED <<db, retries, starts, lost>>

\* Nobody renews the lock any more, and it runs out.
LockExpire(j) ==
  /\ queue[j].holder = DeadRun
  /\ queue' = [queue EXCEPT ![j] = Unlocked(@)]
  /\ UNCHANGED <<db, run, call, retries, starts, lost>>

\* Bull's stalled check finds the job active and unlocked.
StalledCheck(j) ==
  /\ queue[j].state = "active" /\ queue[j].holder = NoRun
  /\ queue' = [queue EXCEPT ![j] = Recovered(@)]
  /\ UNCHANGED <<db, run, call, retries, starts, lost>>

-----------------------------------------------------------------------------
Arrival(c, s, j) ==
  \/ SubmitAdd(c, s, j)
  \/ \E u \in Users : \/ ReadForRetry(c, s, j, u)
                      \/ ReadForCancel(c, s, j, u)
                      \/ ReadForStatus(c, s, j, u)

Next ==
  \/ \E c \in Calls, s \in Servers, j \in Jobs : Arrival(c, s, j)
  \/ \E c \in Calls : CallStep(c)
  \/ \E r \in Runs, s \in Servers, j \in Jobs : Pick(r, s, j)
  \/ \E r \in Runs : RunStep(r) \/ Timeout(r)
  \/ \E j \in Jobs : DelayedReady(j) \/ LockExpire(j) \/ StalledCheck(j)
  \/ \E s \in Servers : Crash(s)

Spec == Init /\ [][Next]_vars

(***************************************************************************)
(* What the code's scheduling provides: a process that does not die runs   *)
(* its handlers and processors to the end, Bull hands out waiting jobs,    *)
(* promotes delayed ones and recovers stalled ones.  Clients owe nothing,  *)
(* and nothing forces a crash, a timeout or a fault.                       *)
(***************************************************************************)
Fairness ==
  /\ \A c \in Calls : WF_vars(CallStep(c))
  /\ \A r \in Runs : WF_vars(RunStep(r))
  /\ \A j \in Jobs : /\ WF_vars(\E r \in Runs, s \in Servers : Pick(r, s, j))
                     /\ WF_vars(DelayedReady(j))
                     /\ WF_vars(LockExpire(j))
                     /\ WF_vars(StalledCheck(j))

FairSpec == Spec /\ Fairness

-----------------------------------------------------------------------------
(* Properties *)

QueueRecords == [state : QueueStates, made : Nat, stalls : Nat,
                 holder : Runs \cup {NoRun, DeadRun}]

RowRecords == [status : RowStatuses, result : BOOLEAN, retryCount : Nat]

RunRecords == [pc : RunPcs, job : Jobs \cup {NoJob},
               server : Servers \cup {NoServer}, made : Nat]

CallRecords == [pc : CallPcs, job : Jobs \cup {NoJob},
                server : Servers \cup {NoServer},
                seen : RowStatuses, reply : Replies]

\* The variables have their types, and an execution or a request under way
\* has a job and a server (job.controller.js, worker-manager.js).
TypeOK ==
  /\ queue \in [Jobs -> QueueRecords]
  /\ db \in [Jobs -> RowRecords]
  /\ run \in [Runs -> RunRecords]
  /\ call \in [Calls -> CallRecords]
  /\ retries \in [Jobs -> Nat]
  /\ starts \in [Jobs -> Nat]
  /\ lost \in [Jobs -> SUBSET RowStatuses]
  /\ \A r \in Runs : Live(r) => run[r].job \in Jobs /\ run[r].server \in Servers
  /\ \A c \in Calls : call[c].pc # "idle" => call[c].job \in Jobs

\* Whatever crashes, stalls, times out or fails, a job is started at most once
\* for each attempt, each tolerated stall and each manual retry that took
\* effect (queue.service.js:85, retryJob).
ExecutionBudget ==
  \A j \in Jobs : starts[j] <= MaxAttempts + MaxStalls + retries[j]

\* A job Bull calls completed has its result in the jobs table, unless the
\* worker wrote it before the row existed (updateJobStatus ignores that).
CompletedIsBacked ==
  \A j \in Jobs : queue[j].state = "completed" =>
                    db[j].result \/ "completed" \in lost[j]

\* As long as Bull never gives up on a processor that still runs, no job is
\* processed twice at the same time, crashes or not.
OneProcessorPerJob ==
  \A r1, r2 \in Runs :
    Live(r1) /\ Live(r2) /\ run[r1].job = run[r2].job => r1 = r2

\* A job recorded as cancelled is out of the queue for good: no handler or
\* worker that was under way brings it back (cancelJob against retryJob,
\* insert and the workers' updates).
CancelledNeverRuns ==
  \A j \in Jobs : db[j].status = "cancelled" =>
     /\ queue[j].state = "absent"
     /\ \A r \in Runs : Live(r) => run[r].job # j

\* retry_count never goes back, across attempts, crashes and manual retries.
RetryCountNeverFalls ==
  [][\A j \in Jobs : db'[j].retryCount >= db[j].retryCount]_vars

\* The last attempt of j failed before j had a row: its update went nowhere, and
\* nothing has touched the row since the INSERT, if that has come at all.
Overtaken(j) == db[j].status \in {"none", "pending"} /\ "failed" \in lost[j]

\* While no process dies and no statement fails, a job in Bull's failed set has
\* a row that says failed, and retryJob accepts it, unless its attempts were
\* over before createJob: that row says pending for good, and retryJob refuses
\* the job, "Only failed jobs can be retried" (job.controller.js:256).
FailureIsRecorded ==
  \A j \in Jobs : queue[j].state = "failed" =>
                    db[j].status = "failed" \/ Overtaken(j)

\* While no process dies and no statement fails, a stored job leaves the queue
\* only through a cancelJob that records it.
OnlyCancelRemoves ==
  \A j \in Jobs : db[j].status # "none" /\ queue[j].state = "absent" =>
     \/ db[j].status = "cancelled"
     \/ \E c \in Calls : call[c].pc = "mark" /\ call[c].job = j

\* A submitted job ends, completed, failed or removed, although processes may
\* die again and again ("Jobs survive server restarts", README.md:391).
SubmittedJobSettles ==
  \A j \in Jobs : queue[j].state \in {"waiting", "delayed", "active"}
                    ~> queue[j].state \in {"completed", "failed", "absent"}

\* While no process dies and no update is applied unseen, the status column
\* moves as the abstract lifecycle says: a job that has completed or was
\* cancelled is not moved by a worker, and no attempt is skipped.
Lifecycle == INSTANCE JobLifecycle WITH status <- [j \in Jobs |-> db[j].status]
FollowsLifecycle == Lifecycle!LifecycleSpec

-----------------------------------------------------------------------------
(* What the repository says of the system and the code does not provide *)

\* "Failed to submit job" (job.controller.js:54): no job is left in the queue
\* of a submission answered that way.
FailedSubmitLeavesNothing ==
  \A c \in Calls : call[c].reply = "error" /\ db[call[c].job].status = "none" =>
                   queue[call[c].job].state = "absent"
=============================================================================
