-------------------------- MODULE JobSystemProofs --------------------------
(***************************************************************************)
(* Theorems about the job system, for every set of jobs, executions,       *)
(* requests and servers, and every limit.                                  *)
(***************************************************************************)
EXTENDS JobSystem, TLAPS

\* What each operator on a queue entry returns is a queue entry.
LEMMA QueueOperators ==
  ASSUME NEW e \in QueueRecords
  PROVE  /\ Absent \in QueueRecords
         /\ Added \in QueueRecords
         /\ \A r \in Runs : Taken(e, r) \in QueueRecords
         /\ Succeeded(e) \in QueueRecords
         /\ AttemptFailed(e) \in QueueRecords
         /\ Promoted(e) \in QueueRecords
         /\ Unlocked(e) \in QueueRecords
         /\ Recovered(e) \in QueueRecords
         /\ Requeued(e) \in QueueRecords
         /\ [e EXCEPT !.holder = DeadRun] \in QueueRecords
<1> USE DEF QueueRecords, QueueStates
<1>1. Absent \in QueueRecords /\ Added \in QueueRecords
  BY DEF Absent, Added
<1>2. Succeeded(e) \in QueueRecords /\ \A r \in Runs : Taken(e, r) \in QueueRecords
  BY DEF Taken, Succeeded
<1>3. AttemptFailed(e) \in QueueRecords
  <2>1. e.made + 1 \in Nat
    OBVIOUS
  <2>2. CASE e.made + 1 < MaxAttempts
    BY <2>1, <2>2 DEF AttemptFailed
  <2>3. CASE ~(e.made + 1 < MaxAttempts)
    BY <2>1, <2>3 DEF AttemptFailed
  <2> QED BY <2>2, <2>3
<1>4. Promoted(e) \in QueueRecords /\ Unlocked(e) \in QueueRecords
  BY DEF Promoted, Unlocked
<1>5. Recovered(e) \in QueueRecords
  <2>1. e.stalls + 1 \in Nat
    OBVIOUS
  <2>2. CASE e.stalls + 1 > MaxStalls
    BY <2>1, <2>2 DEF Recovered
  <2>3. CASE ~(e.stalls + 1 > MaxStalls)
    BY <2>1, <2>3 DEF Recovered
  <2> QED BY <2>2, <2>3
<1>6. Requeued(e) \in QueueRecords
  BY DEF Requeued
<1>7. [e EXCEPT !.holder = DeadRun] \in QueueRecords
  OBVIOUS
<1> QED BY <1>1, <1>2, <1>3, <1>4, <1>5, <1>6, <1>7

\* What each operator on a row returns is a row.
LEMMA RowOperators ==
  ASSUME NEW w \in RowRecords, NEW n \in Nat
  PROVE  /\ NoRow \in RowRecords
         /\ Created \in RowRecords
         /\ Processing(w) \in RowRecords
         /\ Completed(w) \in RowRecords
         /\ Failed(w, n) \in RowRecords
         /\ Cancelled(w) \in RowRecords
BY DEF RowRecords, RowStatuses, NoRow, Created, Processing, Completed, Failed,
       Cancelled, Updated

\* The records requests are made of.
LEMMA CallOperators ==
  ASSUME NEW s \in Servers \cup {NoServer}, NEW j \in Jobs \cup {NoJob}, NEW p \in CallPcs, NEW a \in Replies,
         NEW v \in RowStatuses
  PROVE  /\ IdleCall \in CallRecords
         /\ Under(s, j, p) \in CallRecords
         /\ [Under(s, j, p) EXCEPT !.seen = v] \in CallRecords
         /\ Answered(s, j, a) \in CallRecords
<1>1. /\ "none" \in Replies /\ "none" \in RowStatuses
      /\ "idle" \in CallPcs /\ "answered" \in CallPcs
  BY DEF Replies, RowStatuses, CallPcs
<1>2. IdleCall \in CallRecords
  BY <1>1 DEF IdleCall, CallRecords
<1>3. /\ Under(s, j, p) \in CallRecords
      /\ [Under(s, j, p) EXCEPT !.seen = v] \in CallRecords
      /\ Under(s, j, "answered") \in CallRecords
  BY <1>1 DEF Under, IdleCall, CallRecords
<1>4. Answered(s, j, a) \in CallRecords
  BY <1>3 DEF Answered, CallRecords
<1> QED BY <1>2, <1>3, <1>4

LEMMA InitType == Init => TypeOK
<1> SUFFICES ASSUME Init PROVE TypeOK
  OBVIOUS
<1>1. queue \in [Jobs -> QueueRecords]
  BY DEF Init, Absent, QueueRecords, QueueStates
<1>2. db \in [Jobs -> RowRecords]
  BY DEF Init, NoRow, RowRecords, RowStatuses
<1>3. run \in [Runs -> RunRecords] /\ call \in [Calls -> CallRecords]
  BY DEF Init, IdleRun, IdleCall, RunRecords, CallRecords, RunPcs, CallPcs,
         RowStatuses, Replies
<1> QED BY <1>1, <1>2, <1>3 DEF Init, TypeOK, Live, IdleRun, IdleCall

\* A request that answers keeps the type of call.
LEMMA AnswerType ==
  ASSUME TypeOK, NEW c \in Calls, call[c].pc # "idle", NEW a \in Replies, Answer(c, a)
  PROVE  /\ call' \in [Calls -> CallRecords]
         /\ \A d \in Calls : call'[d].pc # "idle" => call'[d].job \in Jobs
<1>1. /\ call[c] \in CallRecords /\ call[c].job \in Jobs
      /\ call[c].server \in Servers \cup {NoServer}
  BY DEF TypeOK, CallRecords
<1>2. /\ Answered(call[c].server, call[c].job, a) \in CallRecords
      /\ Answered(call[c].server, call[c].job, a).job = call[c].job
  <2>1. "insert" \in CallPcs /\ "none" \in RowStatuses
    BY DEF CallPcs, RowStatuses
  <2>2. Answered(call[c].server, call[c].job, a) \in CallRecords
    BY <1>1, <2>1, CallOperators
  <2> QED BY <2>2 DEF Answered, Under, IdleCall
<1> QED BY <1>1, <1>2 DEF TypeOK, Answer

\* A statement keeps the types of db and lost.
LEMMA WriteType ==
  ASSUME TypeOK, NEW j \in Jobs, NEW w \in RowRecords, NEW v \in RowStatuses,
         Write(j, w, v) \/ KeepRows
  PROVE  db' \in [Jobs -> RowRecords] /\ lost' \in [Jobs -> SUBSET RowStatuses]
BY DEF TypeOK, Write, KeepRows

\* An execution that moves to another step keeps the type of run.
LEMMA GotoType ==
  ASSUME TypeOK, NEW r \in Runs, Live(r), NEW p \in RunPcs, Goto(r, p)
  PROVE  /\ run' \in [Runs -> RunRecords]
         /\ \A x \in Runs : Live(x)' => run'[x].job \in Jobs /\ run'[x].server \in Servers
BY DEF TypeOK, Goto, Live, RunRecords
\* A new request, whatever it goes on to, keeps the types.
LEMMA RequestType ==
  ASSUME TypeOK, NEW c \in Calls, NEW s \in Servers, NEW j \in Jobs, NEW u \in Users,
         NEW next \in CallRecords, next.job \in Jobs, Request(c, s, j, u, next)
  PROVE  TypeOK'
<1> DEFINE Said == {Answered(s, j, a) : a \in Replies}
<1>1. \A x \in Said : x \in CallRecords /\ x.job \in Jobs
  <2> SUFFICES ASSUME NEW a \in Replies
               PROVE  Answered(s, j, a) \in CallRecords /\ Answered(s, j, a).job \in Jobs
    OBVIOUS
  <2>1. "insert" \in CallPcs /\ "none" \in RowStatuses
    BY DEF CallPcs, RowStatuses
  <2>2. Answered(s, j, a) \in CallRecords
    BY <2>1, CallOperators
  <2> QED BY <2>2 DEF Answered, Under, IdleCall
<1>2. {"error", "not_found", "forbidden"} \subseteq Replies
  BY DEF Replies
<1>3. PICK x \in Said \cup {next} : call' = [call EXCEPT ![c] = x]
  BY <1>2 DEF Request
<1>4. x \in CallRecords /\ x.job \in Jobs
  BY <1>1
<1> QED BY <1>3, <1>4 DEF TypeOK, Request, Live

LEMMA ArrivalType ==
  ASSUME TypeOK, NEW c \in Calls, NEW s \in Servers, NEW j \in Jobs, Arrival(c, s, j)
  PROVE  TypeOK'
<1>1. /\ {"insert", "retry", "remove", "ask"} \subseteq CallPcs
      /\ "none" \in RowStatuses /\ {"none", "bad_request"} \subseteq Replies
  BY DEF CallPcs, RowStatuses, Replies
<1>2. \A p \in CallPcs : Under(s, j, p) \in CallRecords /\ Under(s, j, p).job \in Jobs
  <2> SUFFICES ASSUME NEW p \in CallPcs
               PROVE  Under(s, j, p) \in CallRecords /\ Under(s, j, p).job \in Jobs
    OBVIOUS
  <2>1. Under(s, j, p) \in CallRecords
    BY <1>1, CallOperators
  <2> QED BY <2>1 DEF Under, IdleCall
<1>3. CASE SubmitAdd(c, s, j)
  <2>1. Added \in QueueRecords
    BY QueueOperators DEF TypeOK
  <2> QED BY <1>1, <1>2, <1>3, <2>1 DEF SubmitAdd, TypeOK, Live
<1>4. ASSUME NEW u \in Users, ReadForRetry(c, s, j, u)
      PROVE  TypeOK'
  <2>1. /\ Answered(s, j, "bad_request") \in CallRecords
        /\ Answered(s, j, "bad_request").job \in Jobs
    <3>1. Answered(s, j, "bad_request") \in CallRecords
      BY <1>1, CallOperators
    <3> QED BY <3>1 DEF Answered, Under, IdleCall
  <2> QED BY <1>1, <1>2, <1>4, <2>1, RequestType DEF ReadForRetry
<1>5. ASSUME NEW u \in Users, ReadForCancel(c, s, j, u)
      PROVE  TypeOK'
  BY <1>1, <1>2, <1>5, RequestType DEF ReadForCancel
<1>6. ASSUME NEW u \in Users, ReadForStatus(c, s, j, u)
      PROVE  TypeOK'
  <2> DEFINE next == [Under(s, j, "ask") EXCEPT !.seen = db[j].status]
  <2>1. db[j].status \in RowStatuses
    BY DEF TypeOK, RowRecords
  <2>2. next \in CallRecords
    BY <1>1, <2>1, CallOperators
  <2>3. next.job \in Jobs
    BY DEF Under, IdleCall
  <2>4. Request(c, s, j, u, next)
    BY <1>6 DEF ReadForStatus
  <2> HIDE DEF next
  <2> QED BY <2>2, <2>3, <2>4, RequestType
<1> QED BY <1>3, <1>4, <1>5, <1>6 DEF Arrival

LEMMA CallStepType ==
  ASSUME TypeOK, NEW c \in Calls, CallStep(c)
  PROVE  TypeOK'
<1> DEFINE j == call[c].job
<1>1. call[c].pc # "idle" /\ j \in Jobs
  BY DEF CallStep, InsertRow, RetryInQueue, RemoveFromQueue, MarkCancelled, AskQueue,
         Respond, TypeOK
<1>2. queue[j] \in QueueRecords /\ db[j] \in RowRecords
  BY <1>1 DEF TypeOK
<1>3. {"error", "created", "retried", "cancelled_ok"} \subseteq Replies
  BY DEF Replies
<1>4. CASE InsertRow(c)
  <2>1. PICK a \in Replies : Answer(c, a)
    BY <1>3, <1>4 DEF InsertRow
  <2>2. db' \in [Jobs -> RowRecords]
    <3>1. Created \in RowRecords
      BY DEF Created, NoRow, RowRecords, RowStatuses
    <3> QED BY <1>1, <1>4, <3>1 DEF InsertRow, TypeOK
  <2> QED BY <1>1, <1>4, <2>1, <2>2, AnswerType DEF InsertRow, TypeOK, Live
<1>5. CASE RetryInQueue(c)
  <2>1. PICK a \in Replies : Answer(c, a)
    BY <1>3, <1>5 DEF RetryInQueue
  <2>2. queue' \in [Jobs -> QueueRecords] /\ retries' \in [Jobs -> Nat]
    <3>1. Requeued(queue[j]) \in QueueRecords
      BY <1>2, QueueOperators
    <3> QED BY <1>1, <1>5, <3>1 DEF RetryInQueue, TypeOK
  <2> QED BY <1>1, <1>5, <2>1, <2>2, AnswerType DEF RetryInQueue, TypeOK, Live
<1>6. CASE RemoveFromQueue(c)
  <2>1. Absent \in QueueRecords
    BY <1>2, QueueOperators
  <2>2. queue' \in [Jobs -> QueueRecords]
    BY <1>1, <1>6, <2>1 DEF RemoveFromQueue, TypeOK
  <2>3. /\ call' \in [Calls -> CallRecords]
        /\ \A d \in Calls : call'[d].pc # "idle" => call'[d].job \in Jobs
    <3>1. CASE Answer(c, "error")
      BY <1>1, <1>3, <3>1, AnswerType
    <3>2. CASE call' = [call EXCEPT ![c].pc = "mark"]
      BY <1>1, <3>2 DEF TypeOK, CallRecords, CallPcs
    <3> QED BY <1>6, <3>1, <3>2 DEF RemoveFromQueue
  <2> QED BY <1>6, <2>2, <2>3 DEF RemoveFromQueue, TypeOK, Live
<1>7. CASE MarkCancelled(c)
  <2>1. PICK a \in Replies : Answer(c, a)
    BY <1>3, <1>7 DEF MarkCancelled
  <2>2. "cancelled" \in RowStatuses /\ Cancelled(db[j]) \in RowRecords
    BY <1>2 DEF RowStatuses, RowRecords, Cancelled, Updated
  <2>3. Write(j, Cancelled(db[j]), "cancelled") \/ KeepRows
    BY <1>7 DEF MarkCancelled
  <2>4. db' \in [Jobs -> RowRecords] /\ lost' \in [Jobs -> SUBSET RowStatuses]
    BY <1>1, <2>2, <2>3, WriteType
  <2> QED BY <1>1, <1>7, <2>1, <2>4, AnswerType DEF MarkCancelled, TypeOK, Live
<1>8. CASE AskQueue(c)
  <2>1. call[c].seen # "none" => call[c].seen \in Replies
    BY DEF TypeOK, CallRecords, Replies, ShownStatuses
  <2>2. call[c].seen \in Replies
    BY <2>1 DEF Replies
  <2>3. queue[j].state # "absent" => queue[j].state \in Replies
    BY <1>2 DEF QueueRecords, Replies, ShownStatuses
  <2>4. PICK a \in Replies : Answer(c, a)
    BY <1>8, <2>2, <2>3 DEF AskQueue
  <2> QED BY <1>1, <1>8, <2>4, AnswerType DEF AskQueue, TypeOK, Live
<1>9. CASE Respond(c)
  <2>1. IdleCall \in CallRecords
    BY DEF IdleCall, CallRecords, CallPcs, RowStatuses, Replies
  <2> QED BY <1>9, <2>1 DEF Respond, TypeOK, Live, IdleCall
<1> QED BY <1>4, <1>5, <1>6, <1>7, <1>8, <1>9 DEF CallStep
\* An updateJobStatus of an execution keeps the types.
LEMMA UpdateType ==
  ASSUME TypeOK, NEW r \in Runs, Live(r), NEW w \in RowRecords, NEW v \in RowStatuses,
         NEW next \in RunPcs, Update(r, w, v, next)
  PROVE  TypeOK'
<1>1. run[r].job \in Jobs
  BY DEF TypeOK
<1>2. Write(run[r].job, w, v) \/ KeepRows
  BY DEF Update
<1>3. PICK p \in RunPcs : Goto(r, p)
  BY DEF Update, RunPcs
<1>4. db' \in [Jobs -> RowRecords] /\ lost' \in [Jobs -> SUBSET RowStatuses]
  BY <1>1, <1>2, WriteType
<1> QED BY <1>3, <1>4, GotoType DEF Update, TypeOK

LEMMA RunStepType ==
  ASSUME TypeOK, NEW r \in Runs, RunStep(r)
  PROVE  TypeOK'
<1> DEFINE j == run[r].job
<1>1. Live(r)
  BY DEF RunStep, Begin, Work, Complete, Fail, Resolve, Reject, Live
<1>2. j \in Jobs /\ queue[j] \in QueueRecords /\ db[j] \in RowRecords /\ run[r].made \in Nat
  BY <1>1 DEF TypeOK, RunRecords
<1>3. /\ {"processing", "completed", "failed"} \subseteq RowStatuses
      /\ {"work", "complete", "fail", "resolve", "reject"} \subseteq RunPcs
  BY DEF RowStatuses, RunPcs
<1>4. /\ Processing(db[j]) \in RowRecords
      /\ Completed(db[j]) \in RowRecords
      /\ Failed(db[j], run[r].made) \in RowRecords
  BY <1>2, RowOperators
<1>5. CASE Begin(r)
  BY <1>1, <1>3, <1>4, <1>5, UpdateType DEF Begin
<1>6. CASE Work(r)
  <2>1. PICK p \in RunPcs : Goto(r, p)
    BY <1>3, <1>6 DEF Work
  <2> QED BY <1>1, <1>6, <2>1, GotoType DEF Work, TypeOK
<1>7. CASE Complete(r)
  BY <1>1, <1>3, <1>4, <1>7, UpdateType DEF Complete
<1>8. CASE Fail(r)
  <2>1. Goto(r, "reject")
    BY <1>8 DEF Fail
  <2>2. Write(j, Failed(db[j], run[r].made), "failed") \/ KeepRows
    BY <1>8 DEF Fail
  <2>3. db' \in [Jobs -> RowRecords] /\ lost' \in [Jobs -> SUBSET RowStatuses]
    BY <1>2, <1>3, <1>4, <2>2, WriteType
  <2> QED BY <1>1, <1>3, <1>8, <2>1, <2>3, GotoType DEF Fail, TypeOK
<1>9. ASSUME NEW e \in QueueRecords, Settle(r, e)
      PROVE  TypeOK'
  <2>1. IdleRun \in RunRecords
    BY DEF IdleRun, RunRecords, RunPcs
  <2>2. run' \in [Runs -> RunRecords]
    BY <1>9, <2>1 DEF Settle, TypeOK
  <2>3. \A x \in Runs : Live(x)' => x # r /\ run'[x] = run[x]
    BY <1>9 DEF Settle, Live, IdleRun, TypeOK
  <2>4. queue' \in [Jobs -> QueueRecords]
    BY <1>2, <1>9 DEF Settle, TypeOK
  <2> QED BY <1>9, <2>2, <2>3, <2>4 DEF Settle, TypeOK, Live
<1>10. CASE Resolve(r) \/ Reject(r)
  <2>1. Succeeded(queue[j]) \in QueueRecords /\ AttemptFailed(queue[j]) \in QueueRecords
    BY <1>2, QueueOperators
  <2> QED BY <1>9, <1>10, <2>1 DEF Resolve, Reject
<1> QED BY <1>5, <1>6, <1>7, <1>8, <1>10 DEF RunStep

LEMMA TimeoutType ==
  ASSUME TypeOK, NEW r \in Runs, Timeout(r)
  PROVE  TypeOK'
<1> DEFINE j == run[r].job
<1>1. Live(r) /\ j \in Jobs /\ queue[j] \in QueueRecords /\ run[r] \in RunRecords
  BY DEF Timeout, Attended, TypeOK
<1>2. AttemptFailed(queue[j]) \in QueueRecords
  BY <1>1, QueueOperators
<1>3. queue' \in [Jobs -> QueueRecords]
  BY <1>1, <1>2 DEF Timeout, TypeOK
<1>4. run[r].made + 1 \in Nat
  BY <1>1 DEF RunRecords
<1>5. run' \in [Runs -> RunRecords]
  BY <1>1, <1>4 DEF Timeout, TypeOK, RunRecords
<1>6. \A x \in Runs : /\ run'[x].pc = run[x].pc
                      /\ run'[x].job = run[x].job
                      /\ run'[x].server = run[x].server
  BY <1>1 DEF Timeout, TypeOK, RunRecords
<1> QED BY <1>3, <1>5, <1>6 DEF Timeout, TypeOK, Live

LEMMA PickType ==
  ASSUME TypeOK, NEW r \in Runs, NEW s \in Servers, NEW j \in Jobs, Pick(r, s, j)
  PROVE  TypeOK'
<1>1. queue[j] \in QueueRecords /\ queue[j].made \in Nat /\ starts[j] + 1 \in Nat
  BY DEF TypeOK, QueueRecords
<1>2. Taken(queue[j], r) \in QueueRecords
  BY <1>1, QueueOperators
<1>3. queue' \in [Jobs -> QueueRecords] /\ starts' \in [Jobs -> Nat]
  BY <1>1, <1>2 DEF Pick, TypeOK
<1>4. /\ run' \in [Runs -> RunRecords]
      /\ \A x \in Runs : Live(x)' => run'[x].job \in Jobs /\ run'[x].server \in Servers
  BY <1>1 DEF Pick, TypeOK, Live, RunRecords, RunPcs
<1> QED BY <1>3, <1>4 DEF Pick, TypeOK

\* What Bull does to a job by itself.
LEMMA QueueStepType ==
  ASSUME TypeOK, NEW j \in Jobs, DelayedReady(j) \/ LockExpire(j) \/ StalledCheck(j)
  PROVE  TypeOK'
<1>1. queue[j] \in QueueRecords
  BY DEF TypeOK
<1>2. PICK e \in QueueRecords : queue' = [queue EXCEPT ![j] = e]
  BY <1>1, QueueOperators DEF DelayedReady, LockExpire, StalledCheck
<1> QED BY <1>2 DEF DelayedReady, LockExpire, StalledCheck, TypeOK, Live

LEMMA CrashType ==
  ASSUME TypeOK, NEW s \in Servers, Crash(s)
  PROVE  TypeOK'
<1>1. \A j \in Jobs : queue'[j] \in QueueRecords
  BY QueueOperators DEF Crash, TypeOK
<1>2. queue' \in [Jobs -> QueueRecords]
  BY <1>1 DEF Crash
<1>3. IdleRun \in RunRecords /\ IdleRun.pc = "idle"
  BY DEF IdleRun, RunRecords, RunPcs
<1>4. /\ run' \in [Runs -> RunRecords]
      /\ \A x \in Runs : Live(x)' => run'[x] = run[x]
  BY <1>3 DEF Crash, TypeOK, Live
<1>5. IdleCall \in CallRecords /\ IdleCall.pc = "idle"
  BY DEF IdleCall, CallRecords, CallPcs, RowStatuses, Replies
<1>6. /\ call' \in [Calls -> CallRecords]
      /\ \A d \in Calls : call'[d].pc # "idle" => call'[d] = call[d]
  BY <1>5 DEF Crash, TypeOK
<1> QED BY <1>2, <1>4, <1>6 DEF Crash, TypeOK, Live

LEMMA TypeStep ==
  ASSUME TypeOK, [Next]_vars
  PROVE  TypeOK'
<1>1. CASE UNCHANGED vars
  BY <1>1 DEF vars, TypeOK, Live
<1>2. CASE Next
  BY <1>2, ArrivalType, CallStepType, PickType, RunStepType, TimeoutType,
     QueueStepType, CrashType DEF Next
<1> QED BY <1>1, <1>2

\* The variables keep their types in every behaviour of the job system, and
\* whatever is under way has a job and a server.
THEOREM TypeCorrect == Spec => []TypeOK
<1>1. TypeOK /\ [Next]_vars => TypeOK'
  BY TypeStep
<1> QED BY <1>1, InitType, PTL DEF Spec
=============================================================================
