-------------------------- MODULE JobSafetyProofs --------------------------
(***************************************************************************)
(* That the invariants of JobInvariants are inductive, and the safety      *)
(* properties of JobSystem that follow from them.                          *)
(***************************************************************************)
EXTENDS JobInvariants, JobSystemProofs, Integers

\* An execution that goes from one of its steps to the next keeps its job.
LEMMA GotoKeepsJob ==
  ASSUME TypeOK, NEW r \in Runs, NEW p \in RunPcs, Goto(r, p)
  PROVE  /\ run'[r].pc = p
         /\ \A x \in Runs : run'[x].job = run[x].job
         /\ \A x \in Runs \ {r} : run'[x] = run[x]
BY DEF Goto, TypeOK, RunRecords

-----------------------------------------------------------------------------
(* Locks *)

LEMMA LockStep ==
  ASSUME TypeOK, LockInv, [Next]_vars
  PROVE  LockInv'
<1>1. ASSUME UNCHANGED <<queue, run>>
      PROVE  LockInv'
  BY <1>1 DEF LockInv, Live
<1>2. ASSUME NEW r \in Runs, Live(r), NEW p \in RunPcs \ {"idle"}, Goto(r, p), UNCHANGED queue
      PROVE  LockInv'
  <2>1. \A x \in Runs : Live(x) => Live(x)' /\ run'[x].job = run[x].job
    BY <1>2, GotoKeepsJob DEF Live
  <2> QED BY <1>2, <2>1 DEF LockInv
<1>3. ASSUME NEW c \in Calls, NEW s \in Servers, NEW j \in Jobs, SubmitAdd(c, s, j)
      PROVE  LockInv'
  BY <1>3, NamesAssumption DEF SubmitAdd, Added, Absent, LockInv, TypeOK, Live
<1>4. ASSUME NEW c \in Calls, RetryInQueue(c)
      PROVE  LockInv'
  <2> DEFINE j == call[c].job
  <2>1. j \in Jobs /\ run' = run
    BY <1>4 DEF RetryInQueue, TypeOK
  <2>2. CASE CanRetry(queue[j]) /\ queue' = [queue EXCEPT ![j] = Requeued(@)]
    <3>1. queue'[j].holder = NoRun /\ \A k \in Jobs \ {j} : queue'[k] = queue[k]
      BY <2>1, <2>2 DEF CanRetry, Requeued, TypeOK, QueueRecords
    <3> QED BY <2>1, <3>1, NamesAssumption DEF LockInv, Live
  <2> QED BY <1>1, <1>4, <2>1, <2>2 DEF RetryInQueue
<1>5. ASSUME NEW c \in Calls, RemoveFromQueue(c)
      PROVE  LockInv'
  BY <1>5, NamesAssumption DEF RemoveFromQueue, Absent, LockInv, TypeOK, Live
<1>6. ASSUME NEW r \in Runs, NEW s \in Servers, NEW j \in Jobs, Pick(r, s, j)
      PROVE  LockInv'
  <2>1. /\ queue'[j].state = "active" /\ queue'[j].holder = r
        /\ \A k \in Jobs \ {j} : queue'[k] = queue[k]
    BY <1>6 DEF Pick, Taken, TypeOK, QueueRecords
  <2>2. /\ run'[r].pc = "begin" /\ run'[r].job = j
        /\ \A x \in Runs \ {r} : run'[x] = run[x]
    BY <1>6 DEF Pick, TypeOK
  <2>3. \A k \in Jobs : queue[k].holder # r
    BY <1>6 DEF Pick, LockInv
  <2> QED BY <2>1, <2>2, <2>3 DEF LockInv, Live
<1>7. ASSUME NEW r \in Runs, NEW e, e.holder = NoRun, Live(r), Settle(r, e)
      PROVE  LockInv'
  <2>1. /\ \A x \in Runs \ {r} : run'[x] = run[x]
    BY <1>7 DEF Settle, TypeOK
  <2>2. CASE Attended(r)
    <3>1. /\ queue'[run[r].job].holder = NoRun
          /\ \A k \in Jobs \ {run[r].job} : queue'[k] = queue[k]
      BY <1>7, <2>2 DEF Settle, TypeOK
    <3> QED BY <2>1, <3>1, NamesAssumption DEF LockInv, Live
  <2>3. CASE ~Attended(r)
    <3>1. queue' = queue
      BY <1>7, <2>3 DEF Settle
    <3>2. \A k \in Jobs : queue[k].holder # r
      BY <1>7, <2>3 DEF Attended, LockInv
    <3> QED BY <2>1, <3>1, <3>2 DEF LockInv, Live
  <2> QED BY <2>2, <2>3
<1>8. ASSUME NEW r \in Runs, RunStep(r)
      PROVE  LockInv'
  <2>1. CASE Begin(r) \/ Work(r) \/ Complete(r) \/ Fail(r)
    <3>1. Live(r) /\ UNCHANGED queue
      BY <2>1 DEF Begin, Work, Complete, Fail, Update, Live
    <3>2. PICK p \in RunPcs \ {"idle"} : Goto(r, p)
      BY <2>1 DEF Begin, Work, Complete, Fail, Update, RunPcs
    <3> QED BY <1>2, <3>1, <3>2
  <2>2. CASE Resolve(r)
    <3>1. Succeeded(queue[run[r].job]).holder = NoRun /\ Live(r)
      BY <2>2 DEF Resolve, Succeeded, Live, TypeOK, QueueRecords
    <3> QED BY <1>7, <2>2, <3>1 DEF Resolve
  <2>3. CASE Reject(r)
    <3>1. AttemptFailed(queue[run[r].job]).holder = NoRun /\ Live(r)
      BY <2>3 DEF Reject, AttemptFailed, Live, TypeOK, QueueRecords
    <3> QED BY <1>7, <2>3, <3>1 DEF Reject
  <2> QED BY <1>8, <2>1, <2>2, <2>3 DEF RunStep
<1>9. ASSUME NEW r \in Runs, Timeout(r)
      PROVE  LockInv'
  <2>1. AttemptFailed(queue[run[r].job]).holder = NoRun
    BY <1>9 DEF Timeout, Attended, AttemptFailed, TypeOK, QueueRecords
  <2>2. /\ queue'[run[r].job].holder = NoRun
        /\ \A k \in Jobs \ {run[r].job} : queue'[k] = queue[k]
    BY <1>9, <2>1 DEF Timeout, Attended, TypeOK
  <2>3. \A x \in Runs : run'[x].pc = run[x].pc /\ run'[x].job = run[x].job
    BY <1>9 DEF Timeout, TypeOK, RunRecords
  <2> QED BY <2>2, <2>3, NamesAssumption DEF LockInv, Live
<1>10. ASSUME NEW j \in Jobs, DelayedReady(j) \/ LockExpire(j) \/ StalledCheck(j)
       PROVE  LockInv'
  <2>1. queue'[j].holder = NoRun /\ \A k \in Jobs \ {j} : queue'[k] = queue[k]
    <3>1. CASE DelayedReady(j)
      BY <3>1 DEF DelayedReady, Promoted, LockInv, TypeOK, QueueRecords
    <3>2. CASE LockExpire(j)
      BY <3>2 DEF LockExpire, Unlocked, TypeOK, QueueRecords
    <3>3. CASE StalledCheck(j)
      BY <3>3 DEF StalledCheck, Recovered, TypeOK, QueueRecords
    <3> QED BY <1>10, <3>1, <3>2, <3>3
  <2>2. run' = run
    BY <1>10 DEF DelayedReady, LockExpire, StalledCheck
  <2> QED BY <2>1, <2>2, NamesAssumption DEF LockInv, Live
<1>11. ASSUME NEW s \in Servers, Crash(s)
       PROVE  LockInv'
  <2>1. \A k \in Jobs : /\ queue'[k].state = queue[k].state
                        /\ queue'[k].holder \in {queue[k].holder, DeadRun}
                        /\ queue'[k].holder = DeadRun => queue[k].state = "active" \/ queue'[k] = queue[k]
    BY <1>11, NamesAssumption DEF Crash, LockInv, TypeOK, QueueRecords
  <2>2. \A k \in Jobs, r \in Runs :
          queue'[k].holder = r => queue[k].holder = r /\ run'[r] = run[r]
    BY <1>11, NamesAssumption DEF Crash, TypeOK, QueueRecords
  <2> QED BY <2>1, <2>2, NamesAssumption DEF LockInv, Live
<1>12. CASE UNCHANGED vars
  BY <1>1, <1>12 DEF vars
<1>13. CASE Next
  <2>1. ASSUME NEW c \in Calls, NEW s \in Servers, NEW j \in Jobs, Arrival(c, s, j)
        PROVE  LockInv'
    BY <1>1, <1>3, <2>1 DEF Arrival, ReadForRetry, ReadForCancel, ReadForStatus, Request
  <2>2. ASSUME NEW c \in Calls, CallStep(c)
        PROVE  LockInv'
    BY <1>1, <1>4, <1>5, <2>2 DEF CallStep, InsertRow, MarkCancelled, AskQueue, Respond
  <2> QED BY <1>6, <1>8, <1>9, <1>10, <1>11, <1>13, <2>1, <2>2 DEF Next
<1> QED BY <1>12, <1>13
\* While Bull never gives up on a running processor, it runs under its lock.
LEMMA ExclusiveStep ==
  ASSUME Timeouts = FALSE, TypeOK, LockInv, ExclusiveInv, [Next]_vars
  PROVE  ExclusiveInv'
<1>1. ASSUME UNCHANGED <<queue, run>>
      PROVE  ExclusiveInv'
  BY <1>1 DEF ExclusiveInv, Live
<1>2. ASSUME run' = run, NEW j \in Jobs, \A x \in Runs : queue[j].holder # x,
             \A k \in Jobs \ {j} : queue'[k] = queue[k]
      PROVE  ExclusiveInv'
  BY <1>2 DEF ExclusiveInv, TypeOK, Live
<1>3. ASSUME NEW c \in Calls, NEW s \in Servers, NEW j \in Jobs, SubmitAdd(c, s, j)
      PROVE  ExclusiveInv'
  <2>1. run' = run /\ \A k \in Jobs \ {j} : queue'[k] = queue[k]
    BY <1>3 DEF SubmitAdd, TypeOK
  <2>2. \A x \in Runs : queue[j].holder # x
    BY <1>3, NamesAssumption DEF SubmitAdd, Fresh, LockInv
  <2> QED BY <1>2, <2>1, <2>2
<1>4. ASSUME NEW c \in Calls, RetryInQueue(c) \/ RemoveFromQueue(c)
      PROVE  ExclusiveInv'
  <2>1. run' = run /\ call[c].job \in Jobs
    BY <1>4 DEF RetryInQueue, RemoveFromQueue, TypeOK
  <2>2. CASE queue[call[c].job].holder = NoRun
    <3>1. \A k \in Jobs \ {call[c].job} : queue'[k] = queue[k]
      BY <1>4, <2>1 DEF RetryInQueue, RemoveFromQueue, TypeOK
    <3> QED BY <1>2, <2>1, <2>2, <3>1, NamesAssumption
  <2>3. CASE queue[call[c].job].holder # NoRun
    BY <1>1, <1>4, <2>1, <2>3 DEF RetryInQueue, RemoveFromQueue, CanRetry, CanRemove
  <2> QED BY <2>2, <2>3
<1>5. ASSUME NEW r \in Runs, NEW s \in Servers, NEW j \in Jobs, Pick(r, s, j)
      PROVE  ExclusiveInv'
  <2>1. /\ queue'[j].holder = r
        /\ \A k \in Jobs \ {j} : queue'[k] = queue[k]
    BY <1>5 DEF Pick, Taken, TypeOK, QueueRecords
  <2>2. /\ run'[r].job = j
        /\ \A x \in Runs \ {r} : run'[x] = run[x]
    BY <1>5 DEF Pick, TypeOK
  <2>3. \A x \in Runs : queue[j].holder # x
    BY <1>5, NamesAssumption DEF Pick, LockInv
  <2> QED BY <2>1, <2>2, <2>3 DEF ExclusiveInv, TypeOK, Live
<1>6. ASSUME NEW r \in Runs, RunStep(r)
      PROVE  ExclusiveInv'
  <2>1. CASE Begin(r) \/ Work(r) \/ Complete(r) \/ Fail(r)
    <3>1. Live(r) /\ UNCHANGED queue
      BY <2>1 DEF Begin, Work, Complete, Fail, Update, Live
    <3>2. PICK p \in RunPcs : Goto(r, p)
      BY <2>1 DEF Begin, Work, Complete, Fail, Update, RunPcs
    <3>3. \A x \in Runs : Live(x)' => Live(x) /\ run'[x].job = run[x].job
      BY <3>1, <3>2, GotoKeepsJob DEF Live
    <3> QED BY <3>1, <3>3 DEF ExclusiveInv
  <2>2. CASE Resolve(r) \/ Reject(r)
    <3>1. /\ run'[r].pc = "idle" /\ Live(r)
          /\ \A x \in Runs \ {r} : run'[x] = run[x]
      BY <2>2 DEF Resolve, Reject, Settle, Live, IdleRun, TypeOK
    <3>2. queue[run[r].job].holder = r /\ run[r].job \in Jobs
      BY <3>1 DEF ExclusiveInv, TypeOK
    <3>3. \A k \in Jobs \ {run[r].job} : queue'[k] = queue[k]
      BY <2>2, <3>2 DEF Resolve, Reject, Settle, TypeOK
    <3>4. \A x \in Runs \ {r} : Live(x) => run[x].job # run[r].job
      BY <3>2 DEF ExclusiveInv
    <3> QED BY <3>1, <3>3, <3>4 DEF ExclusiveInv, Live, TypeOK
  <2> QED BY <1>6, <2>1, <2>2 DEF RunStep
<1>7. ASSUME NEW j \in Jobs, DelayedReady(j) \/ LockExpire(j) \/ StalledCheck(j)
      PROVE  ExclusiveInv'
  <2>1. run' = run /\ \A k \in Jobs \ {j} : queue'[k] = queue[k]
    BY <1>7 DEF DelayedReady, LockExpire, StalledCheck, TypeOK
  <2>2. \A x \in Runs : queue[j].holder # x
    BY <1>7, NamesAssumption DEF DelayedReady, LockExpire, StalledCheck, LockInv
  <2> QED BY <1>2, <2>1, <2>2
<1>8. ASSUME NEW s \in Servers, Crash(s)
      PROVE  ExclusiveInv'
  <2>1. \A x \in Runs : Live(x)' => run'[x] = run[x] /\ run[x].server # s
    BY <1>8 DEF Crash, Live, IdleRun
  <2>2. \A k \in Jobs, x \in Runs :
          queue[k].holder = x /\ run[x].server # s => queue'[k] = queue[k]
    BY <1>8 DEF Crash
  <2> QED BY <2>1, <2>2 DEF ExclusiveInv, TypeOK, Live
<1>9. CASE UNCHANGED vars
  BY <1>1, <1>9 DEF vars
<1>10. CASE Next
  <2>1. ASSUME NEW c \in Calls, NEW s \in Servers, NEW j \in Jobs, Arrival(c, s, j)
        PROVE  ExclusiveInv'
    BY <1>1, <1>3, <2>1 DEF Arrival, ReadForRetry, ReadForCancel, ReadForStatus, Request
  <2>2. ASSUME NEW c \in Calls, CallStep(c)
        PROVE  ExclusiveInv'
    BY <1>1, <1>4, <2>2 DEF CallStep, InsertRow, MarkCancelled, AskQueue, Respond
  <2> QED BY <1>5, <1>6, <1>7, <1>8, <1>10, <2>1, <2>2 DEF Next, Timeout
<1> QED BY <1>9, <1>10

LEMMA InitLocks == Init => LockInv /\ ExclusiveInv
BY NamesAssumption DEF Init, LockInv, ExclusiveInv, Absent, IdleRun, Live

\* If Bull's timeout never fires, no job is ever processed by two executions
\* at once, however often processes die and whatever PostgreSQL refuses.
THEOREM OneProcessor ==
  ASSUME Timeouts = FALSE
  PROVE  Spec => []OneProcessorPerJob
<1>1. Init => TypeOK /\ LockInv /\ ExclusiveInv
  BY InitType, InitLocks
<1>2. TypeOK /\ LockInv /\ ExclusiveInv /\ [Next]_vars
        => TypeOK' /\ LockInv' /\ ExclusiveInv'
  BY TypeStep, LockStep, ExclusiveStep
<1>3. ExclusiveInv => OneProcessorPerJob
  BY DEF ExclusiveInv, OneProcessorPerJob
<1> QED BY <1>1, <1>2, <1>3, PTL DEF Spec
-----------------------------------------------------------------------------
(* Rows and requests *)

\* A row, once there, stays; only createJob brings one about.
LEMMA RowPersists ==
  ASSUME NEW w \in RowRecords, NEW n \in Nat
  PROVE  /\ Processing(w).status = "none" <=> w.status = "none"
         /\ Completed(w).status = "none" <=> w.status = "none"
         /\ Failed(w, n).status = "none" <=> w.status = "none"
         /\ Cancelled(w).status = "none" <=> w.status = "none"
BY DEF Processing, Completed, Failed, Cancelled, Updated, RowRecords

LEMMA RunStepRows ==
  ASSUME TypeOK, NEW r \in Runs, RunStep(r)
  PROVE  \A j \in Jobs : db'[j].status = "none" <=> db[j].status = "none"
<1>1. run[r].job \in Jobs /\ run[r].made \in Nat /\ db[run[r].job] \in RowRecords
  BY DEF RunStep, Begin, Work, Complete, Fail, Resolve, Reject, Live, TypeOK, RunRecords
<1>2. CASE Begin(r) \/ Complete(r) \/ Fail(r)
  <2>1. PICK w \in {Processing(db[run[r].job]), Completed(db[run[r].job]),
                    Failed(db[run[r].job], run[r].made)}, v \in RowStatuses :
          Write(run[r].job, w, v) \/ KeepRows
    BY <1>2 DEF Begin, Complete, Fail, Update, RowStatuses
  <2>2. w.status = "none" <=> db[run[r].job].status = "none"
    BY <1>1, <2>1, RowPersists
  <2> QED BY <1>1, <2>1, <2>2 DEF Write, KeepRows, TypeOK
<1>3. CASE ~(Begin(r) \/ Complete(r) \/ Fail(r))
  BY <1>3 DEF RunStep, Work, Resolve, Reject, Settle
<1> QED BY <1>2, <1>3

LEMMA RequestStep ==
  ASSUME TypeOK, RequestInv, [Next]_vars
  PROVE  RequestInv'
<1>1. ASSUME \A c \in Calls : call'[c].pc # "idle" => call'[c] = call[c],
             \A j \in Jobs : db'[j].status = "none" <=> db[j].status = "none",
             \A j \in Jobs : queue[j].state # "absent" => queue'[j].state # "absent"
      PROVE  RequestInv'
  BY <1>1 DEF RequestInv, TypeOK
<1>2. ASSUME NEW c \in Calls, NEW x \in CallRecords, call' = [call EXCEPT ![c] = x],
             UNCHANGED <<queue, db>>, x.pc \in {"idle", "answered"}
                \/ (x.pc \in {"retry", "remove", "ask"} /\ db[x.job].status # "none")
      PROVE  RequestInv'
  BY <1>2 DEF RequestInv, TypeOK
<1>3. ASSUME NEW c \in Calls, NEW s \in Servers, NEW j \in Jobs, SubmitAdd(c, s, j)
      PROVE  RequestInv'
  <2>1. /\ call'[c].pc = "insert" /\ call'[c].job = j
        /\ \A d \in Calls \ {c} : call'[d] = call[d]
    BY <1>3 DEF SubmitAdd, Under, IdleCall, TypeOK
  <2>2. /\ queue'[j].state # "absent" /\ queue[j].state = "absent"
        /\ \A k \in Jobs \ {j} : queue'[k] = queue[k]
    BY <1>3 DEF SubmitAdd, Fresh, Added, Absent, TypeOK
  <2>3. db' = db /\ db[j].status = "none"
    BY <1>3 DEF SubmitAdd, Fresh
  <2> QED BY <2>1, <2>2, <2>3 DEF RequestInv, TypeOK
<1>4. ASSUME NEW c \in Calls, NEW s \in Servers, NEW j \in Jobs, NEW u \in Users,
             NEW p \in {"retry", "remove", "ask"}, NEW x \in CallRecords,
             x.job = j, x.pc = p \/ x.pc = "answered", Request(c, s, j, u, x)
      PROVE  RequestInv'
  <2>1. CASE call' = [call EXCEPT ![c] = x] /\ db[j].status # "none"
    BY <1>2, <1>4, <2>1 DEF Request
  <2>2. CASE \E a \in {"error", "not_found", "forbidden"} :
               call' = [call EXCEPT ![c] = Answered(s, j, a)]
    <3>1. PICK a \in {"error", "not_found", "forbidden"} :
            call' = [call EXCEPT ![c] = Answered(s, j, a)]
      BY <2>2
    <3>2. a \in Replies /\ "insert" \in CallPcs /\ "none" \in RowStatuses
      BY DEF Replies, CallPcs, RowStatuses
    <3>3. Answered(s, j, a) \in CallRecords
      BY <3>2, CallOperators
    <3>4. Answered(s, j, a).pc = "answered"
      BY DEF Answered, Under, IdleCall
    <3> QED BY <1>2, <1>4, <3>1, <3>3, <3>4 DEF Request
  <2> QED BY <1>4, <2>1, <2>2 DEF Request
<1>5. ASSUME NEW c \in Calls, NEW s \in Servers, NEW j \in Jobs, Arrival(c, s, j)
      PROVE  RequestInv'
  <2>1. /\ {"retry", "remove", "ask"} \subseteq CallPcs
        /\ "bad_request" \in Replies /\ "none" \in Replies /\ "none" \in RowStatuses
        /\ db[j].status \in RowStatuses
    BY DEF CallPcs, Replies, RowStatuses, TypeOK, RowRecords
  <2>2. \A p \in CallPcs : /\ Under(s, j, p) \in CallRecords
                           /\ [Under(s, j, p) EXCEPT !.seen = db[j].status] \in CallRecords
    BY <2>1, CallOperators
  <2>3. Answered(s, j, "bad_request") \in CallRecords
    BY <2>1, CallOperators
  <2>4. /\ \A p \in CallPcs : /\ Under(s, j, p).job = j /\ Under(s, j, p).pc = p
                              /\ [Under(s, j, p) EXCEPT !.seen = db[j].status].job = j
                              /\ [Under(s, j, p) EXCEPT !.seen = db[j].status].pc = p
        /\ Answered(s, j, "bad_request").job = j
        /\ Answered(s, j, "bad_request").pc = "answered"
    BY DEF Under, Answered, IdleCall
  <2>5. ASSUME NEW u \in Users, ReadForRetry(c, s, j, u)
        PROVE  RequestInv'
    BY <1>4, <2>1, <2>2, <2>3, <2>4, <2>5 DEF ReadForRetry
  <2>6. ASSUME NEW u \in Users, ReadForCancel(c, s, j, u)
        PROVE  RequestInv'
    BY <1>4, <2>1, <2>2, <2>4, <2>6 DEF ReadForCancel
  <2>7. ASSUME NEW u \in Users, ReadForStatus(c, s, j, u)
        PROVE  RequestInv'
    BY <1>4, <2>1, <2>2, <2>4, <2>7 DEF ReadForStatus
  <2> QED BY <1>3, <1>5, <2>5, <2>6, <2>7 DEF Arrival
<1>6. ASSUME NEW c \in Calls, CallStep(c)
      PROVE  RequestInv'
  <2> DEFINE j == call[c].job
  <2>1. call[c].pc # "idle" /\ j \in Jobs
    BY <1>6 DEF CallStep, InsertRow, RetryInQueue, RemoveFromQueue, MarkCancelled,
                AskQueue, Respond, TypeOK
  <2>2. \A a : Answer(c, a) => /\ call'[c].pc = "answered"
                               /\ \A d \in Calls \ {c} : call'[d] = call[d]
    BY DEF Answer, Answered, Under, IdleCall, TypeOK
  <2>3. CASE InsertRow(c)
    <3>1. /\ call'[c].pc = "answered" /\ queue' = queue
          /\ \A d \in Calls \ {c} : call'[d] = call[d]
      BY <2>2, <2>3 DEF InsertRow
    <3>2. /\ \A k \in Jobs \ {j} : db'[k] = db[k]
          /\ db[j].status # "none" => db'[j].status # "none"
      BY <2>1, <2>3 DEF InsertRow, Created, NoRow, TypeOK
    <3>3. \A d \in Calls \ {c} : call[d].pc = "insert" => call[d].job # j
      BY <2>3 DEF InsertRow, RequestInv
    <3> QED BY <2>1, <3>1, <3>2, <3>3 DEF RequestInv, TypeOK
  <2>4. CASE RetryInQueue(c)
    <3>1. /\ call'[c].pc = "answered" /\ db' = db
          /\ \A d \in Calls \ {c} : call'[d] = call[d]
      BY <2>2, <2>4 DEF RetryInQueue
    <3>2. \A k \in Jobs : queue[k].state # "absent" => queue'[k].state # "absent"
      BY <2>1, <2>4 DEF RetryInQueue, Requeued, TypeOK, QueueRecords
    <3> QED BY <2>1, <3>1, <3>2 DEF RequestInv, TypeOK
  <2>5. CASE RemoveFromQueue(c)
    <3>1. /\ db' = db /\ db[j].status # "none"
          /\ \A k \in Jobs \ {j} : queue'[k] = queue[k]
      BY <2>1, <2>5 DEF RemoveFromQueue, RequestInv, TypeOK
    <3>2. /\ call'[c].pc \in {"mark", "answered"} /\ (call'[c].pc = "mark" => call'[c].job = j)
          /\ \A d \in Calls \ {c} : call'[d] = call[d]
      BY <2>2, <2>5 DEF RemoveFromQueue, TypeOK, CallRecords
    <3> QED BY <2>1, <3>1, <3>2 DEF RequestInv, TypeOK
  <2>6. CASE MarkCancelled(c)
    <3>1. /\ call'[c].pc = "answered" /\ queue' = queue
          /\ \A d \in Calls \ {c} : call'[d] = call[d]
      BY <2>2, <2>6 DEF MarkCancelled
    <3>2. db[j] \in RowRecords /\ (Write(j, Cancelled(db[j]), "cancelled") \/ KeepRows)
      BY <2>1, <2>6 DEF MarkCancelled, TypeOK
    <3>3. Cancelled(db[j]).status = "none" <=> db[j].status = "none"
      BY <3>2 DEF Cancelled, Updated
    <3>4. \A k \in Jobs : db'[k].status = "none" <=> db[k].status = "none"
      BY <2>1, <3>2, <3>3 DEF Write, KeepRows, TypeOK
    <3> QED BY <2>1, <3>1, <3>4 DEF RequestInv, TypeOK
  <2>7. CASE AskQueue(c) \/ Respond(c)
    <3>1. /\ call'[c].pc \in {"idle", "answered"} /\ UNCHANGED <<queue, db>>
          /\ \A d \in Calls \ {c} : call'[d] = call[d]
      BY <2>2, <2>7 DEF AskQueue, Respond, IdleCall, TypeOK
    <3> QED BY <3>1 DEF RequestInv, TypeOK
  <2> QED BY <1>6, <2>3, <2>4, <2>5, <2>6, <2>7 DEF CallStep
<1>7. ASSUME NEW r \in Runs, NEW s \in Servers, NEW j \in Jobs, Pick(r, s, j)
      PROVE  RequestInv'
  BY <1>1, <1>7 DEF Pick, Taken, TypeOK, QueueRecords
<1>8. ASSUME NEW r \in Runs, RunStep(r)
      PROVE  RequestInv'
  <2>1. call' = call
    BY <1>8 DEF RunStep, Begin, Work, Complete, Fail, Update, Resolve, Reject, Settle
  <2>2. \A j \in Jobs : db'[j].status = "none" <=> db[j].status = "none"
    BY <1>8, RunStepRows
  <2>3. \A j \in Jobs : queue[j].state # "absent" => queue'[j].state # "absent"
    <3>1. CASE Begin(r) \/ Work(r) \/ Complete(r) \/ Fail(r)
      BY <3>1 DEF Begin, Work, Complete, Fail, Update
    <3>2. CASE Resolve(r)
      BY <3>2 DEF Resolve, Settle, Succeeded, TypeOK, QueueRecords, Live
    <3>3. CASE Reject(r)
      BY <3>3 DEF Reject, Settle, AttemptFailed, TypeOK, QueueRecords, Live
    <3> QED BY <1>8, <3>1, <3>2, <3>3 DEF RunStep
  <2> QED BY <1>1, <2>1, <2>2, <2>3
<1>9. ASSUME NEW r \in Runs, Timeout(r)
      PROVE  RequestInv'
  <2>1. \A j \in Jobs : queue[j].state # "absent" => queue'[j].state # "absent"
    BY <1>9 DEF Timeout, AttemptFailed, Attended, TypeOK, QueueRecords
  <2> QED BY <1>1, <1>9, <2>1 DEF Timeout
<1>10. ASSUME NEW j \in Jobs, DelayedReady(j) \/ LockExpire(j) \/ StalledCheck(j)
       PROVE  RequestInv'
  <2>1. \A k \in Jobs : queue[k].state # "absent" => queue'[k].state # "absent"
    <3>1. CASE DelayedReady(j)
      BY <3>1 DEF DelayedReady, Promoted, TypeOK, QueueRecords
    <3>2. CASE LockExpire(j)
      BY <3>2 DEF LockExpire, Unlocked, TypeOK, QueueRecords
    <3>3. CASE StalledCheck(j)
      BY <3>3 DEF StalledCheck, Recovered, TypeOK, QueueRecords
    <3> QED BY <1>10, <3>1, <3>2, <3>3
  <2> QED BY <1>1, <1>10, <2>1 DEF DelayedReady, LockExpire, StalledCheck
<1>11. ASSUME NEW s \in Servers, Crash(s)
       PROVE  RequestInv'
  <2>1. \A c \in Calls : call'[c].pc # "idle" => call'[c] = call[c]
    BY <1>11 DEF Crash, IdleCall
  <2>2. \A k \in Jobs : queue'[k].state = queue[k].state
    BY <1>11 DEF Crash, TypeOK, QueueRecords
  <2> QED BY <1>1, <1>11, <2>1, <2>2 DEF Crash
<1>12. CASE UNCHANGED vars
  BY <1>1, <1>12 DEF vars
<1>13. CASE Next
  BY <1>5, <1>6, <1>7, <1>8, <1>9, <1>10, <1>11, <1>13 DEF Next
<1> QED BY <1>12, <1>13
-----------------------------------------------------------------------------
(* How often a job is executed *)

\* An accounted job is within its budget.
LEMMA AccountedBudget ==
  ASSUME NEW e \in QueueRecords, NEW st \in Nat, NEW rt \in Nat, Accounted(e, st, rt)
  PROVE  st <= MaxAttempts + MaxStalls + rt
<1> DEFINE x == Over(e.made, MaxAttempts - 1)
           y == Over(e.stalls, MaxStalls)
<1>1. /\ e.made \in Nat /\ e.stalls \in Nat
      /\ MaxAttempts \in Nat /\ MaxAttempts - 1 \in Int /\ MaxStalls \in Nat
  BY CountsAssumption DEF QueueRecords
<1>2. /\ x \in Int /\ e.made <= MaxAttempts - 1 + x
      /\ y \in Int /\ e.stalls <= MaxStalls + y
  BY <1>1 DEF Over
<1>3. x + y <= rt + (IF e.state = "failed" THEN 1 ELSE 0)
  BY DEF Accounted, Excess
<1>4. st = e.made + e.stalls + (IF e.state \in {"active", "completed"} THEN 1 ELSE 0)
  BY DEF Accounted
<1> HIDE DEF x, y
<1>5. CASE e.state = "failed"
  BY <1>1, <1>2, <1>3, <1>4, <1>5
<1>6. CASE e.state # "failed"
  BY <1>1, <1>2, <1>3, <1>4, <1>6
<1> QED BY <1>5, <1>6

\* What each operator on a queue entry does to the account.
LEMMA AccountedOperators ==
  ASSUME NEW e \in QueueRecords, NEW st \in Nat, NEW rt \in Nat, Accounted(e, st, rt)
  PROVE  /\ e.state = "waiting" => \A r \in Runs : Accounted(Taken(e, r), st + 1, rt)
         /\ e.state = "active" => /\ Accounted(Succeeded(e), st, rt)
                                  /\ Accounted(AttemptFailed(e), st, rt)
                                  /\ Accounted(Recovered(e), st, rt)
         /\ e.state = "delayed" => Accounted(Promoted(e), st, rt)
         /\ e.state = "failed" => Accounted(Requeued(e), st, rt + 1)
         /\ Accounted(Unlocked(e), st, rt)
         /\ Accounted([e EXCEPT !.holder = DeadRun], st, rt)
<1>1. /\ e.made \in Nat /\ e.stalls \in Nat
      /\ MaxAttempts \in Nat /\ MaxAttempts - 1 \in Int /\ MaxStalls \in Nat
  BY CountsAssumption DEF QueueRecords
<1>2. /\ Over(e.made, MaxAttempts - 1) \in Int /\ Over(e.stalls, MaxStalls) \in Int
  BY <1>1 DEF Over
<1>3. ASSUME e.state = "waiting", NEW r \in Runs
      PROVE  Accounted(Taken(e, r), st + 1, rt)
  BY <1>1, <1>2, <1>3 DEF Accounted, Excess, Taken, QueueRecords
<1>4. ASSUME e.state = "active"
      PROVE  Accounted(Succeeded(e), st, rt)
  BY <1>1, <1>2, <1>4 DEF Accounted, Excess, Succeeded, QueueRecords
<1>5. ASSUME e.state = "active"
      PROVE  Accounted(AttemptFailed(e), st, rt)
  <2> DEFINE f == AttemptFailed(e)
  <2>1. /\ f.made = e.made + 1 /\ f.stalls = e.stalls
        /\ f.state = IF e.made + 1 < MaxAttempts THEN "delayed" ELSE "failed"
    BY DEF AttemptFailed, QueueRecords
  <2> SUFFICES Accounted(f, st, rt)
    OBVIOUS
  <2> HIDE DEF f
  <2>2. Excess(e) <= rt /\ st = e.made + e.stalls + 1
    BY <1>5 DEF Accounted
  <2>3. CASE e.made + 1 < MaxAttempts
    <3>1. Over(e.made + 1, MaxAttempts - 1) = Over(e.made, MaxAttempts - 1)
      BY <1>1, <2>3 DEF Over
    <3> QED BY <1>1, <1>2, <2>1, <2>2, <2>3, <3>1 DEF Accounted, Excess
  <2>4. CASE ~(e.made + 1 < MaxAttempts)
    <3>1. /\ Over(e.made + 1, MaxAttempts - 1) <= Over(e.made, MaxAttempts - 1) + 1
          /\ Over(e.made + 1, MaxAttempts - 1) \in Int
      BY <1>1, <2>4 DEF Over
    <3> QED BY <1>1, <1>2, <2>1, <2>2, <2>4, <3>1 DEF Accounted, Excess
  <2> QED BY <2>3, <2>4
<1>6. ASSUME e.state = "active"
      PROVE  Accounted(Recovered(e), st, rt)
  <2> DEFINE f == Recovered(e)
  <2>1. /\ f.made = e.made /\ f.stalls = e.stalls + 1
        /\ f.state = IF e.stalls + 1 > MaxStalls THEN "failed" ELSE "waiting"
    BY DEF Recovered, QueueRecords
  <2> SUFFICES Accounted(f, st, rt)
    OBVIOUS
  <2> HIDE DEF f
  <2>2. Excess(e) <= rt /\ st = e.made + e.stalls + 1
    BY <1>6 DEF Accounted
  <2>3. CASE e.stalls + 1 > MaxStalls
    <3>1. /\ Over(e.stalls + 1, MaxStalls) <= Over(e.stalls, MaxStalls) + 1
          /\ Over(e.stalls + 1, MaxStalls) \in Int
      BY <1>1, <2>3 DEF Over
    <3> QED BY <1>1, <1>2, <2>1, <2>2, <2>3, <3>1 DEF Accounted, Excess
  <2>4. CASE ~(e.stalls + 1 > MaxStalls)
    <3>1. Over(e.stalls + 1, MaxStalls) = Over(e.stalls, MaxStalls)
      BY <1>1, <2>4 DEF Over
    <3> QED BY <1>1, <1>2, <2>1, <2>2, <2>4, <3>1 DEF Accounted, Excess
  <2> QED BY <2>3, <2>4
<1>7. e.state = "delayed" => Accounted(Promoted(e), st, rt)
  BY <1>1, <1>2 DEF Accounted, Excess, Promoted, QueueRecords
<1>8. e.state = "failed" => Accounted(Requeued(e), st, rt + 1)
  BY <1>1, <1>2 DEF Accounted, Excess, Requeued, QueueRecords
<1>9. Accounted(Unlocked(e), st, rt) /\ Accounted([e EXCEPT !.holder = DeadRun], st, rt)
  BY <1>1, <1>2 DEF Accounted, Excess, Unlocked, QueueRecords
<1> QED BY <1>3, <1>4, <1>5, <1>6, <1>7, <1>8, <1>9

\* A job fresh in the queue has an empty account.
LEMMA AccountedAdded ==
  ASSUME NEW rt \in Nat
  PROVE  Accounted(Added, 0, rt)
<1>1. MaxAttempts \in Nat \ {0} /\ MaxStalls \in Nat
  BY CountsAssumption
<1>2. Added.made = 0 /\ Added.stalls = 0 /\ Added.state = "waiting"
  BY DEF Added, Absent
<1> QED BY <1>1, <1>2 DEF Accounted, Excess, Over
LEMMA BudgetStep ==
  ASSUME TypeOK, LockInv, RequestInv, BudgetInv, [Next]_vars
  PROVE  BudgetInv'
\* The general step: j may change, the other jobs keep their accounts.
<1>1. ASSUME NEW j \in Jobs, TypeOK',
             \A k \in Jobs : db'[k].status = "none" => db[k].status = "none",
             \A k \in Jobs \ {j} : /\ queue'[k] = queue[k]
                                   /\ starts'[k] = starts[k] /\ retries'[k] = retries[k],
             queue'[j].state # "absent" => Accounted(queue'[j], starts'[j], retries'[j]),
             queue'[j].state = "absent" =>
               /\ starts'[j] <= MaxAttempts + MaxStalls + retries'[j]
               /\ db'[j].status = "none" => starts'[j] = 0
      PROVE  BudgetInv'
  <2>1. starts'[j] <= MaxAttempts + MaxStalls + retries'[j]
    <3>1. queue'[j] \in QueueRecords /\ starts'[j] \in Nat /\ retries'[j] \in Nat
      BY <1>1 DEF TypeOK
    <3> QED BY <1>1, <3>1, AccountedBudget
  <2>2. \A k \in Jobs : starts'[k] <= MaxAttempts + MaxStalls + retries'[k]
    BY <1>1, <2>1 DEF BudgetInv, ExecutionBudget
  <2>3. \A k \in Jobs : queue'[k].state # "absent" => Accounted(queue'[k], starts'[k], retries'[k])
    BY <1>1 DEF BudgetInv
  <2>4. \A k \in Jobs : queue'[k].state = "absent" /\ db'[k].status = "none" => starts'[k] = 0
    BY <1>1 DEF BudgetInv
  <2> QED BY <2>2, <2>3, <2>4 DEF BudgetInv, ExecutionBudget
<1>2. ASSUME UNCHANGED <<queue, starts, retries>>,
             \A k \in Jobs : db'[k].status = "none" => db[k].status = "none"
      PROVE  BudgetInv'
  BY <1>2 DEF BudgetInv, ExecutionBudget
<1>3. TypeOK'
  BY TypeStep
<1>4. ASSUME NEW c \in Calls, NEW s \in Servers, NEW j \in Jobs, SubmitAdd(c, s, j)
      PROVE  BudgetInv'
  <2>1. /\ starts[j] = 0 /\ retries[j] \in Nat
        /\ UNCHANGED <<db, starts, retries>>
        /\ queue'[j] = Added /\ Added.state = "waiting"
        /\ \A k \in Jobs \ {j} : queue'[k] = queue[k]
    BY <1>4 DEF SubmitAdd, Fresh, BudgetInv, TypeOK, Added, Absent
  <2>2. Accounted(Added, 0, retries[j])
    BY <2>1, AccountedAdded
  <2> QED BY <1>1, <1>3, <2>1, <2>2
<1>5. ASSUME NEW c \in Calls, RetryInQueue(c)
      PROVE  BudgetInv'
  <2> DEFINE j == call[c].job
  <2>1. j \in Jobs /\ UNCHANGED <<db, starts>>
    BY <1>5 DEF RetryInQueue, TypeOK
  <2>2. CASE UNCHANGED <<queue, retries>>
    BY <1>2, <2>1, <2>2
  <2>3. CASE /\ CanRetry(queue[j])
             /\ queue' = [queue EXCEPT ![j] = Requeued(@)]
             /\ retries' = [retries EXCEPT ![j] = @ + 1]
    <3>1. /\ queue'[j] = Requeued(queue[j]) /\ queue'[j].state = "waiting"
          /\ retries'[j] = retries[j] + 1
          /\ \A k \in Jobs \ {j} : queue'[k] = queue[k] /\ retries'[k] = retries[k]
      BY <2>1, <2>3 DEF TypeOK, Requeued, QueueRecords
    <3>2. /\ queue[j] \in QueueRecords /\ starts[j] \in Nat /\ retries[j] \in Nat
          /\ Accounted(queue[j], starts[j], retries[j]) /\ queue[j].state = "failed"
      BY <2>1, <2>3 DEF TypeOK, CanRetry, BudgetInv
    <3>3. Accounted(queue'[j], starts'[j], retries'[j])
      BY <2>1, <3>1, <3>2, AccountedOperators
    <3> HIDE DEF j
    <3> QED BY <1>1, <1>3, <2>1, <3>1, <3>3
  <2> QED BY <1>5, <2>2, <2>3 DEF RetryInQueue
<1>6. ASSUME NEW c \in Calls, RemoveFromQueue(c)
      PROVE  BudgetInv'
  <2> DEFINE j == call[c].job
  <2>1. j \in Jobs /\ UNCHANGED <<db, starts, retries>> /\ db[j].status # "none"
    BY <1>6 DEF RemoveFromQueue, TypeOK, RequestInv
  <2>2. CASE queue' = queue
    BY <1>2, <2>1, <2>2
  <2>3. CASE queue' = [queue EXCEPT ![j] = Absent]
    <3>1. /\ queue'[j].state = "absent"
          /\ \A k \in Jobs \ {j} : queue'[k] = queue[k]
      BY <2>1, <2>3 DEF TypeOK, Absent
    <3>2. starts[j] <= MaxAttempts + MaxStalls + retries[j]
      BY <2>1 DEF BudgetInv, ExecutionBudget
    <3> HIDE DEF j
    <3> QED BY <1>1, <1>3, <2>1, <3>1, <3>2
  <2> QED BY <1>6, <2>2, <2>3 DEF RemoveFromQueue
<1>7. ASSUME NEW r \in Runs, NEW s \in Servers, NEW j \in Jobs, Pick(r, s, j)
      PROVE  BudgetInv'
  <2>1. /\ UNCHANGED <<db, retries>> /\ starts'[j] = starts[j] + 1
        /\ queue'[j] = Taken(queue[j], r) /\ queue'[j].state = "active"
        /\ \A k \in Jobs \ {j} : queue'[k] = queue[k] /\ starts'[k] = starts[k]
    BY <1>7 DEF Pick, TypeOK, Taken, QueueRecords
  <2>2. /\ queue[j] \in QueueRecords /\ starts[j] \in Nat /\ retries[j] \in Nat
        /\ Accounted(queue[j], starts[j], retries[j]) /\ queue[j].state = "waiting"
    BY <1>7 DEF Pick, TypeOK, BudgetInv
  <2>3. Accounted(queue'[j], starts'[j], retries'[j])
    BY <2>1, <2>2, AccountedOperators
  <2> QED BY <1>1, <1>3, <2>1, <2>3
\* Bull changes the entry of one job, and neither starts nor retries it.
<1>8. ASSUME NEW j \in Jobs, NEW e \in QueueRecords, queue' = [queue EXCEPT ![j] = e],
             queue[j].state # "absent", e.state # "absent",
             Accounted(e, starts[j], retries[j]), UNCHANGED <<db, starts, retries>>
      PROVE  BudgetInv'
  <2>1. queue'[j] = e /\ \A k \in Jobs \ {j} : queue'[k] = queue[k]
    BY <1>8 DEF TypeOK
  <2> QED BY <1>1, <1>3, <1>8, <2>1
<1>9. ASSUME NEW j \in Jobs, queue[j].state # "absent"
      PROVE  /\ queue[j] \in QueueRecords /\ starts[j] \in Nat /\ retries[j] \in Nat
             /\ Accounted(queue[j], starts[j], retries[j])
  BY <1>9 DEF TypeOK, BudgetInv
<1>10. ASSUME NEW r \in Runs, Attended(r)
       PROVE  run[r].job \in Jobs /\ queue[run[r].job].state = "active"
  BY <1>10, NamesAssumption DEF Attended, TypeOK, LockInv
<1>11. \A e \in QueueRecords :
         /\ Succeeded(e).state # "absent" /\ AttemptFailed(e).state # "absent"
         /\ Promoted(e).state # "absent" /\ Recovered(e).state # "absent"
         /\ Unlocked(e).state = e.state
  <2> SUFFICES ASSUME NEW e \in QueueRecords
               PROVE  /\ Succeeded(e).state # "absent" /\ AttemptFailed(e).state # "absent"
                      /\ Promoted(e).state # "absent" /\ Recovered(e).state # "absent"
                      /\ Unlocked(e).state = e.state
    OBVIOUS
  <2> QED BY DEF Succeeded, AttemptFailed, Promoted, Recovered, Unlocked, QueueRecords
<1>12. ASSUME NEW r \in Runs, RunStep(r)
       PROVE  BudgetInv'
  <2> DEFINE j == run[r].job
  <2>1. UNCHANGED <<starts, retries>>
    BY <1>12 DEF RunStep, Begin, Work, Complete, Fail, Update, Resolve, Reject, Settle
  <2>2. CASE queue' = queue
    BY <1>2, <1>12, <2>1, <2>2, RunStepRows
  <2>3. CASE Resolve(r) /\ Attended(r)
    <3>1. queue' = [queue EXCEPT ![j] = Succeeded(queue[j])] /\ db' = db
      BY <2>3 DEF Resolve, Settle
    <3>2. /\ j \in Jobs /\ queue[j].state = "active" /\ queue[j] \in QueueRecords
          /\ Accounted(Succeeded(queue[j]), starts[j], retries[j])
      BY <1>9, <1>10, <2>3, AccountedOperators
    <3>3. Succeeded(queue[j]) \in QueueRecords /\ Succeeded(queue[j]).state # "absent"
      BY <1>11, <3>2, QueueOperators
    <3> HIDE DEF j
    <3> QED BY <1>8, <2>1, <3>1, <3>2, <3>3
  <2>4. CASE Reject(r) /\ Attended(r)
    <3>1. queue' = [queue EXCEPT ![j] = AttemptFailed(queue[j])] /\ db' = db
      BY <2>4 DEF Reject, Settle
    <3>2. /\ j \in Jobs /\ queue[j].state = "active" /\ queue[j] \in QueueRecords
          /\ Accounted(AttemptFailed(queue[j]), starts[j], retries[j])
      BY <1>9, <1>10, <2>4, AccountedOperators
    <3>3. AttemptFailed(queue[j]) \in QueueRecords /\ AttemptFailed(queue[j]).state # "absent"
      BY <1>11, <3>2, QueueOperators
    <3> HIDE DEF j
    <3> QED BY <1>8, <2>1, <3>1, <3>2, <3>3
  <2> QED BY <1>12, <2>2, <2>3, <2>4 DEF RunStep, Begin, Work, Complete, Fail, Update,
            Resolve, Reject, Settle
<1>13. ASSUME NEW r \in Runs, Timeout(r)
       PROVE  BudgetInv'
  <2> DEFINE j == run[r].job
  <2>1. queue' = [queue EXCEPT ![j] = AttemptFailed(queue[j])] /\ UNCHANGED <<db, starts, retries>>
    BY <1>13 DEF Timeout
  <2>2. /\ j \in Jobs /\ queue[j].state = "active" /\ queue[j] \in QueueRecords
        /\ Accounted(AttemptFailed(queue[j]), starts[j], retries[j])
    BY <1>9, <1>10, <1>13, AccountedOperators DEF Timeout
  <2>3. AttemptFailed(queue[j]) \in QueueRecords /\ AttemptFailed(queue[j]).state # "absent"
    BY <1>11, <2>2, QueueOperators
  <2> HIDE DEF j
  <2> QED BY <1>8, <2>1, <2>2, <2>3
<1>14. ASSUME NEW j \in Jobs, DelayedReady(j) \/ LockExpire(j) \/ StalledCheck(j)
       PROVE  BudgetInv'
  <2>1. /\ UNCHANGED <<db, starts, retries>> /\ queue[j].state # "absent"
        /\ queue[j] \in QueueRecords
    BY <1>14, NamesAssumption DEF DelayedReady, LockExpire, StalledCheck, LockInv, TypeOK
  <2>2. CASE DelayedReady(j)
    <3>1. queue' = [queue EXCEPT ![j] = Promoted(queue[j])] /\ queue[j].state = "delayed"
      BY <2>2 DEF DelayedReady
    <3>2. /\ Accounted(Promoted(queue[j]), starts[j], retries[j])
          /\ Promoted(queue[j]) \in QueueRecords /\ Promoted(queue[j]).state # "absent"
      BY <1>9, <1>11, <2>1, <3>1, AccountedOperators, QueueOperators
    <3> QED BY <1>8, <2>1, <3>1, <3>2
  <2>3. CASE LockExpire(j)
    <3>1. queue' = [queue EXCEPT ![j] = Unlocked(queue[j])]
      BY <2>3 DEF LockExpire
    <3>2. /\ Accounted(Unlocked(queue[j]), starts[j], retries[j])
          /\ Unlocked(queue[j]) \in QueueRecords /\ Unlocked(queue[j]).state # "absent"
      BY <1>9, <1>11, <2>1, AccountedOperators, QueueOperators
    <3> QED BY <1>8, <2>1, <3>1, <3>2
  <2>4. CASE StalledCheck(j)
    <3>1. queue' = [queue EXCEPT ![j] = Recovered(queue[j])] /\ queue[j].state = "active"
      BY <2>4 DEF StalledCheck
    <3>2. /\ Accounted(Recovered(queue[j]), starts[j], retries[j])
          /\ Recovered(queue[j]) \in QueueRecords /\ Recovered(queue[j]).state # "absent"
      BY <1>9, <1>11, <2>1, <3>1, AccountedOperators, QueueOperators
    <3> QED BY <1>8, <2>1, <3>1, <3>2
  <2> QED BY <1>14, <2>2, <2>3, <2>4
<1>15. ASSUME NEW s \in Servers, Crash(s)
       PROVE  BudgetInv'
  <2>1. \A k \in Jobs : queue'[k] \in {queue[k], [queue[k] EXCEPT !.holder = DeadRun]}
    BY <1>15 DEF Crash
  <2>2. \A k \in Jobs : queue'[k].state = queue[k].state
    BY <2>1 DEF TypeOK, QueueRecords
  <2>3. \A k \in Jobs : queue[k].state # "absent" => Accounted(queue'[k], starts[k], retries[k])
    BY <1>9, <2>1, AccountedOperators
  <2>4. UNCHANGED <<db, starts, retries>>
    BY <1>15 DEF Crash
  <2> QED BY <2>2, <2>3, <2>4 DEF BudgetInv, ExecutionBudget
<1>16. CASE UNCHANGED vars
  BY <1>2, <1>16 DEF vars
<1>17. CASE Next
  <2>1. ASSUME NEW c \in Calls, NEW s \in Servers, NEW j \in Jobs, Arrival(c, s, j)
        PROVE  BudgetInv'
    BY <1>2, <1>4, <2>1 DEF Arrival, ReadForRetry, ReadForCancel, ReadForStatus, Request
  <2>2. ASSUME NEW c \in Calls, InsertRow(c) \/ MarkCancelled(c) \/ AskQueue(c) \/ Respond(c)
        PROVE  BudgetInv'
    <3>1. UNCHANGED <<queue, starts, retries>>
      BY <2>2 DEF InsertRow, MarkCancelled, AskQueue, Respond
    <3>2. \A k \in Jobs : db'[k].status = "none" => db[k].status = "none"
      <4>1. CASE InsertRow(c)
        BY <4>1 DEF InsertRow, TypeOK, Created, NoRow
      <4>2. CASE MarkCancelled(c)
        BY <4>2 DEF MarkCancelled, Write, KeepRows, Cancelled, Updated, TypeOK, RowRecords
      <4>3. CASE AskQueue(c) \/ Respond(c)
        BY <4>3 DEF AskQueue, Respond
      <4> QED BY <2>2, <4>1, <4>2, <4>3
    <3> QED BY <1>2, <3>1, <3>2
  <2> QED BY <1>5, <1>6, <1>7, <1>12, <1>13, <1>14, <1>15, <1>17, <2>1, <2>2 DEF Next, CallStep
<1> QED BY <1>16, <1>17
-----------------------------------------------------------------------------
(* Results *)

\* What each update does to the result: kept, and never stored in no row.
LEMMA ResultOperators ==
  ASSUME NEW w \in RowRecords, NEW n \in Nat, w.status = "none" => ~w.result,
         NEW v \in {Processing(w), Completed(w), Failed(w, n), Cancelled(w)}
  PROVE  /\ w.result => v.result
         /\ v.status = "none" => ~v.result
         /\ w.status # "none" => Completed(w).result
<1>1. w.status # "none" => Completed(w).result
  BY DEF Completed, Updated
<1>2. CASE v = Processing(w)
  BY <1>1, <1>2 DEF Processing, Updated, RowRecords
<1>3. CASE v = Completed(w)
  BY <1>1, <1>3 DEF Completed, Updated, RowRecords
<1>4. CASE v = Failed(w, n)
  BY <1>1, <1>4 DEF Failed, Updated, RowRecords
<1>5. CASE v = Cancelled(w)
  BY <1>1, <1>5 DEF Cancelled, Updated, RowRecords
<1> QED BY <1>1, <1>2, <1>3, <1>4, <1>5

\* A write of one of those updates.
LEMMA WriteKeepsResults ==
  ASSUME TypeOK, ResultInv, NEW j \in Jobs, NEW n \in Nat, NEW status,
         NEW v \in {Processing(db[j]), Completed(db[j]), Failed(db[j], n), Cancelled(db[j])},
         Write(j, v, status) \/ KeepRows
  PROVE  /\ \A k \in Jobs : Backed(k) => Backed(k)'
         /\ \A k \in Jobs : db'[k].status = "none" => ~db'[k].result
<1>1. db[j] \in RowRecords /\ (db[j].status = "none" => ~db[j].result)
  BY DEF TypeOK, ResultInv
<1>2. (db[j].result => v.result) /\ (v.status = "none" => ~v.result)
  BY <1>1, ResultOperators
<1>3. CASE KeepRows
  BY <1>3 DEF KeepRows, Backed, ResultInv
<1>4. CASE Write(j, v, status)
  <2>1. /\ db'[j] = v
        /\ \A k \in Jobs \ {j} : db'[k] = db[k]
    BY <1>4 DEF Write, TypeOK
  <2>2. \A k \in Jobs : lost[k] \subseteq lost'[k]
    BY <1>4 DEF Write, TypeOK
  <2> QED BY <1>2, <2>1, <2>2 DEF Backed, ResultInv
<1> QED BY <1>3, <1>4

LEMMA ResultsPersist ==
  ASSUME TypeOK, RequestInv, ResultInv, [Next]_vars
  PROVE  /\ \A k \in Jobs : Backed(k) => Backed(k)'
         /\ \A k \in Jobs : db'[k].status = "none" => ~db'[k].result
<1> DEFINE Persist == /\ \A k \in Jobs : Backed(k) => Backed(k)'
                      /\ \A k \in Jobs : db'[k].status = "none" => ~db'[k].result
<1> SUFFICES Persist
  OBVIOUS
<1>1. ASSUME UNCHANGED <<db, lost>>
      PROVE  Persist
  BY <1>1 DEF Backed, ResultInv
<1>2. ASSUME NEW c \in Calls, InsertRow(c)
      PROVE  Persist
  <2> DEFINE j == call[c].job
  <2>1. j \in Jobs /\ db[j].status = "none" /\ lost' = lost
    BY <1>2 DEF InsertRow, RequestInv, TypeOK
  <2>2. Backed(j) => "completed" \in lost[j]
    BY <2>1 DEF Backed, ResultInv
  <2>3. /\ \A k \in Jobs \ {j} : db'[k] = db[k]
        /\ db'[j] = db[j] \/ db'[j].status # "none"
    BY <1>2, <2>1 DEF InsertRow, Created, NoRow, TypeOK
  <2> QED BY <2>1, <2>2, <2>3 DEF Backed, ResultInv
<1>3. ASSUME NEW c \in Calls, MarkCancelled(c)
      PROVE  Persist
  <2>1. call[c].job \in Jobs
    BY <1>3 DEF MarkCancelled, TypeOK
  <2>2. Write(call[c].job, Cancelled(db[call[c].job]), "cancelled") \/ KeepRows
    BY <1>3 DEF MarkCancelled
  <2> QED BY <2>1, <2>2, WriteKeepsResults
<1>4. ASSUME NEW r \in Runs, Begin(r) \/ Complete(r) \/ Fail(r)
      PROVE  Persist
  <2> DEFINE j == run[r].job
  <2>1. j \in Jobs /\ run[r].made \in Nat
    BY <1>4 DEF Begin, Complete, Fail, TypeOK, Live, RunRecords
  <2>2. PICK status \in {"processing", "completed", "failed"},
             v \in {Processing(db[j]), Completed(db[j]), Failed(db[j], run[r].made)} :
          Write(j, v, status) \/ KeepRows
    BY <1>4 DEF Begin, Complete, Fail, Update
  <2> HIDE DEF j
  <2> QED BY <2>1, <2>2, WriteKeepsResults
<1>5. CASE UNCHANGED vars
  BY <1>1, <1>5 DEF vars
<1>6. CASE Next
  <2>1. ASSUME NEW c \in Calls, NEW s \in Servers, NEW j \in Jobs, Arrival(c, s, j)
        PROVE  UNCHANGED <<db, lost>>
    BY <2>1 DEF Arrival, SubmitAdd, ReadForRetry, ReadForCancel, ReadForStatus, Request
  <2>2. ASSUME NEW c \in Calls, CallStep(c)
        PROVE  Persist
    <3>1. CASE RetryInQueue(c) \/ RemoveFromQueue(c) \/ AskQueue(c) \/ Respond(c)
      BY <1>1, <3>1 DEF RetryInQueue, RemoveFromQueue, AskQueue, Respond
    <3> QED BY <1>2, <1>3, <2>2, <3>1 DEF CallStep
  <2>3. ASSUME NEW r \in Runs, RunStep(r)
        PROVE  Persist
    <3>1. CASE Work(r) \/ Resolve(r) \/ Reject(r)
      BY <1>1, <3>1 DEF Work, Resolve, Reject, Settle
    <3> QED BY <1>4, <2>3, <3>1 DEF RunStep
  <2>4. ASSUME NEW r \in Runs, NEW s \in Servers, NEW j \in Jobs, Pick(r, s, j)
        PROVE  UNCHANGED <<db, lost>>
    BY <2>4 DEF Pick
  <2>5. ASSUME NEW r \in Runs, Timeout(r)
        PROVE  UNCHANGED <<db, lost>>
    BY <2>5 DEF Timeout
  <2>6. ASSUME NEW j \in Jobs, DelayedReady(j) \/ LockExpire(j) \/ StalledCheck(j)
        PROVE  UNCHANGED <<db, lost>>
    BY <2>6 DEF DelayedReady, LockExpire, StalledCheck
  <2>7. ASSUME NEW s \in Servers, Crash(s)
        PROVE  UNCHANGED <<db, lost>>
    BY <2>7 DEF Crash
  <2> HIDE DEF Persist
  <2> QED BY <1>1, <1>6, <2>1, <2>2, <2>3, <2>4, <2>5, <2>6, <2>7 DEF Next
<1> QED BY <1>5, <1>6

\* Only a processor whose last update was applied is about to resolve, and only
\* Resolve makes a job completed in the queue.
LEMMA ResultStep ==
  ASSUME TypeOK, RequestInv, ResultInv, [Next]_vars
  PROVE  ResultInv'
<1>1. /\ \A k \in Jobs : Backed(k) => Backed(k)'
      /\ \A k \in Jobs : db'[k].status = "none" => ~db'[k].result
  BY ResultsPersist
<1>2. ASSUME \A r \in Runs : run'[r].pc = "resolve" =>
               run[r].pc = "resolve" /\ run'[r].job = run[r].job,
             \A k \in Jobs : queue'[k].state = "completed" =>
               queue[k].state = "completed" \/ Backed(k)
      PROVE  ResultInv'
  <2>1. \A r \in Runs, k \in Jobs :
          run'[r].pc = "resolve" /\ run'[r].job = k => Backed(k)'
    BY <1>1, <1>2 DEF ResultInv
  <2>2. \A k \in Jobs : queue'[k].state = "completed" => Backed(k)'
    BY <1>1, <1>2 DEF ResultInv, CompletedIsBacked, Backed
  <2> QED BY <1>1, <2>1, <2>2 DEF ResultInv, CompletedIsBacked, Backed
<1>3. ASSUME NEW c \in Calls, NEW s \in Servers, NEW j \in Jobs, Arrival(c, s, j)
      PROVE  ResultInv'
  <2>1. run' = run
    BY <1>3 DEF Arrival, SubmitAdd, ReadForRetry, ReadForCancel, ReadForStatus, Request
  <2>2. \A k \in Jobs : queue'[k].state = "completed" => queue[k].state = "completed"
    BY <1>3 DEF Arrival, SubmitAdd, ReadForRetry, ReadForCancel, ReadForStatus, Request,
                TypeOK, Added, Absent
  <2> QED BY <1>2, <2>1, <2>2
<1>4. ASSUME NEW c \in Calls, CallStep(c)
      PROVE  ResultInv'
  <2>1. run' = run
    BY <1>4 DEF CallStep, InsertRow, RetryInQueue, RemoveFromQueue, MarkCancelled,
                AskQueue, Respond
  <2>2. \A k \in Jobs : queue'[k].state = "completed" => queue[k].state = "completed"
    <3>1. CASE RetryInQueue(c)
      BY <3>1 DEF RetryInQueue, Requeued, TypeOK, QueueRecords
    <3>2. CASE RemoveFromQueue(c)
      BY <3>2 DEF RemoveFromQueue, Absent, TypeOK
    <3>3. CASE InsertRow(c) \/ MarkCancelled(c) \/ AskQueue(c) \/ Respond(c)
      BY <3>3 DEF InsertRow, MarkCancelled, AskQueue, Respond
    <3> QED BY <1>4, <3>1, <3>2, <3>3 DEF CallStep
  <2> QED BY <1>2, <2>1, <2>2
<1>5. ASSUME NEW r \in Runs, NEW s \in Servers, NEW j \in Jobs, Pick(r, s, j)
      PROVE  ResultInv'
  <2>1. \A x \in Runs : run'[x].pc = "resolve" => run'[x] = run[x]
    BY <1>5 DEF Pick, TypeOK
  <2>2. \A k \in Jobs : queue'[k].state = "completed" => queue[k].state = "completed"
    BY <1>5 DEF Pick, Taken, TypeOK, QueueRecords
  <2> QED BY <1>2, <2>1, <2>2
<1>6. ASSUME NEW r \in Runs, Begin(r) \/ Work(r) \/ Fail(r)
      PROVE  ResultInv'
  <2>1. queue' = queue
    BY <1>6 DEF Begin, Work, Fail, Update
  <2>2. PICK p \in RunPcs \ {"resolve"} : Goto(r, p)
    BY <1>6 DEF Begin, Work, Fail, Update, RunPcs
  <2>3. \A x \in Runs : run'[x].pc = "resolve" => run'[x] = run[x]
    BY <2>2, GotoKeepsJob
  <2> QED BY <1>2, <2>1, <2>3
<1>7. ASSUME NEW r \in Runs, Complete(r)
      PROVE  ResultInv'
  <2>1. PICK j \in Jobs : j = run[r].job /\ db[j] \in RowRecords /\ queue' = queue
    BY <1>7 DEF Complete, Update, TypeOK, Live
  <2>2. CASE Goto(r, "fail")
    <3>1. \A x \in Runs : run'[x].pc = "resolve" => run'[x] = run[x]
      BY <2>2, GotoKeepsJob DEF RunPcs
    <3> QED BY <1>2, <2>1, <3>1
  <2>3. CASE Goto(r, "resolve") /\ Write(j, Completed(db[j]), "completed")
    <3>1. Backed(j)'
      <4>1. CASE db[j].status = "none"
        BY <2>1, <2>3, <4>1 DEF Write, Backed, TypeOK
      <4>2. CASE db[j].status # "none"
        <5>1. Completed(db[j]).result
          BY <2>1, <4>2 DEF Completed, Updated
        <5> QED BY <2>1, <2>3, <5>1 DEF Write, Backed, TypeOK
      <4> QED BY <4>1, <4>2
    <3>2. /\ run'[r].job = j
          /\ \A x \in Runs \ {r} : run'[x] = run[x]
      BY <2>1, <2>3, GotoKeepsJob DEF RunPcs
    <3>3. \A x \in Runs, k \in Jobs :
            run'[x].pc = "resolve" /\ run'[x].job = k => Backed(k)'
      BY <1>1, <3>1, <3>2 DEF ResultInv
    <3>4. \A k \in Jobs : queue'[k].state = "completed" => Backed(k)'
      BY <1>1, <2>1 DEF ResultInv, CompletedIsBacked, Backed
    <3> QED BY <1>1, <3>3, <3>4 DEF ResultInv, CompletedIsBacked, Backed
  <2> QED BY <1>7, <2>1, <2>2, <2>3, FlagsAssumption
        DEF Complete, Update, Outcomes, Applied, Raised
<1>8. ASSUME NEW r \in Runs, Resolve(r) \/ Reject(r)
      PROVE  ResultInv'
  <2>1. \A x \in Runs : run'[x].pc = "resolve" => run'[x] = run[x]
    BY <1>8 DEF Resolve, Reject, Settle, IdleRun, TypeOK
  <2>2. \A k \in Jobs : queue'[k].state = "completed" =>
          queue[k].state = "completed" \/ Backed(k)
    <3>1. CASE Resolve(r)
      <4>1. Backed(run[r].job) /\ run[r].job \in Jobs
        BY <3>1 DEF Resolve, ResultInv, TypeOK, Live
      <4>2. \A k \in Jobs \ {run[r].job} : queue'[k] = queue[k]
        BY <3>1, <4>1 DEF Resolve, Settle, TypeOK
      <4> QED BY <4>1, <4>2
    <3>2. CASE Reject(r)
      BY <3>2 DEF Reject, Settle, AttemptFailed, TypeOK, QueueRecords, Live
    <3> QED BY <1>8, <3>1, <3>2
  <2> QED BY <1>2, <2>1, <2>2
<1>9. ASSUME NEW r \in Runs, Timeout(r)
      PROVE  ResultInv'
  <2>1. \A x \in Runs : run'[x].pc = run[x].pc /\ run'[x].job = run[x].job
    BY <1>9 DEF Timeout, TypeOK, RunRecords
  <2>2. \A k \in Jobs : queue'[k].state = "completed" => queue[k].state = "completed"
    BY <1>9 DEF Timeout, AttemptFailed, Attended, TypeOK, QueueRecords
  <2> QED BY <1>2, <2>1, <2>2
<1>10. ASSUME NEW j \in Jobs, DelayedReady(j) \/ LockExpire(j) \/ StalledCheck(j)
       PROVE  ResultInv'
  <2>1. run' = run
    BY <1>10 DEF DelayedReady, LockExpire, StalledCheck
  <2>2. \A k \in Jobs : queue'[k].state = "completed" => queue[k].state = "completed"
    <3>1. CASE DelayedReady(j)
      BY <3>1 DEF DelayedReady, Promoted, TypeOK, QueueRecords
    <3>2. CASE LockExpire(j)
      BY <3>2 DEF LockExpire, Unlocked, TypeOK, QueueRecords
    <3>3. CASE StalledCheck(j)
      BY <3>3 DEF StalledCheck, Recovered, TypeOK, QueueRecords
    <3> QED BY <1>10, <3>1, <3>2, <3>3
  <2> QED BY <1>2, <2>1, <2>2
<1>11. ASSUME NEW s \in Servers, Crash(s)
       PROVE  ResultInv'
  <2>1. \A x \in Runs : run'[x].pc = "resolve" => run'[x] = run[x]
    BY <1>11 DEF Crash, IdleRun
  <2>2. \A k \in Jobs : queue'[k].state = queue[k].state
    BY <1>11 DEF Crash, TypeOK, QueueRecords
  <2> QED BY <1>2, <2>1, <2>2
<1>12. CASE UNCHANGED vars
  BY <1>2, <1>12 DEF vars
<1>13. CASE Next
  BY <1>3, <1>4, <1>5, <1>6, <1>7, <1>8, <1>9, <1>10, <1>11, <1>13 DEF Next, RunStep
<1> QED BY <1>12, <1>13

-----------------------------------------------------------------------------
(* The safety properties that hold whatever fails *)

LEMMA InitSafety == Init => SafetyInv
<1> SUFFICES ASSUME Init PROVE SafetyInv
  OBVIOUS
<1>1. LockInv /\ RequestInv
  BY InitLocks DEF Init, RequestInv, IdleCall
<1>2. ResultInv
  BY DEF Init, ResultInv, CompletedIsBacked, IdleRun, Absent, NoRow
<1>3. BudgetInv
  BY CountsAssumption DEF Init, BudgetInv, ExecutionBudget, Absent
<1> QED BY <1>1, <1>2, <1>3 DEF SafetyInv

\* The locks, the requests, the account of executions and the results stay
\* consistent in every behaviour, whatever crashes, times out or is refused.
THEOREM Safety == Spec => []SafetyInv
<1>1. TypeOK /\ SafetyInv /\ [Next]_vars => TypeOK' /\ SafetyInv'
  BY TypeStep, LockStep, RequestStep, BudgetStep, ResultStep DEF SafetyInv
<1> QED BY <1>1, InitType, InitSafety, PTL DEF Spec

\* No job is executed more often than its attempts, the stalls Bull tolerates
\* and the manual retries allow.
THEOREM Budget == Spec => []ExecutionBudget
<1>1. SafetyInv => ExecutionBudget
  BY DEF SafetyInv, BudgetInv
<1> QED BY <1>1, Safety, PTL

\* A job that the queue calls completed has had its result written.
THEOREM Results == Spec => []CompletedIsBacked
<1>1. SafetyInv => CompletedIsBacked
  BY DEF SafetyInv, ResultInv
<1> QED BY <1>1, Safety, PTL
-----------------------------------------------------------------------------
(* Cancelled jobs *)

LEMMA CancelStep ==
  ASSUME TypeOK, LockInv, RequestInv, CancelInv, [Next]_vars
  PROVE  CancelInv'
<1>1. ASSUME \A k \in Jobs : db'[k].status = "cancelled" => db[k].status = "cancelled",
             \A k \in Jobs : queue[k].state = "absent" => queue'[k].state = "absent",
             \A c \in Calls : call'[c].pc = "mark" => call[c].pc = "mark" /\ call'[c] = call[c]
      PROVE  CancelInv'
  BY <1>1 DEF CancelInv, TypeOK
<1>2. \A c \in Calls : \A a : Answer(c, a) =>
        \A d \in Calls : call'[d].pc = "mark" => call'[d] = call[d]
  BY DEF Answer, Answered, Under, IdleCall, TypeOK
<1>3. ASSUME NEW c \in Calls, NEW s \in Servers, NEW j \in Jobs, SubmitAdd(c, s, j)
      PROVE  CancelInv'
  <2>1. /\ db' = db /\ db[j].status = "none"
        /\ \A k \in Jobs \ {j} : queue'[k] = queue[k]
    BY <1>3 DEF SubmitAdd, Fresh, TypeOK
  <2>2. \A d \in Calls : call'[d].pc = "mark" => call[d].pc = "mark" /\ call'[d] = call[d]
    BY <1>3 DEF SubmitAdd, Under, IdleCall, TypeOK
  <2>3. \A d \in Calls : call[d].pc = "mark" => call[d].job # j
    BY <2>1 DEF RequestInv
  <2> QED BY <2>1, <2>2, <2>3 DEF CancelInv, TypeOK
<1>4. ASSUME NEW c \in Calls, NEW s \in Servers, NEW j \in Jobs, NEW u \in Users,
             ReadForRetry(c, s, j, u) \/ ReadForCancel(c, s, j, u) \/ ReadForStatus(c, s, j, u)
      PROVE  CancelInv'
  <2>1. UNCHANGED <<queue, db>>
    BY <1>4 DEF ReadForRetry, ReadForCancel, ReadForStatus, Request
  <2>2. \A d \in Calls : call'[d].pc = "mark" => call[d].pc = "mark" /\ call'[d] = call[d]
    <3>1. PICK x : call' = [call EXCEPT ![c] = x] /\ x.pc # "mark"
      <4>1. \A a : Answered(s, j, a).pc = "answered"
        BY DEF Answered, Under, IdleCall
      <4>2. \A p, v : Under(s, j, p).pc = p /\ [Under(s, j, p) EXCEPT !.seen = v].pc = p
        BY DEF Under, IdleCall
      <4>3. ASSUME NEW n, n.pc # "mark", Request(c, s, j, u, n)
            PROVE  \E x : call' = [call EXCEPT ![c] = x] /\ x.pc # "mark"
        <5>1. PICK x \in {Answered(s, j, "error"), Answered(s, j, "not_found"),
                          Answered(s, j, "forbidden"), n} :
                call' = [call EXCEPT ![c] = x]
          BY <4>3 DEF Request
        <5>2. x.pc # "mark"
          BY <4>1, <4>3
        <5> QED BY <5>1, <5>2
      <4>4. CASE ReadForRetry(c, s, j, u)
        BY <4>1, <4>2, <4>3, <4>4 DEF ReadForRetry
      <4>5. CASE ReadForCancel(c, s, j, u)
        BY <4>2, <4>3, <4>5 DEF ReadForCancel
      <4>6. CASE ReadForStatus(c, s, j, u)
        BY <4>2, <4>3, <4>6 DEF ReadForStatus
      <4> QED BY <1>4, <4>4, <4>5, <4>6
    <3> QED BY <3>1 DEF TypeOK
  <2> QED BY <1>1, <2>1, <2>2
<1>5. ASSUME NEW c \in Calls, InsertRow(c)
      PROVE  CancelInv'
  <2>1. queue' = queue
    BY <1>5 DEF InsertRow
  <2>2. \A k \in Jobs : db'[k].status = "cancelled" => db[k].status = "cancelled"
    BY <1>5 DEF InsertRow, Created, NoRow, TypeOK
  <2>3. \A d \in Calls : call'[d].pc = "mark" => call'[d] = call[d]
    BY <1>2, <1>5 DEF InsertRow
  <2> QED BY <1>1, <2>1, <2>2, <2>3
<1>6. ASSUME NEW c \in Calls, RetryInQueue(c)
      PROVE  CancelInv'
  <2>1. db' = db
    BY <1>6 DEF RetryInQueue
  <2>2. \A k \in Jobs : queue[k].state = "absent" => queue'[k].state = "absent"
    BY <1>6 DEF RetryInQueue, CanRetry, TypeOK
  <2>3. \A d \in Calls : call'[d].pc = "mark" => call'[d] = call[d]
    BY <1>2, <1>6 DEF RetryInQueue
  <2> QED BY <1>1, <2>1, <2>2, <2>3
<1>7. ASSUME NEW c \in Calls, RemoveFromQueue(c)
      PROVE  CancelInv'
  <2>1. db' = db /\ call[c].job \in Jobs
    BY <1>7 DEF RemoveFromQueue, TypeOK
  <2>2. CASE Answer(c, "error") /\ queue' = queue
    BY <1>1, <1>2, <2>1, <2>2
  <2>3. CASE queue' = [queue EXCEPT ![call[c].job] = Absent] /\ call' = [call EXCEPT ![c].pc = "mark"]
    <3>1. /\ queue'[call[c].job].state = "absent"
          /\ \A k \in Jobs : queue[k].state = "absent" => queue'[k].state = "absent"
      BY <2>1, <2>3 DEF Absent, TypeOK
    <3>2. /\ call'[c].job = call[c].job
          /\ \A d \in Calls \ {c} : call'[d] = call[d]
      BY <2>3 DEF TypeOK, CallRecords
    <3> QED BY <2>1, <3>1, <3>2 DEF CancelInv, TypeOK
  <2> QED BY <1>7, <2>2, <2>3 DEF RemoveFromQueue
<1>8. ASSUME NEW c \in Calls, MarkCancelled(c)
      PROVE  CancelInv'
  <2>1. call[c].job \in Jobs /\ queue' = queue /\ queue[call[c].job].state = "absent"
    BY <1>8 DEF MarkCancelled, CancelInv, TypeOK
  <2>2. \A k \in Jobs \ {call[c].job} : db'[k] = db[k]
    BY <1>8, <2>1 DEF MarkCancelled, Write, KeepRows, TypeOK
  <2>3. \A d \in Calls : call'[d].pc = "mark" => call'[d] = call[d]
    BY <1>2, <1>8 DEF MarkCancelled
  <2> QED BY <2>1, <2>2, <2>3 DEF CancelInv, TypeOK
<1>9. ASSUME NEW c \in Calls, AskQueue(c) \/ Respond(c)
      PROVE  CancelInv'
  <2>1. \A d \in Calls : call'[d].pc = "mark" => call'[d] = call[d]
    BY <1>2, <1>9 DEF AskQueue, Respond, IdleCall, TypeOK
  <2> QED BY <1>1, <1>9, <2>1 DEF AskQueue, Respond
<1>10. ASSUME NEW r \in Runs, RunStep(r)
       PROVE  CancelInv'
  <2> DEFINE j == run[r].job
  <2>1. /\ call' = call /\ j \in Jobs /\ queue[j] \in QueueRecords /\ db[j] \in RowRecords
    BY <1>10 DEF RunStep, Begin, Work, Complete, Fail, Update, Resolve, Reject, Settle,
                 Live, TypeOK
  <2>2. CASE Begin(r) \/ Complete(r) \/ Fail(r)
    <3>1. \A w \in {Processing(db[j]), Completed(db[j]), Failed(db[j], run[r].made)} :
            w.status # "cancelled"  \/ w = db[j]
      BY DEF Processing, Completed, Failed, Updated
    <3>2. PICK w \in {Processing(db[j]), Completed(db[j]), Failed(db[j], run[r].made)},
               status \in RowStatuses :
            Write(j, w, status) \/ KeepRows
      BY <2>2 DEF Begin, Complete, Fail, Update, RowStatuses
    <3>3. \A k \in Jobs : db'[k].status = "cancelled" => db[k].status = "cancelled"
      BY <2>1, <3>1, <3>2 DEF Write, KeepRows, TypeOK
    <3>4. queue' = queue
      BY <2>2 DEF Begin, Complete, Fail, Update
    <3> QED BY <1>1, <2>1, <3>3, <3>4
  <2>3. CASE Work(r)
    BY <1>1, <2>1, <2>3 DEF Work
  <2>4. CASE Resolve(r) \/ Reject(r)
    <3>1. \A k \in Jobs : queue[k].state = "absent" => queue'[k].state = "absent"
      BY <2>1, <2>4, NamesAssumption
         DEF Resolve, Reject, Settle, Attended, LockInv, TypeOK
    <3> QED BY <1>1, <2>1, <2>4, <3>1 DEF Resolve, Reject, Settle
  <2> QED BY <1>10, <2>2, <2>3, <2>4 DEF RunStep
<1>11. ASSUME NEW r \in Runs, Timeout(r)
       PROVE  CancelInv'
  <2>1. \A k \in Jobs : queue[k].state = "absent" => queue'[k].state = "absent"
    BY <1>11, NamesAssumption DEF Timeout, Attended, LockInv, TypeOK
  <2> QED BY <1>1, <1>11, <2>1 DEF Timeout
<1>12. ASSUME NEW r \in Runs, NEW s \in Servers, NEW j \in Jobs, Pick(r, s, j)
       PROVE  CancelInv'
  <2>1. \A k \in Jobs : queue[k].state = "absent" => queue'[k].state = "absent"
    BY <1>12 DEF Pick, TypeOK
  <2> QED BY <1>1, <1>12, <2>1 DEF Pick
<1>13. ASSUME NEW j \in Jobs, DelayedReady(j) \/ LockExpire(j) \/ StalledCheck(j)
       PROVE  CancelInv'
  <2>1. \A k \in Jobs : queue[k].state = "absent" => queue'[k].state = "absent"
    BY <1>13, NamesAssumption DEF DelayedReady, LockExpire, StalledCheck, LockInv, TypeOK
  <2> QED BY <1>1, <1>13, <2>1 DEF DelayedReady, LockExpire, StalledCheck
<1>14. ASSUME NEW s \in Servers, Crash(s)
       PROVE  CancelInv'
  <2>1. \A k \in Jobs : queue'[k].state = queue[k].state
    BY <1>14 DEF Crash, TypeOK, QueueRecords
  <2>2. \A d \in Calls : call'[d].pc = "mark" => call'[d] = call[d]
    BY <1>14 DEF Crash, IdleCall
  <2> QED BY <1>1, <1>14, <2>1, <2>2 DEF Crash
<1>15. CASE UNCHANGED vars
  BY <1>1, <1>15 DEF vars
<1>16. CASE Next
  BY <1>3, <1>4, <1>5, <1>6, <1>7, <1>8, <1>9, <1>10, <1>11, <1>12, <1>13, <1>14, <1>16
     DEF Next, Arrival, CallStep
<1> QED BY <1>15, <1>16

\* If Bull's timeout never fires, a job recorded as cancelled is out of the queue
\* and no processor is at work on it, whatever else was under way.
THEOREM CancelledIsFinal ==
  ASSUME Timeouts = FALSE
  PROVE  Spec => []CancelledNeverRuns
<1>1. Init => TypeOK /\ SafetyInv /\ ExclusiveInv /\ CancelInv
  <2>1. Init => CancelInv
    BY DEF Init, CancelInv, NoRow, IdleCall
  <2> QED BY <2>1, InitType, InitLocks, InitSafety
<1>2. TypeOK /\ SafetyInv /\ ExclusiveInv /\ CancelInv /\ [Next]_vars
        => TypeOK' /\ SafetyInv' /\ ExclusiveInv' /\ CancelInv'
  BY TypeStep, LockStep, RequestStep, BudgetStep, ResultStep, ExclusiveStep, CancelStep
     DEF SafetyInv
<1>3. TypeOK /\ SafetyInv /\ ExclusiveInv /\ CancelInv => CancelledNeverRuns
  BY NamesAssumption DEF SafetyInv, LockInv, ExclusiveInv, CancelInv, CancelledNeverRuns, TypeOK
<1> QED BY <1>1, <1>2, <1>3, PTL DEF Spec
=============================================================================
