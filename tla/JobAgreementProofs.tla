------------------------- MODULE JobAgreementProofs -------------------------
(***************************************************************************)
(* What the two stores say of one job, for every set of jobs, executions,   *)
(* requests and servers: the count of attempts, while Bull's timeout does   *)
(* not fire; and, while nothing crashes or fails either, the status.  Every *)
(* step moves one job, or none; a crash moves no row.                       *)
(***************************************************************************)
EXTENDS JobSafetyProofs

BaseInv == TypeOK /\ SafetyInv /\ ExclusiveInv /\ CancelInv

LEMMA BaseHolds ==
  ASSUME Timeouts = FALSE
  PROVE  /\ Init => BaseInv
         /\ BaseInv /\ [Next]_vars => BaseInv'
<1>1. Init => BaseInv
  <2>1. Init => CancelInv
    BY DEF Init, CancelInv, NoRow, IdleCall
  <2> QED BY <2>1, InitType, InitLocks, InitSafety DEF BaseInv
<1>2. BaseInv /\ [Next]_vars => BaseInv'
  BY TypeStep, LockStep, RequestStep, BudgetStep, ResultStep, ExclusiveStep, CancelStep
     DEF BaseInv, SafetyInv
<1> QED BY <1>1, <1>2

\* An execution under way is the only one of its job, which is active.
LEMMA Sole ==
  ASSUME BaseInv, NEW r \in Runs, Live(r)
  PROVE  /\ run[r].job \in Jobs /\ run[r].made \in Nat
         /\ queue[run[r].job].state = "active" /\ queue[run[r].job].holder = r
         /\ \A x \in Runs : Live(x) /\ run[x].job = run[r].job => x = r
<1>1. run[r].job \in Jobs /\ run[r].made \in Nat
  BY DEF BaseInv, TypeOK, RunRecords
<1>2. queue[run[r].job].holder = r
  BY DEF BaseInv, ExclusiveInv
<1>3. queue[run[r].job].state = "active"
  BY <1>1, <1>2, NamesAssumption DEF BaseInv, SafetyInv, LockInv
<1>4. \A x \in Runs : Live(x) /\ run[x].job = run[r].job => x = r
  BY <1>2 DEF BaseInv, ExclusiveInv
<1> QED BY <1>1, <1>2, <1>3, <1>4

\* Nothing is under way on a job that nobody holds.
LEMMA Nobody ==
  ASSUME BaseInv, NEW j \in Jobs, queue[j].state # "active" \/ queue[j].holder \notin Runs
  PROVE  \A r \in Runs : run[r].job = j => run[r].pc = "idle"
BY Sole DEF Live

-----------------------------------------------------------------------------
(* One step, one job *)

\* No other job than j is touched, nor an execution of another.
Only(j) ==
  /\ \A k \in Jobs \ {j} : queue'[k] = queue[k] /\ db'[k] = db[k] /\ lost'[k] = lost[k]
  /\ \A r \in Runs : \/ run'[r] = run[r]
                     \/ /\ Live(r) => run[r].job = j
                        /\ Live(r)' => run'[r].job = j

LEMMA OthersCounted ==
  ASSUME CountInv, NEW j \in Jobs, Only(j), Counted(j)'
  PROVE  CountInv'
<1> SUFFICES ASSUME NEW k \in Jobs, k # j PROVE Counted(k)'
  BY DEF CountInv
<1>1. Counted(k)
  BY DEF CountInv
<1>2. queue'[k] = queue[k] /\ db'[k] = db[k]
  BY DEF Only
<1>3. \A r \in Runs : Live(r)' /\ run'[r].job = k => run'[r] = run[r]
  BY DEF Only
<1> QED BY <1>1, <1>2, <1>3 DEF Counted, Live

\* The step of an execution on its job, of a request on its own.
LEMMA RunTouches ==
  ASSUME BaseInv, NEW r \in Runs, RunStep(r)
  PROVE  Only(run[r].job) /\ run[r].job \in Jobs /\ Live(r)
<1>1. Live(r)
  BY DEF RunStep, Begin, Work, Complete, Fail, Resolve, Reject, Live
<1>2. run[r].job \in Jobs
  BY <1>1, Sole
<1>3. TypeOK
  BY DEF BaseInv
<1> DEFINE j == run[r].job
<1>4. \A k \in Jobs \ {j} : queue'[k] = queue[k] /\ db'[k] = db[k] /\ lost'[k] = lost[k]
  <2>1. CASE Begin(r) \/ Complete(r) \/ Fail(r)
    BY <1>2, <1>3, <2>1 DEF Begin, Complete, Fail, Update, Write, KeepRows, TypeOK
  <2>2. CASE Work(r) \/ Resolve(r) \/ Reject(r)
    BY <1>2, <1>3, <2>2 DEF Work, Resolve, Reject, Settle, TypeOK
  <2> QED BY <2>1, <2>2 DEF RunStep
<1>5. run'[r].job = j \/ ~Live(r)'
  <2>1. CASE Resolve(r) \/ Reject(r)
    BY <1>3, <2>1 DEF Resolve, Reject, Settle, IdleRun, Live, TypeOK
  <2>2. CASE Begin(r) \/ Work(r) \/ Complete(r) \/ Fail(r)
    BY <1>3, <2>2 DEF Begin, Work, Complete, Fail, Update, Goto, TypeOK, RunRecords
  <2> QED BY <2>1, <2>2 DEF RunStep
<1>6. \A x \in Runs \ {r} : run'[x] = run[x]
  BY <1>3 DEF RunStep, Begin, Work, Complete, Fail, Update, Resolve, Reject, Settle, Goto, TypeOK
<1> QED BY <1>1, <1>2, <1>4, <1>5, <1>6 DEF Only

\* What a request does to the stores it does to one job, and executions go on.
LEMMA RequestTouches ==
  ASSUME BaseInv, NEW c \in Calls, CallStep(c)
  PROVE  Only(call[c].job) /\ call[c].job \in Jobs /\ UNCHANGED run
<1>1. TypeOK /\ call[c].pc # "idle"
  BY DEF BaseInv, CallStep, InsertRow, RetryInQueue, RemoveFromQueue, MarkCancelled, AskQueue, Respond
<1>2. call[c].job \in Jobs
  BY <1>1 DEF TypeOK
<1>3. UNCHANGED run
  BY DEF CallStep, InsertRow, RetryInQueue, RemoveFromQueue, MarkCancelled, AskQueue, Respond
<1>4. \A k \in Jobs \ {call[c].job} :
        queue'[k] = queue[k] /\ db'[k] = db[k] /\ lost'[k] = lost[k]
  <2>1. CASE InsertRow(c) \/ MarkCancelled(c)
    BY <1>1, <1>2, <2>1 DEF InsertRow, MarkCancelled, Write, KeepRows, TypeOK
  <2>2. CASE RetryInQueue(c) \/ RemoveFromQueue(c) \/ AskQueue(c) \/ Respond(c)
    BY <1>1, <1>2, <2>2 DEF RetryInQueue, RemoveFromQueue, AskQueue, Respond, TypeOK
  <2> QED BY <2>1, <2>2 DEF CallStep
<1> QED BY <1>2, <1>3, <1>4 DEF Only

\* A request that arrives adds a job no store knows, or touches none.
LEMMA ArrivalTouches ==
  ASSUME BaseInv, NEW c \in Calls, NEW s \in Servers, NEW j \in Jobs, Arrival(c, s, j)
  PROVE  /\ UNCHANGED <<db, run, lost>> /\ Only(j)
         /\ queue' = queue \/ (Fresh(j) /\ queue'[j] = Added)
<1>1. TypeOK
  BY DEF BaseInv
<1>2. CASE SubmitAdd(c, s, j)
  BY <1>1, <1>2 DEF SubmitAdd, Only, TypeOK
<1>3. CASE ~SubmitAdd(c, s, j)
  BY <1>3 DEF Arrival, ReadForRetry, ReadForCancel, ReadForStatus, Request, Only
<1> QED BY <1>2, <1>3

-----------------------------------------------------------------------------
(* The count of attempts *)

\* What the operators on rows and entries do to their counts.
LEMMA Counts ==
  ASSUME NEW w \in RowRecords, NEW e \in QueueRecords, NEW n \in Nat
  PROVE  /\ Processing(w).retryCount = w.retryCount /\ Completed(w).retryCount = w.retryCount
         /\ Cancelled(w).retryCount = w.retryCount
         /\ Failed(w, n).retryCount = IF w.status = "none" THEN w.retryCount ELSE n
         /\ \A r \in Runs : Taken(e, r).made = e.made /\ Taken(e, r).state = "active"
         /\ Succeeded(e).made = e.made /\ AttemptFailed(e).made = e.made + 1
         /\ Promoted(e).made = e.made /\ Unlocked(e).made = e.made
         /\ Recovered(e).made = e.made /\ Requeued(e).made = e.made
         /\ e.made \in Nat /\ w.retryCount \in Nat
BY DEF RowRecords, QueueRecords, Processing, Completed, Cancelled, Failed, Updated, Taken,
       Succeeded, AttemptFailed, Promoted, Unlocked, Recovered, Requeued

\* A step leaves the count of every row or raises it.
Rises == \A j \in Jobs : db'[j].retryCount >= db[j].retryCount

LEMMA SameRows ==
  ASSUME TypeOK, UNCHANGED db
  PROVE  Rises
<1>1. \A j \in Jobs : db[j].retryCount \in Nat
  BY DEF TypeOK, RowRecords
<1> QED BY <1>1 DEF Rises

LEMMA ArrivalCounts ==
  ASSUME BaseInv, CountInv, NEW c \in Calls, NEW s \in Servers, NEW j \in Jobs, Arrival(c, s, j)
  PROVE  CountInv' /\ Rises
<1>1. /\ UNCHANGED <<db, run, lost>> /\ Only(j) /\ TypeOK
      /\ queue' = queue \/ (Fresh(j) /\ queue'[j] = Added)
  BY ArrivalTouches DEF BaseInv
<1>2. Counted(j)'
  <2>1. CASE queue' = queue
    BY <1>1, <2>1 DEF CountInv, Counted, Live
  <2>2. CASE Fresh(j) /\ queue'[j] = Added
    <3>1. \A r \in Runs : run[r].job = j => run[r].pc = "idle"
      BY <2>2, Nobody DEF Fresh
    <3>2. Added.made = 0 /\ db[j].retryCount = 0
      BY <2>2 DEF Added, Absent, Fresh, CountInv, Counted
    <3> QED BY <1>1, <2>2, <3>1, <3>2 DEF Counted, Live
  <2> QED BY <1>1, <2>1, <2>2
<1> QED BY <1>1, <1>2, OthersCounted, SameRows

LEMMA CallStepCounts ==
  ASSUME BaseInv, CountInv, NEW c \in Calls, CallStep(c)
  PROVE  CountInv' /\ Rises
<1>1. PICK j \in Jobs : /\ j = call[c].job /\ Only(j)
                       /\ UNCHANGED run /\ TypeOK /\ RequestInv
  BY RequestTouches DEF BaseInv, SafetyInv
<1>2. db[j] \in RowRecords /\ queue[j] \in QueueRecords /\ Counted(j)
  BY <1>1 DEF TypeOK, CountInv
<1>3. db[j].retryCount \in Nat /\ queue[j].made \in Nat
  BY <1>2 DEF RowRecords, QueueRecords
<1>4. \A k \in Jobs \ {j} : db'[k] = db[k] /\ db[k].retryCount \in Nat
  BY <1>1 DEF Only, TypeOK, RowRecords
<1>5. CASE InsertRow(c)
  <2>1. db[j].status = "none" /\ queue' = queue
    BY <1>1, <1>5 DEF InsertRow, BaseInv, SafetyInv, RequestInv
  <2>2. db'[j] = db[j] \/ db'[j].retryCount = 0
    BY <1>1, <1>5 DEF InsertRow, TypeOK, Created, NoRow
  <2>3. db[j].retryCount = 0
    BY <1>2, <2>1 DEF Counted
  <2>4. Counted(j)'
    BY <1>1, <1>2, <1>3, <2>1, <2>2, <2>3 DEF Counted, Live
  <2>5. db'[j].retryCount >= db[j].retryCount
    BY <2>2, <2>3
  <2> QED BY <1>1, <1>4, <2>4, <2>5, OthersCounted DEF Rises
<1>6. CASE RetryInQueue(c) \/ AskQueue(c) \/ Respond(c)
  <2>1. UNCHANGED db /\ (queue'[j] = queue[j] \/ (CanRetry(queue[j]) /\ queue'[j] = Requeued(queue[j])))
    BY <1>1, <1>6 DEF RetryInQueue, AskQueue, Respond, TypeOK
  <2>2. Counted(j)'
    BY <1>1, <1>2, <2>1, Counts DEF Counted, Live, CanRetry
  <2> QED BY <1>1, <2>1, <2>2, OthersCounted, SameRows
<1>7. CASE RemoveFromQueue(c)
  <2>1. UNCHANGED db
    BY <1>7 DEF RemoveFromQueue
  <2>2. CASE queue' = queue
    BY <1>1, <1>2, <2>1, <2>2, OthersCounted, SameRows DEF Counted, Live
  <2>3. CASE CanRemove(queue[j]) /\ queue'[j] = Absent
    <3>1. \A r \in Runs : run[r].job = j => run[r].pc = "idle"
      BY <1>1, <2>3, Nobody, NamesAssumption DEF CanRemove
    <3>2. Counted(j)'
      BY <1>1, <1>2, <2>1, <2>3, <3>1 DEF Counted, Absent, Live
    <3> QED BY <1>1, <2>1, <3>2, OthersCounted, SameRows
  <2> QED BY <1>1, <1>7, <2>2, <2>3 DEF RemoveFromQueue, TypeOK
<1>8. CASE MarkCancelled(c)
  <2>1. queue' = queue /\ (db'[j] = db[j] \/ db'[j] = Cancelled(db[j]))
    BY <1>1, <1>8 DEF MarkCancelled, Write, KeepRows, TypeOK
  <2>2. db'[j].retryCount = db[j].retryCount /\ (db'[j].status = "none" <=> db[j].status = "none")
    BY <1>2, <2>1, Counts, RowPersists
  <2>3. Counted(j)'
    BY <1>1, <1>2, <2>1, <2>2 DEF Counted, Live
  <2> QED BY <1>1, <1>3, <1>4, <2>2, <2>3, OthersCounted DEF Rises
<1> QED BY <1>5, <1>6, <1>7, <1>8 DEF CallStep

LEMMA RunStepCounts ==
  ASSUME BaseInv, CountInv, NEW r \in Runs, RunStep(r)
  PROVE  CountInv' /\ Rises
<1>1. PICK j \in Jobs, made \in Nat :
        /\ j = run[r].job /\ made = run[r].made /\ Only(j) /\ Live(r) /\ TypeOK
  BY RunTouches, Sole DEF BaseInv
<1>2. /\ made \in Nat /\ queue[j].state = "active" /\ queue[j].holder = r
      /\ \A x \in Runs : Live(x) /\ run[x].job = j => x = r
  BY <1>1, Sole
<1>3. db[j] \in RowRecords /\ queue[j] \in QueueRecords /\ Counted(j) /\ made = queue[j].made
  BY <1>1 DEF TypeOK, CountInv, Counted
<1>4. db[j].retryCount \in Nat /\ queue[j].made \in Nat /\ db[j].retryCount <= made
  BY <1>2, <1>3 DEF RowRecords, QueueRecords, Counted
<1>5. \A x \in Runs \ {r} : run'[x] = run[x]
  BY <1>1 DEF RunStep, Begin, Work, Complete, Fail, Update, Resolve, Reject, Settle, Goto, TypeOK
<1>6. \A k \in Jobs \ {j} : db'[k] = db[k] /\ db[k].retryCount \in Nat
  BY <1>1 DEF Only, TypeOK, RowRecords
<1>7. CASE Begin(r) \/ Complete(r) \/ Fail(r)
  <2>1. /\ queue' = queue
        /\ db'[j] \in {db[j], Processing(db[j]), Completed(db[j]), Failed(db[j], made)}
    BY <1>1, <1>7 DEF Begin, Complete, Fail, Update, Write, KeepRows, TypeOK
  <2>2. run'[r].made = made /\ run'[r].job = j
    BY <1>1, <1>7 DEF Begin, Complete, Fail, Update, Goto, TypeOK, RunRecords
  <2>3. /\ db'[j].retryCount = db[j].retryCount \/ (db'[j].retryCount = made /\ db[j].status # "none")
        /\ db'[j].status = "none" <=> db[j].status = "none"
    BY <1>2, <1>3, <2>1, Counts, RowPersists
  <2>4. Counted(j)'
    <3>1. \A x \in Runs : Live(x)' /\ run'[x].job = j => x = r
      BY <1>2, <1>5 DEF Live
    <3>2. db'[j].retryCount <= made /\ (db'[j].status = "none" => db'[j].retryCount = 0)
      BY <1>3, <1>4, <2>3 DEF Counted
    <3> QED BY <1>3, <2>1, <2>2, <3>1, <3>2 DEF Counted
  <2>5. db'[j].retryCount >= db[j].retryCount
    BY <1>4, <2>3
  <2> QED BY <1>1, <1>6, <2>4, <2>5, OthersCounted DEF Rises
<1>8. CASE Work(r)
  <2>1. UNCHANGED <<queue, db>> /\ run'[r].made = made /\ run'[r].job = j
    BY <1>1, <1>8 DEF Work, Goto, TypeOK, RunRecords
  <2>2. Counted(j)'
    <3>1. \A x \in Runs : Live(x)' /\ run'[x].job = j => x = r
      BY <1>2, <1>5 DEF Live
    <3> QED BY <1>3, <2>1, <3>1 DEF Counted
  <2> QED BY <1>1, <2>1, <2>2, OthersCounted, SameRows
<1>9. CASE Resolve(r) \/ Reject(r)
  <2>1. UNCHANGED db /\ queue'[j] \in {Succeeded(queue[j]), AttemptFailed(queue[j])}
    BY <1>1, <1>2, <1>9 DEF Resolve, Reject, Settle, Attended, TypeOK
  <2>2. \A x \in Runs : Live(x)' => run[x].job # j
    BY <1>1, <1>2, <1>5, <1>9 DEF Resolve, Reject, Settle, IdleRun, Live, TypeOK
  <2>3. queue'[j].made = made \/ queue'[j].made = made + 1
    BY <1>3, <2>1, Counts
  <2>4. Counted(j)'
    <3>1. \A x \in Runs : ~(Live(x)' /\ run'[x].job = j)
      BY <1>5, <1>9, <2>2, <1>1 DEF Resolve, Reject, Settle, IdleRun, Live, TypeOK
    <3>2. db[j].retryCount <= queue'[j].made
      BY <1>2, <1>4, <2>3
    <3> QED BY <1>3, <2>1, <3>1, <3>2 DEF Counted
  <2> QED BY <1>1, <2>1, <2>4, OthersCounted, SameRows
<1> QED BY <1>7, <1>8, <1>9 DEF RunStep

LEMMA QueueStepCounts ==
  ASSUME BaseInv, CountInv, NEW j \in Jobs,
         \/ \E r \in Runs, s \in Servers : Pick(r, s, j)
         \/ DelayedReady(j) \/ LockExpire(j) \/ StalledCheck(j)
  PROVE  CountInv' /\ Rises
<1>1. TypeOK /\ db[j] \in RowRecords /\ queue[j] \in QueueRecords /\ Counted(j)
  BY DEF BaseInv, TypeOK, CountInv
<1>2. CASE DelayedReady(j) \/ LockExpire(j) \/ StalledCheck(j)
  <2>1. /\ UNCHANGED <<db, run, lost>> /\ Only(j)
        /\ queue'[j] \in {Promoted(queue[j]), Unlocked(queue[j]), Recovered(queue[j])}
    BY <1>1, <1>2 DEF DelayedReady, LockExpire, StalledCheck, Only, TypeOK
  <2>2. queue[j].state # "absent"
    BY <1>2, NamesAssumption DEF DelayedReady, LockExpire, StalledCheck, BaseInv, SafetyInv, LockInv
  <2>3. Counted(j)'
    BY <1>1, <2>1, <2>2, Counts DEF Counted, Live
  <2> QED BY <1>1, <2>1, <2>3, OthersCounted, SameRows
<1>3. ASSUME NEW r \in Runs, NEW s \in Servers, Pick(r, s, j)
      PROVE  CountInv' /\ Rises
  <2>1. /\ UNCHANGED <<db, lost>> /\ queue[j].state = "waiting"
        /\ queue'[j] = Taken(queue[j], r) /\ run'[r].made = queue[j].made
        /\ \A x \in Runs \ {r} : run'[x] = run[x]
    BY <1>1, <1>3 DEF Pick, TypeOK
  <2>2. Only(j)
    BY <1>1, <1>3 DEF Pick, Only, TypeOK, Live
  <2>3. \A x \in Runs : run[x].job = j => run[x].pc = "idle"
    BY <2>1, Nobody
  <2>4. Counted(j)'
    BY <1>1, <2>1, <2>3, Counts DEF Counted, Live
  <2> QED BY <1>1, <2>1, <2>2, <2>4, OthersCounted, SameRows
<1> QED BY <1>2, <1>3

LEMMA CrashCounts ==
  ASSUME BaseInv, CountInv, NEW s \in Servers, Crash(s)
  PROVE  CountInv' /\ Rises
<1>1. TypeOK /\ UNCHANGED db
  BY DEF BaseInv, Crash
<1>2. \A k \in Jobs : queue'[k].made = queue[k].made /\ queue'[k].state = queue[k].state
  BY <1>1 DEF Crash, TypeOK, QueueRecords
<1>3. \A r \in Runs : Live(r)' => run'[r] = run[r]
  BY DEF Crash, IdleRun, Live
<1>4. CountInv'
  BY <1>1, <1>2, <1>3 DEF CountInv, Counted, Live
<1> QED BY <1>1, <1>4, SameRows

LEMMA CountStep ==
  ASSUME Timeouts = FALSE, BaseInv, CountInv, [Next]_vars
  PROVE  CountInv' /\ Rises
<1>1. CASE UNCHANGED vars
  BY <1>1, SameRows DEF vars, BaseInv, CountInv, Counted, Live
<1>2. CASE Next
  BY <1>2, ArrivalCounts, CallStepCounts, RunStepCounts, QueueStepCounts, CrashCounts
     DEF Next, Timeout
<1> QED BY <1>1, <1>2

\* If Bull's timeout never fires, the count of attempts that clients are shown
\* never goes back, whatever crashes or is refused (updateJobStatus with the
\* attemptsMade of its execution, queueService.retryJob).
THEOREM CountsRise ==
  ASSUME Timeouts = FALSE
  PROVE  Spec => RetryCountNeverFalls
<1>1. Init => BaseInv /\ CountInv
  <2>1. Init => CountInv
    BY DEF Init, CountInv, Counted, NoRow, IdleRun, Live, Absent
  <2> QED BY <2>1, BaseHolds
<1>2. BaseInv /\ CountInv /\ [Next]_vars => BaseInv' /\ CountInv' /\ Rises
  BY BaseHolds, CountStep
<1>3. Rises => \A j \in Jobs : db'[j].retryCount >= db[j].retryCount
  BY DEF Rises
<1> QED BY <1>1, <1>2, <1>3, PTL DEF Spec, RetryCountNeverFalls
-----------------------------------------------------------------------------
(* The status, while nothing crashes, fails or times out *)

Undisturbed == Timeouts = FALSE /\ Crashes = FALSE /\ DbFaults = {}

LEMMA AllDone ==
  ASSUME Undisturbed
  PROVE  \A o \in Outcomes : o = "done" /\ Applied(o) /\ ~Raised(o)
BY DEF Undisturbed, Outcomes, Applied, Raised

LEMMA OthersAgree ==
  ASSUME AgreementInv, NEW j \in Jobs, Only(j), Agreed(j)',
         \A c \in Calls : call[c].pc = "mark" /\ call[c].job # j => call'[c] = call[c]
  PROVE  AgreementInv'
<1> SUFFICES ASSUME NEW k \in Jobs, k # j PROVE Agreed(k)'
  BY DEF AgreementInv
<1>1. Agreed(k)
  BY DEF AgreementInv
<1>2. queue'[k] = queue[k] /\ db'[k] = db[k] /\ lost'[k] = lost[k]
  BY DEF Only
<1>3. \A r \in Runs : run'[r].job = k => run'[r] = run[r] \/ run'[r].pc = "idle"
  BY DEF Only, Live
<1>4. \A r \in Runs : run'[r].job = k => OnCourse(run'[r].pc, db'[k].status, lost'[k])
  BY <1>1, <1>2, <1>3 DEF Agreed, Overtaken, OnCourse
<1>5. \A r \in Runs : run[r].pc = "resolve" /\ run[r].job = k => run'[r] = run[r]
  BY DEF Only, Live
<1>6. db'[k].status = "completed" =>
        \/ queue'[k].state \in {"completed", "absent"}
        \/ \E r \in Runs : run'[r].pc = "resolve" /\ run'[r].job = k
  BY <1>1, <1>2, <1>5 DEF Agreed
<1>7. db'[k].status # "none" /\ queue'[k].state = "absent" =>
        \/ db'[k].status = "cancelled"
        \/ \E c \in Calls : call'[c].pc = "mark" /\ call'[c].job = k
  BY <1>1, <1>2 DEF Agreed
<1> QED BY <1>1, <1>2, <1>4, <1>6, <1>7 DEF Agreed, Overtaken

\* What a step may make of the status of a row.
Moves(from, to) ==
  \/ to = from
  \/ from = "none" /\ to = "pending"
  \/ from \in {"pending", "failed", "processing"} /\ to = "processing"
  \/ from \in {"pending", "processing"} /\ to \in {"completed", "failed"}
  \/ from # "none" /\ to = "cancelled"

Follows(j) ==
  /\ Moves(db[j].status, db'[j].status)
  /\ \A k \in Jobs \ {j} : db'[k] = db[k]

Status == [j \in Jobs |-> db[j].status]

LEMMA Followed ==
  ASSUME TypeOK, NEW j \in Jobs, Follows(j)
  PROVE  [Lifecycle!LifecycleNext]_Status
<1>1. \A k \in Jobs \ {j} : db'[k].status = db[k].status
  BY DEF Follows
<1>2. CASE db'[j].status = db[j].status
  BY <1>1, <1>2 DEF Status
<1>3. CASE db'[j].status # db[j].status
  <2> DEFINE to == db'[j].status
  <2>1. Status' = [Status EXCEPT ![j] = to] /\ Status[j] = db[j].status
    BY <1>1 DEF Status
  <2>2. db[j].status \in RowStatuses
    BY DEF TypeOK, RowRecords
  <2>3. /\ db[j].status = "none" /\ to = "pending" => Lifecycle!Store(j)
        /\ db[j].status \in {"pending", "failed", "processing"} /\ to = "processing"
             => Lifecycle!Start(j)
        /\ db[j].status \in {"pending", "processing"} /\ to = "completed" => Lifecycle!Succeed(j)
        /\ db[j].status \in {"pending", "processing"} /\ to = "failed" => Lifecycle!GiveUp(j)
        /\ db[j].status \notin {"none", "cancelled"} /\ to = "cancelled" => Lifecycle!Withdraw(j)
    BY <2>1, <2>2 DEF Status, RowStatuses, Lifecycle!Statuses, Lifecycle!Store, Lifecycle!Start,
                      Lifecycle!Succeed, Lifecycle!GiveUp, Lifecycle!Withdraw, Lifecycle!Move
  <2>4. QED
    BY <1>3, <2>1, <2>3 DEF Follows, Moves, Lifecycle!LifecycleNext
<1> QED BY <1>2, <1>3

\* A step that leaves the rows, and the requests that are recording a cancellation,
\* as they are.
LEMMA QueueMoves ==
  ASSUME BaseInv, AgreementInv, NEW j \in Jobs, Only(j), Agreed(j)', UNCHANGED <<db, call>>
  PROVE  AgreementInv' /\ Follows(j)
BY OthersAgree DEF Follows, Moves

LEMMA ArrivalAgrees ==
  ASSUME BaseInv, AgreementInv, NEW c \in Calls, NEW s \in Servers, NEW j \in Jobs,
         Arrival(c, s, j)
  PROVE  AgreementInv' /\ Follows(j)
<1>1. /\ UNCHANGED <<db, run, lost>> /\ Only(j)
      /\ queue' = queue \/ (Fresh(j) /\ queue'[j] = Added)
  BY ArrivalTouches
<1>2. \A d \in Calls : call[d].pc = "mark" => call'[d] = call[d]
  <2>1. call[c].pc = "idle" /\ \A d \in Calls \ {c} : call'[d] = call[d]
    BY DEF BaseInv, Arrival, SubmitAdd, ReadForRetry, ReadForCancel, ReadForStatus, Request, TypeOK
  <2> QED BY <2>1
<1>3. Agreed(j)
  BY DEF AgreementInv
<1>4. Agreed(j)'
  <2>1. CASE queue' = queue
    BY <1>1, <1>2, <1>3, <2>1 DEF Agreed, Overtaken
  <2>2. CASE Fresh(j) /\ queue'[j] = Added
    <3>1. \A r \in Runs : run[r].job = j => run[r].pc = "idle"
      BY <2>2, Nobody DEF Fresh
    <3>2. Added.state = "waiting" /\ db'[j].status = "none"
      BY <1>1, <2>2 DEF Added, Absent, Fresh
    <3> QED BY <1>1, <2>2, <3>1, <3>2 DEF Agreed, Overtaken, OnCourse
  <2> QED BY <1>1, <2>1, <2>2
<1> QED BY <1>1, <1>2, <1>4, OthersAgree DEF Follows, Moves

LEMMA CallStepAgrees ==
  ASSUME Undisturbed, BaseInv, AgreementInv, NEW c \in Calls, CallStep(c)
  PROVE  AgreementInv' /\ \E j \in Jobs : Follows(j)
<1>1. PICK j \in Jobs : /\ j = call[c].job /\ Only(j) /\ UNCHANGED run
                        /\ TypeOK /\ RequestInv /\ CancelInv
  BY RequestTouches DEF BaseInv, SafetyInv
<1>2. Agreed(j)
  BY DEF AgreementInv
<1>3. \A d \in Calls \ {c} : call'[d] = call[d]
  BY <1>1 DEF CallStep, InsertRow, RetryInQueue, RemoveFromQueue, MarkCancelled, AskQueue, Respond,
              Answer, TypeOK
<1>4. ASSUME Agreed(j)', Moves(db[j].status, db'[j].status)
      PROVE  AgreementInv' /\ \E k \in Jobs : Follows(k)
  <2>1. Follows(j)
    BY <1>1, <1>4 DEF Follows, Only
  <2> QED BY <1>1, <1>3, <1>4, <2>1, OthersAgree
<1>5. \A d \in Calls : d # c => (call'[d].pc = "mark" /\ call'[d].job = j <=> call[d].pc = "mark" /\ call[d].job = j)
  BY <1>3
<1>6. CASE InsertRow(c)
  <2>1. /\ db[j].status = "none" /\ queue[j].state # "absent"
        /\ UNCHANGED <<queue, lost>> /\ db'[j] \in {db[j], Created}
    BY <1>1, <1>6 DEF InsertRow, RequestInv, TypeOK
  <2>2. db'[j].status \in {"none", "pending"}
    BY <2>1 DEF Created, NoRow
  <2>3. \A r \in Runs : run'[r].job = j => OnCourse(run'[r].pc, db'[j].status, lost'[j])
    BY <1>1, <1>2, <2>1, <2>2 DEF Agreed, Overtaken, OnCourse
  <2>4. Agreed(j)'
    BY <1>1, <1>2, <2>1, <2>2, <2>3 DEF Agreed, Overtaken
  <2> QED BY <1>4, <2>1, <2>2, <2>4 DEF Moves
<1>7. CASE RetryInQueue(c) \/ AskQueue(c) \/ Respond(c)
  <2>1. /\ UNCHANGED <<db, lost>> /\ call[c].pc # "mark"
        /\ queue'[j] = queue[j] \/ (CanRetry(queue[j]) /\ queue'[j] = Requeued(queue[j]))
    BY <1>1, <1>7 DEF RetryInQueue, AskQueue, Respond, TypeOK
  <2>2. Agreed(j)'
    <3>1. CASE queue'[j] = queue[j]
      BY <1>1, <1>2, <1>5, <2>1, <3>1 DEF Agreed, Overtaken
    <3>2. CASE CanRetry(queue[j]) /\ queue'[j] = Requeued(queue[j])
      <4>1. queue[j].state = "failed" /\ queue'[j].state = "waiting"
        BY <1>1, <3>2 DEF CanRetry, Requeued, TypeOK, QueueRecords
      <4>2. \A r \in Runs : run[r].job = j => run[r].pc = "idle"
        BY <4>1, Nobody
      <4> QED BY <1>1, <1>2, <2>1, <4>1, <4>2 DEF Agreed, Overtaken, OnCourse
    <3> QED BY <2>1, <3>1, <3>2
  <2> QED BY <1>4, <2>1, <2>2 DEF Moves
<1>8. CASE RemoveFromQueue(c)
  <2>1. UNCHANGED <<db, lost>> /\ call[c].pc = "remove"
    BY <1>8 DEF RemoveFromQueue
  <2>2. CASE queue' = queue
    <3>1. Agreed(j)'
      BY <1>1, <1>2, <1>5, <2>1, <2>2 DEF Agreed, Overtaken
    <3> QED BY <1>4, <2>1, <3>1 DEF Moves
  <2>3. CASE /\ CanRemove(queue[j]) /\ queue'[j] = Absent
             /\ call' = [call EXCEPT ![c].pc = "mark"]
    <3>1. \A r \in Runs : run[r].job = j => run[r].pc = "idle"
      BY <2>3, Nobody, NamesAssumption DEF CanRemove
    <3>2. call'[c].pc = "mark" /\ call'[c].job = j
      BY <1>1, <2>3 DEF TypeOK, CallRecords
    <3>3. Agreed(j)'
      BY <1>1, <2>1, <2>3, <3>1, <3>2 DEF Agreed, Overtaken, OnCourse, Absent
    <3> QED BY <1>4, <2>1, <3>3 DEF Moves
  <2> QED BY <1>1, <1>8, <2>2, <2>3 DEF RemoveFromQueue, TypeOK
<1>9. CASE MarkCancelled(c)
  <2>1. queue[j].state = "absent" /\ db[j].status # "none"
    BY <1>1, <1>9 DEF MarkCancelled, CancelInv, RequestInv
  <2>2. UNCHANGED <<queue, lost>> /\ db'[j].status = "cancelled"
    BY <1>1, <1>9, <2>1, AllDone DEF MarkCancelled, Write, Cancelled, Updated, TypeOK
  <2>3. \A r \in Runs : run[r].job = j => run[r].pc = "idle"
    BY <2>1, Nobody
  <2>4. Agreed(j)'
    BY <1>1, <2>1, <2>2, <2>3 DEF Agreed, Overtaken, OnCourse
  <2> QED BY <1>4, <2>1, <2>2, <2>4 DEF Moves
<1> QED BY <1>6, <1>7, <1>8, <1>9 DEF CallStep

LEMMA RunStepAgrees ==
  ASSUME Undisturbed, BaseInv, AgreementInv, NEW r \in Runs, RunStep(r)
  PROVE  AgreementInv' /\ \E j \in Jobs : Follows(j)
<1>1. PICK j \in Jobs, made \in Nat :
        /\ j = run[r].job /\ made = run[r].made /\ Only(j) /\ Live(r) /\ TypeOK
  BY RunTouches, Sole DEF BaseInv
<1>2. /\ queue[j].state = "active" /\ queue[j].holder = r
      /\ \A x \in Runs : Live(x) /\ run[x].job = j => x = r
  BY <1>1, Sole
<1>3. Agreed(j) /\ OnCourse(run[r].pc, db[j].status, lost[j]) /\ db[j].status # "cancelled"
  BY <1>1, <1>2 DEF AgreementInv, Agreed, BaseInv, CancelInv
<1>4. db[j] \in RowRecords /\ queue[j] \in QueueRecords
  BY <1>1 DEF TypeOK
<1>5. call' = call /\ \A x \in Runs \ {r} : run'[x] = run[x]
  BY <1>1 DEF RunStep, Begin, Work, Complete, Fail, Update, Resolve, Reject, Settle, Goto, TypeOK
<1>6. \A x \in Runs \ {r} : run'[x].job = j => run'[x].pc = "idle"
  BY <1>2, <1>5 DEF Live
<1>7. db[j].status = "completed" => run[r].pc = "resolve"
  BY <1>2, <1>3 DEF Agreed, Live
<1>8. ASSUME Agreed(j)', Moves(db[j].status, db'[j].status)
      PROVE  AgreementInv' /\ \E k \in Jobs : Follows(k)
  <2>1. Follows(j)
    BY <1>1, <1>8 DEF Follows, Only
  <2> QED BY <1>1, <1>5, <1>8, <2>1, OthersAgree
\* The execution goes on to pc, and the row as it should.
<1>9. ASSUME NEW pc \in RunPcs, Goto(r, pc), UNCHANGED queue,
             OnCourse(pc, db'[j].status, lost'[j]),
             db'[j].status = "completed" => pc = "resolve"
      PROVE  Agreed(j)'
  <2>1. run'[r].pc = pc /\ run'[r].job = j
    BY <1>1, <1>9, GotoKeepsJob
  <2>2. \A x \in Runs : run'[x].job = j => OnCourse(run'[x].pc, db'[j].status, lost'[j])
    BY <1>6, <1>9, <2>1 DEF OnCourse
  <2> QED BY <1>2, <1>9, <2>1, <2>2 DEF Agreed
<1>10. CASE Begin(r)
  <2>1. /\ UNCHANGED queue /\ Goto(r, "work")
        /\ db'[j] = Processing(db[j])
    BY <1>1, <1>10, AllDone DEF Begin, Update, Write, TypeOK
  <2>2. db'[j].status = IF db[j].status = "none" THEN "none" ELSE "processing"
    BY <2>1 DEF Processing, Updated
  <2>3. db[j].status \in {"none", "pending", "failed", "processing"}
    BY <1>3, <1>4, <1>10 DEF Begin, OnCourse, RowRecords, RowStatuses
  <2> QED BY <1>8, <1>9, <2>1, <2>2, <2>3 DEF OnCourse, Moves, RunPcs
<1>11. CASE Work(r)
  <2>1. PICK pc \in {"complete", "fail"} : Goto(r, pc) /\ UNCHANGED <<queue, db, lost>>
    BY <1>11 DEF Work
  <2>2. OnCourse(pc, db'[j].status, lost'[j]) /\ db'[j].status # "completed"
    BY <1>3, <1>11, <2>1 DEF Work, OnCourse
  <2> QED BY <1>8, <1>9, <2>1, <2>2 DEF Moves, RunPcs
<1>12. CASE Complete(r)
  <2>1. /\ UNCHANGED queue /\ Goto(r, "resolve")
        /\ db'[j] = Completed(db[j])
    BY <1>1, <1>12, AllDone DEF Complete, Update, Write, TypeOK
  <2>2. db'[j].status = IF db[j].status = "none" THEN "none" ELSE "completed"
    BY <2>1 DEF Completed, Updated
  <2>3. db[j].status \in {"none", "pending", "processing"}
    BY <1>3, <1>12 DEF Complete, OnCourse
  <2> QED BY <1>8, <1>9, <2>1, <2>2, <2>3 DEF OnCourse, Moves, RunPcs
<1>13. CASE Fail(r)
  <2>1. /\ UNCHANGED queue /\ Goto(r, "reject")
        /\ db'[j] = Failed(db[j], made)
        /\ db[j].status = "none" => "failed" \in lost'[j]
    BY <1>1, <1>13, AllDone DEF Fail, Write, TypeOK
  <2>2. db'[j].status = IF db[j].status = "none" THEN "none" ELSE "failed"
    BY <2>1 DEF Failed, Updated
  <2>3. db[j].status \in {"none", "pending", "processing"}
    BY <1>3, <1>13 DEF Fail, OnCourse
  <2> QED BY <1>8, <1>9, <2>1, <2>2, <2>3 DEF OnCourse, Moves, RunPcs
<1>14. CASE Resolve(r) \/ Reject(r)
  <2>1. UNCHANGED <<db, lost>> /\ run'[r].pc = "idle"
    BY <1>1, <1>14 DEF Resolve, Reject, Settle, IdleRun, TypeOK
  <2>2. \A x \in Runs : run'[x].job = j => run'[x].pc = "idle"
    BY <1>6, <2>1
  <2>3. CASE Resolve(r)
    <3>1. queue'[j].state = "completed"
      BY <1>1, <1>2, <1>4, <2>3 DEF Resolve, Settle, Attended, Succeeded, TypeOK, QueueRecords
    <3>2. Agreed(j)'
      BY <2>2, <3>1 DEF Agreed, Overtaken, OnCourse
    <3> QED BY <1>8, <2>1, <3>2 DEF Moves
  <2>4. CASE Reject(r)
    <3>1. queue'[j].state \in {"delayed", "failed"}
      BY <1>1, <1>2, <1>4, <2>4 DEF Reject, Settle, Attended, AttemptFailed, TypeOK, QueueRecords
    <3>2. db[j].status # "completed" /\ (db[j].status = "failed" \/ Overtaken(j))
      BY <1>3, <1>7, <2>4 DEF Reject, Overtaken, OnCourse
    <3>3. Agreed(j)'
      BY <2>1, <2>2, <3>1, <3>2 DEF Agreed, Overtaken, OnCourse
    <3> QED BY <1>8, <2>1, <3>3 DEF Moves
  <2> QED BY <1>14, <2>3, <2>4
<1> QED BY <1>10, <1>11, <1>12, <1>13, <1>14 DEF RunStep

LEMMA QueueStepAgrees ==
  ASSUME Undisturbed, BaseInv, AgreementInv, NEW j \in Jobs,
         \/ \E r \in Runs, s \in Servers : Pick(r, s, j)
         \/ DelayedReady(j) \/ LockExpire(j) \/ StalledCheck(j)
  PROVE  AgreementInv' /\ Follows(j)
<1>1. TypeOK /\ queue[j] \in QueueRecords /\ Agreed(j)
  BY DEF BaseInv, TypeOK, AgreementInv
<1>2. ~LockExpire(j) /\ ~StalledCheck(j)
  BY <1>1, NamesAssumption
     DEF LockExpire, StalledCheck, Agreed, BaseInv, SafetyInv, LockInv
<1>3. CASE DelayedReady(j)
  <2>1. /\ UNCHANGED <<db, run, call, lost>> /\ Only(j) /\ queue[j].state = "delayed"
        /\ queue'[j].state = "waiting"
    BY <1>1, <1>3 DEF DelayedReady, Promoted, Only, TypeOK, QueueRecords
  <2>2. \A r \in Runs : run[r].job = j => run[r].pc = "idle"
    BY <2>1, Nobody
  <2>3. Agreed(j)'
    BY <1>1, <2>1, <2>2 DEF Agreed, Overtaken, OnCourse
  <2> QED BY <2>1, <2>3, QueueMoves
<1>4. ASSUME NEW r \in Runs, NEW s \in Servers, Pick(r, s, j)
      PROVE  AgreementInv' /\ Follows(j)
  <2>1. /\ UNCHANGED <<db, call, lost>> /\ queue[j].state = "waiting"
        /\ queue'[j].state = "active" /\ queue'[j].holder = r /\ run'[r].pc = "begin"
        /\ \A x \in Runs \ {r} : run'[x] = run[x]
    BY <1>1, <1>4 DEF Pick, Taken, TypeOK, QueueRecords
  <2>2. Only(j) /\ run'[r].job = j
    BY <1>1, <1>4 DEF Pick, Only, TypeOK, Live
  <2>3. \A x \in Runs : run[x].job = j => run[x].pc = "idle"
    BY <2>1, Nobody
  <2>4. db[j].status # "completed"
    BY <1>1, <2>1, <2>3 DEF Agreed
  <2>5. \A x \in Runs : run'[x].job = j => OnCourse(run'[x].pc, db'[j].status, lost'[j])
    BY <2>1, <2>3, <2>4 DEF OnCourse
  <2>6. Agreed(j)'
    BY <2>1, <2>4, <2>5 DEF Agreed
  <2> QED BY <2>1, <2>2, <2>6, QueueMoves
<1> QED BY <1>2, <1>3, <1>4

LEMMA AgreementStep ==
  ASSUME Undisturbed, BaseInv, AgreementInv, [Next]_vars
  PROVE  AgreementInv' /\ [Lifecycle!LifecycleNext]_Status
<1>1. TypeOK
  BY DEF BaseInv
<1>2. CASE UNCHANGED vars
  BY <1>2 DEF vars, AgreementInv, Agreed, Overtaken, Status
<1>3. CASE Next
  BY <1>1, <1>3, ArrivalAgrees, CallStepAgrees, RunStepAgrees, QueueStepAgrees, Followed
     DEF Next, Timeout, Crash, Undisturbed
<1> QED BY <1>2, <1>3

LEMMA Agreement ==
  ASSUME Undisturbed
  PROVE  /\ Init => BaseInv /\ AgreementInv
         /\ BaseInv /\ AgreementInv /\ [Next]_vars
              => BaseInv' /\ AgreementInv' /\ [Lifecycle!LifecycleNext]_Status
<1>1. Timeouts = FALSE
  BY DEF Undisturbed
<1>2. Init => AgreementInv
  BY DEF Init, AgreementInv, Agreed, Overtaken, OnCourse, NoRow, IdleRun, Absent
<1> QED BY <1>1, <1>2, BaseHolds, AgreementStep

\* While nothing crashes, fails or times out, the row of a job in Bull's failed
\* set says failed, except where every attempt was over before the INSERT: that
\* row is as createJob made it (updateJobStatus by the workers, retryJob).
THEOREM FailuresRecorded ==
  ASSUME Undisturbed
  PROVE  Spec => []FailureIsRecorded
<1>1. AgreementInv => FailureIsRecorded
  BY DEF AgreementInv, Agreed, FailureIsRecorded
<1> QED BY <1>1, Agreement, PTL DEF Spec

\* While nothing crashes, fails or times out, a stored job is not in the queue
\* only if it was cancelled, or is about to be recorded as cancelled (cancelJob).
THEOREM CancelRemoves ==
  ASSUME Undisturbed
  PROVE  Spec => []OnlyCancelRemoves
<1>1. AgreementInv => OnlyCancelRemoves
  BY DEF AgreementInv, Agreed, OnlyCancelRemoves
<1> QED BY <1>1, Agreement, PTL DEF Spec

\* While nothing crashes, fails or times out, JobSystem implements JobLifecycle:
\* the status column moves as its readers are promised.
THEOREM Implementation ==
  ASSUME Undisturbed
  PROVE  Spec => FollowsLifecycle
<1>1. Init => Lifecycle!LifecycleInit
  BY DEF Init, NoRow, Lifecycle!LifecycleInit
<1> QED BY <1>1, Agreement, PTL DEF Spec, FollowsLifecycle, Lifecycle!LifecycleSpec, Status
=============================================================================
