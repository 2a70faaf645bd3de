----------------------------- MODULE BullQueue -----------------------------
(***************************************************************************)
(* One job of a Bull queue, as src/services/queue.service.js uses it.  Bull *)
(* and Redis are external: what is stated here is what the options given to *)
(* Bull ask of it (three attempts, exponential backoff, nothing removed     *)
(* when a job ends) and the outcomes the callers rely on.                   *)
(*                                                                          *)
(* An entry records the state Bull reports for the job, the attempts that   *)
(* have failed (job.attemptsMade), how often the job was found stalled, and *)
(* the execution that holds the job's lock.                                 *)
(***************************************************************************)
EXTENDS Naturals

CONSTANTS MaxAttempts,  \* attempts given to Bull (JOB_CONFIG.MAX_RETRIES)
          MaxStalls,    \* Bull's maxStalledCount, its default
          NoRun,        \* nobody holds the lock
          DeadRun       \* the lock of an execution whose process has died

QueueStates == {"absent", "waiting", "delayed", "active", "completed", "failed"}

Absent == [state |-> "absent", made |-> 0, stalls |-> 0, holder |-> NoRun]

\* add() under a job id the queue has not seen.
Added == [Absent EXCEPT !.state = "waiting"]

\* A worker takes a waiting job and its lock.
Taken(e, r) == [e EXCEPT !.state = "active", !.holder = r]

\* The processor's promise resolved while it held the lock.
Succeeded(e) == [e EXCEPT !.state = "completed", !.holder = NoRun]

\* Broken variants of AttemptFailed, for checking the properties: one attempt
\* too many, and a job removed once it has failed (removeOnFail: true).
AttemptFailedOnceMore(e) ==
    [e EXCEPT !.made   = @ + 1,
              !.state  = IF e.made < MaxAttempts THEN "delayed" ELSE "failed",
              !.holder = NoRun]
AttemptFailedAndRemoved(e) ==
    IF e.made + 1 < MaxAttempts
    THEN [e EXCEPT !.made = @ + 1, !.state = "delayed", !.holder = NoRun]
    ELSE Absent

\* The attempt failed: another one after the backoff, or none is left.
AttemptFailed(e) ==
    [e EXCEPT !.made   = @ + 1,
              !.state  = IF e.made + 1 < MaxAttempts THEN "delayed" ELSE "failed",
              !.holder = NoRun]

\* The backoff has passed.
Promoted(e) == [e EXCEPT !.state = "waiting"]

\* The dead holder stopped renewing the lock and it expired.
Unlocked(e) == [e EXCEPT !.holder = NoRun]

\* The stalled-jobs check found the job active and unlocked.
Recovered(e) ==
    [e EXCEPT !.stalls = @ + 1,
              !.state  = IF e.stalls + 1 > MaxStalls THEN "failed" ELSE "waiting"]

\* Broken variant of CanRetry: whatever the queue has is put back.
CanRetryAnyway(e) == e.state # "absent"

\* job.retry() puts a failed, unlocked job back; it does not reset attemptsMade.
CanRetry(e) == e.state = "failed" /\ e.holder = NoRun
Requeued(e) == [e EXCEPT !.state = "waiting"]

\* Broken variant of CanRemove: the lock is not looked at.
CanRemoveAnyway(e) == TRUE

\* job.remove() refuses a job whose lock is held; removing no job is a success.
CanRemove(e) == e.holder = NoRun
=============================================================================
