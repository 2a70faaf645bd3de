------------------------------ MODULE JobRows ------------------------------
(***************************************************************************)
(* One row of the jobs table and what src/services/job-db.service.js does  *)
(* to it.  Of the columns, the model keeps those a property tells apart:   *)
(* the status, whether a result is stored, and retry_count.                *)
(***************************************************************************)
EXTENDS Naturals

RowStatuses == {"none", "pending", "processing", "completed", "failed", "cancelled"}

\* No row has this job_id.
NoRow == [status |-> "none", result |-> FALSE, retryCount |-> 0]

\* Broken variant of Created: the row takes over the queue's word.
CreatedWaiting == [NoRow EXCEPT !.status = "waiting"]

\* createJob
Created == [NoRow EXCEPT !.status = "pending"]

\* updateJobStatus: an UPDATE ... WHERE job_id that matches no row changes
\* nothing and still succeeds.  A result, once stored, is never cleared.
Updated(row, status, result, retryCount) ==
    IF row.status = "none"
    THEN row
    ELSE [status     |-> status,
          result     |-> row.result \/ result,
          retryCount |-> retryCount]

\* The updates the workers and cancelJob ask for.
Processing(row)   == Updated(row, "processing", FALSE, row.retryCount)
Completed(row)    == Updated(row, "completed", TRUE, row.retryCount)
Failed(row, made) == Updated(row, "failed", FALSE, made)
Cancelled(row)    == Updated(row, "cancelled", FALSE, row.retryCount)
=============================================================================
