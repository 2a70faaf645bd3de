---------------------------- MODULE JobLifecycle ----------------------------
(***************************************************************************)
(* What the jobs table promises its readers about one job after another:   *)
(* the statuses of config/jobs.config.js, in the order the workers write   *)
(* them, and "cancelled", from which nothing leads away.                   *)
(***************************************************************************)
CONSTANT Jobs

VARIABLE status      \* status[j], "none" while the job has no row

Statuses == {"none", "pending", "processing", "completed", "failed", "cancelled"}

LifecycleInit == status = [j \in Jobs |-> "none"]

Move(j, from, to) ==
  /\ status[j] \in from
  /\ status' = [status EXCEPT ![j] = to]

Store(j)    == Move(j, {"none"}, "pending")
Start(j)    == Move(j, {"pending", "failed", "processing"}, "processing")
Succeed(j)  == Move(j, {"pending", "processing"}, "completed")
GiveUp(j)   == Move(j, {"pending", "processing"}, "failed")
Withdraw(j) == Move(j, Statuses \ {"none", "cancelled"}, "cancelled")

LifecycleNext ==
  \E j \in Jobs : Store(j) \/ Start(j) \/ Succeed(j) \/ GiveUp(j) \/ Withdraw(j)

LifecycleSpec == LifecycleInit /\ [][LifecycleNext]_status
=============================================================================
