------------------------------- MODULE MCJobs -------------------------------
(***************************************************************************)
(* Small instances of the job system for TLC.                              *)
(***************************************************************************)
EXTENDS JobInvariants, TLC

CONSTANTS j1, j2

\* Every job is submitted by alice; bob is somebody else with an account.
MCUsers == {"alice", "bob"}
MCOwner == [j \in Jobs |-> "alice"]

\* j1 is a job whose own work can fail, j2 one whose work cannot.
MCJobType == [j \in Jobs |-> IF j = j1 THEN "code_execution" ELSE "data_export"]

\* Executions, requests and servers are interchangeable in safety runs.
MCSymmetry ==
  Permutations(Runs) \cup Permutations(Calls) \cup Permutations(Servers)
=============================================================================
