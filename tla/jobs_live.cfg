SPECIFICATION FairSpec
CONSTANTS
  j1 = j1
  j2 = j2
  Jobs = {j1}
  Runs = {r1, r2}
  Calls = {c1}
  Servers = {s1}
  Users <- MCUsers
  Owner <- MCOwner
  JobType <- MCJobType
  NoProject = {}
  Concurrency = 1
  MaxManualRetries = 1
  Timeouts = TRUE
  Crashes = TRUE
  DbFaults = {"refused"}
  MaxAttempts = 2
  MaxStalls = 1
  NoRun = NoRun
  DeadRun = DeadRun
  NoJob = NoJob
  NoServer = NoServer
INVARIANTS SafetyInv ExecutionBudget
PROPERTY SubmittedJobSettles
