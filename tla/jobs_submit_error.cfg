SPECIFICATION Spec
CONSTANTS
  j1 = j1
  j2 = j2
  Jobs = {j1}
  Runs = {r1}
  Calls = {c1}
  Servers = {s1}
  Users <- MCUsers
  Owner <- MCOwner
  JobType <- MCJobType
  NoProject = {j1}
  Concurrency = 1
  MaxManualRetries = 0
  Timeouts = FALSE
  Crashes = FALSE
  DbFaults = {}
  MaxAttempts = 3
  MaxStalls = 1
  NoRun = NoRun
  DeadRun = DeadRun
  NoJob = NoJob
  NoServer = NoServer
INVARIANT FailedSubmitLeavesNothing
