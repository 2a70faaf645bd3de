SPECIFICATION Spec
CONSTANTS
  j1 = j1
  j2 = j2
  Jobs = {j1}
  Runs = {r1, r2}
  Calls = {c1, c2}
  Servers = {s1, s2}
  Users <- MCUsers
  Owner <- MCOwner
  JobType <- MCJobType
  NoProject = {}
  Concurrency = 1
  MaxManualRetries = 1
  Timeouts = FALSE
  Crashes = TRUE
  DbFaults = {"refused", "lostReply"}
  MaxAttempts = 2
  MaxStalls = 1
  NoRun = NoRun
  DeadRun = DeadRun
  NoJob = NoJob
  NoServer = NoServer
SYMMETRY MCSymmetry
INVARIANTS OneProcessorPerJob CancelledNeverRuns CompletedIsBacked
PROPERTY RetryCountNeverFalls
