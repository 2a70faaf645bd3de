SPECIFICATION Spec
CONSTANTS
  j1 = j1
  j2 = j2
  Jobs = {j1, j2}
  Runs = {r1, r2}
  Calls = {c1, c2}
  Servers = {s1}
  Users <- MCUsers
  Owner <- MCOwner
  JobType <- MCJobType
  NoProject = {}
  Concurrency = 1
  MaxManualRetries = 1
  Timeouts = FALSE
  Crashes = FALSE
  DbFaults = {}
  MaxAttempts = 2
  MaxStalls = 1
  NoRun = NoRun
  DeadRun = DeadRun
  NoJob = NoJob
  NoServer = NoServer
SYMMETRY MCSymmetry
INVARIANTS TypeOK FailureIsRecorded OnlyCancelRemoves
PROPERTY FollowsLifecycle
