CONSTANTS
  j1 = j1
  j2 = j2
  r1 = r1
  r2 = r2
  s1 = s1
  s2 = s2
  e1 = e1
  e2 = e2
  Jobs = {j1}
  Runs = {r1, r2}
  Sessions = {s1}
  Executors = {e1, e2}
  None = None
  JobOf <- OneJob
  SessionOf <- OneSession
  Trigger <- ScheduledAndComposio
  MaxAttempts = 1
  RunTimeout = 1
  StaleAge = 2
  MaxDispatches = 1
  EditedJobs = {j1}
  ChatSessions = {}
  MaxCrashes = 0
SPECIFICATION Spec
CHECK_DEADLOCK FALSE
SYMMETRY ExecutorSymmetry
INVARIANTS
  PauseIsQueueBarrier
