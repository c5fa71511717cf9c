CONSTANTS
  j1 = j1
  j2 = j2
  r1 = r1
  r2 = r2
  s1 = s1
  s2 = s2
  e1 = e1
  e2 = e2
  Jobs = {j1}
  Runs = {r1}
  Sessions = {s1}
  Executors = {e1, e2}
  None = None
  JobOf <- Job1
  SessionOf <- Session1
  Trigger <- Trigger1
  MaxAttempts = 2
  RunTimeout = 1
  StaleAge = 2
  MaxDispatches = 1
  EditedJobs = {j1}
  ChatSessions = {s1}
  MaxCrashes = 1
SPECIFICATION FairSpec
CHECK_DEADLOCK FALSE
INVARIANTS
  ClaimExclusive
  WorkKeepsItsRun
  PauseBarrier
  ReviewHolds
PROPERTIES
  EndedRunsStay
  AttemptsRunOnce
  RunningEnds
