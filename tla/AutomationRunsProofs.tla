------------------------ MODULE AutomationRunsProofs ------------------------
(***************************************************************************)
(* Proofs about AutomationRuns, for any number of jobs, runs, sessions and *)
(* executions, and for every choice of attempts, timeouts and slots.       *)
(***************************************************************************)
EXTENDS AutomationRuns, TLAPS

USE DEF jobVars, rowVars, outVars, opVars, lockVars, envVars

-----------------------------------------------------------------------------
(* What the helpers of the actions do to the types *)

LEMMA RowBecomesTypes ==
  ASSUME RowTypes, NEW r \in Runs, NEW s \in RowStates, RowBecomes(r, s)
  PROVE  RowTypes'
  BY NumbersAssumption DEF RowTypes, RowBecomes

LEMMA TouchTypes ==
  ASSUME JobTypes, NEW J, Touch(J)
  PROVE  edit' \in [Jobs -> {"none", "active", "paused", "stale"}]
  BY DEF JobTypes, Touch

LEMMA FinishTypes ==
  ASSUME JobTypes, RowTypes, NEW e \in Executors, run[e] \in Runs,
         NEW s \in RowStates, Finish(e, s)
  PROVE  JobTypes' /\ RowTypes'
<1>1. CASE Expected(e)
  BY <1>1, RowBecomesTypes, TouchTypes DEF Finish, JobTypes
<1>2. CASE ~Expected(e)
  BY <1>2 DEF Finish, JobTypes, RowTypes
<1> QED
  BY <1>1, <1>2

LEMMA ScheduleRetryTypes ==
  ASSUME JobTypes, RowTypes, OutTypes, NEW e \in Executors, run[e] \in Runs,
         expAtt[e] < MaxAttempts, ScheduleRetry(e)
  PROVE  JobTypes' /\ RowTypes'
<1>1. CASE Expected(e) /\ BackInQueue(run[e], ratt[run[e]] + 1)
  <2>1. ratt[run[e]] + 1 \in Attempts
    BY <1>1, NumbersAssumption DEF Expected, OutTypes, Attempts
  <2>2. RowTypes'
    BY <1>1, <2>1, NumbersAssumption DEF BackInQueue, RowTypes, RowStates, Queued
  <2> QED
    BY <1>1, <2>2, TouchTypes DEF BackInQueue, JobTypes
<1>2. CASE RowBecomes(run[e], "failed") /\ UNCHANGED jobVars
  BY <1>2, RowBecomesTypes DEF JobTypes, RowStates, Terminal
<1>3. CASE UNCHANGED <<rowVars, jobVars>>
  BY <1>3 DEF JobTypes, RowTypes
<1> QED
  BY <1>1, <1>2, <1>3 DEF ScheduleRetry

LEMMA PauseForReviewTypes ==
  ASSUME JobTypes, RowTypes, NEW j \in Jobs, NEW newRst \in [Runs -> RowStates],
         PauseForReview(j, newRst)
  PROVE  /\ JobTypes'
         /\ rst' \in [Runs -> RowStates]
         /\ rphase' \in [Runs -> {"later", "due", "missed"}]
<1>1. JobTypes'
  BY TouchTypes DEF PauseForReview, JobTypes
<1>2. rst' \in [Runs -> RowStates]
  BY DEF PauseForReview, RowStates, Terminal
<1>3. rphase' \in [Runs -> {"later", "due", "missed"}]
  BY DEF PauseForReview, PhaseOf, RowTypes
<1> QED
  BY <1>1, <1>2, <1>3

LEMMA ForgetTypes ==
  ASSUME OutTypes, NEW e \in Executors, Forget(e), dispatched' \subseteq Runs
  PROVE  OutTypes'
  BY NumbersAssumption DEF OutTypes, Forget, OuterStates, Attempts

LEMMA ExitTypes ==
  ASSUME OutTypes, NEW e \in Executors, Exit(e)
  PROVE  OutTypes'
<1>1. dispatched' \subseteq Runs
  BY DEF Exit, Leaves, OutTypes
<1> QED
  BY <1>1, ForgetTypes DEF Exit

LEMMA MoveToTypes ==
  ASSUME OutTypes, NEW e \in Executors, NEW p \in OuterStates, MoveTo(e, p)
  PROVE  OutTypes'
  BY NumbersAssumption DEF OutTypes, MoveTo
-----------------------------------------------------------------------------
(* What an execution is doing determines which part of the state it holds. *)

HasWork(e) == op[e] # "none"

Shape(e) ==
  /\ pc[e] = "idle" <=> run[e] = None
  /\ pc[e] # "idle" => expSt[e] # "none"
  /\ pc[e] \in {"racing", "grace", "zombie"} => HasWork(e)
  /\ HasWork(e) => pc[e] \in {"racing", "grace", "shutdown", "zombie"}
  /\ goal[e] # "none" => \/ op[e] = "write" /\ goal[e] \in Writes
                         \/ pc[e] = "failing" /\ goal[e] \in Errors
  /\ goal[e] = "retry" => expAtt[e] < MaxAttempts
  /\ pc[e] \in {"started", "queued"} \/ HasWork(e) \/ goal[e] = "busy"
       => expSt[e] = "running"
  /\ pc[e] = "queued" <=> lockSt[e] = "waiting"
  /\ HasWork(e) <=> lockSt[e] = "active"
  /\ lockSt[e] # "idle" => lockKey[e] = SessionOf[run[e]]

ShapeOK == \A e \in Executors : Shape(e)

\* Of an execution, only its own variables matter to its shape.
SameExecution(e) ==
  /\ pc'[e] = pc[e] /\ run'[e] = run[e] /\ expSt'[e] = expSt[e] /\ expAtt'[e] = expAtt[e]
  /\ op'[e] = op[e] /\ goal'[e] = goal[e]
  /\ lockSt'[e] = lockSt[e] /\ lockKey'[e] = lockKey[e]

LEMMA SameShape ==
  ASSUME NEW e \in Executors, Shape(e), SameExecution(e)
  PROVE  Shape(e)'
  BY DEF Shape, SameExecution, HasWork

LEMMA InitShape == Init => TypeOK /\ ShapeOK
<1> SUFFICES ASSUME Init PROVE TypeOK /\ ShapeOK
  OBVIOUS
<1>1. TypeOK
  BY NumbersAssumption
  DEF Init, TypeOK, JobTypes, RowTypes, OutTypes, OpTypes, EnvTypes, RowStates,
      OuterStates, OpStates, Attempts, Lock!MutexTypeOK, Lock!MutexInit
<1>2. ShapeOK
  BY DEF Init, ShapeOK, Shape, HasWork, Lock!MutexInit
<1> QED
  BY <1>1, <1>2

LEMMA StoreShape == TypeOK /\ ShapeOK /\ Store => TypeOK' /\ ShapeOK'
<1> SUFFICES ASSUME TypeOK, ShapeOK, Store PROVE TypeOK' /\ ShapeOK'
  OBVIOUS
<1>1. UNCHANGED <<outVars, opVars, lockVars>>
  BY DEF Store, ScheduleRun, WebhookArrives, CreatePendingRun, TimePasses,
         DiscardMissed, AdvanceSchedule, SweepReads, SweepWrites
<1>2. ShapeOK'
  BY <1>1 DEF ShapeOK, Shape, HasWork
<1>3. OutTypes' /\ OpTypes' /\ Lock!MutexTypeOK'
  BY <1>1 DEF TypeOK, OutTypes, OpTypes, Lock!MutexTypeOK
<1> USE FunctionsAssumption, NumbersAssumption
    DEF TypeOK, JobTypes, RowTypes, EnvTypes, RowStates, Queued, Terminal, Attempts
<1>4. ASSUME NEW r \in Runs, ScheduleRun(r) PROVE TypeOK'
  BY <1>3, <1>4 DEF ScheduleRun, RowBecomes, Touch
<1>5. ASSUME NEW r \in Runs, WebhookArrives(r) PROVE TypeOK'
  BY <1>3, <1>5 DEF WebhookArrives, RowBecomes
<1>6. ASSUME NEW r \in Runs, CreatePendingRun(r) PROVE TypeOK'
  BY <1>3, <1>6 DEF CreatePendingRun, RowBecomes, Touch
<1>7. ASSUME NEW r \in Runs, TimePasses(r) PROVE TypeOK'
  BY <1>3, <1>7 DEF TimePasses
<1>8. ASSUME DiscardMissed PROVE TypeOK'
  BY <1>3, <1>8 DEF DiscardMissed, Touch
<1>9. ASSUME NEW j \in Jobs, AdvanceSchedule(j) PROVE TypeOK'
  BY <1>3, <1>9 DEF AdvanceSchedule, Touch
<1>10. ASSUME NEW J \in {Jobs} \union {{j} : j \in Jobs}, SweepReads(J) PROVE TypeOK'
  BY <1>3, <1>10 DEF SweepReads
<1>11. ASSUME SweepWrites PROVE TypeOK'
  BY <1>3, <1>11 DEF SweepWrites, Touch
<1> QED
  BY <1>2, <1>4, <1>5, <1>6, <1>7, <1>8, <1>9, <1>10, <1>11 DEF Store

LEMMA UsersShape == TypeOK /\ ShapeOK /\ Users => TypeOK' /\ ShapeOK'
<1> SUFFICES ASSUME TypeOK, ShapeOK, Users PROVE TypeOK' /\ ShapeOK'
  OBVIOUS
<1>1. UNCHANGED <<outVars, opVars, lockVars>>
  BY DEF Users, ReadForEdit, CommitEdit, RejectEdit, DeleteJob, ChatStarts, ChatEnds
<1>2. ShapeOK'
  BY <1>1 DEF ShapeOK, Shape, HasWork
<1>3. OutTypes' /\ OpTypes' /\ Lock!MutexTypeOK'
  BY <1>1 DEF TypeOK, OutTypes, OpTypes, Lock!MutexTypeOK
<1> USE DEF TypeOK, JobTypes, RowTypes, EnvTypes, RowStates, Terminal
<1>4. ASSUME NEW j \in Jobs, ReadForEdit(j) PROVE TypeOK'
  BY <1>3, <1>4 DEF ReadForEdit
<1>5. ASSUME NEW j \in Jobs, NEW requested \in {"active", "paused", "none"},
             CommitEdit(j, requested)
      PROVE  TypeOK'
  BY <1>3, <1>5 DEF CommitEdit, QueuedFail, PhaseOf
<1>6. ASSUME NEW j \in Jobs, RejectEdit(j) PROVE TypeOK'
  BY <1>3, <1>6 DEF RejectEdit
<1>7. ASSUME NEW j \in Jobs, DeleteJob(j) PROVE TypeOK'
  BY <1>3, <1>7, NumbersAssumption DEF DeleteJob, Touch, PhaseOf
<1>8. ASSUME NEW s \in Sessions, ChatStarts(s) \/ ChatEnds(s) PROVE TypeOK'
  BY <1>3, <1>8 DEF ChatStarts, ChatEnds
<1> QED
  BY <1>2, <1>4, <1>5, <1>6, <1>7, <1>8 DEF Users

\* The work of an execution settles, whatever the outcome.
LEMMA SettlesShape ==
  ASSUME TypeOK, ShapeOK, NEW x \in Executors, HasWork(x),
         NEW outcome \in {"none"} \union Errors, WorkSettles(x, outcome),
         UNCHANGED <<begun, jobVars, rowVars, envVars>>
  PROVE  TypeOK' /\ Shape(x)' /\ \A e \in Executors \ {x} : SameExecution(e)
<1>1. /\ Shape(x) /\ run[x] \in Runs
      /\ op' = [op EXCEPT ![x] = "none"] /\ Lock!Release(x)
      /\ lockSt' = [lockSt EXCEPT ![x] = "idle"]
  BY NoneAssumption
  DEF WorkSettles, ShapeOK, Shape, TypeOK, OutTypes, Lock!Release, HasWork
<1>2. JobTypes' /\ RowTypes' /\ EnvTypes'
  BY DEF TypeOK, JobTypes, RowTypes, EnvTypes
<1>3. Lock!MutexTypeOK'
  BY <1>1 DEF TypeOK, Lock!MutexTypeOK, Lock!Release
<1>4. ASSUME MoveTo(x, "failing") \/ MoveTo(x, "shutdown") PROVE OutTypes'
  BY <1>4, MoveToTypes DEF TypeOK, OuterStates
<1>5. ASSUME NEW g \in {"none"} \union Errors, goal' = [goal EXCEPT ![x] = g]
      PROVE  OpTypes'
  BY <1>1, <1>5 DEF TypeOK, OpTypes, OpStates
<1>6. expSt[x] = "running"
  BY <1>1 DEF Shape
<1>7. CASE pc[x] = "racing" /\ outcome = "none"
  <2>1. goal' = [goal EXCEPT ![x] = "none"] /\ Exit(x)
    BY <1>7 DEF WorkSettles
  <2>2. TypeOK'
    BY <1>2, <1>3, <1>5, <2>1, ExitTypes DEF TypeOK
  <2> QED
    BY <1>1, <2>1, <2>2
    DEF Exit, Forget, Shape, HasWork, SameExecution, TypeOK, OutTypes, OpTypes,
        Lock!MutexTypeOK, Lock!Release
<1>8. CASE pc[x] = "racing" /\ outcome # "none"
  <2>1. goal' = [goal EXCEPT ![x] = outcome] /\ MoveTo(x, "failing") /\ outcome \in Errors
    BY <1>8 DEF WorkSettles
  <2>2. TypeOK'
    BY <1>2, <1>3, <1>4, <1>5, <2>1 DEF TypeOK
  <2> QED
    BY <1>1, <1>6, <2>1, <2>2, NoneAssumption
    DEF MoveTo, Shape, HasWork, SameExecution, TypeOK, OutTypes, OpTypes,
        Lock!MutexTypeOK, Lock!Release, Errors
<1>9. CASE pc[x] = "grace"
  <2>1. goal' = [goal EXCEPT ![x] = "timeout"] /\ MoveTo(x, "failing")
    BY <1>9 DEF WorkSettles
  <2>2. TypeOK'
    BY <1>2, <1>3, <1>4, <1>5, <2>1 DEF TypeOK, Errors
  <2> QED
    BY <1>1, <1>6, <2>1, <2>2, NoneAssumption
    DEF MoveTo, Shape, HasWork, SameExecution, TypeOK, OutTypes, OpTypes,
        Lock!MutexTypeOK, Lock!Release, Errors
<1>10. CASE pc[x] = "shutdown"
  <2>1. goal' = [goal EXCEPT ![x] = "none"] /\ MoveTo(x, "shutdown")
    BY <1>10 DEF WorkSettles
  <2>2. TypeOK'
    BY <1>2, <1>3, <1>4, <1>5, <2>1 DEF TypeOK
  <2> QED
    BY <1>1, <2>1, <2>2, NoneAssumption
    DEF MoveTo, Shape, HasWork, SameExecution, TypeOK, OutTypes, OpTypes,
        Lock!MutexTypeOK, Lock!Release
<1>11. CASE pc[x] = "zombie"
  <2>1. goal' = [goal EXCEPT ![x] = "none"] /\ Forget(x) /\ UNCHANGED dispatched
    BY <1>11 DEF WorkSettles
  <2>2. OutTypes'
    BY <2>1, ForgetTypes DEF TypeOK, OutTypes
  <2>3. TypeOK'
    BY <1>2, <1>3, <1>5, <2>1, <2>2 DEF TypeOK
  <2> QED
    BY <1>1, <2>1, <2>3
    DEF Forget, Shape, HasWork, SameExecution, TypeOK, OutTypes, OpTypes,
        Lock!MutexTypeOK, Lock!Release
<1> QED
  BY <1>7, <1>8, <1>9, <1>10, <1>11 DEF WorkSettles

LEMMA ExecutionShape ==
  ASSUME TypeOK, ShapeOK, NEW x \in Executors, Execution(x)
  PROVE  TypeOK' /\ Shape(x)' /\ \A e \in Executors \ {x} : SameExecution(e)
<1> DEFINE Good == TypeOK' /\ Shape(x)' /\ \A e \in Executors \ {x} : SameExecution(e)
<1> SUFFICES Good
  OBVIOUS
<1>a. Shape(x) /\ (pc[x] # "idle" => run[x] \in Runs)
  BY DEF ShapeOK, Shape, TypeOK, OutTypes
<1> USE DEF TypeOK, Shape, HasWork, SameExecution
<1>1. ASSUME NEW r \in Runs, Dispatch(x, r) \/ ExecuteDirectly(x, r)
      PROVE  Good
  <2>1. JobTypes' /\ RowTypes' /\ OpTypes' /\ EnvTypes' /\ Lock!MutexTypeOK'
    BY <1>1 DEF Dispatch, ExecuteDirectly, Begin, JobTypes, RowTypes, OpTypes, EnvTypes,
                Lock!MutexTypeOK
  <2>2. PICK b \in BOOLEAN : Begin(x, r, b)
    BY <1>1 DEF Dispatch, ExecuteDirectly
  <2>3. dispatched' \subseteq Runs
    BY <1>1 DEF Dispatch, ExecuteDirectly, OutTypes
  <2>4. OutTypes'
    BY <2>2, <2>3 DEF Begin, OutTypes, RowTypes, OuterStates
  <2>5. /\ pc[x] = "idle" /\ pc'[x] = "prepare" /\ run'[x] = r
        /\ UNCHANGED <<opVars, lockVars>>
        /\ \A e \in Executors \ {x} :
             /\ pc'[e] = pc[e] /\ run'[e] = run[e]
             /\ expSt'[e] = expSt[e] /\ expAtt'[e] = expAtt[e]
    BY <2>2 DEF Begin, OutTypes
  <2>6. expSt'[x] # "none"
    BY <2>2 DEF Begin, OutTypes, Queued
  <2> QED
    BY <1>a, <2>1, <2>4, <2>5, <2>6, NoneAssumption DEF OpTypes, Lock!MutexTypeOK
<1>2. CASE MarkStarted(x)
  <2>1. JobTypes' /\ OpTypes' /\ EnvTypes' /\ Lock!MutexTypeOK'
    BY <1>2 DEF MarkStarted, JobTypes, OpTypes, EnvTypes, Lock!MutexTypeOK
  <2>2. RowTypes'
    BY <1>a, <1>2, RowBecomesTypes DEF MarkStarted, RowStates
  <2>3. OutTypes'
    BY <1>2 DEF MarkStarted, OutTypes, OuterStates
  <2> QED
    BY <1>a, <1>2, <2>1, <2>2, <2>3 DEF MarkStarted, OutTypes
<1>3. CASE NotStarted(x)
  <2>1. JobTypes' /\ RowTypes' /\ OpTypes' /\ EnvTypes' /\ Lock!MutexTypeOK'
    BY <1>3 DEF NotStarted, JobTypes, RowTypes, OpTypes, EnvTypes, Lock!MutexTypeOK
  <2>2. OutTypes'
    BY <1>3, ExitTypes DEF NotStarted
  <2> QED
    BY <1>a, <1>3, <2>1, <2>2 DEF NotStarted, Exit, Forget, OutTypes, Lock!MutexTypeOK
<1>4. CASE PreparationFails(x)
  <2>1. JobTypes' /\ RowTypes' /\ OpTypes' /\ EnvTypes' /\ Lock!MutexTypeOK'
    BY <1>4 DEF PreparationFails, JobTypes, RowTypes, OpTypes, EnvTypes,
                Lock!MutexTypeOK, Errors
  <2>2. OutTypes'
    BY <1>4, MoveToTypes DEF PreparationFails, OuterStates
  <2> QED
    BY <1>a, <1>4, <2>1, <2>2, NoneAssumption
    DEF PreparationFails, MoveTo, OutTypes, OpTypes, Errors
<1>5. CASE AwaitSession(x)
  <2>1. JobTypes' /\ RowTypes' /\ OpTypes' /\ EnvTypes'
    BY <1>5 DEF AwaitSession, JobTypes, RowTypes, OpTypes, EnvTypes
  <2>2. Lock!MutexTypeOK'
    BY <1>a, <1>5, FunctionsAssumption DEF AwaitSession, Lock!MutexTypeOK, Lock!Request
  <2>3. OutTypes'
    BY <1>5, MoveToTypes DEF AwaitSession, OuterStates
  <2> QED
    BY <1>a, <1>5, <2>1, <2>2, <2>3, NoneAssumption
    DEF AwaitSession, MoveTo, Lock!Request, OutTypes, Lock!MutexTypeOK
<1>6. CASE EnterSession(x)
  <2>1. JobTypes' /\ RowTypes' /\ OpTypes' /\ EnvTypes'
    BY <1>6 DEF EnterSession, JobTypes, RowTypes, OpTypes, EnvTypes, OpStates
  <2>2. Lock!MutexTypeOK'
    BY <1>6 DEF EnterSession, Lock!MutexTypeOK, Lock!Grant
  <2>3. OutTypes'
    BY <1>6, MoveToTypes DEF EnterSession, OuterStates
  <2> QED
    BY <1>a, <1>6, <2>1, <2>2, <2>3, NoneAssumption
    DEF EnterSession, MoveTo, Lock!Grant, OutTypes, OpTypes, Lock!MutexTypeOK
<1>7. CASE Revalidate(x)
  <2>1. JobTypes' /\ OutTypes' /\ EnvTypes' /\ Lock!MutexTypeOK'
    BY <1>7 DEF Revalidate, JobTypes, OutTypes, EnvTypes, Lock!MutexTypeOK
  <2>2. RowTypes' /\ OpTypes'
    BY <1>a, <1>7, NumbersAssumption DEF Revalidate, RowTypes, OpTypes, OpStates
  <2> QED
    BY <1>a, <1>7, <2>1, <2>2 DEF Revalidate, OpTypes
<1>8. CASE \/ ClaimLost(x) \/ SessionBusy(x) \/ SetupFails(x) \/ LoopAborts(x)
           \/ WorkReturns(x)
  BY <1>8, SettlesShape
  DEF ClaimLost, SessionBusy, SetupFails, LoopAborts, WorkReturns, Errors
<1>9. CASE LoopStarts(x)
  <2>1. JobTypes' /\ RowTypes' /\ OutTypes' /\ EnvTypes' /\ Lock!MutexTypeOK'
    BY <1>9 DEF LoopStarts, JobTypes, RowTypes, OutTypes, EnvTypes, Lock!MutexTypeOK
  <2>2. OpTypes'
    BY <1>a, <1>9 DEF LoopStarts, OpTypes, OpStates, OutTypes
  <2> QED
    BY <1>a, <1>9, <2>1, <2>2 DEF LoopStarts, OpTypes
<1>10. ASSUME NEW write \in Writes, LoopEnds(x, write)
       PROVE  Good
  <2>1. JobTypes' /\ RowTypes' /\ OutTypes' /\ EnvTypes' /\ Lock!MutexTypeOK'
    BY <1>10 DEF LoopEnds, JobTypes, RowTypes, OutTypes, EnvTypes, Lock!MutexTypeOK
  <2>2. OpTypes'
    BY <1>10 DEF LoopEnds, OpTypes, OpStates
  <2> QED
    BY <1>a, <1>10, <2>1, <2>2 DEF LoopEnds, OpTypes, Writes
<1>11. ASSUME JobTypes', RowTypes', op[x] \in {"loop", "uncertain", "write", "pausing"},
              NEW s \in {"uncertain", "pausing", "wrote"}, op' = [op EXCEPT ![x] = s],
              \/ goal' = [goal EXCEPT ![x] = "none"]
              \/ (op[x] # "write" /\ UNCHANGED goal),
              UNCHANGED <<begun, outVars, lockVars, envVars>>
       PROVE  Good
  <2>1. OutTypes' /\ EnvTypes' /\ Lock!MutexTypeOK' /\ OpTypes'
    BY <1>11 DEF OutTypes, OpTypes, EnvTypes, Lock!MutexTypeOK, OpStates
  <2> QED
    BY <1>a, <1>11, <2>1 DEF OpTypes
<1>12. CASE CommitOutcome(x)
  <2>1. JobTypes' /\ RowTypes'
    BY <1>a, <1>12, FinishTypes, ScheduleRetryTypes DEF CommitOutcome, RowStates, Terminal
  <2>2. PICK s \in {"uncertain", "pausing", "wrote"} : op' = [op EXCEPT ![x] = s]
    BY <1>12 DEF CommitOutcome
  <2>3. /\ op[x] = "write" /\ goal' = [goal EXCEPT ![x] = "none"]
        /\ UNCHANGED <<begun, outVars, lockVars, envVars>>
    BY <1>12 DEF CommitOutcome
  <2> QED
    BY <1>11, <2>1, <2>2, <2>3
<1>13. CASE PauseAfterDelivery(x)
  <2>1. JobTypes' /\ RowTypes'
    BY <1>a, <1>13 DEF PauseAfterDelivery, JobTypes, RowTypes, QueuedFail, PhaseOf, Touch,
                       RowStates, Terminal
  <2> QED
    BY <1>11, <1>13, <2>1 DEF PauseAfterDelivery
<1>14. CASE OutcomeUnknown(x)
  <2>1. JobTypes' /\ RowTypes'
    BY <1>a, <1>14, FunctionsAssumption, PauseForReviewTypes
    DEF OutcomeUnknown, JobTypes, RowTypes
  <2> QED
    BY <1>11, <1>14, <2>1 DEF OutcomeUnknown
<1>15. CASE PersistUncertain(x)
  <2>1. [rst EXCEPT ![run[x]] = "failed"] \in [Runs -> RowStates]
    BY DEF RowTypes, RowStates, Terminal
  <2>2. rage' \in [Runs -> 0..StaleAge] /\ UNCHANGED ratt
    BY <1>15, NumbersAssumption DEF PersistUncertain, RowTypes
  <2>3. JobTypes' /\ RowTypes'
    BY <1>a, <1>15, <2>1, <2>2, FunctionsAssumption, PauseForReviewTypes
    DEF PersistUncertain, JobTypes, RowTypes
  <2> QED
    BY <1>11, <1>15, <2>3 DEF PersistUncertain
<1>16. CASE Deadline(x) \/ GraceEnds(x)
  <2>1. JobTypes' /\ RowTypes' /\ OpTypes' /\ EnvTypes' /\ Lock!MutexTypeOK'
    BY <1>16 DEF Deadline, GraceEnds, JobTypes, RowTypes, OpTypes, EnvTypes, Lock!MutexTypeOK
  <2>2. OutTypes'
    BY <1>16, MoveToTypes DEF Deadline, GraceEnds, OuterStates
  <2> QED
    BY <1>a, <1>16, <2>1, <2>2, NoneAssumption DEF Deadline, GraceEnds, MoveTo, OutTypes
<1>17. CASE CatchWrites(x)
  <2>1. JobTypes' /\ RowTypes'
    BY <1>a, <1>17, FinishTypes, ScheduleRetryTypes DEF CatchWrites, RowStates, Terminal
  <2>2. EnvTypes' /\ Lock!MutexTypeOK'
    BY <1>17 DEF CatchWrites, EnvTypes, Lock!MutexTypeOK
  <2>3. CASE op[x] = "none"
    <3>1. Exit(x) /\ goal' = [goal EXCEPT ![x] = "none"] /\ UNCHANGED <<op, begun, lockVars>>
      BY <1>17, <2>3 DEF CatchWrites
    <3>2. OutTypes' /\ OpTypes'
      BY <3>1, ExitTypes DEF OpTypes
    <3> QED
      BY <1>a, <2>1, <2>2, <2>3, <3>1, <3>2, <1>17
      DEF Exit, Forget, OutTypes, OpTypes, CatchWrites, Lock!MutexTypeOK
  <2>4. CASE op[x] # "none"
    <3>1. OutTypes' /\ OpTypes'
      BY <1>17, <2>4 DEF CatchWrites, Leaves, OutTypes, OpTypes, OuterStates
    <3> QED
      BY <1>a, <1>17, <2>1, <2>2, <2>4, <3>1 DEF CatchWrites, OutTypes
  <2> QED
    BY <2>3, <2>4
<1> QED
  BY <1>1, <1>2, <1>3, <1>4, <1>5, <1>6, <1>7, <1>8, <1>9, <1>10, <1>12, <1>13, <1>14,
     <1>15, <1>16, <1>17 DEF Execution

LEMMA ProcessShape == TypeOK /\ ShapeOK /\ (Tick \/ Crash) => TypeOK' /\ ShapeOK'
<1> SUFFICES ASSUME TypeOK, ShapeOK, Tick \/ Crash PROVE TypeOK' /\ ShapeOK'
  OBVIOUS
<1>1. CASE Tick
  <2>1. JobTypes' /\ OpTypes' /\ EnvTypes' /\ Lock!MutexTypeOK' /\ ShapeOK'
    BY <1>1 DEF Tick, TypeOK, JobTypes, OpTypes, EnvTypes, Lock!MutexTypeOK, ShapeOK, Shape,
                HasWork
  <2>2. RowTypes' /\ OutTypes'
    BY <1>1, NumbersAssumption DEF Tick, TypeOK, RowTypes, OutTypes
  <2> QED
    BY <2>1, <2>2 DEF TypeOK
<1>2. CASE Crash
  <2>1. JobTypes' /\ RowTypes'
    BY <1>2 DEF Crash, TypeOK, JobTypes, RowTypes, RowStates
  <2>2. OutTypes' /\ OpTypes' /\ EnvTypes' /\ Lock!MutexTypeOK'
    BY <1>2, NumbersAssumption
    DEF Crash, TypeOK, OutTypes, OpTypes, EnvTypes, Lock!MutexTypeOK, Lock!Reset,
        OuterStates, OpStates, Attempts
  <2>3. ShapeOK'
    BY <1>2 DEF Crash, ShapeOK, Shape, HasWork, Lock!Reset
  <2> QED
    BY <2>1, <2>2, <2>3 DEF TypeOK
<1> QED
  BY <1>1, <1>2

LEMMA ShapeStep == TypeOK /\ ShapeOK /\ [Next]_vars => TypeOK' /\ ShapeOK'
<1> SUFFICES ASSUME TypeOK, ShapeOK, [Next]_vars PROVE TypeOK' /\ ShapeOK'
  OBVIOUS
<1>1. CASE UNCHANGED vars
  BY <1>1 DEF vars, TypeOK, JobTypes, RowTypes, OutTypes, OpTypes, EnvTypes, ShapeOK, Shape,
              HasWork, Lock!MutexTypeOK
<1>2. ASSUME NEW x \in Executors, Execution(x) PROVE TypeOK' /\ ShapeOK'
  BY <1>2, ExecutionShape, SameShape DEF ShapeOK
<1> QED
  BY <1>1, <1>2, StoreShape, UsersShape, ProcessShape DEF Next

\* Every reachable state has the types of the program's data, and the progress
\* of an execution determines what it holds of the session lock.
THEOREM TypeCorrect == Spec => []TypeOK
<1>1. Spec => [](TypeOK /\ ShapeOK)
  BY InitShape, ShapeStep, PTL DEF Spec
<1> QED
  BY <1>1, PTL
=============================================================================
