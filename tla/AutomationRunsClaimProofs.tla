--------------------- MODULE AutomationRunsClaimProofs ---------------------
(***************************************************************************)
(* Claims, run rows and the queue of a job, proved for all constants.      *)
(*                                                                         *)
(* RowStep says how a step may change a run row: the automaton of its      *)
(* status, and who may take a running row away.  ClaimStep says how a step *)
(* may change the claim of an execution.  The invariant on top of them: an *)
(* attempt that was claimed or begun is passed, it never becomes startable *)
(* again.                                                                  *)
(*                                                                         *)
(* JobStep says how a step may change a job.  What the queue and the pause *)
(* of a job rest on: an edit whose fence is intact read the status the job *)
(* still has, and a run that is not queued yet is at its first attempt.    *)
(***************************************************************************)
EXTENDS AutomationRunsProofs

USE DEF jobVars, rowVars, outVars, opVars, lockVars, envVars

-----------------------------------------------------------------------------
(* How a step changes a row *)

SameRow(r) == rst'[r] = rst[r] /\ ratt'[r] = ratt[r] /\ rage'[r] = rage[r]

\* The execution e holds the row r and writes its outcome.
WrittenBy(e, r) ==
  /\ run[e] = r /\ rst[r] = expSt[e] /\ ratt[r] = expAtt[e]
  /\ \/ CommitOutcome(e) /\ op[e] = "write" /\ op'[e] \in {"pausing", "wrote"}
     \/ PersistUncertain(e) /\ op[e] = "uncertain" /\ op'[e] = "wrote"
     \/ CatchWrites(e) /\ pc[e] \in {"failing", "shutdown"}

RowStep(r) ==
  \/ SameRow(r)
  \/ ratt'[r] = ratt[r] /\ rst'[r] = rst[r] /\ rage'[r] = 0
  \/ /\ rst'[r] = rst[r] /\ ratt'[r] = ratt[r] /\ rage'[r] <= rage[r] + 1
     /\ \A e \in Executors : pc[e] = "racing" => timer'[e] = timer[e] + 1
  \/ ratt'[r] = ratt[r] /\ rst'[r] = "gone"
  \/ ratt'[r] = ratt[r] /\ rst[r] = "none" /\ Trigger[r] = "composio" /\ rst'[r] = "intake"
  \/ ratt'[r] = ratt[r] /\ rst[r] = "intake" /\ rst'[r] = "pending"
  \/ ratt'[r] = ratt[r] /\ rst'[r] = "pending" /\ ScheduleRun(r)
  \/ ratt'[r] = ratt[r] /\ rst[r] \in Queued /\ rst'[r] = "failed"
  \/ ratt'[r] = ratt[r] /\ Stale(r) /\ rst'[r] = "failed"
  \/ /\ rst[r] \in Queued /\ rst'[r] = "running" /\ ratt'[r] = ratt[r] /\ rage'[r] = 0
     /\ \E e \in Executors : MarkStarted(e) /\ run[e] = r
  \/ \E e \in Executors :
       /\ WrittenBy(e, r)
       /\ \/ ratt'[r] = ratt[r] /\ rst'[r] \in Terminal
          \/ /\ rst[r] = "running" /\ rst'[r] = "retry" /\ ratt'[r] = ratt[r] + 1
             /\ jobStatus[JobOf[r]] = "active" /\ UNCHANGED jobStatus

LEMMA StoreRow ==
  ASSUME TypeOK, ShapeOK, Store, NEW r \in Runs
  PROVE  RowStep(r)
<1> USE DEF TypeOK, RowTypes
<1>1. ASSUME NEW q \in Runs, ScheduleRun(q) PROVE RowStep(r)
  BY <1>1 DEF ScheduleRun, RowBecomes, RowStep, SameRow
<1>2. ASSUME NEW q \in Runs, WebhookArrives(q) \/ CreatePendingRun(q) \/ TimePasses(q)
      PROVE  RowStep(r)
  BY <1>2 DEF WebhookArrives, CreatePendingRun, TimePasses, RowBecomes, RowStep, SameRow
<1>3. CASE DiscardMissed
  BY <1>3 DEF DiscardMissed, RowStep, SameRow
<1>4. CASE SweepWrites
  BY <1>4 DEF SweepWrites, SweepMatches, RowStep, SameRow
<1>5. CASE UNCHANGED rowVars
  BY <1>5 DEF RowStep, SameRow
<1> QED
  BY <1>1, <1>2, <1>3, <1>4, <1>5 DEF Store, AdvanceSchedule, SweepReads

LEMMA UsersRow ==
  ASSUME TypeOK, ShapeOK, Users, NEW r \in Runs
  PROVE  RowStep(r)
<1> USE DEF TypeOK, RowTypes
<1>1. ASSUME NEW j \in Jobs, NEW requested, CommitEdit(j, requested) PROVE RowStep(r)
  BY <1>1 DEF CommitEdit, QueuedFail, RowStep, SameRow
<1>2. ASSUME NEW j \in Jobs, DeleteJob(j) PROVE RowStep(r)
  BY <1>2 DEF DeleteJob, RowStep, SameRow
<1>3. CASE UNCHANGED rowVars
  BY <1>3 DEF RowStep, SameRow
<1> QED
  BY <1>1, <1>2, <1>3 DEF Users, ReadForEdit, RejectEdit, ChatStarts, ChatEnds

LEMMA PausedRow ==
  ASSUME TypeOK, NEW r \in Runs, NEW j \in Jobs, PauseForReview(j, rst),
         UNCHANGED <<ratt, rage>>
  PROVE  RowStep(r)
  BY DEF PauseForReview, RowStep, SameRow, TypeOK, RowTypes

\* The writes of an outcome: to the row of the execution, and to no other.
LEMMA FinishRow ==
  ASSUME TypeOK, NEW r \in Runs, NEW e \in Executors, run[e] \in Runs,
         NEW s \in RowStates, Finish(e, s)
  PROVE  \/ SameRow(r)
         \/ /\ r = run[e] /\ Expected(e)
            /\ rst'[r] = s /\ ratt'[r] = ratt[r]
  BY DEF Finish, RowBecomes, SameRow, TypeOK, RowTypes

LEMMA ScheduleRetryRow ==
  ASSUME TypeOK, NEW r \in Runs, NEW e \in Executors, run[e] \in Runs, ScheduleRetry(e)
  PROVE  \/ SameRow(r)
         \/ /\ r = run[e] /\ Expected(e)
            /\ \/ rst'[r] = "failed" /\ ratt'[r] = ratt[r]
               \/ /\ rst'[r] = "retry" /\ ratt'[r] = ratt[r] + 1
                  /\ jobStatus[JobOf[r]] = "active" /\ UNCHANGED jobStatus
  BY DEF ScheduleRetry, BackInQueue, RowBecomes, Executable, SameRow, TypeOK, RowTypes

LEMMA ExecutionRow ==
  ASSUME TypeOK, ShapeOK, NEW e \in Executors, Execution(e), NEW r \in Runs
  PROVE  RowStep(r)
<1>1. pc[e] # "idle" => run[e] \in Runs
  BY DEF ShapeOK, Shape, TypeOK, OutTypes
<1>2. CASE MarkStarted(e)
  BY <1>1, <1>2 DEF MarkStarted, Startable, RowBecomes, RowStep, SameRow, TypeOK, RowTypes
<1>3. CASE CommitOutcome(e)
  <2>1. run[e] \in Runs /\ op[e] = "write" /\ expSt[e] = "running"
    BY <1>1, <1>3 DEF CommitOutcome, ShapeOK, Shape, HasWork
  <2>2. op'[e] \in {"pausing", "wrote"}
    BY <1>3 DEF CommitOutcome, TypeOK, OpTypes
  <2>3. CASE ScheduleRetry(e)
    <3>1. CASE SameRow(r)
      BY <3>1 DEF RowStep
    <3>2. CASE ~SameRow(r)
      <4>1. WrittenBy(e, r) /\ rst[r] = "running"
        BY <1>3, <2>1, <2>2, <2>3, <3>2, ScheduleRetryRow DEF WrittenBy, Expected
      <4> QED
        BY <2>1, <2>3, <3>2, <4>1, ScheduleRetryRow DEF RowStep, Terminal
    <3> QED
      BY <3>1, <3>2
  <2>4. ASSUME NEW s \in Terminal, Finish(e, s) PROVE RowStep(r)
    <3>1. s \in RowStates
      BY DEF RowStates
    <3>2. CASE ~SameRow(r)
      <4>1. r = run[e] /\ Expected(e) /\ rst'[r] = s /\ ratt'[r] = ratt[r]
        BY <2>1, <2>4, <3>1, <3>2, FinishRow
      <4>2. WrittenBy(e, r)
        BY <1>3, <2>1, <2>2, <4>1 DEF WrittenBy, Expected
      <4> QED
        BY <4>1, <4>2 DEF RowStep
    <3> QED
      BY <3>2 DEF RowStep
  <2> QED
    BY <1>3, <2>3, <2>4 DEF CommitOutcome, Terminal
<1>4. CASE PauseAfterDelivery(e)
  BY <1>4 DEF PauseAfterDelivery, QueuedFail, RowStep, SameRow, TypeOK, RowTypes
<1>5. CASE OutcomeUnknown(e)
  <2>1. run[e] \in Runs
    BY <1>1, <1>5 DEF OutcomeUnknown, ShapeOK, Shape, HasWork
  <2> QED
    BY <1>5, <2>1, PausedRow, FunctionsAssumption DEF OutcomeUnknown, RowStep, SameRow
<1>6. CASE PersistUncertain(e)
  <2>1. run[e] \in Runs /\ op[e] = "uncertain" /\ op'[e] = "wrote"
    BY <1>1, <1>6 DEF PersistUncertain, ShapeOK, Shape, HasWork, TypeOK, OpTypes
  <2>2. CASE ~Expected(e)
    BY <1>6, <2>2 DEF PersistUncertain, RowStep, SameRow
  <2>3. CASE Expected(e) /\ r = run[e]
    <3>1. WrittenBy(e, r)
      BY <1>6, <2>1, <2>3 DEF WrittenBy, Expected
    <3>2. rst'[r] = "failed" /\ ratt'[r] = ratt[r]
      BY <1>6, <2>1, <2>3 DEF PersistUncertain, PauseForReview, Queued, TypeOK, RowTypes
    <3> QED
      BY <3>1, <3>2 DEF RowStep, Terminal
  <2>4. CASE Expected(e) /\ r # run[e]
    BY <1>6, <2>1, <2>4
    DEF PersistUncertain, PauseForReview, RowStep, SameRow, TypeOK, RowTypes
  <2> QED
    BY <2>2, <2>3, <2>4
<1>7. CASE CatchWrites(e)
  <2>1. run[e] \in Runs /\ pc[e] \in {"failing", "shutdown"}
    BY <1>1, <1>7 DEF CatchWrites
  <2>2. CASE SameRow(r)
    BY <2>2 DEF RowStep
  <2>3. CASE ~SameRow(r) /\ Finish(e, "failed")
    <3>1. r = run[e] /\ Expected(e) /\ rst'[r] = "failed" /\ ratt'[r] = ratt[r]
      BY <2>1, <2>3, FinishRow DEF RowStates, Terminal
    <3>2. WrittenBy(e, r)
      BY <1>7, <2>1, <3>1 DEF WrittenBy, Expected
    <3> QED
      BY <3>1, <3>2 DEF RowStep, Terminal
  <2>4. CASE ~SameRow(r) /\ ScheduleRetry(e) /\ goal[e] = "busy"
    <3>1. WrittenBy(e, r) /\ rst[r] = "running"
      BY <1>7, <2>1, <2>4, ScheduleRetryRow DEF WrittenBy, Expected, ShapeOK, Shape
    <3> QED
      BY <2>1, <2>4, <3>1, ScheduleRetryRow DEF RowStep, Terminal
  <2> QED
    BY <1>7, <2>2, <2>3, <2>4 DEF CatchWrites
<1>8. CASE Revalidate(e)
  BY <1>1, <1>8 DEF Revalidate, RowStep, SameRow, TypeOK, RowTypes
<1>9. CASE UNCHANGED rowVars
  BY <1>9 DEF RowStep, SameRow
<1> QED
  BY <1>2, <1>3, <1>4, <1>5, <1>6, <1>7, <1>8, <1>9
  DEF Execution, Dispatch, ExecuteDirectly, Begin, NotStarted, PreparationFails,
      AwaitSession, EnterSession, ClaimLost, LoopStarts, SessionBusy, SetupFails,
      LoopEnds, LoopAborts, WorkReturns, Deadline, GraceEnds

LEMMA RowAutomaton ==
  ASSUME TypeOK, ShapeOK, [Next]_vars, NEW r \in Runs
  PROVE  RowStep(r)
<1>1. CASE UNCHANGED vars
  BY <1>1 DEF vars, RowStep, SameRow
<1>2. CASE Tick
  BY <1>2, NumbersAssumption DEF Tick, RowStep, TypeOK, RowTypes, OutTypes
<1>3. CASE Crash
  BY <1>3 DEF Crash, RowStep, SameRow, TypeOK, RowTypes
<1> QED
  BY <1>1, <1>2, <1>3, StoreRow, UsersRow, ExecutionRow DEF Next

\* A run that ended never comes back.  Writes of an execution are conditional
\* on the status and the attempt it expects, which are never those of a run
\* that ended.
THEOREM EndedRunsStayHolds == Spec => EndedRunsStay
<1>1. TypeOK /\ ShapeOK /\ [Next]_vars =>
        \A r \in Runs : rst[r] \in Terminal => rst'[r] \in {rst[r], "gone"}
  <2> SUFFICES ASSUME TypeOK, ShapeOK, [Next]_vars, NEW r \in Runs, rst[r] \in Terminal
               PROVE  rst'[r] \in {rst[r], "gone"}
    OBVIOUS
  <2>1. ~ScheduleRun(r)
    BY DEF ScheduleRun, Terminal
  <2>2. \A e \in Executors : ~WrittenBy(e, r)
    BY DEF WrittenBy, Terminal, Queued, TypeOK, OutTypes
  <2> QED
    BY <2>1, <2>2, RowAutomaton DEF RowStep, SameRow, Terminal, Queued, Stale
<1>2. Spec => [](TypeOK /\ ShapeOK)
  BY InitShape, ShapeStep, PTL DEF Spec
<1> QED
  BY <1>1, <1>2, PTL DEF Spec, EndedRunsStay

-----------------------------------------------------------------------------
(* How a step changes the claim of an execution *)

SameClaim(e) == run'[e] = run[e] /\ expSt'[e] = expSt[e] /\ expAtt'[e] = expAtt[e]

\* The execution e holds its claim and has not started its agent loop.
Prepared(e) ==
  pc[e] \in {"started", "queued"} \/ op[e] \in {"revalidate", "check"}

ClaimStep(e) ==
  \/ SameClaim(e) /\ (Prepared(e)' => Prepared(e))
  \/ expSt'[e] # "running" /\ ~Prepared(e)'
  \/ /\ MarkStarted(e)
     /\ run'[e] = run[e] /\ run[e] \in Runs /\ expAtt'[e] = expAtt[e]
     /\ rst[run[e]] \in Queued /\ ratt[run[e]] = expAtt[e]
     /\ rst'[run[e]] = "running" /\ ratt' = ratt
     /\ \A f \in Executors \ {e} : SameClaim(f)

LEMMA ExecutionClaim ==
  ASSUME TypeOK, ShapeOK, NEW e \in Executors, Execution(e)
  PROVE  ClaimStep(e)
<1>1. CASE MarkStarted(e)
  BY <1>1
  DEF MarkStarted, Startable, RowBecomes, ClaimStep, SameClaim, ShapeOK, Shape,
      TypeOK, OutTypes, RowTypes
<1>2. CASE \E r \in Runs : Dispatch(e, r) \/ ExecuteDirectly(e, r)
  BY <1>2
  DEF Dispatch, ExecuteDirectly, Begin, ClaimStep, Prepared, Queued, ShapeOK, Shape,
      HasWork, TypeOK, OutTypes
<1>3. CASE NotStarted(e) \/ PreparationFails(e)
  BY <1>3
  DEF NotStarted, PreparationFails, Exit, Forget, MoveTo, ClaimStep, SameClaim, Prepared,
      ShapeOK, Shape, HasWork, TypeOK, OutTypes
<1>4. CASE \E outcome : WorkSettles(e, outcome)
  BY <1>4
  DEF WorkSettles, Exit, Forget, MoveTo, ClaimStep, SameClaim, Prepared, TypeOK, OutTypes,
      OpTypes
<1>5. CASE CatchWrites(e)
  BY <1>5
  DEF CatchWrites, Exit, Forget, ClaimStep, SameClaim, Prepared, TypeOK, OutTypes, OpTypes
<1>6. CASE AwaitSession(e) \/ EnterSession(e) \/ Revalidate(e)
  BY <1>6
  DEF AwaitSession, EnterSession, Revalidate, MoveTo, ClaimStep, SameClaim, Prepared,
      TypeOK, OutTypes, OpTypes
<1>7. CASE Deadline(e) \/ GraceEnds(e)
  BY <1>7
  DEF Deadline, GraceEnds, MoveTo, ClaimStep, SameClaim, Prepared, TypeOK, OutTypes
<1>8. CASE \/ LoopStarts(e) \/ CommitOutcome(e) \/ PauseAfterDelivery(e)
           \/ OutcomeUnknown(e) \/ PersistUncertain(e)
           \/ \E write \in Writes : LoopEnds(e, write)
  <2>1. UNCHANGED outVars
    BY <1>8 DEF LoopStarts, CommitOutcome, PauseAfterDelivery, OutcomeUnknown,
       PersistUncertain, LoopEnds
  <2>2. op'[e] \in {"loop", "pausing", "wrote", "uncertain", "write"}
    BY <1>8 DEF LoopStarts, CommitOutcome, PauseAfterDelivery, OutcomeUnknown,
       PersistUncertain, LoopEnds, TypeOK, OpTypes
  <2> QED
    BY <2>1, <2>2 DEF ClaimStep, SameClaim, Prepared
<1> QED
  BY <1>1, <1>2, <1>3, <1>4, <1>5, <1>6, <1>7, <1>8
  DEF Execution, ClaimLost, SessionBusy, SetupFails, LoopAborts, WorkReturns

LEMMA ClaimAutomaton ==
  ASSUME TypeOK, ShapeOK, [Next]_vars, NEW e \in Executors
  PROVE  ClaimStep(e)
<1>1. CASE UNCHANGED vars \/ Store \/ Users \/ Tick
  BY <1>1 DEF vars, ClaimStep, SameClaim, Prepared, Store, ScheduleRun, WebhookArrives,
      CreatePendingRun, TimePasses, DiscardMissed, AdvanceSchedule, SweepReads,
      SweepWrites, Users, ReadForEdit, CommitEdit, RejectEdit, DeleteJob, ChatStarts,
      ChatEnds, Tick
<1>2. CASE Crash
  BY <1>2 DEF Crash, ClaimStep, Prepared
<1>3. ASSUME NEW x \in Executors, Execution(x), x # e PROVE ClaimStep(e)
  BY <1>3, ExecutionShape DEF SameExecution, ClaimStep, SameClaim, Prepared
<1> QED
  BY <1>1, <1>2, <1>3, ExecutionClaim DEF Next

\* The loop of an attempt begins by LoopStarts.
LEMMA BegunStep ==
  ASSUME TypeOK, ShapeOK, [Next]_vars
  PROVE  begun' = begun \/ \E e \in Executors : LoopStarts(e)
<1>1. CASE UNCHANGED vars \/ Store \/ Users \/ Tick \/ Crash
  BY <1>1
  DEF vars, Store, ScheduleRun, WebhookArrives, CreatePendingRun, TimePasses,
      DiscardMissed, AdvanceSchedule, SweepReads, SweepWrites, Users, ReadForEdit,
      CommitEdit, RejectEdit, DeleteJob, ChatStarts, ChatEnds, Tick, Crash
<1>2. ASSUME NEW e \in Executors, Execution(e) PROVE begun' = begun \/ LoopStarts(e)
  BY <1>2
  DEF Execution, Dispatch, ExecuteDirectly, Begin, MarkStarted, NotStarted,
      PreparationFails, AwaitSession, EnterSession, Revalidate, ClaimLost, SessionBusy,
      SetupFails, LoopEnds, LoopAborts, CommitOutcome, PauseAfterDelivery,
      OutcomeUnknown, PersistUncertain, WorkReturns, Deadline, GraceEnds, CatchWrites
<1> QED
  BY <1>1, <1>2 DEF Next

LEMMA LoopStep ==
  ASSUME TypeOK, ShapeOK, [Next]_vars, NEW e \in Executors, op[e] # "loop", op'[e] = "loop"
  PROVE  LoopStarts(e)
<1>1. ~ UNCHANGED op
  OBVIOUS
<1>2. ~(Store \/ Users \/ Tick \/ Crash)
  BY <1>1
  DEF Store, ScheduleRun, WebhookArrives, CreatePendingRun, TimePasses, DiscardMissed,
      AdvanceSchedule, SweepReads, SweepWrites, Users, ReadForEdit, CommitEdit, RejectEdit,
      DeleteJob, ChatStarts, ChatEnds, Tick, Crash
<1>3. PICK x \in Executors : Execution(x)
  BY <1>1, <1>2 DEF Next, vars
<1>4. x = e
  BY <1>3, ExecutionShape DEF SameExecution
<1> QED
  BY <1>3, <1>4
  DEF Execution, Dispatch, ExecuteDirectly, Begin, MarkStarted, NotStarted,
      PreparationFails, AwaitSession, EnterSession, Revalidate, ClaimLost, SessionBusy,
      SetupFails, LoopEnds, LoopAborts, CommitOutcome, PauseAfterDelivery, OutcomeUnknown,
      PersistUncertain, WorkReturns, Deadline, GraceEnds, CatchWrites, WorkSettles,
      TypeOK, OpTypes

-----------------------------------------------------------------------------
(* Claims *)

\* The attempt a of the run r cannot be started any more.
Passed(r, a) ==
  \/ a < ratt[r]
  \/ a = ratt[r] /\ rst[r] \in {"running", "success", "failed", "gone"}

ClaimsPassed == \A e \in Executors :
  expSt[e] = "running" /\ run[e] \in Runs => Passed(run[e], expAtt[e])
BegunPassed  == \A b \in begun : Passed(b[1], b[2])
NotBegunYet  == \A e \in Executors : Prepared(e) => <<run[e], expAtt[e]>> \notin begun

ClaimInv ==
  TypeOK /\ ShapeOK /\ ClaimsPassed /\ BegunPassed /\ NotBegunYet /\ ClaimExclusive

LEMMA PassedStays ==
  ASSUME TypeOK, ShapeOK, [Next]_vars, NEW r \in Runs, NEW a \in Attempts, Passed(r, a)
  PROVE  Passed(r, a)'
<1>1. RowStep(r)
  BY RowAutomaton
<1>2. ratt[r] \in Nat /\ a \in Nat /\ rst[r] \in RowStates
  BY NumbersAssumption DEF TypeOK, RowTypes, Attempts
<1>3. ASSUME NEW e \in Executors, WrittenBy(e, r) PROVE rst[r] \in Queued \union {"running"}
  BY <1>3 DEF WrittenBy, TypeOK, OutTypes, ShapeOK, Shape, HasWork, RowStates, Queued, Terminal
<1> QED
  BY <1>1, <1>2, <1>3
  DEF RowStep, SameRow, Passed, Queued, Terminal, Stale, ScheduleRun

LEMMA ClaimsInit == Init => ClaimInv
<1> SUFFICES ASSUME Init PROVE ClaimInv
  OBVIOUS
<1>1. TypeOK /\ ShapeOK
  BY InitShape
<1>2. ClaimsPassed /\ BegunPassed /\ NotBegunYet /\ ClaimExclusive
  BY DEF Init, ClaimsPassed, BegunPassed, NotBegunYet, ClaimExclusive, Prepared
<1> QED
  BY <1>1, <1>2 DEF ClaimInv

LEMMA ClaimsStep == ClaimInv /\ [Next]_vars => ClaimInv'
<1> SUFFICES ASSUME ClaimInv, [Next]_vars PROVE ClaimInv'
  OBVIOUS
<1> USE DEF ClaimInv
<1>1. TypeOK' /\ ShapeOK'
  BY ShapeStep
<1>2. \A e \in Executors : ClaimStep(e)
  BY ClaimAutomaton
<1>3. \A e \in Executors : expAtt[e] \in Attempts /\ expAtt[e] \in Nat
  BY NumbersAssumption DEF TypeOK, OutTypes, Attempts
<1>4. \A r \in Runs : ratt[r] \in Nat
  BY NumbersAssumption DEF TypeOK, RowTypes, Attempts
<1>5. ClaimsPassed'
  <2> SUFFICES ASSUME NEW e \in Executors, expSt'[e] = "running", run'[e] \in Runs
               PROVE  Passed(run[e], expAtt[e])' 
    BY DEF ClaimsPassed
  <2>1. CASE SameClaim(e)
    <3>1. Passed(run[e], expAtt[e]) /\ run[e] \in Runs
      BY <2>1 DEF SameClaim, ClaimsPassed
    <3>2. \A r \in Runs, a \in Attempts : Passed(r, a) => Passed(r, a)'
      BY PassedStays
    <3>3. Passed(run[e], expAtt[e])' <=>
            \/ expAtt[e] < ratt'[run[e]]
            \/ /\ expAtt[e] = ratt'[run[e]]
               /\ rst'[run[e]] \in {"running", "success", "failed", "gone"}
      BY <2>1 DEF SameClaim, Passed
    <3> QED
      BY <1>3, <3>1, <3>2, <3>3 DEF Passed
  <2>2. CASE MarkStarted(e)
    BY <1>2, <2>1, <2>2 DEF ClaimStep, Passed
  <2> QED
    BY <1>2, <2>1, <2>2 DEF ClaimStep
<1>6. BegunPassed'
  <2> SUFFICES ASSUME NEW b \in begun' PROVE Passed(b[1], b[2])'
    BY DEF BegunPassed
  <2>1. b \in Runs \X Attempts
    BY <1>1 DEF TypeOK, OpTypes
  <2>2. Passed(b[1], b[2])
    <3>1. CASE b \in begun
      BY <3>1 DEF BegunPassed
    <3>2. CASE b \notin begun
      <4>1. PICK e \in Executors : LoopStarts(e)
        BY <3>2, BegunStep
      <4>2. b = <<run[e], expAtt[e]>> /\ expSt[e] = "running"
        BY <3>2, <4>1 DEF LoopStarts, ShapeOK, Shape, HasWork
      <4> QED
        BY <2>1, <4>2 DEF ClaimsPassed
    <3> QED
      BY <3>1, <3>2
  <2> QED
    BY <2>1, <2>2, PassedStays
<1>7. NotBegunYet'
  <2> SUFFICES ASSUME NEW e \in Executors, Prepared(e)'
               PROVE  <<run'[e], expAtt'[e]>> \notin begun'
    BY DEF NotBegunYet
  <2>1. CASE SameClaim(e) /\ Prepared(e)
    <3>1. <<run[e], expAtt[e]>> \notin begun
      BY <2>1 DEF NotBegunYet
    <3>2. ASSUME NEW x \in Executors, LoopStarts(x) PROVE <<run[e], expAtt[e]>> \notin begun'
      <4>1. x # e
        BY <1>1, <3>2
        DEF LoopStarts, Prepared, ShapeOK, Shape, HasWork, TypeOK, OpTypes, OutTypes
      <4>2. expSt[e] = "running" /\ expSt[x] = "running" /\ run[e] # None /\ run[x] # None
        BY <2>1, <3>2 DEF LoopStarts, Prepared, ShapeOK, Shape, HasWork
      <4>3. run[e] # run[x] \/ expAtt[e] # expAtt[x]
        BY <4>1, <4>2 DEF ClaimExclusive
      <4> QED
        BY <3>1, <3>2, <4>3 DEF LoopStarts
    <3> QED
      BY <2>1, <3>1, <3>2, BegunStep DEF SameClaim
  <2>2. CASE MarkStarted(e)
    <3>1. ~Passed(run[e], expAtt[e]) /\ run'[e] = run[e] /\ expAtt'[e] = expAtt[e]
      BY <1>3, <1>4, <2>2
      DEF MarkStarted, Startable, Passed, Queued, ShapeOK, Shape, TypeOK, OutTypes
    <3>2. begun' = begun
      BY <2>2 DEF MarkStarted
    <3> QED
      BY <3>1, <3>2 DEF BegunPassed
  <2> QED
    BY <1>2, <2>1, <2>2 DEF ClaimStep
<1>8. ClaimExclusive'
  <2> SUFFICES ASSUME NEW e \in Executors, NEW f \in Executors, e # f, run'[e] # None,
                      run'[e] = run'[f], expSt'[e] = "running", expSt'[f] = "running"
               PROVE  expAtt'[e] # expAtt'[f]
    BY DEF ClaimExclusive
  <2>1. CASE SameClaim(e) /\ SameClaim(f)
    BY <2>1 DEF SameClaim, ClaimExclusive
  <2>2. ASSUME NEW x \in Executors, NEW y \in Executors, x # y, ~SameClaim(x),
               run'[x] # None, run'[x] = run'[y], expSt'[x] = "running", expSt'[y] = "running"
        PROVE  expAtt'[x] # expAtt'[y]
    <3>1. /\ run'[x] = run[x] /\ run[x] \in Runs /\ expAtt'[x] = expAtt[x]
          /\ rst[run[x]] \in Queued /\ ratt[run[x]] = expAtt[x] /\ SameClaim(y)
      BY <1>2, <2>2 DEF ClaimStep
    <3>2. Passed(run[x], expAtt[y])
      BY <2>2, <3>1 DEF SameClaim, ClaimsPassed
    <3>3. expAtt[y] # ratt[run[x]]
      BY <1>3, <1>4, <3>1, <3>2 DEF Passed, Queued
    <3> QED
      BY <3>1, <3>3 DEF SameClaim
  <2> QED
    BY <2>1, <2>2
<1> QED
  BY <1>1, <1>5, <1>6, <1>7, <1>8

LEMMA ClaimInvHolds == Spec => []ClaimInv
  BY ClaimsInit, ClaimsStep, PTL DEF Spec

\* Two executions never hold the claim of the same attempt: the update that
\* claims a row needs it queued, and a claimed attempt is never queued again.
THEOREM ClaimExclusiveHolds == Spec => []ClaimExclusive
<1>1. ClaimInv => ClaimExclusive
  BY DEF ClaimInv
<1> QED
  BY <1>1, ClaimInvHolds, PTL

\* The agent loop of an attempt starts at most once, whatever dispatches,
\* direct executions, retries and crashes there are.
THEOREM AttemptsRunOnceHolds == Spec => AttemptsRunOnce
<1>1. ClaimInv /\ [Next]_vars =>
        \A e \in Executors :
          (op[e] # "loop" /\ op'[e] = "loop") => <<run[e], expAtt[e]>> \notin begun
  BY LoopStep DEF ClaimInv, NotBegunYet, LoopStarts, Prepared
<1> QED
  BY <1>1, ClaimInvHolds, PTL DEF Spec, AttemptsRunOnce

-----------------------------------------------------------------------------
(* The stale sweep and live work *)

\* The agent works within its deadline, from the revalidation of its claim on.
InTime(e) == pc[e] = "racing" /\ op[e] \in {"check", "loop", "uncertain", "write"}

LEMMA TimerStep ==
  ASSUME TypeOK, NEW x \in Executors, Execution(x), NEW e \in Executors, x # e
  PROVE  timer'[e] = timer[e]
<1>1. CASE UNCHANGED timer
  BY <1>1
<1>2. CASE Exit(x) \/ Forget(x) \/ \E p \in OuterStates : MoveTo(x, p)
  BY <1>2 DEF Exit, Forget, MoveTo, TypeOK, OutTypes
<1> QED
  BY <1>1, <1>2
  DEF Execution, Dispatch, ExecuteDirectly, Begin, MarkStarted, NotStarted,
      PreparationFails, AwaitSession, EnterSession, Revalidate, ClaimLost, LoopStarts,
      SessionBusy, SetupFails, LoopEnds, LoopAborts, CommitOutcome, PauseAfterDelivery,
      OutcomeUnknown, PersistUncertain, WorkReturns, Deadline, GraceEnds, CatchWrites,
      WorkSettles, OuterStates

LEMMA InTimeStep ==
  ASSUME TypeOK, ShapeOK, [Next]_vars, NEW e \in Executors, InTime(e)'
  PROVE  /\ run'[e] = run[e] /\ expAtt'[e] = expAtt[e]
         /\ Revalidate(e) \/ (InTime(e) /\ timer'[e] >= timer[e])
<1>1. timer[e] \in Nat
  BY NumbersAssumption DEF TypeOK, OutTypes
<1>2. CASE UNCHANGED vars \/ Store \/ Users
  <2>1. UNCHANGED <<outVars, opVars>>
    BY <1>2
    DEF vars, Store, ScheduleRun, WebhookArrives, CreatePendingRun, TimePasses,
        DiscardMissed, AdvanceSchedule, SweepReads, SweepWrites, Users, ReadForEdit,
        CommitEdit, RejectEdit, DeleteJob, ChatStarts, ChatEnds
  <2> QED
    BY <1>1, <2>1 DEF InTime
<1>3. CASE Tick
  BY <1>1, <1>3 DEF Tick, InTime, TypeOK, OutTypes
<1>4. CASE Crash
  BY <1>4 DEF Crash, InTime
<1>5. ASSUME NEW x \in Executors, Execution(x), x # e
      PROVE  InTime(e) /\ run'[e] = run[e] /\ expAtt'[e] = expAtt[e] /\ timer'[e] = timer[e]
  BY <1>5, ExecutionShape, TimerStep DEF SameExecution, InTime
<1>6. CASE Execution(e)
  <2> USE DEF InTime, TypeOK, OutTypes, OpTypes
  <2>1. CASE \E r \in Runs : Dispatch(e, r) \/ ExecuteDirectly(e, r)
    BY <2>1 DEF Dispatch, ExecuteDirectly, Begin
  <2>2. CASE \/ MarkStarted(e) \/ NotStarted(e) \/ PreparationFails(e) \/ AwaitSession(e)
             \/ EnterSession(e) \/ Deadline(e) \/ GraceEnds(e) \/ CatchWrites(e)
    BY <2>2 DEF MarkStarted, NotStarted, PreparationFails, AwaitSession, EnterSession,
       Deadline, GraceEnds, CatchWrites, MoveTo, Exit, Forget
  <2>3. ASSUME NEW outcome, WorkSettles(e, outcome) PROVE FALSE
    BY <2>3 DEF WorkSettles
  <2>4. CASE \/ LoopStarts(e) \/ CommitOutcome(e) \/ PauseAfterDelivery(e)
             \/ OutcomeUnknown(e) \/ PersistUncertain(e)
             \/ \E write \in Writes : LoopEnds(e, write)
    <3>1. UNCHANGED outVars
      BY <2>4 DEF LoopStarts, CommitOutcome, PauseAfterDelivery, OutcomeUnknown,
         PersistUncertain, LoopEnds
    <3>2. op[e] \in {"check", "loop", "uncertain", "write"} \/ op'[e] = "wrote"
      BY <2>4 DEF LoopStarts, CommitOutcome, PauseAfterDelivery, OutcomeUnknown,
         PersistUncertain, LoopEnds
    <3> QED
      BY <1>1, <3>1, <3>2
  <2>5. CASE Revalidate(e)
    BY <2>5 DEF Revalidate
  <2> QED
    BY <1>6, <2>1, <2>2, <2>3, <2>4, <2>5
    DEF Execution, ClaimLost, SessionBusy, SetupFails, LoopAborts, WorkReturns
<1>7. ASSUME NEW x \in Executors, Execution(x), x # e
      PROVE  InTime(e) /\ run'[e] = run[e] /\ expAtt'[e] = expAtt[e] /\ timer'[e] >= timer[e]
  BY <1>1, <1>5, <1>7
<1> QED
  BY <1>2, <1>3, <1>4, <1>6, <1>7 DEF Next

\* The row of live work is younger than its timer, hence never stale.
KeptRow(e) ==
  \/ rst[run[e]] = "gone"
  \/ rst[run[e]] = "running" /\ ratt[run[e]] = expAtt[e] /\ rage[run[e]] <= timer[e]
RowsKept == \A e \in Executors : InTime(e) => KeptRow(e)

LEMMA KeptStep ==
  ASSUME ClaimInv, RowsKept, [Next]_vars
  PROVE  RowsKept'
<1> SUFFICES ASSUME NEW e \in Executors, InTime(e)' PROVE KeptRow(e)'
  BY DEF RowsKept
<1> USE DEF ClaimInv
<1>1. /\ run'[e] = run[e] /\ expAtt'[e] = expAtt[e]
      /\ Revalidate(e) \/ (InTime(e) /\ timer'[e] >= timer[e])
  BY InTimeStep
<1>2. run[e] \in Runs /\ expSt[e] = "running" /\ run[e] # None
  BY <1>1, NoneAssumption DEF InTime, Revalidate, ShapeOK, Shape, HasWork, TypeOK, OutTypes
<1>3. timer[e] \in 0..RunTimeout /\ timer'[e] \in 0..RunTimeout /\ rage[run[e]] \in 0..StaleAge
  BY <1>2, ShapeStep DEF TypeOK, OutTypes, RowTypes
<1>4. CASE Revalidate(e)
  BY <1>1, <1>2, <1>3, <1>4 DEF Revalidate, Claimed, KeptRow, TypeOK, RowTypes
<1>5. CASE InTime(e) /\ timer'[e] >= timer[e]
  <2>1. KeptRow(e)
    BY <1>5 DEF RowsKept
  <2>2. RowStep(run[e])
    BY <1>2, RowAutomaton
  <2>3. CASE rst[run[e]] = "gone"
    BY <1>1, <2>2, <2>3
    DEF KeptRow, RowStep, SameRow, ScheduleRun, Stale, Queued, WrittenBy, TypeOK, OutTypes
  <2>4. CASE rst[run[e]] = "running" /\ ratt[run[e]] = expAtt[e] /\ rage[run[e]] <= timer[e]
    <3>1. ~Stale(run[e])
      BY <1>3, <2>4, NumbersAssumption DEF Stale
    <3>2. ASSUME NEW x \in Executors, WrittenBy(x, run[e]) PROVE FALSE
      <4>1. x = e
        BY <1>2, <2>4, <3>2 DEF WrittenBy, ClaimExclusive
      <4> QED
        BY <1>5, <3>2, <4>1 DEF WrittenBy, InTime
    <3>3. ~ScheduleRun(run[e])
      BY <2>4 DEF ScheduleRun
    <3>4. \/ rst'[run[e]] = "gone"
          \/ /\ rst'[run[e]] = "running" /\ ratt'[run[e]] = ratt[run[e]]
             /\ \/ rage'[run[e]] = rage[run[e]]
                \/ rage'[run[e]] = 0
                \/ rage'[run[e]] <= rage[run[e]] + 1 /\ timer'[e] = timer[e] + 1
      BY <1>5, <2>2, <2>4, <3>1, <3>2, <3>3 DEF RowStep, SameRow, Queued, InTime
    <3>5. rage'[run[e]] \in 0..StaleAge
      BY <1>2, ShapeStep DEF TypeOK, RowTypes
    <3>6. rst'[run[e]] = "gone" \/ rage'[run[e]] <= timer'[e]
      BY <1>3, <1>5, <2>4, <3>4, <3>5, NumbersAssumption
    <3> QED
      BY <1>1, <2>4, <3>4, <3>6 DEF KeptRow
  <2> QED
    BY <2>1, <2>3, <2>4 DEF KeptRow
<1> QED
  BY <1>1, <1>4, <1>5

\* While an agent works within its deadline its run stays its own.  The sweep
\* that decides on rows it read earlier does not take it away: its write needs
\* a row that is older than the deadline allows.
THEOREM WorkKeepsItsRunHolds == Spec => []WorkKeepsItsRun
<1>1. Init => ClaimInv /\ RowsKept
  <2>1. Init => RowsKept
    BY DEF Init, RowsKept, InTime
  <2> QED
    BY <2>1, ClaimsInit
<1>2. ClaimInv /\ RowsKept /\ [Next]_vars => ClaimInv' /\ RowsKept'
  BY ClaimsStep, KeptStep
<1>3. ClaimInv /\ RowsKept => WorkKeepsItsRun
  BY DEF RowsKept, InTime, KeptRow, WorkKeepsItsRun
<1> QED
  BY <1>1, <1>2, <1>3, PTL DEF Spec

-----------------------------------------------------------------------------
(* The queue of a job and its pause *)

EditFence == \A j \in Jobs : edit[j] \in {"active", "paused"} => edit[j] = jobStatus[j]

FirstAttempt == \A r \in Runs :
  rst[r] \in {"none", "intake"} =>
    ratt[r] = 1 /\ (rst[r] = "intake" => Trigger[r] = "composio")

-----------------------------------------------------------------------------
(* How a step changes a job *)

Drained(j) == \A r \in Runs : JobOf[r] = j => rst'[r] \notin Queued

JobStep(j) ==
  \/ /\ jobStatus'[j] = jobStatus[j] /\ (j \in review' => j \in review)
     /\ edit'[j] \in {edit[j], "stale", "none", jobStatus[j]}
  \/ /\ jobStatus'[j] = "deleted" /\ j \notin review' /\ edit'[j] \in {"none", "stale"}
  \/ /\ jobStatus'[j] = "paused" /\ Drained(j) /\ edit'[j] \in {"none", "stale"}
  \/ /\ jobStatus'[j] = "active" /\ edit'[j] = "none"
     /\ j \notin review' \/ (edit[j] = "active" /\ j \in review)

LEMMA TouchJob ==
  ASSUME TypeOK, NEW J, Touch(J), UNCHANGED <<jobStatus, review>>, NEW j \in Jobs
  PROVE  JobStep(j)
  BY DEF Touch, JobStep, TypeOK, JobTypes

LEMMA SameJob ==
  ASSUME UNCHANGED jobVars, NEW j \in Jobs
  PROVE  JobStep(j)
  BY DEF JobStep

LEMMA StoreJob ==
  ASSUME TypeOK, Store, NEW j \in Jobs
  PROVE  JobStep(j)
<1>1. UNCHANGED jobVars \/ (UNCHANGED <<jobStatus, review>> /\ \E J : Touch(J))
  BY DEF Store, ScheduleRun, WebhookArrives, CreatePendingRun, TimePasses, DiscardMissed,
     AdvanceSchedule, SweepReads, SweepWrites
<1> QED
  BY <1>1, SameJob, TouchJob

LEMMA UsersJob ==
  ASSUME TypeOK, EditFence, Users, NEW j \in Jobs
  PROVE  JobStep(j)
<1> USE DEF TypeOK, JobTypes, RowTypes
<1>1. ASSUME NEW i \in Jobs, ReadForEdit(i) \/ RejectEdit(i) PROVE JobStep(j)
  BY <1>1 DEF ReadForEdit, RejectEdit, JobStep
<1>2. ASSUME NEW i \in Jobs, DeleteJob(i) PROVE JobStep(j)
  BY <1>2 DEF DeleteJob, Touch, JobStep
<1>3. ASSUME NEW i \in Jobs, NEW requested \in {"active", "paused", "none"},
             CommitEdit(i, requested)
      PROVE  JobStep(j)
  <2>1. CASE i # j
    BY <1>3, <2>1 DEF CommitEdit, JobStep
  <2>2. CASE i = j /\ jobStatus'[j] = "paused" /\ edit[j] # "paused"
    BY <1>3, <2>2 DEF CommitEdit, JobStep, QueuedFail, Drained, Queued
  <2>3. CASE i = j /\ jobStatus'[j] = "paused" /\ edit[j] = "paused"
    BY <1>3, <2>3 DEF CommitEdit, JobStep, EditFence
  <2>4. CASE i = j /\ jobStatus'[j] = "active"
    BY <1>3, <2>4 DEF CommitEdit, JobStep
  <2> QED
    BY <1>3, <2>1, <2>2, <2>3, <2>4 DEF CommitEdit
<1>4. CASE UNCHANGED jobVars
  BY <1>4, SameJob
<1> QED
  BY <1>1, <1>2, <1>3, <1>4 DEF Users, ChatStarts, ChatEnds

LEMMA ReviewJob ==
  ASSUME TypeOK, NEW i \in Jobs, NEW newRst \in [Runs -> RowStates],
         PauseForReview(i, newRst), NEW j \in Jobs
  PROVE  JobStep(j)
  BY DEF PauseForReview, Touch, JobStep, Drained, Queued, TypeOK, JobTypes

LEMMA ExecutionJob ==
  ASSUME TypeOK, ShapeOK, NEW e \in Executors, Execution(e), NEW j \in Jobs
  PROVE  JobStep(j)
<1>1. ASSUME op[e] # "none" PROVE run[e] \in Runs /\ JobOf[run[e]] \in Jobs
  BY <1>1, FunctionsAssumption DEF ShapeOK, Shape, HasWork, TypeOK, OutTypes
<1>2. CASE CommitOutcome(e) \/ CatchWrites(e)
  <2>1. UNCHANGED jobVars \/ (UNCHANGED <<jobStatus, review>> /\ \E J : Touch(J))
    BY <1>2 DEF CommitOutcome, CatchWrites, ScheduleRetry, BackInQueue, Finish
  <2> QED
    BY <2>1, SameJob, TouchJob
<1>3. CASE PauseAfterDelivery(e)
  <2>1. CASE UNCHANGED jobVars
    BY <2>1, SameJob
  <2>2. CASE ~ UNCHANGED jobVars
    BY <1>1, <1>3, <2>2
    DEF PauseAfterDelivery, QueuedFail, Touch, JobStep, Drained, Queued, TypeOK, JobTypes,
        RowTypes
  <2> QED
    BY <2>1, <2>2
<1>4. CASE OutcomeUnknown(e)
  BY <1>1, <1>4, ReviewJob, SameJob DEF OutcomeUnknown, TypeOK, RowTypes
<1>5. CASE PersistUncertain(e)
  <2>1. [rst EXCEPT ![run[e]] = "failed"] \in [Runs -> RowStates]
    BY DEF TypeOK, RowTypes, RowStates, Terminal
  <2> QED
    BY <1>1, <1>5, <2>1, ReviewJob, SameJob DEF PersistUncertain
<1>6. CASE UNCHANGED jobVars
  BY <1>6, SameJob
<1> QED
  BY <1>2, <1>3, <1>4, <1>5, <1>6
  DEF Execution, Dispatch, ExecuteDirectly, Begin, MarkStarted, NotStarted,
      PreparationFails, AwaitSession, EnterSession, Revalidate, ClaimLost, LoopStarts,
      SessionBusy, SetupFails, LoopEnds, LoopAborts, WorkReturns, Deadline, GraceEnds

LEMMA JobAutomaton ==
  ASSUME TypeOK, ShapeOK, EditFence, [Next]_vars, NEW j \in Jobs
  PROVE  JobStep(j)
<1>1. CASE UNCHANGED vars \/ Tick
  BY <1>1, SameJob DEF vars, Tick
<1>2. CASE Crash
  BY <1>2 DEF Crash, JobStep
<1> QED
  BY <1>1, <1>2, StoreJob, UsersJob, ExecutionJob DEF Next

-----------------------------------------------------------------------------
(* The invariant *)

QueueInv ==
  /\ TypeOK /\ ShapeOK
  /\ EditFence /\ FirstAttempt
  /\ ReviewHolds /\ PauseBarrier /\ OneRunInFlight

LEMMA QueueInit == Init => QueueInv
<1> SUFFICES ASSUME Init PROVE QueueInv
  OBVIOUS
<1>1. TypeOK /\ ShapeOK
  BY InitShape
<1>2. EditFence /\ FirstAttempt /\ ReviewHolds /\ PauseBarrier /\ OneRunInFlight
  BY DEF Init, EditFence, FirstAttempt, ReviewHolds, PauseBarrier, OneRunInFlight,
     InFlight, Queued
<1> QED
  BY <1>1, <1>2 DEF QueueInv

LEMMA QueueStep == QueueInv /\ [Next]_vars => QueueInv'
<1> SUFFICES ASSUME QueueInv, [Next]_vars PROVE QueueInv'
  OBVIOUS
<1> USE DEF QueueInv
<1>1. TypeOK' /\ ShapeOK'
  BY ShapeStep
<1>2. \A j \in Jobs : JobStep(j)
  BY JobAutomaton
<1>3. \A r \in Runs : RowStep(r) /\ rst[r] \in RowStates /\ ratt[r] \in Nat
  BY RowAutomaton, NumbersAssumption DEF TypeOK, RowTypes, Attempts
<1>4. \A r \in Runs, e \in Executors : WrittenBy(e, r) => rst[r] \in Queued \union {"running"}
  <2> SUFFICES ASSUME NEW r \in Runs, NEW e \in Executors, WrittenBy(e, r)
               PROVE  rst[r] \in Queued \union {"running"}
    OBVIOUS
  <2>1. rst[r] = expSt[e] /\ rst[r] # "none"
    BY DEF WrittenBy, ShapeOK, Shape, HasWork
  <2> QED
    BY <2>1 DEF TypeOK, OutTypes
<1>5. EditFence'
  BY <1>2 DEF JobStep, EditFence, TypeOK, JobTypes
<1>6. ReviewHolds'
  BY <1>1, <1>2 DEF JobStep, EditFence, ReviewHolds, TypeOK, JobTypes
<1>7. FirstAttempt'
  <2> SUFFICES ASSUME NEW r \in Runs, rst'[r] \in {"none", "intake"}
               PROVE  ratt'[r] = 1 /\ (rst'[r] = "intake" => Trigger[r] = "composio")
    BY DEF FirstAttempt
  <2> QED
    BY <1>3 DEF RowStep, SameRow, FirstAttempt, Terminal, Queued
<1>8. PauseBarrier'
  <2> SUFFICES ASSUME NEW r \in Runs, jobStatus'[JobOf[r]] = "paused", rst'[r] \in Queued
               PROVE  Trigger[r] = "composio" /\ rst'[r] = "pending" /\ ratt'[r] = 1
    BY DEF PauseBarrier
  <2>1. JobOf[r] \in Jobs
    BY FunctionsAssumption
  <2>2. jobStatus[JobOf[r]] = "paused"
    BY <1>2, <2>1 DEF JobStep, Drained
  <2>3. ~ScheduleRun(r)
    BY <2>2 DEF ScheduleRun, Executable
  <2> QED
    BY <1>3, <2>2, <2>3
    DEF RowStep, SameRow, PauseBarrier, FirstAttempt, Terminal, Queued
<1>9. OneRunInFlight'
  <2>1. ASSUME NEW r \in Runs, InFlight(r)', Trigger[r] # "composio"
        PROVE  InFlight(r) \/ ScheduleRun(r)
    BY <1>3, <1>4, <2>1 DEF InFlight, RowStep, SameRow, FirstAttempt, Terminal, Queued, Stale
  <2>2. ASSUME NEW q \in Runs, NEW r \in Runs, q # r, JobOf[q] = JobOf[r], InFlight(q)',
               ScheduleRun(r)
        PROVE  FALSE
    BY <2>2 DEF ScheduleRun, RowBecomes, InFlight, TypeOK, RowTypes
  <2>3. SUFFICES ASSUME NEW q \in Runs, NEW r \in Runs, q # r, JobOf[q] = JobOf[r],
                        InFlight(q)', InFlight(r)', Trigger[q] # "composio",
                        Trigger[r] # "composio"
                 PROVE  FALSE
    BY DEF OneRunInFlight
  <2>4. InFlight(q) /\ InFlight(r)
    BY <2>1, <2>2, <2>3
  <2> QED
    BY <2>3, <2>4 DEF OneRunInFlight
<1> QED
  BY <1>1, <1>5, <1>6, <1>7, <1>8, <1>9

LEMMA QueueInvHolds == Spec => []QueueInv
  BY QueueInit, QueueStep, PTL DEF Spec

\* A job that waits for a review stays paused: no edit that was prepared before
\* the pause activates it.
THEOREM ReviewHoldsAlways == Spec => []ReviewHolds
<1>1. QueueInv => ReviewHolds
  BY DEF QueueInv
<1> QED
  BY <1>1, QueueInvHolds, PTL

\* A paused job has no queued run but a Composio run that was let in before,
\* and no retry joins its queue.
THEOREM PauseBarrierHolds == Spec => []PauseBarrier
<1>1. QueueInv => PauseBarrier
  BY DEF QueueInv
<1> QED
  BY <1>1, QueueInvHolds, PTL

\* Composio runs aside, a job has at most one run in flight.
THEOREM OneRunInFlightHolds == Spec => []OneRunInFlight
<1>1. QueueInv => OneRunInFlight
  BY DEF QueueInv
<1> QED
  BY <1>1, QueueInvHolds, PTL

\* The only way past a pause is the path of the Composio webhooks: where no job
\* has such a trigger, a paused job has no queued run, as the documentation of
\* the scheduler says of every job.
THEOREM PauseIsBarrierWithoutComposio ==
  (\A r \in Runs : Trigger[r] # "composio") => (Spec => []PauseIsQueueBarrier)
<1> SUFFICES ASSUME \A r \in Runs : Trigger[r] # "composio"
             PROVE  Spec => []PauseIsQueueBarrier
  OBVIOUS
<1>1. PauseBarrier => PauseIsQueueBarrier
  BY DEF PauseBarrier, PauseIsQueueBarrier
<1> QED
  BY <1>1, PauseBarrierHolds, PTL
=============================================================================
