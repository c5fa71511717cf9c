--------------------------- MODULE AutomationRuns ---------------------------
(***************************************************************************)
(* The life of automation runs: app/lib/automations/store.ts (the rows and *)
(* their transitions), runner.ts (one execution of a run), run-timeout.ts  *)
(* (the execution deadline), dispatch-limiter.ts (the slots) and           *)
(* pi/session-exclusive-execution.ts (the reservation of a chat session).  *)
(*                                                                         *)
(* Rows live in PostgreSQL and survive a crash; executions, the session    *)
(* lock, the dispatch table and the live chat runtimes live in the server  *)
(* process.  Each transaction of the store is one action.  An execution    *)
(* awaits between its transactions, so anything may happen in between:     *)
(* another execution of the same run, a pause, a deletion, the stale       *)
(* sweep, a crash.  An execution has two parts that run side by side once  *)
(* its deadline passed: the outer function (pc) and the agent work it      *)
(* races against the timer (op).                                           *)
(*                                                                         *)
(* Time: one Tick is a fixed span.  RunTimeout and StaleAge are            *)
(* RUN_TIMEOUT_MS and STALE_AUTOMATION_RUN_TTL_MS in ticks; the abort      *)
(* grace is shorter than a tick.  When a queued row falls due or is missed *)
(* is left open here and is the subject of AutomationScheduler.            *)
(***************************************************************************)
EXTENDS Naturals, FiniteSets

CONSTANTS Jobs, Runs, Sessions, Executors, None,
          JobOf,           \* the job of each run
          SessionOf,       \* the chat session each run delivers to
          Trigger,         \* how each run is created
          MaxAttempts,     \* MAX_ATTEMPTS
          RunTimeout,      \* RUN_TIMEOUT_MS
          StaleAge,        \* STALE_AUTOMATION_RUN_TTL_MS
          MaxDispatches,   \* CANVAS_AUTOMATION_MAX_CONCURRENT_RUNS
          EditedJobs,      \* bound: jobs that users edit and delete
          ChatSessions,    \* bound: sessions that users chat in
          MaxCrashes       \* bound: server crashes

\* The scheduler creates scheduled runs.  Users, custom webhooks and e-mail
\* events share scheduleAutomationJobRun and count as manual.  Composio
\* webhooks have a path of their own.
Triggers == {"scheduled", "manual", "composio"}

ASSUME FunctionsAssumption ==
  /\ JobOf \in [Runs -> Jobs]
  /\ SessionOf \in [Runs -> Sessions]
  /\ Trigger \in [Runs -> Triggers]
ASSUME NumbersAssumption ==
  /\ MaxAttempts \in Nat \ {0}
  /\ RunTimeout \in Nat \ {0}
  /\ StaleAge \in Nat
  /\ RunTimeout < StaleAge
  /\ MaxDispatches \in Nat \ {0}
  /\ MaxCrashes \in Nat
ASSUME NoneAssumption == None \notin Runs /\ None \notin Sessions

VARIABLES
  jobStatus,    \* of a job: active, paused, or deleted
  edit,         \* an edit of the job in progress: none, or the status it read,
                \* or stale once the row changed under it
  rst, ratt,    \* status and attemptNumber of a run row
  rage,         \* ticks since startedAt, up to StaleAge, while running
  rphase,       \* scheduledFor of a queued row: later, due, missed (past grace)
  pc, op,       \* progress of an execution: outer function and agent work
  goal,         \* the transition it is about to write
  run,          \* the run it executes
  expSt, expAtt,  \* runTransitionExpectation
  timer,        \* ticks since its deadline timer was armed
  limited,      \* it was started through the dispatcher
  lockSt, lockKey, lockAhead,  \* the session lock, see SessionMutex
  dispatched,   \* activeDispatches
  sweep,        \* attempts of the rows a stale sweep has read, 0 for none
  live,         \* sessions with a busy live chat runtime
  crashes,      \* crashes so far
  begun,        \* history: attempts whose agent loop was started
  review        \* history: jobs with an unreviewed uncertain outcome

jobVars  == <<jobStatus, edit, review>>
rowVars  == <<rst, ratt, rage, rphase>>
outVars  == <<pc, run, expSt, expAtt, timer, limited, dispatched>>
opVars   == <<op, goal, begun>>
lockVars == <<lockSt, lockKey, lockAhead>>
envVars  == <<sweep, live, crashes>>
vars     == <<jobVars, rowVars, outVars, opVars, lockVars, envVars>>

Lock == INSTANCE SessionMutex
          WITH Ops <- Executors, Keys <- Sessions,
               st <- lockSt, key <- lockKey, ahead <- lockAhead

Attempts == 1..MaxAttempts
Queued   == {"pending", "retry"}
Terminal == {"success", "failed"}
RowStates == {"none", "intake", "running", "gone"} \union Queued \union Terminal
OuterStates == {"idle", "prepare", "started", "queued", "racing", "grace",
                "shutdown", "zombie", "failing"}
OpStates == {"none", "revalidate", "check", "loop", "uncertain", "write",
             "pausing", "wrote"}
Writes == {"success", "retry", "failed", "failedPause"}
Errors == {"timeout", "busy", "error"}

JobTypes ==
  /\ jobStatus \in [Jobs -> {"active", "paused", "deleted"}]
  /\ edit \in [Jobs -> {"none", "active", "paused", "stale"}]
  /\ review \subseteq Jobs

RowTypes ==
  /\ rst \in [Runs -> RowStates]
  /\ ratt \in [Runs -> Attempts]
  /\ rage \in [Runs -> 0..StaleAge]
  /\ rphase \in [Runs -> {"later", "due", "missed"}]

OutTypes ==
  /\ pc \in [Executors -> OuterStates]
  /\ run \in [Executors -> Runs \union {None}]
  /\ expSt \in [Executors -> {"none", "running"} \union Queued]
  /\ expAtt \in [Executors -> Attempts]
  /\ timer \in [Executors -> 0..RunTimeout]
  /\ limited \in [Executors -> BOOLEAN]
  /\ dispatched \subseteq Runs

OpTypes ==
  /\ op \in [Executors -> OpStates]
  /\ goal \in [Executors -> {"none"} \union Writes \union Errors]
  /\ begun \subseteq Runs \X Attempts

EnvTypes ==
  /\ sweep \in [Runs -> 0..MaxAttempts]
  /\ live \subseteq Sessions
  /\ crashes \in 0..MaxCrashes

TypeOK == JobTypes /\ RowTypes /\ OutTypes /\ OpTypes /\ EnvTypes /\ Lock!MutexTypeOK

Init ==
  /\ jobStatus = [j \in Jobs |-> "active"]
  /\ edit = [j \in Jobs |-> "none"]
  /\ rst = [r \in Runs |-> "none"]
  /\ ratt = [r \in Runs |-> 1]
  /\ rage = [r \in Runs |-> 0]
  /\ rphase = [r \in Runs |-> "due"]
  /\ pc = [e \in Executors |-> "idle"]
  /\ op = [e \in Executors |-> "none"]
  /\ goal = [e \in Executors |-> "none"]
  /\ run = [e \in Executors |-> None]
  /\ expSt = [e \in Executors |-> "none"]
  /\ expAtt = [e \in Executors |-> 1]
  /\ timer = [e \in Executors |-> 0]
  /\ limited = [e \in Executors |-> FALSE]
  /\ Lock!MutexInit
  /\ dispatched = {}
  /\ sweep = [r \in Runs |-> 0]
  /\ live = {}
  /\ crashes = 0
  /\ begun = {}
  /\ review = {}

-----------------------------------------------------------------------------
(* The store *)

Executable(j) == jobStatus[j] = "active"
InFlight(r) == rst[r] \in {"pending", "retry", "running"}

\* Every write to a job row moves its updatedAt: an edit prepared from an
\* earlier read has lost its fence.
Touch(J) ==
  edit' = [j \in Jobs |-> IF j \in J /\ edit[j] # "none" THEN "stale" ELSE edit[j]]

\* A row gets its status; rphase and rage keep their neutral values
\* where they mean nothing.
RowBecomes(r, s) ==
  /\ rst' = [rst EXCEPT ![r] = s]
  /\ rage' = [rage EXCEPT ![r] = 0]
  /\ rphase' = [rphase EXCEPT ![r] = "due"]
  /\ UNCHANGED ratt

\* The condition of every transition an execution writes: the row still has
\* the status and the attempt the execution expects.
Expected(e) == rst[run[e]] = expSt[e] /\ ratt[run[e]] = expAtt[e]

\* The rows of the jobs J that are queued are failed, the others keep theirs.
QueuedFail(J) == [r \in Runs |->
  IF JobOf[r] \in J /\ rst[r] \in Queued THEN "failed" ELSE rst[r]]
PhaseOf(newRst) == [r \in Runs |-> IF newRst[r] \in Queued THEN rphase[r] ELSE "due"]

\* scheduleAutomationJobRun and the on-time branch of
\* claimDueScheduledAutomationJobRun: one run in flight for a job.
ScheduleRun(r) ==
  /\ Trigger[r] \in {"scheduled", "manual"}
  /\ rst[r] = "none"
  /\ Executable(JobOf[r])
  /\ \A q \in Runs : JobOf[q] = JobOf[r] => ~InFlight(q)
  /\ RowBecomes(r, "pending")
  /\ Touch({JobOf[r]})
  /\ UNCHANGED <<jobStatus, review, outVars, opVars, lockVars, envVars>>

\* A Composio webhook passes the check of the job's status ...
WebhookArrives(r) ==
  /\ Trigger[r] = "composio"
  /\ rst[r] = "none"
  /\ Executable(JobOf[r])
  /\ RowBecomes(r, "intake")
  /\ UNCHANGED <<jobVars, outVars, opVars, lockVars, envVars>>

\* ... and createPendingAutomationRun inserts its run later, looking neither
\* at the status of the job nor at runs in flight.
CreatePendingRun(r) ==
  /\ rst[r] = "intake"
  /\ RowBecomes(r, "pending")
  /\ Touch({JobOf[r]})
  /\ UNCHANGED <<jobStatus, review, outVars, opVars, lockVars, envVars>>

\* scheduledFor of a queued row comes and, what matters to scheduled runs
\* only, goes by more than the grace.
TimePasses(r) ==
  /\ rst[r] \in Queued
  /\ \/ rphase[r] = "later" /\ rphase' = [rphase EXCEPT ![r] = "due"]
     \/ /\ rphase[r] = "due"
        /\ Trigger[r] = "scheduled"
        /\ rphase' = [rphase EXCEPT ![r] = "missed"]
  /\ UNCHANGED <<rst, ratt, rage, jobVars, outVars, opVars, lockVars, envVars>>

\* discardMissedScheduledAutomationRuns; the schedule of an affected job may be
\* advanced with it.
DiscardMissed ==
  LET Missed == {r \in Runs : /\ Trigger[r] = "scheduled"
                              /\ rst[r] \in Queued
                              /\ rphase[r] = "missed"}
  IN /\ Missed # {}
     /\ rst' = [r \in Runs |-> IF r \in Missed THEN "failed" ELSE rst[r]]
     /\ rphase' = [r \in Runs |-> IF r \in Missed THEN "due" ELSE rphase[r]]
     /\ \E J \in SUBSET {j \in Jobs : Executable(j) /\ \E r \in Missed : JobOf[r] = j} :
          Touch(J)
     /\ UNCHANGED <<jobStatus, review, ratt, rage,
                    outVars, opVars, lockVars, envVars>>

\* The schedule of a job is advanced without a run: its occurrence was missed,
\* another run is in flight, or advanceAutomationJobSchedule.
AdvanceSchedule(j) ==
  /\ Executable(j)
  /\ edit[j] \notin {"none", "stale"}
  /\ Touch({j})
  /\ UNCHANGED <<jobStatus, review, rowVars, outVars, opVars, lockVars, envVars>>

\* Mutant: rows of paused jobs are left out.
StaleOfExecutable(r) ==
  Executable(JobOf[r]) /\ rst[r] = "running" /\ rage[r] = StaleAge

Stale(r) == rst[r] = "running" /\ rage[r] = StaleAge

\* markStaleAutomationRunsFailed (all jobs) and failStaleAutomationRuns (one
\* job), first part: the rows running since before the limit are read ...
SweepReads(J) ==
  /\ sweep = [r \in Runs |-> 0]
  /\ \E r \in Runs : JobOf[r] \in J /\ Stale(r)
  /\ sweep' = [r \in Runs |-> IF JobOf[r] \in J /\ Stale(r) THEN ratt[r] ELSE 0]
  /\ UNCHANGED <<jobVars, rowVars, outVars, opVars, lockVars, live, crashes>>

\* Mutant: the write does not compare startedAt.
SweepMatchesAttempt(r) ==
  sweep[r] # 0 /\ rst[r] = "running" /\ ratt[r] = sweep[r]

\* The row still is as the sweep read it.  A startedAt that was renewed is
\* younger than the limit.
SweepMatches(r) == sweep[r] # 0 /\ ratt[r] = sweep[r] /\ Stale(r)

\* ... and, second part, failed in another transaction.
SweepWrites ==
  /\ \E r \in Runs : sweep[r] # 0
  /\ rst' = [r \in Runs |-> IF SweepMatches(r) THEN "failed" ELSE rst[r]]
  /\ rage' = [r \in Runs |-> IF SweepMatches(r) THEN 0 ELSE rage[r]]
  /\ Touch({JobOf[r] : r \in {q \in Runs : SweepMatches(q)}})
  /\ sweep' = [r \in Runs |-> 0]
  /\ UNCHANGED <<jobStatus, review, ratt, rphase,
                 outVars, opVars, lockVars, live, crashes>>

-----------------------------------------------------------------------------
(* Users *)

\* updateAutomationJob, before its transaction: the job is read and the update
\* prepared from what was read.
ReadForEdit(j) ==
  /\ j \in EditedJobs
  /\ jobStatus[j] # "deleted"
  /\ edit[j] = "none"
  /\ edit' = [edit EXCEPT ![j] = jobStatus[j]]
  /\ UNCHANGED <<jobStatus, review, rowVars, outVars, opVars, lockVars, envVars>>

\* The transaction of updateAutomationJob.  The new status is the requested
\* one, or the status that was read when the request names none.  A pause
\* fails the queued runs.
CommitEdit(j, requested) ==
  LET status == IF requested = "none" THEN edit[j] ELSE requested
  IN /\ edit[j] \in {"active", "paused"}
     /\ jobStatus[j] # "deleted"
     /\ jobStatus' = [jobStatus EXCEPT ![j] = status]
     /\ edit' = [edit EXCEPT ![j] = "none"]
     /\ review' = IF requested = "active" THEN review \ {j} ELSE review
     /\ rst' = IF status = "paused" /\ edit[j] # "paused" THEN QueuedFail({j}) ELSE rst
     /\ rphase' = PhaseOf(rst')
     /\ UNCHANGED <<ratt, rage, outVars, opVars, lockVars, envVars>>

\* AUTOMATION_REVISION_CONFLICT: the row changed since it was read.
RejectEdit(j) ==
  /\ edit[j] = "stale"
  /\ edit' = [edit EXCEPT ![j] = "none"]
  /\ UNCHANGED <<jobStatus, review, rowVars, outVars, opVars, lockVars, envVars>>

\* deleteAutomationJob removes the rows of the job with it.
DeleteJob(j) ==
  /\ j \in EditedJobs
  /\ jobStatus[j] # "deleted"
  /\ jobStatus' = [jobStatus EXCEPT ![j] = "deleted"]
  /\ Touch({j})
  /\ review' = review \ {j}
  /\ rst' = [r \in Runs |-> IF JobOf[r] = j THEN "gone" ELSE rst[r]]
  /\ rage' = [r \in Runs |-> IF JobOf[r] = j THEN 0 ELSE rage[r]]
  /\ rphase' = PhaseOf(rst')
  /\ UNCHANGED <<ratt, outVars, opVars, lockVars, envVars>>

\* A prompt makes the live runtime of a session busy.  It does so under the
\* session lock, which is not otherwise active then.
ChatStarts(s) ==
  /\ s \in ChatSessions \ live
  /\ ~ \E e \in Executors : lockSt[e] = "active" /\ lockKey[e] = s
  /\ live' = live \union {s}
  /\ UNCHANGED <<jobVars, rowVars, outVars, opVars, lockVars, sweep, crashes>>

ChatEnds(s) ==
  /\ s \in live
  /\ live' = live \ {s}
  /\ UNCHANGED <<jobVars, rowVars, outVars, opVars, lockVars, sweep, crashes>>

-----------------------------------------------------------------------------
(* One execution of a run: executeAutomationRun *)

\* The run is read, and what was read becomes the expectation.  A run that is
\* not queued is skipped, which changes nothing and is left out.
Begin(e, r, byDispatcher) ==
  /\ pc[e] = "idle"
  /\ rst[r] \in Queued
  /\ pc' = [pc EXCEPT ![e] = "prepare"]
  /\ run' = [run EXCEPT ![e] = r]
  /\ expSt' = [expSt EXCEPT ![e] = rst[r]]
  /\ expAtt' = [expAtt EXCEPT ![e] = ratt[r]]
  /\ limited' = [limited EXCEPT ![e] = byDispatcher]
  /\ UNCHANGED <<timer, jobVars, rowVars, opVars, lockVars, envVars>>

\* dispatchAutomationRunExecution, from the scheduler for a due row or right
\* after the row was created: one dispatch of a run, MaxDispatches in all.
Dispatch(e, r) ==
  /\ rphase[r] # "later"
  /\ r \notin dispatched
  /\ Cardinality(dispatched) < MaxDispatches
  /\ dispatched' = dispatched \union {r}
  /\ Begin(e, r, TRUE)

\* /api/automations/execute calls the runner past the dispatcher.
ExecuteDirectly(e, r) ==
  /\ Begin(e, r, FALSE)
  /\ UNCHANGED dispatched

\* Mutant: the slot of an execution that fails is not given back.
LeavesOnSuccess(e) ==
  dispatched' = IF limited[e] /\ pc[e] = "racing" THEN dispatched \ {run[e]} ELSE dispatched

\* The outer function ends; its dispatch slot becomes free.
Leaves(e) ==
  dispatched' = IF limited[e] THEN dispatched \ {run[e]} ELSE dispatched

Forget(e) ==
  /\ pc' = [pc EXCEPT ![e] = "idle"]
  /\ run' = [run EXCEPT ![e] = None]
  /\ expSt' = [expSt EXCEPT ![e] = "none"]
  /\ expAtt' = [expAtt EXCEPT ![e] = 1]
  /\ timer' = [timer EXCEPT ![e] = 0]
  /\ limited' = [limited EXCEPT ![e] = FALSE]

Exit(e) == Forget(e) /\ Leaves(e)

MoveTo(e, p) ==
  /\ pc' = [pc EXCEPT ![e] = p]
  /\ timer' = [timer EXCEPT ![e] = 0]
  /\ UNCHANGED <<run, expSt, expAtt, limited, dispatched>>

\* markAutomationRunStarted: the job still executable, the row still queued for
\* the attempt that was read.
\* Mutant: the update does not look at the status of the row.
StartableInAnyStatus(e) == Executable(JobOf[run[e]]) /\ ratt[run[e]] = expAtt[e]

Startable(e) ==
  /\ Executable(JobOf[run[e]])
  /\ rst[run[e]] \in Queued
  /\ ratt[run[e]] = expAtt[e]

MarkStarted(e) ==
  /\ pc[e] = "prepare"
  /\ Startable(e)
  /\ RowBecomes(run[e], "running")
  /\ pc' = [pc EXCEPT ![e] = "started"]
  /\ expSt' = [expSt EXCEPT ![e] = "running"]
  /\ UNCHANGED <<run, expAtt, timer, limited, dispatched,
                 jobVars, opVars, lockVars, envVars>>

NotStarted(e) ==
  /\ pc[e] = "prepare"
  /\ ~Startable(e)
  /\ Exit(e)
  /\ UNCHANGED <<jobVars, rowVars, opVars, lockVars, envVars>>

\* Resolving the workspace, the delivery target or the skills throws.
PreparationFails(e) ==
  /\ pc[e] \in {"prepare", "started"}
  /\ MoveTo(e, "failing")
  /\ goal' = [goal EXCEPT ![e] = "error"]
  /\ UNCHANGED <<op, begun, jobVars, rowVars, lockVars, envVars>>

\* withExclusivePiSessionExecution takes its place in the session lock.
AwaitSession(e) ==
  /\ pc[e] = "started"
  /\ Lock!Request(e, SessionOf[run[e]])
  /\ MoveTo(e, "queued")
  /\ UNCHANGED <<jobVars, rowVars, opVars, envVars>>

\* The lock is granted: runWithAutomationTimeout arms the timer and starts the
\* work, which first revalidates the claim.
EnterSession(e) ==
  /\ pc[e] = "queued"
  /\ Lock!Grant(e)
  /\ MoveTo(e, "racing")
  /\ op' = [op EXCEPT ![e] = "revalidate"]
  /\ UNCHANGED <<goal, begun, jobVars, rowVars, envVars>>

\* The work settles.  While it was racing, the lease is released and the outer
\* function returns (goal none) or goes to its catch clause.  During the abort
\* grace the outcome is a timeout whatever the work did.  After a shutdown the
\* settlement releases the lease that was held for it.
WorkSettles(e, outcome) ==
  /\ op' = [op EXCEPT ![e] = "none"]
  /\ Lock!Release(e)
  /\ \/ /\ pc[e] = "racing"
        /\ outcome = "none"
        /\ goal' = [goal EXCEPT ![e] = "none"]
        /\ Exit(e)
     \/ /\ pc[e] = "racing"
        /\ outcome # "none"
        /\ goal' = [goal EXCEPT ![e] = outcome]
        /\ MoveTo(e, "failing")
     \/ /\ pc[e] = "grace"
        /\ goal' = [goal EXCEPT ![e] = "timeout"]
        /\ MoveTo(e, "failing")
     \/ /\ pc[e] = "shutdown"
        /\ goal' = [goal EXCEPT ![e] = "none"]
        /\ MoveTo(e, "shutdown")
     \/ /\ pc[e] = "zombie"
        /\ goal' = [goal EXCEPT ![e] = "none"]
        /\ Forget(e)
        /\ UNCHANGED dispatched

Claimed(e) ==
  /\ Executable(JobOf[run[e]])
  /\ rst[run[e]] = "running"
  /\ ratt[run[e]] = expAtt[e]

\* revalidateAutomationRunClaim renews startedAt, or the claim is lost and the
\* outer function returns without a write.
Revalidate(e) ==
  /\ op[e] = "revalidate"
  /\ Claimed(e)
  /\ rage' = [rage EXCEPT ![run[e]] = 0]
  /\ op' = [op EXCEPT ![e] = "check"]
  /\ UNCHANGED <<rst, ratt, rphase, goal, begun, jobVars, outVars, lockVars, envVars>>

ClaimLost(e) ==
  /\ op[e] = "revalidate"
  /\ ~Claimed(e)
  /\ WorkSettles(e, "none")
  /\ UNCHANGED <<begun, jobVars, rowVars, envVars>>

\* An idle live runtime is evicted and the agent loop starts.
LoopStarts(e) ==
  /\ op[e] = "check"
  /\ pc[e] = "racing"
  /\ SessionOf[run[e]] \notin live
  /\ op' = [op EXCEPT ![e] = "loop"]
  /\ begun' = begun \union {<<run[e], expAtt[e]>>}
  /\ UNCHANGED <<goal, jobVars, rowVars, outVars, lockVars, envVars>>

\* PiSessionBusyError
SessionBusy(e) ==
  /\ op[e] = "check"
  /\ SessionOf[run[e]] \in live
  /\ WorkSettles(e, "busy")
  /\ UNCHANGED <<begun, jobVars, rowVars, envVars>>

\* The signal is aborted, or setting up the loop throws.
SetupFails(e) ==
  /\ op[e] = "check"
  /\ WorkSettles(e, "error")
  /\ UNCHANGED <<begun, jobVars, rowVars, envVars>>

\* Mutant: the last attempt is retried too.
LoopEndsAlwaysRetrying(e, write) ==
  /\ op[e] = "loop"
  /\ pc[e] = "racing"
  /\ op' = [op EXCEPT ![e] = "write"]
  /\ goal' = [goal EXCEPT ![e] = write]
  /\ UNCHANGED <<begun, jobVars, rowVars, outVars, lockVars, envVars>>

\* The loop ends, with a result or an error, before the deadline: the active
\* check passes and a transaction is on its way.
LoopEnds(e, write) ==
  /\ op[e] = "loop"
  /\ pc[e] = "racing"
  /\ write = "retry" => expAtt[e] < MaxAttempts
  /\ op' = [op EXCEPT ![e] = "write"]
  /\ goal' = [goal EXCEPT ![e] = write]
  /\ UNCHANGED <<begun, jobVars, rowVars, outVars, lockVars, envVars>>

\* After the deadline the active check throws: the loop stops without a write.
LoopAborts(e) ==
  /\ op[e] = "loop"
  /\ pc[e] # "racing"
  /\ WorkSettles(e, "error")
  /\ UNCHANGED <<begun, jobVars, rowVars, envVars>>

\* Mutant: the last writer wins.
FinishAnyway(e, s) ==
  /\ RowBecomes(run[e], s)
  /\ Touch({JobOf[run[e]]})
  /\ UNCHANGED <<jobStatus, review>>

\* markAutomationRunFinished
Finish(e, s) ==
  IF Expected(e)
    THEN /\ RowBecomes(run[e], s)
         /\ Touch({JobOf[run[e]]})
         /\ UNCHANGED <<jobStatus, review>>
    ELSE UNCHANGED <<rowVars, jobVars>>

\* The row is queued again for the attempt a.
BackInQueue(r, a) ==
  /\ rst' = [rst EXCEPT ![r] = "retry"]
  /\ ratt' = [ratt EXCEPT ![r] = a]
  /\ rage' = [rage EXCEPT ![r] = 0]
  /\ rphase' = [rphase EXCEPT ![r] = "later"]
  /\ Touch({JobOf[r]})
  /\ UNCHANGED <<jobStatus, review>>

\* Mutants: the status of the job is not checked; the row is not checked; the
\* attempt is not counted.
RetryOfInactiveJob(e) ==
  \/ Expected(e) /\ BackInQueue(run[e], ratt[run[e]] + 1)
  \/ ~Expected(e) /\ UNCHANGED <<rowVars, jobVars>>
RetryOfAnyRow(e) ==
  /\ expAtt[e] < MaxAttempts
  /\ rst[run[e]] # "gone"
  /\ BackInQueue(run[e], expAtt[e] + 1)
RetryOfSameAttempt(e) ==
  \/ /\ Expected(e)
     /\ Executable(JobOf[run[e]])
     /\ BackInQueue(run[e], ratt[run[e]])
  \/ ~Expected(e) /\ UNCHANGED <<rowVars, jobVars>>

\* markAutomationRunRetryScheduled: a job that is no longer executable gets no
\* retry.
ScheduleRetry(e) ==
  \/ /\ Expected(e)
     /\ Executable(JobOf[run[e]])
     /\ BackInQueue(run[e], ratt[run[e]] + 1)
  \/ /\ Expected(e)
     /\ ~Executable(JobOf[run[e]])
     /\ RowBecomes(run[e], "failed")
     /\ UNCHANGED jobVars
  \/ ~Expected(e) /\ UNCHANGED <<rowVars, jobVars>>

\* The transaction of the loop's outcome commits, whatever happened to the
\* deadline meanwhile.
CommitOutcome(e) ==
  /\ op[e] = "write"
  /\ IF goal[e] = "retry"
       THEN ScheduleRetry(e)
       ELSE Finish(e, IF goal[e] = "success" THEN "success" ELSE "failed")
  /\ op' = [op EXCEPT ![e] = IF goal[e] = "failedPause" /\ Expected(e)
                               THEN "pausing" ELSE "wrote"]
  /\ goal' = [goal EXCEPT ![e] = "none"]
  /\ UNCHANGED <<begun, outVars, lockVars, envVars>>

\* updateAutomationJob(status paused) after a delivery failure; a conflict
\* with another update of the job loses it.
PauseAfterDelivery(e) ==
  /\ op[e] = "pausing"
  /\ LET j == JobOf[run[e]]
     IN \/ /\ jobStatus[j] # "deleted"
           /\ jobStatus' = [jobStatus EXCEPT ![j] = "paused"]
           /\ Touch({j})
           /\ rst' = IF jobStatus[j] = "active" THEN QueuedFail({j}) ELSE rst
           /\ rphase' = PhaseOf(rst')
           /\ UNCHANGED <<ratt, rage, review>>
        \/ UNCHANGED <<jobVars, rowVars>>
  /\ op' = [op EXCEPT ![e] = "wrote"]
  /\ UNCHANGED <<goal, begun, outVars, lockVars, envVars>>

\* Mutant: edits in progress do not notice the pause.
PauseForReviewSilently(j, newRst) ==
  /\ jobStatus' = [jobStatus EXCEPT ![j] = "paused"]
  /\ review' = review \union {j}
  /\ UNCHANGED edit
  /\ rst' = [r \in Runs |-> IF JobOf[r] = j /\ newRst[r] \in Queued
                              THEN "failed" ELSE newRst[r]]
  /\ rphase' = PhaseOf(rst')

\* pauseAutomationJobForUncertainOutcome
PauseForReview(j, newRst) ==
  /\ jobStatus' = [jobStatus EXCEPT ![j] = "paused"]
  /\ review' = review \union {j}
  /\ Touch({j})
  /\ rst' = [r \in Runs |-> IF JobOf[r] = j /\ newRst[r] \in Queued
                              THEN "failed" ELSE newRst[r]]
  /\ rphase' = PhaseOf(rst')

\* The gateway records that the outcome of an external action of the loop is
\* unknown and, in the same transaction, pauses the job of the run, even when
\* the run has already been failed by its deadline.
OutcomeUnknown(e) ==
  /\ op[e] = "loop"
  /\ op' = [op EXCEPT ![e] = "uncertain"]
  /\ IF rst[run[e]] # "gone"
       THEN PauseForReview(JobOf[run[e]], rst) /\ UNCHANGED <<ratt, rage>>
       ELSE UNCHANGED <<jobVars, rowVars>>
  /\ UNCHANGED <<goal, begun, outVars, lockVars, envVars>>

\* persistUncertainOutcome, called when the tool reports the unknown outcome.
PersistUncertain(e) ==
  /\ op[e] = "uncertain"
  /\ op' = [op EXCEPT ![e] = "wrote"]
  /\ IF Expected(e)
       THEN /\ PauseForReview(JobOf[run[e]], [rst EXCEPT ![run[e]] = "failed"])
            /\ rage' = [rage EXCEPT ![run[e]] = 0]
            /\ UNCHANGED ratt
       ELSE UNCHANGED <<jobVars, rowVars>>
  /\ UNCHANGED <<goal, begun, outVars, lockVars, envVars>>

\* The work returns after its last transaction.
WorkReturns(e) ==
  /\ op[e] = "wrote"
  /\ WorkSettles(e, "none")
  /\ UNCHANGED <<begun, jobVars, rowVars, envVars>>

\* The deadline: the signal is aborted and the work gets a short grace.
Deadline(e) ==
  /\ pc[e] = "racing"
  /\ timer[e] = RunTimeout
  /\ MoveTo(e, "grace")
  /\ UNCHANGED <<opVars, jobVars, rowVars, lockVars, envVars>>

\* Mutant: the lease is not held for the work that goes on.
GraceEndsWithoutHold(e) ==
  /\ pc[e] = "grace"
  /\ MoveTo(e, "shutdown")
  /\ Lock!Release(e)
  /\ UNCHANGED <<opVars, jobVars, rowVars, envVars>>

\* The grace ends first: AutomationLoopShutdownError.  The lease is held until
\* the work settles, and the outer function goes on to its catch clause.
GraceEnds(e) ==
  /\ pc[e] = "grace"
  /\ MoveTo(e, "shutdown")
  /\ UNCHANGED <<opVars, jobVars, rowVars, lockVars, envVars>>

\* The catch clause of the outer function: a busy session is retried while
\* attempts remain, everything else fails the run.
CatchWrites(e) ==
  /\ pc[e] \in {"failing", "shutdown"}
  /\ IF pc[e] = "failing" /\ goal[e] = "busy" /\ expAtt[e] < MaxAttempts
       THEN ScheduleRetry(e)
       ELSE Finish(e, "failed")
  /\ IF op[e] = "none"
       THEN Exit(e) /\ goal' = [goal EXCEPT ![e] = "none"]
       ELSE /\ pc' = [pc EXCEPT ![e] = "zombie"]
            /\ Leaves(e)
            /\ limited' = [limited EXCEPT ![e] = FALSE]
            /\ UNCHANGED <<run, expSt, expAtt, timer, goal>>
  /\ UNCHANGED <<op, begun, lockVars, envVars>>

-----------------------------------------------------------------------------
(* Time and crashes *)

\* Timers of the process fire on time: no tick passes a deadline that is due
\* or an abort grace.  Sweeps run in the same process and cannot overtake them.
Tick ==
  /\ \A e \in Executors : pc[e] # "grace" /\ (pc[e] = "racing" => timer[e] < RunTimeout)
  /\ rage' = [r \in Runs |-> IF rst[r] = "running" /\ rage[r] < StaleAge
                               THEN rage[r] + 1 ELSE rage[r]]
  /\ timer' = [e \in Executors |-> IF pc[e] = "racing" THEN timer[e] + 1 ELSE timer[e]]
  /\ <<rage, timer>>' # <<rage, timer>>
  /\ UNCHANGED <<rst, ratt, rphase, pc, run, expSt, expAtt, limited, dispatched,
                 jobVars, opVars, lockVars, envVars>>

\* The server process dies: the database is what remains.
Crash ==
  /\ crashes < MaxCrashes
  /\ crashes' = crashes + 1
  /\ rst' = [r \in Runs |-> IF rst[r] = "intake" THEN "gone" ELSE rst[r]]
  /\ edit' = [j \in Jobs |-> "none"]
  /\ pc' = [e \in Executors |-> "idle"]
  /\ op' = [e \in Executors |-> "none"]
  /\ goal' = [e \in Executors |-> "none"]
  /\ run' = [e \in Executors |-> None]
  /\ expSt' = [e \in Executors |-> "none"]
  /\ expAtt' = [e \in Executors |-> 1]
  /\ timer' = [e \in Executors |-> 0]
  /\ limited' = [e \in Executors |-> FALSE]
  /\ Lock!Reset
  /\ dispatched' = {}
  /\ sweep' = [r \in Runs |-> 0]
  /\ live' = {}
  /\ UNCHANGED <<jobStatus, ratt, rage, rphase, begun, review>>
-----------------------------------------------------------------------------

Store ==
  \/ \E r \in Runs :
       ScheduleRun(r) \/ WebhookArrives(r) \/ CreatePendingRun(r) \/ TimePasses(r)
  \/ DiscardMissed
  \/ \E j \in Jobs : AdvanceSchedule(j)
  \/ \E J \in {Jobs} \union {{j} : j \in Jobs} : SweepReads(J)
  \/ SweepWrites

Users ==
  \/ \E j \in Jobs :
       \/ ReadForEdit(j)
       \/ \E requested \in {"active", "paused", "none"} : CommitEdit(j, requested)
       \/ RejectEdit(j)
       \/ DeleteJob(j)
  \/ \E s \in Sessions : ChatStarts(s) \/ ChatEnds(s)

Execution(e) ==
  \/ \E r \in Runs : Dispatch(e, r) \/ ExecuteDirectly(e, r)
  \/ MarkStarted(e) \/ NotStarted(e) \/ PreparationFails(e)
  \/ AwaitSession(e) \/ EnterSession(e)
  \/ Revalidate(e) \/ ClaimLost(e)
  \/ LoopStarts(e) \/ SessionBusy(e) \/ SetupFails(e)
  \/ \E write \in Writes : LoopEnds(e, write)
  \/ LoopAborts(e) \/ CommitOutcome(e) \/ PauseAfterDelivery(e)
  \/ OutcomeUnknown(e) \/ PersistUncertain(e) \/ WorkReturns(e)
  \/ Deadline(e) \/ GraceEnds(e) \/ CatchWrites(e)

Next ==
  \/ Store
  \/ Users
  \/ \E e \in Executors : Execution(e)
  \/ Tick
  \/ Crash

Spec == Init /\ [][Next]_vars

\* Time goes on, timers fire and the scheduler keeps sweeping.  Nothing is
\* assumed about the agent: a loop may hang for ever, deaf to its abort.
Fairness ==
  /\ WF_vars(Tick)
  /\ WF_vars(SweepReads(Jobs))
  /\ WF_vars(SweepWrites)
  /\ \A e \in Executors : WF_vars(Deadline(e)) /\ WF_vars(GraceEnds(e))

FairSpec == Spec /\ Fairness

-----------------------------------------------------------------------------
(* Properties *)

\* The agent is at work for an execution, or its outcome is being written.
Working(e) == op[e] \in {"loop", "uncertain", "write", "pausing"}

\* A session never has two agents at work at once, be it two automation loops
\* or a loop and the live chat runtime, and a loop that ignored its abort and
\* outlived its run still counts.
OneAgentPerSession ==
  \A e \in Executors : Working(e) =>
    /\ SessionOf[run[e]] \notin live
    /\ \A f \in Executors \ {e} :
         Working(f) => SessionOf[run[f]] # SessionOf[run[e]]

\* Two executions never both hold the claim of one attempt, though a run may
\* be dispatched and executed directly at the same time.
ClaimExclusive ==
  \A e, f \in Executors :
    (e # f /\ run[e] # None /\ run[e] = run[f] /\ expSt[e] = "running" /\ expSt[f] = "running")
      => expAtt[e] # expAtt[f]

\* While an agent works within its deadline, nobody takes its run away: the
\* row is running with its attempt until the agent's own outcome is written
\* (or the job is deleted).  In particular the stale sweep, which decides on
\* what it read in an earlier transaction, never fails a live run.
WorkKeepsItsRun ==
  \A e \in Executors :
    (pc[e] = "racing" /\ op[e] \in {"check", "loop", "uncertain", "write"}) =>
      \/ rst[run[e]] = "gone"
      \/ rst[run[e]] = "running" /\ ratt[run[e]] = expAtt[e]

\* At most one run of a job is in flight, Composio runs aside.
OneRunInFlight ==
  \A q, r \in Runs :
    (q # r /\ JobOf[q] = JobOf[r] /\ InFlight(q) /\ InFlight(r)) =>
      "composio" \in {Trigger[q], Trigger[r]}

\* A paused job has no queued run that could start after it is resumed: a
\* pause takes the queue with it and no retry joins it later.  The exception
\* is a Composio webhook run that was let in before the pause.
PauseBarrier ==
  \A r \in Runs :
    (jobStatus[JobOf[r]] = "paused" /\ rst[r] \in Queued) =>
      Trigger[r] = "composio" /\ rst[r] = "pending" /\ ratt[r] = 1

\* A pause leaves no queued run, as store.ts and the scheduler documentation
\* say of every pause.
PauseIsQueueBarrier ==
  \A r \in Runs : jobStatus[JobOf[r]] = "paused" => rst[r] \notin Queued

\* A job whose run had an external action with unknown outcome stays paused
\* until somebody activates it on purpose: an edit that was prepared before
\* the pause cannot bring it back.
ReviewHolds == \A j \in review : jobStatus[j] = "paused"

\* A dispatch slot is taken exactly by the runs whose execution was started by
\* the dispatcher and has not left it.
SlotsMatchExecutions ==
  dispatched = {run[e] : e \in {f \in Executors : limited[f]}}

\* A run that ended never comes back, whatever late writes are on their way.
EndedRunsStay ==
  [][\A r \in Runs : rst[r] \in Terminal => rst'[r] \in {rst[r], "gone"}]_vars

\* The agent loop of one attempt of a run is started at most once.
AttemptsRunOnce ==
  [][\A e \in Executors :
       (op[e] # "loop" /\ op'[e] = "loop") => <<run[e], expAtt[e]>> \notin begun]_vars

\* No run stays running for ever, whether its server crashed, its agent hangs
\* or its execution gave up its claim.
RunningEnds == \A r \in Runs : (rst[r] = "running") ~> (rst[r] # "running")
=============================================================================
