------------------------- MODULE AutomationScheduler -------------------------
(***************************************************************************)
(* The clock of the automations: scripts/automation-scheduler.js, a        *)
(* process of its own that polls the server with a growing interval, and   *)
(* what its two requests do to one scheduled job: queue-due consumes the   *)
(* occurrence that fell due, execute-ready starts the queued run, and both *)
(* first drop what is overdue by more than the misfire grace.              *)
(*                                                                         *)
(* Time is discrete.  Points in time are kept relative to now: nextIn is   *)
(* the time until nextRunAt, late the time since scheduledFor of the       *)
(* queued run; both are negative on the other side.  Between occurrences   *)
(* everything is symmetric in time, so no absolute clock is needed.        *)
(*                                                                         *)
(* Other runs, pauses and what an execution does are AutomationRuns'.      *)
(***************************************************************************)
EXTENDS Integers, Sequences

CONSTANTS PollInterval,   \* POLL_INTERVAL_MS
          MaxInterval,    \* POLL_MAX_INTERVAL_MS
          BackoffFactor,  \* POLL_BACKOFF_FACTOR
          IdleTicks,      \* IDLE_TICKS_BEFORE_BACKOFF
          Grace,          \* SCHEDULED_RUN_MISFIRE_GRACE_MS
          RetryBackoff,   \* RETRY_BACKOFF_MS, a sequence
          Period,         \* time between two occurrences of the schedule
          Kind,           \* schedule kind: interval, or daily for fixed times
          MaxTick,        \* bound: duration of a tick of the scheduler
          Contended       \* other runs may hold all dispatch slots

ASSUME SchedulerAssumption ==
  /\ {PollInterval, MaxInterval, BackoffFactor, IdleTicks, Period} \subseteq Nat \ {0}
  /\ PollInterval <= MaxInterval
  /\ Grace \in Nat /\ Grace < Period
  /\ RetryBackoff \in Seq(Nat)
  /\ Kind \in {"interval", "daily"}
  /\ MaxTick \in Nat
  /\ Contended \in BOOLEAN

VARIABLES
  phase,        \* off, queue, execute and todo (a tick), wait (the timer)
  left,         \* time until the timer fires
  interval,     \* currentInterval
  idle,         \* consecutiveIdleTicks, up to IdleTicks
  hadWork,      \* the tick has found work
  spent,        \* duration of this tick
  nextIn,       \* nextRunAt - now
  row,          \* the run of the job: none, queued, running, or orphan when it
                \* is still marked running after its server stopped
  late,         \* now - scheduledFor of the queued run
  attempt,      \* attemptNumber
  ok,           \* history: no request of this tick failed so far
  interrupted,  \* history: a request failed or the server was down since the
                \* last tick in which everything went well
  skip,         \* history: the last request skipped an occurrence or a run
  sinceQueued   \* history: time since an occurrence was queued, up to Period

schedVars == <<phase, left, interval, idle, hadWork, spent>>
jobVars   == <<nextIn, row, late, attempt>>
histVars  == <<ok, interrupted, skip, sinceQueued>>
vars      == <<schedVars, jobVars, histVars>>

MaxAttempts == Len(RetryBackoff) + 1

Least(a, b) == IF a < b THEN a ELSE b

TypeOK ==
  /\ phase \in {"off", "queue", "execute", "todo", "wait"}
  /\ left \in 0..MaxInterval
  /\ interval \in PollInterval..MaxInterval
  /\ idle \in 0..IdleTicks
  /\ hadWork \in BOOLEAN
  /\ spent \in 0..MaxTick
  /\ nextIn \in -(Grace + Period)..Period
  /\ row \in {"none", "queued", "running", "orphan"}
  /\ late \in Int /\ late <= Grace + 1
  /\ attempt \in 1..MaxAttempts
  /\ ok \in BOOLEAN /\ interrupted \in BOOLEAN /\ skip \in BOOLEAN
  /\ sinceQueued \in 0..Period

Init ==
  /\ phase = "off" /\ left = 0 /\ interval = PollInterval /\ idle = 0
  /\ hadWork = FALSE /\ spent = 0
  /\ nextIn \in 1..Period
  /\ row = "none" /\ late = 0 /\ attempt = 1
  /\ ok = TRUE /\ interrupted = TRUE /\ skip = FALSE /\ sinceQueued = Period
-----------------------------------------------------------------------------
(* Time and failures *)

\* A unit of time passes: in the timer, in a slow request, or while down.  What
\* is overdue beyond the grace need not be told apart, but for the place of
\* nextRunAt on the grid of fixed times.
Elapse ==
  /\ \/ phase = "wait" /\ left > 0 /\ left' = left - 1 /\ UNCHANGED spent
     \/ phase = "off" /\ UNCHANGED <<left, spent>>
     \/ /\ phase \in {"queue", "execute", "todo"}
        /\ spent < MaxTick
        /\ spent' = spent + 1
        /\ UNCHANGED left
  /\ nextIn' = IF nextIn > -(Grace + Period) THEN nextIn - 1 ELSE nextIn - 1 + Period
  /\ late' = IF row = "queued" THEN Least(late + 1, Grace + 1) ELSE late
  /\ sinceQueued' = Least(sinceQueued + 1, Period)
  /\ UNCHANGED <<phase, interval, idle, hadWork, row, attempt, ok, interrupted, skip>>

\* The container stops: the scheduler dies with the server.
Stop ==
  /\ phase # "off"
  /\ phase' = "off"
  /\ left' = 0 /\ spent' = 0 /\ hadWork' = FALSE
  /\ interval' = PollInterval /\ idle' = 0
  /\ ok' = TRUE /\ interrupted' = TRUE
  /\ row' = IF row = "running" THEN "orphan" ELSE row
  /\ UNCHANGED <<nextIn, late, attempt, skip, sinceQueued>>

\* start: the server answers, and the first tick begins at once.
Start ==
  /\ phase = "off"
  /\ phase' = "queue"
  /\ UNCHANGED <<left, interval, idle, hadWork, spent, jobVars, histVars>>
-----------------------------------------------------------------------------
(* The server's side of the two requests *)

\* Mutant: retries are not subject to the grace.
MissedFirstAttempt == row = "queued" /\ late > Grace /\ attempt = 1

Missed == row = "queued" /\ late > Grace

\* Mutant: the grace does not apply to occurrences.
OverdueNever == FALSE

Overdue == -nextIn > Grace

\* computeNextScheduledRunAt, relative to now: from the anchor, and once more
\* from now when that is not in the future.  Fixed times stay on their grid.
NextFrom(anchorIn) ==
  IF Kind = "interval"
    THEN IF anchorIn + Period > 0 THEN anchorIn + Period ELSE Period
    ELSE CHOOSE d \in 1..Period : (d - nextIn) % Period = 0

\* nextIn after discardMissedScheduledAutomationRuns.
NextAfterDiscard == IF Missed /\ nextIn <= 0 THEN NextFrom(0) ELSE nextIn

\* Both requests begin by failing the queued scheduled run that is overdue.
DiscardMissed ==
  /\ nextIn' = NextAfterDiscard
  /\ row' = IF Missed THEN "none" ELSE row
  /\ late' = IF Missed THEN 0 ELSE late
  /\ attempt' = IF Missed THEN 1 ELSE attempt
  /\ skip' = Missed

\* queue-due: what is missed is discarded, then the due occurrence is claimed.
\* An occurrence beyond the grace is skipped, one within it is queued unless a
\* run of the job is in flight; either way the schedule moves on.
QueueDue ==
  /\ phase = "queue"
  /\ phase' = "execute"
  /\ \/ /\ NextAfterDiscard > 0
        /\ DiscardMissed
        /\ UNCHANGED <<hadWork, sinceQueued>>
     \/ /\ NextAfterDiscard <= 0
        /\ Overdue
        /\ nextIn' = NextFrom(0)
        /\ skip' = TRUE
        /\ UNCHANGED <<row, late, attempt, hadWork, sinceQueued>>
     \/ /\ NextAfterDiscard <= 0
        /\ ~Overdue
        /\ nextIn' = NextFrom(nextIn)
        /\ skip' = FALSE
        /\ IF row = "none"
             THEN /\ row' = "queued" /\ late' = -nextIn /\ attempt' = 1
                  /\ hadWork' = TRUE /\ sinceQueued' = 0
             ELSE UNCHANGED <<row, late, attempt, hadWork, sinceQueued>>
  /\ UNCHANGED <<left, interval, idle, spent, ok, interrupted>>

\* execute-ready: what is missed is discarded, then the due queued run is
\* dispatched if a slot is free.
ExecuteReady ==
  /\ phase = "execute"
  /\ phase' = "todo"
  /\ \/ /\ ~Missed /\ row = "queued" /\ late >= 0
        /\ row' = "running" /\ late' = 0 /\ hadWork' = TRUE /\ skip' = FALSE
        /\ UNCHANGED <<nextIn, attempt>>
     \/ /\ Missed \/ row # "queued" \/ late < 0 \/ Contended
        /\ DiscardMissed
        /\ UNCHANGED hadWork
  /\ UNCHANGED <<left, interval, idle, spent, ok, interrupted, sinceQueued>>

\* execute-ready also fails the orphan, once it is old enough to be stale.
SweepOrphan ==
  /\ phase = "execute"
  /\ row = "orphan"
  /\ row' = "none" /\ late' = 0 /\ attempt' = 1
  /\ UNCHANGED <<schedVars, nextIn, histVars>>

\* The request fails, is refused or times out: the tick goes on without it.
RequestFails ==
  /\ \/ phase = "queue" /\ phase' = "execute"
     \/ phase = "execute" /\ phase' = "todo"
  /\ ok' = FALSE /\ interrupted' = TRUE
  /\ UNCHANGED <<left, interval, idle, hadWork, spent, jobVars, skip, sinceQueued>>

\* The execution ends for good, or with a retry after its backoff.
RunEnds ==
  /\ row = "running"
  /\ \/ row' = "none" /\ late' = 0 /\ attempt' = 1
     \/ /\ attempt < MaxAttempts
        /\ row' = "queued"
        /\ late' = -RetryBackoff[attempt]
        /\ attempt' = attempt + 1
  /\ UNCHANGED <<schedVars, nextIn, histVars>>
-----------------------------------------------------------------------------
(* The scheduler process *)

TimerFires ==
  /\ phase = "wait" /\ left = 0
  /\ phase' = "queue"
  /\ hadWork' = FALSE /\ spent' = 0 /\ ok' = TRUE
  /\ UNCHANGED <<left, interval, idle, jobVars, interrupted, skip, sinceQueued>>

\* Mutant of scheduleNextTick: the interval is not capped.
IntervalUncapped(idleTicks) ==
  IF idleTicks >= IdleTicks THEN interval * BackoffFactor ELSE PollInterval

\* scheduleNextTick
IntervalAfter(idleTicks) ==
  IF idleTicks >= IdleTicks THEN Least(interval * BackoffFactor, MaxInterval)
                            ELSE PollInterval

\* Mutant: after a failed request no timer is armed.
EndTickIfOk ==
  /\ phase = "todo"
  /\ ok
  /\ idle' = IF hadWork THEN 0 ELSE Least(idle + 1, IdleTicks)
  /\ interval' = IntervalAfter(idle')
  /\ left' = interval'
  /\ phase' = "wait"
  /\ interrupted' = FALSE
  /\ hadWork' = FALSE /\ spent' = 0
  /\ UNCHANGED <<jobVars, ok, skip, sinceQueued>>

\* The tick ends with the poll of e-mail replies, which may be work too, and
\* the timer is armed.
EndTick ==
  /\ phase = "todo"
  /\ \E work \in {hadWork, TRUE} :
       LET idleTicks == IF work THEN 0 ELSE Least(idle + 1, IdleTicks)
       IN /\ idle' = idleTicks
          /\ interval' = IntervalAfter(idleTicks)
  /\ left' = interval'
  /\ phase' = "wait"
  /\ interrupted' = ~ok
  /\ hadWork' = FALSE /\ spent' = 0
  /\ UNCHANGED <<jobVars, ok, skip, sinceQueued>>

Next ==
  \/ Elapse \/ Stop \/ Start
  \/ QueueDue \/ ExecuteReady \/ SweepOrphan \/ RequestFails \/ RunEnds
  \/ TimerFires \/ EndTick

Spec == Init /\ [][Next]_vars

\* Timers fire, requests return and a stopped container is started again; the
\* server does not fail every single queue-due request.
FairSpec ==
  /\ Spec
  /\ WF_vars(Elapse) /\ WF_vars(Start) /\ WF_vars(TimerFires) /\ WF_vars(EndTick)
  /\ WF_vars(ExecuteReady \/ (phase = "execute" /\ RequestFails))
  /\ SF_vars(QueueDue)
-----------------------------------------------------------------------------
(* Properties *)

\* A scheduled run is never started for an occurrence, or a retry time, that
\* is overdue by more than the grace, however long it waited for a slot.
StartsWithinGrace ==
  [][(row = "queued" /\ row' = "running") => late \in 0..Grace]_vars

\* Downtime is never replayed: two runs of the schedule are queued at least a
\* period apart, less the lateness of the first.
NoReplay ==
  [][(row = "none" /\ row' = "queued") => sinceQueued >= Period - Grace]_vars

\* Every occurrence that falls due is consumed.
OccurrencesConsumed == (nextIn <= 0) ~> (nextIn > 0)

\* Occurrences and runs are skipped only when the server or its scheduler was
\* interrupted since the last good tick, not by ordinary polling.
SkipsOnlyAfterInterruption ==
  [][(skip' /\ (QueueDue \/ ExecuteReady)) => interrupted]_vars
=============================================================================
