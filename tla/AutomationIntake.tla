-------------------------- MODULE AutomationIntake --------------------------
(***************************************************************************)
(* How outside events become automation runs.  A delivery at one of the    *)
(* webhook routes is recorded in a table of events, then a run is created, *)
(* then the record is marked: three transactions.  A message in a          *)
(* workspace mailbox becomes a pending event row when the mailbox is       *)
(* polled; a scan of the pending rows creates a run for each and marks the *)
(* row; the end of the run marks it again.  Any of these steps can fail,   *)
(* or be the last of its process.                                          *)
(*                                                                         *)
(* Runs are abstract: AutomationRuns shows that they end, and that a job   *)
(* has at most one in flight unless Composio created it.                   *)
(***************************************************************************)
EXTENDS Naturals

CONSTANTS
  Deliveries,      \* requests at the webhook routes, repeated ones included
  Messages,        \* messages of a mailbox, numbered as received
  Pollers,         \* concurrent calls of the inbox poll route
  Jobs,
  JobOf,           \* the job an event is for
  Source,          \* "custom", "trigger" (Composio) or "disabled" (Composio
                   \* reports a disabled trigger or an expired account)
  EventId,         \* the two keys of a delivery: eventId, and idempotencyKey
  OtherKey,        \*   or webhookId; each may be missing
  Scenarios,       \* the sets of events and pollers that may meet
  EventAttempts,   \* EMAIL_EVENT_QUEUE_MAX_ATTEMPTS
  MaxCrashes,      \* bound on the crashes and on the scans that break off
  None

Sources == {"custom", "trigger", "disabled"}

ASSUME JobsAssumption == JobOf \in [Deliveries \union Messages -> Jobs]
ASSUME SourceAssumption == Source \in [Deliveries -> Sources]
ASSUME MessagesAssumption == Messages \subseteq Nat
ASSUME DistinctAssumption == Deliveries \intersect Messages = {}
ASSUME ScenariosAssumption == Scenarios \subseteq SUBSET (Deliveries \union Messages \union Pollers)
ASSUME BoundsAssumption == EventAttempts \in Nat \ {0} /\ MaxCrashes \in Nat

VARIABLES
  present,         \* the events and pollers of this behaviour
  job,             \* status of the jobs
  crashes,
  \* Webhooks.
  dpc,             \* progress of the handler of a delivery
  seen,            \* the status of the job as the handler has read it
  record,          \* status of the event record a delivery has inserted
  answer,          \* what the sender was told
  run,             \* the run a delivery has created
  broken,          \* (history) deliveries whose handler failed after the record
  \* Inbox events.
  event,           \* the row of a message
  batch,           \* the rows a scan has yet to work through, first one first
  tries,           \* their attemptCount as the scan has read it
  ppc,             \* what the scan is doing with the first row of its batch
  live,            \* messages with a run in flight
  closing,         \* runs that have ended and will mark their row
  ran, again,      \* (history) messages a run, a second run was created for
  disturbed        \* (history) messages whose scan failed after it created a
                   \* run, or which two scans held at once

hookVars == <<dpc, seen, record, answer, run, broken>>
scanVars == <<batch, tries, ppc>>
runVars == <<live, closing, ran, again, disturbed>>
inboxVars == <<event, scanVars, runVars>>
vars == <<present, job, crashes, hookVars, inboxVars>>

Statuses == {"active", "paused"}
Records == {"none", "accepted", "dispatched", "skipped", "ignored", "disabled"}
Answers == {"none", "accepted", "duplicate", "refused", "in_flight", "error"}
EventStatuses == {"none", "pending", "queued", "ignored", "processed", "failed"}
Row == [st : EventStatuses, tries : Nat, due : BOOLEAN]

TypeOK ==
  /\ present \in Scenarios
  /\ job \in [Jobs -> Statuses]
  /\ crashes \in 0..MaxCrashes
  /\ dpc \in [Deliveries -> {"idle", "received", "fresh", "checked", "recorded",
                             "pausing", "ran", "skipping", "done", "failed"}]
  /\ seen \in [Deliveries -> Statuses]
  /\ record \in [Deliveries -> Records]
  /\ answer \in [Deliveries -> Answers]
  /\ run \in [Deliveries -> {"none", "live", "ended"}]
  /\ broken \subseteq Deliveries
  /\ event \in [Messages -> Row]
  /\ batch \in [Pollers -> SUBSET Messages]
  /\ tries \in [Pollers -> [Messages -> Nat]]
  /\ ppc \in [Pollers -> {"idle", "scanning", "found", "ignoring", "marking", "retrying"}]
  /\ live \subseteq Messages
  /\ closing \subseteq Messages \X {"processed", "failed"}
  /\ ran \subseteq Messages
  /\ again \subseteq Messages
  /\ disturbed \subseteq Messages

Init ==
  /\ present \in Scenarios
  /\ job \in [Jobs -> {"active"}]
  /\ crashes = 0
  /\ dpc = [d \in Deliveries |-> "idle"]
  /\ seen = [d \in Deliveries |-> "active"]
  /\ record = [d \in Deliveries |-> "none"]
  /\ answer = [d \in Deliveries |-> "none"]
  /\ run = [d \in Deliveries |-> "none"]
  /\ broken = {}
  /\ event = [m \in Messages |-> [st |-> "none", tries |-> 0, due |-> TRUE]]
  /\ batch = [p \in Pollers |-> {}]
  /\ tries = [p \in Pollers |-> [m \in Messages |-> 0]]
  /\ ppc = [p \in Pollers |-> "idle"]
  /\ live = {}
  /\ closing = {}
  /\ ran = {}
  /\ again = {}
  /\ disturbed = {}

-----------------------------------------------------------------------------
(* Webhook routes *)

\* Custom webhooks have a table of their own.
Custom(d) == Source[d] = "custom"

\* The unique indexes of a table, and the look-up, know deliveries by their
\* keys.  Two deliveries of one event that carry one key each, and not the same
\* one, are unrelated to them: the code takes these for two events.
SharesKey(d, e) ==
  /\ Custom(d) <=> Custom(e)
  /\ Custom(d) => JobOf[d] = JobOf[e]
  /\ \/ EventId[d] # None /\ EventId[d] = EventId[e]
     \/ OtherKey[d] # None /\ OtherKey[d] = OtherKey[e]

Known(d) == \E e \in Deliveries : record[e] # "none" /\ SharesKey(d, e)

\* The handler goes on, or it answers and ends.
GoesOn(d, pc) == dpc' = [dpc EXCEPT ![d] = pc] /\ UNCHANGED answer
Answer(d, what) ==
  /\ dpc' = [dpc EXCEPT ![d] = IF what = "error" THEN "failed" ELSE "done"]
  /\ answer' = [answer EXCEPT ![d] = what]

\* The job is read: before the look for a duplicate by the route for custom
\* webhooks, after it by the routes for Composio; after the record by the one
\* that is told of a disabled trigger.
ReadJob(d) ==
  /\ d \in present
  /\ \/ Custom(d) /\ dpc[d] = "idle" /\ GoesOn(d, "received")
     \/ Source[d] = "trigger" /\ dpc[d] = "fresh" /\ GoesOn(d, "checked")
     \/ Source[d] = "disabled" /\ dpc[d] = "recorded" /\ GoesOn(d, "pausing")
  /\ seen' = [seen EXCEPT ![d] = job[JobOf[d]]]
  /\ UNCHANGED <<present, job, crashes, record, run, broken, inboxVars>>

\* getAutomationWebhookEventByKeys, getComposioWebhookEventByKeys
LookUp(d) ==
  /\ d \in present
  /\ dpc[d] = IF Custom(d) THEN "received" ELSE "idle"
  /\ IF Known(d)
       THEN Answer(d, "duplicate")
       ELSE GoesOn(d, IF Source[d] = "trigger" THEN "fresh" ELSE "checked")
  /\ UNCHANGED <<present, job, crashes, seen, record, run, broken, inboxVars>>

\* Mutant: a key is only kept from being recorded again by the look-up.
RecordUnchecked(d) ==
  /\ dpc[d] = "checked"
  /\ IF Source[d] = "disabled"
       THEN GoesOn(d, "recorded") /\ record' = [record EXCEPT ![d] = "disabled"]
     ELSE IF seen[d] = "paused"
       THEN Answer(d, "refused") /\ record' = [record EXCEPT ![d] = "ignored"]
     ELSE GoesOn(d, "recorded") /\ record' = [record EXCEPT ![d] = "accepted"]
  /\ UNCHANGED <<present, job, crashes, seen, run, broken, inboxVars>>

\* recordAutomationWebhookEvent, recordComposioWebhookEvent: an insertion, which
\* a unique index refuses when one of the keys was recorded since the look-up.
Record(d) ==
  /\ dpc[d] = "checked"
  /\ IF Known(d)
       THEN Answer(d, "error") /\ UNCHANGED record
     ELSE IF Source[d] = "disabled"
       THEN GoesOn(d, "recorded") /\ record' = [record EXCEPT ![d] = "disabled"]
     ELSE IF seen[d] = "paused"
       THEN Answer(d, "refused") /\ record' = [record EXCEPT ![d] = "ignored"]
     ELSE GoesOn(d, "recorded") /\ record' = [record EXCEPT ![d] = "accepted"]
  /\ UNCHANGED <<present, job, crashes, seen, run, broken, inboxVars>>

\* The job has a run in flight.
Busy(j) == \E d \in Deliveries : JobOf[d] = j /\ run[d] = "live"

\* The run of a recorded event.  scheduleAutomationJobRun, for custom
\* webhooks, throws when the job was paused and creates nothing beside a run
\* in flight; createPendingAutomationRun always creates one.
CreateRun(d) ==
  /\ dpc[d] = "recorded"
  /\ Source[d] # "disabled"
  /\ IF Custom(d) /\ job[JobOf[d]] = "paused"
       THEN Answer(d, "error") /\ broken' = broken \union {d} /\ UNCHANGED run
     ELSE IF Custom(d) /\ Busy(JobOf[d])
       THEN GoesOn(d, "skipping") /\ UNCHANGED <<run, broken>>
     ELSE GoesOn(d, "ran") /\ run' = [run EXCEPT ![d] = "live"] /\ UNCHANGED broken
  /\ UNCHANGED <<present, job, crashes, seen, record, inboxVars>>

\* Mutant: a run in flight is answered without a mark.
MarkDispatchedOnly(d) ==
  /\ dpc[d] \in {"ran", "skipping"}
  /\ IF dpc[d] = "ran"
       THEN Answer(d, "accepted") /\ record' = [record EXCEPT ![d] = "dispatched"]
       ELSE Answer(d, "in_flight") /\ UNCHANGED record
  /\ UNCHANGED <<present, job, crashes, seen, run, broken, inboxVars>>

\* Mutant: status and error of the mark are exchanged.
MarkExchanged(d) ==
  /\ dpc[d] \in {"ran", "skipping"}
  /\ IF dpc[d] = "ran"
       THEN Answer(d, "accepted") /\ record' = [record EXCEPT ![d] = "dispatched"]
       ELSE Answer(d, "in_flight") /\ record' = [record EXCEPT ![d] = "in_flight"]
  /\ UNCHANGED <<present, job, crashes, seen, run, broken, inboxVars>>

\* markAutomationWebhookEventDispatched, markAutomationWebhookEventStatus,
\* markComposioWebhookEventDispatched, and the answer
Mark(d) ==
  /\ dpc[d] \in {"ran", "skipping"}
  /\ IF dpc[d] = "ran"
       THEN Answer(d, "accepted") /\ record' = [record EXCEPT ![d] = "dispatched"]
       ELSE Answer(d, "in_flight") /\ record' = [record EXCEPT ![d] = "skipped"]
  /\ UNCHANGED <<present, job, crashes, seen, run, broken, inboxVars>>

\* A disabled trigger or an expired account pauses the job, if it was read as
\* active.
PauseJob(d) ==
  /\ dpc[d] = "pausing"
  /\ job' = IF seen[d] = "active" THEN [job EXCEPT ![JobOf[d]] = "paused"] ELSE job
  /\ Answer(d, "accepted")
  /\ UNCHANGED <<present, crashes, seen, record, run, broken, inboxVars>>

\* A statement fails.  The transaction that creates the run, or the pause, may
\* have been committed all the same.
HandlerFails(d) ==
  /\ dpc[d] \in {"received", "fresh", "checked", "recorded", "pausing", "ran", "skipping"}
  /\ Answer(d, "error")
  /\ broken' = IF record[d] = "none" THEN broken ELSE broken \union {d}
  /\ \/ UNCHANGED <<run, job>>
     \/ /\ dpc[d] = "recorded" /\ Source[d] # "disabled"
        /\ Custom(d) => job[JobOf[d]] = "active" /\ ~Busy(JobOf[d])
        /\ run' = [run EXCEPT ![d] = "live"]
        /\ UNCHANGED job
     \/ /\ dpc[d] = "pausing" /\ seen[d] = "active"
        /\ job' = [job EXCEPT ![JobOf[d]] = "paused"]
        /\ UNCHANGED run
  /\ UNCHANGED <<present, crashes, seen, record, inboxVars>>

\* The run is executed, swept or taken out of the queue by a pause.
HookRunEnds(d) ==
  /\ run[d] = "live"
  /\ run' = [run EXCEPT ![d] = "ended"]
  /\ UNCHANGED <<present, job, crashes, dpc, seen, record, answer, broken, inboxVars>>

-----------------------------------------------------------------------------
(* Inbox events *)

\* pollWorkspaceMailboxInboxEvents: a message without a row gets one.
PollMailbox(m) ==
  /\ m \in present
  /\ event[m].st = "none"
  /\ event' = [event EXCEPT ![m] = [st |-> "pending", tries |-> 0, due |-> TRUE]]
  /\ UNCHANGED <<present, job, crashes, hookVars, scanVars, runVars>>

Pending(m) == event[m].st = "pending"

\* queuePendingWorkspaceEmailAutomationRuns reads the rows that are due (up to
\* its limit of 25, which is left out).
ReadPending(p) ==
  LET due == {m \in Messages : Pending(m) /\ event[m].due}
  IN /\ p \in present
     /\ ppc[p] = "idle"
     /\ due # {}
     /\ batch' = [batch EXCEPT ![p] = due]
     /\ tries' = [tries EXCEPT ![p] = [m \in Messages |-> IF m \in due THEN event[m].tries ELSE 0]]
     /\ ppc' = [ppc EXCEPT ![p] = "scanning"]
     /\ disturbed' = disturbed \union {m \in due : \E q \in Pollers \ {p} : m \in batch[q]}
     /\ UNCHANGED <<present, job, crashes, hookVars, event, live, closing, ran, again>>

\* The row a scan is about: the one received first.
First(p, m) == m \in batch[p] /\ \A n \in batch[p] : m <= n

\* The scan goes on with its next row, or ends.
NextRow(p, m) ==
  /\ batch' = [batch EXCEPT ![p] = @ \ {m}]
  /\ tries' = [tries EXCEPT ![p][m] = 0]
  /\ ppc' = [ppc EXCEPT ![p] = IF batch[p] = {m} THEN "idle" ELSE "scanning"]

\* findEventAutomationJob: the active job of the mailbox.
FindJob(p, m) ==
  /\ ppc[p] = "scanning" /\ First(p, m)
  /\ ppc' = [ppc EXCEPT ![p] = IF job[JobOf[m]] = "active" THEN "found" ELSE "ignoring"]
  /\ UNCHANGED <<present, job, crashes, hookVars, event, batch, tries, runVars>>

\* markEvent: the row, if it is still pending, counts an attempt.
MarkEvent(p, m, st) ==
  event' = IF Pending(m)
             THEN [event EXCEPT ![m] = [st |-> st, tries |-> tries[p][m] + 1, due |-> TRUE]]
             ELSE event

Ignore(p, m) ==
  /\ ppc[p] = "ignoring" /\ First(p, m)
  /\ MarkEvent(p, m, "ignored")
  /\ NextRow(p, m)
  /\ UNCHANGED <<present, job, crashes, hookVars, runVars>>

\* scheduleAutomationJobRun may create a run: its job is active and has none in
\* flight.
MayRun(m) == job[JobOf[m]] = "active" /\ \A n \in live : JobOf[n] # JobOf[m]

\* A run is committed for the message.
RunCreated(m) ==
  /\ live' = live \union {m}
  /\ ran' = ran \union {m}
  /\ again' = again \union ({m} \intersect ran)
  /\ UNCHANGED closing

\* A run is created; or the row is deferred, without a mark, because one is in
\* flight; or the call throws.
Schedule(p, m) ==
  /\ ppc[p] = "found" /\ First(p, m)
  /\ \/ /\ MayRun(m)
        /\ RunCreated(m)
        /\ ppc' = [ppc EXCEPT ![p] = "marking"]
        /\ UNCHANGED <<batch, tries>>
     \/ /\ job[JobOf[m]] = "active" /\ ~MayRun(m)
        /\ NextRow(p, m)
        /\ UNCHANGED <<live, closing, ran, again>>
     \/ /\ job[JobOf[m]] = "paused"
        /\ ppc' = [ppc EXCEPT ![p] = "retrying"]
        /\ UNCHANGED <<batch, tries, live, closing, ran, again>>
  /\ UNCHANGED <<present, job, crashes, hookVars, event, disturbed>>

\* Finding the job or marking the row fails; or creating the run does, or its
\* COMMIT succeeds and the answer is lost.
RowThrows(p, m) ==
  /\ First(p, m)
  /\ \/ /\ ppc[p] \in {"scanning", "found", "ignoring"}
        /\ UNCHANGED runVars
     \/ /\ ppc[p] = "found" /\ MayRun(m)
        /\ RunCreated(m)
        /\ disturbed' = disturbed \union {m}
     \/ /\ ppc[p] = "marking"
        /\ disturbed' = disturbed \union {m}
        /\ UNCHANGED <<live, closing, ran, again>>
  /\ ppc' = [ppc EXCEPT ![p] = "retrying"]
  /\ UNCHANGED <<present, job, crashes, hookVars, event, batch, tries>>

\* Mutant: the row stays pending.
MarkQueuedNever(p, m) ==
  /\ ppc[p] = "marking" /\ First(p, m)
  /\ NextRow(p, m)
  /\ UNCHANGED <<present, job, crashes, hookVars, event, runVars>>

MarkQueued(p, m) ==
  /\ ppc[p] = "marking" /\ First(p, m)
  /\ MarkEvent(p, m, "queued")
  /\ NextRow(p, m)
  /\ UNCHANGED <<present, job, crashes, hookVars, runVars>>

\* Mutant: the attempts are not counted.
RetryForEver(p, m) ==
  /\ ppc[p] = "retrying" /\ First(p, m)
  /\ event' = IF Pending(m) THEN [event EXCEPT ![m].due = FALSE] ELSE event
  /\ NextRow(p, m)
  /\ UNCHANGED <<present, job, crashes, hookVars, runVars>>

\* retryOrFailEventQueueing: later, unless it was the last attempt.
RetryOrFail(p, m) ==
  LET attempt == tries[p][m] + 1
  IN /\ ppc[p] = "retrying" /\ First(p, m)
     /\ event' = IF Pending(m)
                   THEN [event EXCEPT ![m] =
                          [st |-> IF attempt >= EventAttempts THEN "failed" ELSE "pending",
                           tries |-> attempt, due |-> attempt >= EventAttempts]]
                   ELSE event
     /\ NextRow(p, m)
     /\ UNCHANGED <<present, job, crashes, hookVars, runVars>>

\* retryOrFailEventQueueing fails too: the call ends with an error.
ScanFails(p, m) ==
  /\ ppc[p] = "retrying" /\ First(p, m)
  /\ crashes < MaxCrashes
  /\ crashes' = crashes + 1
  /\ batch' = [batch EXCEPT ![p] = {}]
  /\ tries' = [tries EXCEPT ![p] = [n \in Messages |-> 0]]
  /\ ppc' = [ppc EXCEPT ![p] = "idle"]
  /\ UNCHANGED <<present, job, hookVars, event, runVars>>

\* nextAttemptAt has passed.
BackoffPasses(m) ==
  /\ Pending(m) /\ ~event[m].due
  /\ event' = [event EXCEPT ![m].due = TRUE]
  /\ UNCHANGED <<present, job, crashes, hookVars, scanVars, runVars>>

\* The run of a message ends.  An execution that wrote the outcome goes on to
\* mark the row; a sweep and a pause do not.
MailRunEnds(m) ==
  /\ m \in live
  /\ live' = live \ {m}
  /\ \/ \E st \in {"processed", "failed"} : closing' = closing \union {<<m, st>>}
     \/ UNCHANGED closing
  /\ UNCHANGED <<present, job, crashes, hookVars, event, scanVars, ran, again, disturbed>>

\* markWorkspaceEmailAutomationEventRunFinished
MarkFinished(m, st) ==
  /\ <<m, st>> \in closing
  /\ closing' = closing \ {<<m, st>>}
  /\ event' = IF event[m].st = "queued" THEN [event EXCEPT ![m].st = st] ELSE event
  /\ UNCHANGED <<present, job, crashes, hookVars, scanVars, live, ran, again, disturbed>>

-----------------------------------------------------------------------------
(* The environment *)

\* Users pause and resume the jobs.
SetStatus(j) ==
  /\ \E x \in present \intersect (Deliveries \union Messages) : JobOf[x] = j
  /\ job' \in {[job EXCEPT ![j] = st] : st \in Statuses \ {job[j]}}
  /\ UNCHANGED <<present, crashes, hookVars, inboxVars>>

Underway == {d \in Deliveries : dpc[d] \notin {"idle", "done", "failed"}}

\* The process dies: handlers, scans and marks that were on their way are
\* gone.  Runs are left to the sweep.
Crash ==
  /\ crashes < MaxCrashes
  /\ crashes' = crashes + 1
  /\ dpc' = [d \in Deliveries |-> IF d \in Underway THEN "failed" ELSE dpc[d]]
  /\ broken' = broken \union {d \in Underway : record[d] # "none"}
  /\ batch' = [p \in Pollers |-> {}]
  /\ ppc' = [p \in Pollers |-> "idle"]
  /\ tries' = [p \in Pollers |-> [m \in Messages |-> 0]]
  /\ closing' = {}
  /\ disturbed' = disturbed \union
       {m \in Messages : \E p \in Pollers : ppc[p] = "marking" /\ First(p, m)}
  /\ UNCHANGED <<present, job, seen, record, answer, run, event, live, ran, again>>

-----------------------------------------------------------------------------

Handler(d) ==
  \/ ReadJob(d) \/ LookUp(d) \/ Record(d) \/ CreateRun(d) \/ Mark(d) \/ PauseJob(d)
  \/ HandlerFails(d)

\* What a scan does by itself, and what it may meet.
Scan(p) ==
  \/ ReadPending(p)
  \/ \E m \in Messages :
       \/ FindJob(p, m) \/ Ignore(p, m) \/ Schedule(p, m)
       \/ MarkQueued(p, m) \/ RetryOrFail(p, m)

MailRun(m) ==
  \/ MailRunEnds(m)
  \/ \E st \in {"processed", "failed"} : MarkFinished(m, st)

Next ==
  \/ \E d \in Deliveries : Handler(d) \/ HookRunEnds(d)
  \/ \E m \in Messages : PollMailbox(m) \/ BackoffPasses(m) \/ MailRun(m)
  \/ \E p \in Pollers : Scan(p) \/ \E m \in Messages : RowThrows(p, m) \/ ScanFails(p, m)
  \/ \E j \in Jobs : SetStatus(j)
  \/ Crash

Spec == Init /\ [][Next]_vars

\* The poll route is called again and again, backoffs pass, and runs end.
FairSpec ==
  /\ Spec
  /\ \A p \in Pollers : WF_vars(Scan(p))
  /\ \A m \in Messages : WF_vars(BackoffPasses(m)) /\ WF_vars(MailRunEnds(m))

-----------------------------------------------------------------------------
(* Properties *)

\* Of deliveries that share a key at most one gets a run, however many arrive
\* at once or are repeated, and wherever handlers fail or die.  (An event that
\* is delivered once under the one key alone and once under the other alone
\* may get two runs.)
OneRunPerKey ==
  \A d, e \in Deliveries :
    (d # e /\ SharesKey(d, e)) => run[d] = "none" \/ run[e] = "none"

\* What was to be done for a recorded event is done or was refused.
Handled(d) ==
  \/ record[d] = "dispatched" /\ run[d] # "none"
  \/ record[d] \in {"skipped", "ignored"} /\ answer[d] \in {"in_flight", "refused"}
  \/ record[d] = "disabled" /\ answer[d] = "accepted"

\* A sender is told "duplicate" only if a delivery that shares a key with his
\* was handled, is being handled, or had its handler fail or die: in that last
\* case, and in no other, the event is lost although its sender retries.
DuplicateOfHandled ==
  \A d \in Deliveries : answer[d] = "duplicate" =>
    \E e \in Deliveries :
      /\ SharesKey(d, e)
      /\ Handled(e) \/ dpc[e] \in {"recorded", "pausing", "ran", "skipping"} \/ e \in broken

\* A message gets a second run only if the marking of its first one was
\* interrupted, or two polls held it at once.
SecondRunNeedsFault == again \subseteq disturbed

\* No inbox event stays pending for ever.
PendingEnds == \A m \in Messages : Pending(m) ~> ~Pending(m)
=============================================================================
