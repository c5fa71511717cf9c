# Canvas Notebook: verification project

Canvas Notebook is a self-hosted, multi-user AI workspace: a Next.js server with websocket servers, a scheduler
process beside it, agents that run inside the server, and PostgreSQL. This directory holds TLA+ models of the
parts whose correctness depends on interleavings, failures and time; configurations that check small instances
with TLC; and proofs, checked by TLAPS, that hold for every instance.

    tlc -config MCChatExecution.cfg MCChatMessageQueue     # one run
    tlapm ChatMessageQueueProofs.tla                       # one module of proofs

`PROJECT.json` is the machine-readable index: components, runs, the source lines each definition stands for,
the mutation each property catches, hazards, findings and theorems.

## 1. The system

Paths are relative to `src/`; `lib/` is `app/lib/`.

### What is modelled

| Component | State it keeps | Operations | Correct when |
|---|---|---|---|
| Keyed operation lock, `lib/concurrency/keyed-operation-lock.ts` | per key the tail of a promise chain; per call its completion and held promises | call, resume, `holdUntil`, return, release, settlement of the tail | callbacks of a key run one at a time in call order, held work included; every call gets its turn; an unused key leaves nothing behind |
| Session operation lock, `lib/pi/session-operation-lock.ts` | the keyed lock, key (user, session) | `withPiSessionOperationLock` | as above |
| Exclusive execution, `lib/pi/session-exclusive-execution.ts` | reservation of a session, live runtimes | wait, reserve, refuse a busy session | one agent at work in a session |
| Automation store, `lib/automations/store.ts` | rows of jobs (status, `updatedAt`, `nextRunAt`) and runs (status, attempt, `startedAt`, `scheduledFor`) | schedule, claim, revalidate, retry, finish, discard, sweep, edit, pause, delete | one run of a job in flight; an attempt claimed once; ended runs stay ended; pauses hold |
| Automation runner, `lib/automations/{runner,run-timeout,dispatch-limiter}.ts` | executions in the process, dispatch slots, deadlines | dispatch, prepare, execute, time out, write the outcome | an agent keeps its run while it is in time; a loop deaf to its abort cannot harm; no slot leaks |
| Scheduler, `scripts/automation-scheduler.js` and its two routes | poll interval, idle count | tick, back off, queue due, execute ready | occurrences are started in time or skipped, never replayed; skipped only after an interruption |
| Durable chat messages, `lib/pi/durable-message-*.ts` | one receipt row per message (phase, revision, claim token, position, disposition), a counter per session | submit, replace, cancel, resume, promote, claim, start, settle, recover a lost COMMIT | a message begins at most once, in order, alone in its session; what was reported to the user is true |
| Automation intake, webhook routes of `app/api/{automations,composio}`, `lib/email/{inbox-events,workspace-email-automation-events}.ts` | tables of webhook events (two unique keys) and of inbox events (status, attempts, next attempt) | look up, record, create the run, mark; poll, scan, retry, finish | of deliveries that share a key one has a run; a duplicate was dealt with; nothing stays pending |
| Collaboration rooms, `lib/collaboration/room-*.ts`, `persistence.ts`, `server/collaboration-server.ts` | the state row of a document (epoch, owner token, scope, content), receipts, admission requests; in a process the room and its owner session with an advisory lock | open, claim, load, edit, store, drain, release, recover; reserve, drain, prove, hand off | one writer per term; nobody overwrites what he has not seen; a released room is stored; a handoff loses no edit; a drain ends |

### How the parts interact

* The scheduler process calls two HTTP routes. `queue-due` turns a due occurrence into a pending run;
  `execute-ready` sweeps stale runs and dispatches due ones. Users, custom webhooks, e-mail events and Composio
  webhooks create runs too; `/api/automations/execute` runs one past the dispatcher.
* An execution claims its run by a conditional update, queues for the *session lock*, and inside it reserves the
  session, which must have no busy live runtime. The lock is a `KeyedOperationLock`; its lease is held
  (`holdUntil`) for a loop that outlives its deadline.
* A live runtime admits chat messages as rows, claims them one at a time in transactions that lock the session
  row, and settles them when its turn ends. Several processes may each hold a runtime of a session: only the
  database is shared. Cancelling bypasses the in-process lock on purpose.
* A delivery at a webhook route becomes an event record, a run and a mark, in three transactions. The inbox poll
  route, called from outside the repository, turns new messages into event rows and pending rows into runs; the
  runner marks a row again when its run has ended.
* Websocket clients and agents edit a document in the room of one process, its owner. Who wants to change the
  document's path or representation reserves it, has the owner drain and release it, proves from the owner's
  receipt that nothing is missing, and takes it over. Owner and request meet only in the database.
* Everything in memory dies with the process. The database is what a restart finds.

### What is hard

* **Between two awaits anything happens.** Edits are computed from rows read before their transaction; the stale
  sweep writes what another transaction read; a handle to a message is used long after it was read.
* **Two halves of one execution.** After its deadline the outer function writes a failure or a retry while the
  agent's loop may go on and write too.
* **Lost answers.** A COMMIT whose answer is lost may have taken effect. `recoverCommitted` reads the rows and
  compares them exactly; its callers have to decide what an unequal row means.
* **Crashes** leave running rows, claimed messages, recorded events without a run and owner tokens behind.
* **Views that drift.** A process believes that it owns a document, the database holds the advisory lock for its
  backend, and the row names the owner: each can be lost without the others.
* **Time.** A poll interval, a grace and a retry backoff interact.

### What is not modelled

`PROJECT.json` lists every component with its reason. In short:

* *Planned, section 6*: the runtime's in-memory queue, session compaction, delegation, document projection,
  operation batches, studio generations, the seat outbox.
* *Within modelled parts*: rate limits, secrets and payloads of webhooks; limits on rooms and queues; requests
  that move several documents at once; the websocket protocol.
* *Out of reach or not worthwhile*: calendar arithmetic and time zones, Yjs merging, IMAP, SMTP and other pure
  I/O, formatting, user interface, command line, configuration and catalogues.
* *External*: PostgreSQL. Row locks, transactions and conditional updates are taken as atomic.

## 2. Modules

    SessionMutex <--implements-- KeyedOperationLock
         ^ instantiated by
    AutomationRuns

    AutomationScheduler     AutomationIntake

    SingleWriter <--implements-- RoomOwnership
    SessionInbox <--implements-- ChatMessageQueue

Each has an `MC...` module with the constants of its runs; `...Proofs` modules hold its theorems.

### `SessionMutex`

What the lock promises, without a queue: a request notes the unfinished operations of its key (`ahead`), a grant
needs them gone. `AutomationRuns` uses its actions for the session lock (`Lock == INSTANCE SessionMutex`), so
what is proved of the promise chain is what the automations rely on (`LockUsedAsSpecified`). `Reset` is the exit of the process.

### `KeyedOperationLock`

| State | Code |
|---|---|
| `tails` | `store.tails`, the last tail of each key |
| `prev` | the local `previous` of a call |
| `pc` | new, waiting on `previous`, running, holding its lease, released |
| `held`, `settled` | promises given to `lease.holdUntil`, and those that have settled |
| `tailSettled` | tails whose promise has settled |
| `before` (history) | unreleased calls of the key when the call was made |

`Call` is the synchronous part of `withKeyedOperationLease`, `Enter` the resumption of `await previous`,
`ReturnAndRelease`/`ReturnAndHold` the `finally` block, `ReleaseHeld` the reaction on the held promise,
`SettleTail` the microtask that settles the tail. Release, settlement and resumption are three turns of the event
loop; what other calls find in the map between them is the point of the model.

### `AutomationRuns`

| State | Code |
|---|---|
| `jobStatus`, `edit` | status of a job row; an update between its read and its transaction, *stale* when the `updatedAt` fence broke |
| `rst`, `ratt`, `rage`, `rphase` | status, `attemptNumber`, age of `startedAt`, and whether `scheduledFor` is ahead, due or missed |
| `pc`, `op`, `goal` | an execution: the outer function, the work it races against the timer, the write under way |
| `run`, `expSt`, `expAtt` | the run it holds and `runTransitionExpectation` |
| `timer`, `limited`, `dispatched` | deadline; started by the dispatcher; `activeDispatches` |
| `lockSt`, `lockKey`, `lockAhead` | the session lock |
| `sweep`, `live`, `crashes` | rows a sweep has read; busy live runtimes; crashes so far |
| `begun`, `review` (history) | attempts whose agent was started; jobs with an unreviewed uncertain outcome |

Every transaction of the store is one action named after what it does (`ScheduleRun`, `CreatePendingRun`,
`DiscardMissed`, `SweepReads`, `SweepWrites`, `CommitEdit`, `DeleteJob`, `MarkStarted`, `Revalidate`, `Finish`,
`ScheduleRetry`, `PauseForReview`). `executeAutomationRun` is the sequence `Begin`, `MarkStarted`,
`AwaitSession`, `EnterSession`, then `Revalidate`, `LoopStarts`, `LoopEnds`, `CommitOutcome`, `WorkReturns` for
the work, with `Deadline`, `GraceEnds` and `CatchWrites` running beside it once the timer fires. An execution in
`grace`, `shutdown` or `zombie` is one whose loop goes on after its deadline.

Left open: when a queued row falls due or is missed (`TimePasses`; that is `AutomationScheduler`'s subject) and
what the agent does. Left out: prompts, transcripts and deliveries, the quarantine of rows by the integrity
check, database errors outside the steps named above, and two updates within one millisecond, which the
`updatedAt` fence cannot tell apart.

### `AutomationScheduler`

One job, its schedule and the polling process. Times are relative to now: `nextIn` until `nextRunAt`, `late`
since `scheduledFor`. `phase` walks a tick (`queue`, `execute`, `todo`) and the wait for the timer; `interval`,
`idle`, `hadWork` are the variables of the script. `QueueDue` and `ExecuteReady` are the two requests as the
server handles them, `RequestFails` a request that fails in any way, `Stop` and `Start` a restart of the
container, `RunEnds` the end of an execution with or without a retry.

### `AutomationIntake`

| State | Code |
|---|---|
| `dpc`, `seen`, `answer` | progress of a request at a webhook route, the job status it has read, what the sender was told |
| `record` | `status` of the row of `automation_webhook_events` or `composio_webhook_events` it inserted |
| `run` | the run it created, alive or ended |
| `event` | row of `email_inbox_events`: status, `attemptCount`, whether `nextAttemptAt` has come |
| `batch`, `tries`, `ppc` | a scan: the rows it has read and not yet treated, their attempts as read, its step |
| `live`, `closing` | messages with a run in flight; runs that ended and will mark their row |
| `broken`, `ran`, `again`, `disturbed` (history) | handlers that failed after their record; messages with a first, a second run; messages whose marking was interrupted or that two scans held at once |

`ReadJob`, `LookUp`, `Record`, `CreateRun`, `Mark` and `PauseJob` are the awaits of a handler. The two kinds of
route differ in order and guard: the custom one reads the job first and creates its run with
`scheduleAutomationJobRun`, the Composio ones read it after the look-up and insert with
`createPendingAutomationRun`. `Record` fails when a unique index knows one of the keys (`SharesKey`). The report that
a Composio trigger was disabled is recorded first; then the job is read and, if it was active, paused.
`FindJob`, `Schedule`, `MarkQueued`, `Ignore`, `RetryOrFail` are the loop body of the scan; `RowThrows` is any
failure that its `catch` meets, with or without a committed run, `ScanFails` a failure within the `catch`.

The scenarios of `MCAutomationIntake` choose, as part of the initial state, which deliveries, messages and polls
exist: deliveries and messages share no state but the jobs, so checking them together would only multiply.

### `RoomOwnership` and `SingleWriter`

| State | Code |
|---|---|
| `row` | row of `collaboration_yjs_states`: `ownerEpoch`, owner token, as `scope` path, status, representation and generation, and the state: `base`, what the text of the Yjs history began with, and `stored`, what was added |
| `receipt` | `collaboration_room_release_receipts`, one per epoch |
| `request` | `collaboration_admission_requests` with its one target: status, captured row, proof, outcome |
| `guard`, `backend`, `active` | holder of the advisory lock; whether the backend of a session lives; whether its process trusts it |
| `room` | a room in a process: phase, epoch, scope, base and content, updates admitted but not yet applied, what a store in flight captured, the frozen bytes, the ticket |

Content is a set of edits, because Yjs merges updates in any order. A handoff may encode the document anew (`Reencode`):
the text stays, up to the spelling of its Markdown, but the history is another, so the edits move from `stored` to
`base`, and updates made on the old history are refused. Or it changes path, lifecycle or links (`Revise`), or
nothing; a path that a later handoff restores counts as a new scope.

A transaction that locks the row is one action, except the store: it runs on a connection of the pool, which outlives the owner session, so between its
fence (`StoreBegins`, `FinalStoreBegins`) and its commit others act, but none that needs the row (`RowFree`).
`Claim`, `ClaimUnconfirmed` and `AbandonLoad` are the claim, its lost answer and a load that fails; `Load` reads the
state again after the claim. `BeginIdleDrain` and `BeginTicketDrain` are the two ways into a drain,
`FinalStoreBegins` to `ReleaseReturns` the way out, `Recover` the search for a receipt after a lost answer.
`Reserve`, `StartDrain`, `Prove` and `Handoff...` are the requester. `LoseSession`, `BackendEnds` and `Crash` happen
at any step.

`SingleWriter` is what the document's users rely on: numbered terms with one writer each, who only adds to the content;
changes from outside, of the scope, the content or the history, happen only while there is none.

### `ChatMessageQueue` and `SessionInbox`

| State | Code |
|---|---|
| `row` | receipts of the session: phase, revision, token, position, disposition, and the submission it came from (server id and intent) |
| `counter` | `message_queue_ordinal` |
| `apc`, `amsg`, `ahold` | an execution attempt, its message, the state its handle or claim stands for |
| `cpc`, `ckind`, `cmsg`, `cset`, `cvec` | a control, its message, and the rows it has read, later the rows it has written |
| `spc`, `sset`, `svec` | a submission, and the rows it replaces |
| `begun` (history) | messages whose execution began |

Every transaction holds the session row and is one action. `Transition` is `transitionWithUse`: it commits and is
answered, commits and the answer is lost, or is rolled back with the answer lost. `RecoverCommitted`,
`ControlRecovers` and `AdmissionRecovers` are the three recoveries; each may also fail to read. `ConfirmUse` is
the check after the commit. Failing checks of rights and failing statements are the `...Fails` actions, enabled
wherever the code makes such a check. A process that dies is one that takes no more steps, so no crash action is
needed. A control names one message, as every caller in the code does (`queue-recovery.ts:98,109`,
`live-runtime.ts:1454,1480`); lanes influence no transaction and are left out.

`SessionInbox` is what the user of a session relies on, who sees no process, token or lost answer: a message is
accepted, possibly in place of queued ones; it is taken only while no other message of the session is unresolved;
its work begins at most once, while it is taken; it then gets one outcome, and without having begun it can only be
cancelled. A claimed or running row is "taken"; the other phases keep their names (`ImplementsInbox`).

## 3. Runs

| Run | Question | Instance |
|---|---|---|
| `keyed_lock` | Does the promise chain keep calls in order and their held work apart, implement `SessionMutex`, and serve every call? | 4 calls, 3 on one key, 1 held promise |
| `automation_claims` | Is an attempt claimed and begun once, does a live agent keep its run, do ended runs and pauses stay, does every running run end? | 1 run of a Composio webhook, 2 attempts, 2 executions, edits, chats, sweeps, 1 crash |
| `automation_sessions` | One agent per session, zombies included? Are slots exact? Do late writes ever put a second run of a job in flight? | scheduled and manual run of 1 job in 1 session, 2 attempts, 2 executions, a chat, 1 slot |
| `automation_pause_barrier` | (violation) Is every pause a queue barrier, as documented? | scheduled and Composio run of 1 job |
| `scheduler` | Are occurrences consumed, started within the grace, not replayed? | the program's numbers, fixed times, contended slots, restarts |
| `scheduler_short_poll` | With an interval that the grace allows, are occurrences skipped only after an interruption? | interval schedule, `MaxInterval` 5: exactly the bound of the theorem |
| `scheduler_misfire` | (violation) The same with the program's own interval | interval schedule, `MaxInterval` 8 |
| `automation_intake` | Has one of the deliveries that share a key a run? Does a duplicate stand for an event that was dealt with? When can a message have a second run, and does one stay pending? | 3 deliveries, or 2 messages, or 2 polls of 1 message at a time; 2 attempts, 1 crash |
| `room_ownership` | Is there one writer per term, has the owner seen everything, is a release proven, does a handoff lose an edit? | 2 processes, 1 edit, 2 requests, 2 claims, any losses |
| `room_drain` | Does a drain that was started end? | 2 processes, 1 edit, 1 request, 2 claims, any losses |
| `chat_execution` | Is a message begun once, in order and alone, does the outcome stay, does a reported cancellation hold? Is it an inbox to its user? | 3 messages, 2 attempts, 2 submissions, 1 control |
| `chat_submission` | Is what was reported as accepted stored as sent, and what it replaces never begun? | 4 submissions, 3 of them under one id, 2 attempts |

### Bounds, and why they are enough

* **Lock.** Three calls of a key give one that runs, one that waits and one that arrives in any of the turns
  between release, settlement and resumption; a fourth on another key shows that keys are independent. The
  proofs remove the bound.
* **Automations.** Two executions are what it takes for a race on a row, a session or a slot; two attempts for a
  retry, its late writes, and the last attempt that must not be retried. `RunTimeout` 1 and `StaleAge` 2 keep the
  only relation the code uses, timeout < stale age; abort grace and sweep both fall between two ticks.
  `automation_sessions` has no crash, which empties the session; in `automation_claims` one crash lets a row outlive
  its process in every state. All safety properties are
  proved without bounds.
* **Scheduler.** A unit is 15 s: interval 1 (15 s) to 8 (120 s), grace 6 (90 s), retries after 4 and 20 (1 and 5
  minutes). These are the program's numbers, not an abstraction. The period of 12 (3 minutes) is
  longer than the longest wait and than the grace, so that each can end before the next occurrence; `scheduler_misfire` takes 24, so that the skip is not
  due to a short period. `Grace < Period`, which runs and theorems assume, leaves out schedules that repeat within 90 s:
  there several occurrences lie within the grace at once, and which of them is queued is another question. A tick takes up to one unit, `MaxTick`.
* **Intake.** Three deliveries chain an event by one key each to a delivery with both, or put a second event, or
  the report of a disabled trigger, beside a repeated one. Two messages of one job make one wait for the run of the
  other; two polls are what it takes to overlap. Two queueing attempts, the code's three shortened, give a retry
  and a last one. One crash, or one scan that breaks off: a second run needs one interruption, and the proof has no bound.
* **Rooms.** Two processes give an owner and a successor, of which either may be a ghost with a lost session; the
  two claims give the second a term of its own. One edit suffices to be lost, because the
  properties compare the content of row, room and receipt edit by edit; it is made before or after the document is
  encoded anew, or by the handoff itself. Two requests, so that an outcome of one is the evidence
  of the next; `RoomView` leaves out what nobody reads of a request that is over. The proofs have no bound.
* **Chat.** Two attempts are two processes. Three messages give one that is executed, one older and one younger;
  `m3` is not submitted: it is absent from the start, or a message from before positions existed, or a receipt
  without payload. In `chat_submission` a replacement, a resend of it and a reuse of its id with other content meet a
  message that is being claimed. The two runs divide the operations, because controls and four submissions
  together exceed what TLC can exhaust; the theorems cover them together.

`CHECK_DEADLOCK FALSE` is set where the system may stop: all operations of the chat have been done; an automation
whose runs have ended; deliveries that were answered; a document whose owner was lost, or whose claims are used up. The lock and the scheduler are checked for deadlock.

### Fairness

* *Lock*: promise reactions run (the event loop). Callbacks end and held promises settle; this is an assumption
  on callers, which the runner earns with its deadline for everything but the held loop itself.
* *Automations*: time passes, deadline and grace timers fire, and the scheduler keeps sending `execute-ready`,
  whose sweep is the only remedy for a run whose process is gone. Nothing is assumed about the agent: a loop may
  hang for ever, and `RunningEnds` holds all the same.
* *Scheduler*: timers fire, requests return, a stopped container is started again. `SF(QueueDue)` says that not
  every single request fails; without it nothing could be consumed.
* *Intake*: scans go on, backoffs pass and runs end (`AutomationRuns` shows the last). That the poll route is called
  again and again is an assumption: its caller is not in the repository. Failing statements are not fair: a row
  may throw at every attempt, and is failed after the last.
* *Rooms*: a process goes on with what it has begun, because its queries are answered or time out and its
  heartbeat finds a lost backend, and its worker polls for drains (`Works`, `Polls`). Nobody is assumed to open, edit,
  unload or request anything. `DrainSettles` excepts a lost session: nobody else may give its token back.
* *Chat*: only safety is claimed. A message whose process died stays claimed and blocks its session until a
  person resolves it; the code does so by design, and no liveness holds.

## 4. Findings

* **`scheduler_misfire`.** The poll interval grows to 120 s while there is no work, the misfire grace is 90 s. An
  occurrence that falls due in the first 30 s of a long wait is skipped as "scheduler downtime", although nothing
  was down; `docs/automations/scheduler-semantics.md:13-16` promises the grace for "ordinary timer jitter" and a
  skip only "after a longer interruption". `SkipsOnlyWhenInterrupted` is the exact condition:
  the property holds for every schedule when `MaxInterval + 2 * MaxTick <= Grace + 1` (in units of the model), and TLC
  finds it violated one unit beyond. With ticks of up to 15 s the interval may grow to 75 s (`scheduler_short_poll`).
* **`automation_pause_barrier`.** `scheduler-semantics.md:19-20` and the comment at `store.ts:1612` call a pause a
  queue barrier. `createPendingAutomationRun` does not look at the job, so a Composio webhook that passed the
  check before the pause inserts its run after it. It is not executed while the job is paused, but it is after
  the job is resumed. `PauseIsBarrierWithoutComposio`, proved, says that this is the only exception: without
  Composio runs the documented property holds.

Observations that contradict no documentation. Resuming an older suspended
message while a newer one is being dispatched makes the start of the newer one conflict, and the runtime then
cancels it, though its user did nothing to it. And a job whose delivery failed is paused in an update of its own
after the outcome was committed; if that update loses its fence or the process dies, the job stays active.

The unique indexes know keys, not events. An event delivered once with its `eventId` alone and once with its other key
alone is two events to the code, and may get two runs; the deliveries `d1` and `d3` of `MCAutomationIntake` are such a
pair. `OneRunPerKey` promises nothing for it.

A webhook handler that fails after it recorded the event loses it: the sender's retry is answered "duplicate".
`DuplicateOfHandled` says that nothing else is lost. An inbox event can get a second run, because its run is committed
before its row is marked, and its run may end before the mark: then the row says `queued` for ever, as it does when
the run is swept or removed by a pause. And an owner lost after its drain was started leaves a document that nobody
may open or take over, which a comment in `room-admission-quiescence.ts` accepts.

## 5. What is proved

All theorems hold for every value of the constants that satisfies the named assumptions of the module: types of
the constant functions, `None` outside the sets, and for the automations `RunTimeout < StaleAge`.

**The lock** (`KeyedOperationLockProofs`): exclusion, order, the exactness of the map, and that every step of the
promise chain is a step of `SessionMutex` or a stutter. Exclusion is not inductive. The invariant relates the
chain to the calls that came before: the tail a call found covers everything before it (`PrevCoversBefore`), a
settled tail means a released call (`SettledIsReleased`), a release honours holds, and two unreleased calls of a
key are ordered (`UnreleasedOrdered`).

**Automations**, three modules, each on top of the types:

* `AutomationRunsProofs`: `TypeOK` together with `Shape`, which combinations of outer function, work and lock an
  execution can be in. Every later proof uses it.
* `...SessionProofs`: one agent per session. Every step changes the lock by an operation of `SessionMutex`, so the
  automations implement it too, from the side of its user (`LockUsedAsSpecified`); of
  two operations of a session one is ahead of the other (`LockOrder`); work happens only in an active operation;
  a chat becomes busy only while none is (`SessionFree`). And the slots: `SlotsMatchExecutions` is inductive once one
  knows that an idle or zombie execution holds none and that no run is dispatched twice at a time (`SlotInv`). From it
  `ConcurrencyLimit`: the executions the dispatcher has started are at most `MaxDispatches`, by induction over steps
  on the cardinality of a set that a step changes by one element.
* `...ClaimProofs`: how a step may change a row (`RowStep`) and a claim (`ClaimStep`). On top of it `ClaimInv`: an
  attempt that was claimed or begun is `Passed`, so it never becomes startable again. This gives exclusive
  claims, attempts that run once, and ended runs that stay. `RowsKept` compares the age of a row with the timer
  of its execution: with `RunTimeout < StaleAge` no sweep can take the row of an agent that is in time.
  `EditFence` (an edit whose fence is intact read the status the job still has) and
  `FirstAttempt` give the pause barrier, the review and one run in flight.

**Scheduler** (`AutomationSchedulerProofs`), for every interval, backoff, grace and period. `TypeOK` is inductive, but its
bounds are not plain: that an occurrence is consumed before it lies further back than the grace and a period needs
the arithmetic of `NextFrom` (`NextFromFact`, `NextFromGrid`). `NextApart` relates the last queued occurrence to the next
(they are a period apart, less at most the grace) and gives `NoReplay` through downtime of any length. `Punctual` bounds how
far behind its schedule an uninterrupted process can be at each point of its cycle: by what it has waited and two
ticks at most. It yields the skip condition of section 4. `PollingKeepsUp` is that condition, together with slots that other
runs do not take and retries that are not due at once; TLC shows that without either a skip is possible.

**Intake** (`AutomationIntakeProofs`). The two halves have an invariant each, on top of the types. `HookInv`: of deliveries
that share a key one is recorded (`OneRecord`), and `Progress` says for each step of a handler what it has left
behind; a run needs a record, so one of them has a run (`KeysRunOnce`). `InboxInv`: an idle scan holds nothing (`Resting`), what is held
or has a run is a row (`Stored`), and a message that was never disturbed is held by one scan (`Apart`) and, once it
has a run, pending only in the hands of the scan about to mark it (`Marked`). A second run then needs a fault.

**Rooms** (`RoomOwnershipProofs`): all safety properties, and that every step is a step of `SingleWriter` or a
stutter. Two more theorems speak of the rows themselves: `TermsHaveOneOwner` (epochs never fall,
and within one the owner can only resign) and `WritersHaveSeenAll` (content is changed only by a loaded owner who knows
all of it, or without an owner when no room of the last epoch has more than the row). None is inductive, because what a room may do later depends on what its session was, not on what it is.
`RoomInv` adds to the types: an epoch that is owned or not yet given out has no receipt (`Epochs`); two rooms never share an epoch (`OneRoom`);
of each room that it is `Sound`, that is, a store in flight belongs to the owner the row names and captured part of
the room (`SavingOwns`), nothing is on its way into a room whose last store has begun and
frozen bytes are all of it (`Frozen`), its epoch was given out (`Numbered`), a receipt covers what was ever applied
(`Covered`), and the owner has seen the row (`Sees`); and of each request that what it left contains what the receipt
of its epoch says (`Left`).

**Chat** (`ChatMessageQueueProofs`): all properties. The token drawn for each claim is the key: a
step never touches a row that carries, or comes to carry, the token of another attempt (`Foreign`). `Holding` says
what an attempt knows of its row at each point, with either outcome of a lost COMMIT; `Alone` that a claimed
message excludes others and unresolved ones; `BegunRows` and `Fresh` that a begun message keeps a token and no
attempt that has not begun is about it. On that rest the reports: `CancelOK` and `AdmitOK` follow a written
cancellation or submission from the lost answer to the report, through `RowsKept` (settled rows and contents
never change). The order needs `Ordered`: positions never exceed the counter, an untouched message is ready, and
whatever has a token does not stand behind an untouched message. A step either touches a row, which counts its revision,
or stores one last (`OrderStep`). That the session is a `SessionInbox` follows by mapping each step to one message that
moves; who settles a message with a result has begun it (`WorkBegun`).

**Only model-checked.** Liveness (`EveryCallRuns`, `RunningEnds`, `OccurrencesConsumed`, `PendingEnds`,
`DrainSettles`): it rests on fairness and ENABLED, which TLAPS does not handle. Every safety invariant and every
action property that a passing run checks is also a theorem.

## 6. Plan

Order of work, most important behaviour first. Modules 1 to 6 exist.

1. `SessionMutex`, `KeyedOperationLock` and its refinement. *Done.*
2. `AutomationRuns`. *Done.*
3. `AutomationScheduler`. *Done.*
4. `ChatMessageQueue` and `SessionInbox`. *Done.*
5. `AutomationIntake`. *Done*; left to model: requests that only leave a record.
6. `SingleWriter` and `RoomOwnership`. *Done*; left to model: requests for several documents, whose targets are
   drained and proved one by one and handed over together.
7. `RuntimeQueue`: the live runtime's in-memory queues over `ChatMessageQueue`. It refines an abstract queue:
   what the client sees agrees with the rows once reconciled.
8. `SessionCompaction`: operations with leases, fenced commits and cancellation, against appends to the session.
9. `SeatOutbox`: an outbox with leases and retries; every change is delivered, the last one wins.
10. `OperationBatches`, `Delegation`, `GenerationQueue`, `ProjectionScheduler`, as time allows.

Further runs are to be few: a new module gets one run for safety and liveness together, and existing runs of one
module are merged where their instances allow it. Every module is written for proof from the start: constants
with named assumptions, one action per transaction, no recursive operators, invariants as named conjuncts.
