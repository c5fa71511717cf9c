----------------------- MODULE AutomationIntakeProofs -----------------------
(***************************************************************************)
(* Safety of the intake, for any deliveries, messages, polls, keys and     *)
(* crashes.                                                                *)
(***************************************************************************)
EXTENDS AutomationIntake, TLAPS

-----------------------------------------------------------------------------
(* Types *)

LEMMA InitTyped == Init => TypeOK
  BY JobsAssumption, BoundsAssumption DEF Init, TypeOK, Statuses, Records, Answers, Row, EventStatuses

LEMMA HandlersTyped ==
  ASSUME TypeOK, NEW d \in Deliveries, Handler(d) \/ HookRunEnds(d)
  PROVE  TypeOK'
<1> USE JobsAssumption DEF TypeOK, inboxVars, scanVars, runVars, GoesOn, Answer
<1> JobOf[d] \in Jobs
  OBVIOUS
<1>1. CASE ReadJob(d)
  BY <1>1 DEF ReadJob
<1>2. CASE LookUp(d)
  BY <1>2 DEF LookUp, Answers
<1>3. CASE Record(d)
  BY <1>3 DEF Record, Answers, Records
<1>4. CASE CreateRun(d)
  <2>1. CASE Custom(d) /\ job[JobOf[d]] = "paused"
    <3>1. /\ Answer(d, "error") /\ broken' = broken \union {d} /\ UNCHANGED run
          /\ UNCHANGED <<present, job, crashes, seen, record, inboxVars>>
      BY <1>4, <2>1 DEF CreateRun
    <3> QED
      BY <3>1 DEF Answers
  <2>2. CASE ~(Custom(d) /\ job[JobOf[d]] = "paused") /\ Custom(d) /\ Busy(JobOf[d])
    <3>1. /\ GoesOn(d, "skipping") /\ UNCHANGED <<run, broken>>
          /\ UNCHANGED <<present, job, crashes, seen, record, inboxVars>>
      BY <1>4, <2>2 DEF CreateRun
    <3> QED
      BY <3>1
  <2>3. CASE ~(Custom(d) /\ job[JobOf[d]] = "paused") /\ ~(Custom(d) /\ Busy(JobOf[d]))
    <3>1. /\ GoesOn(d, "ran") /\ run' = [run EXCEPT ![d] = "live"] /\ UNCHANGED broken
          /\ UNCHANGED <<present, job, crashes, seen, record, inboxVars>>
      BY <1>4, <2>3 DEF CreateRun
    <3> QED
      BY <3>1
  <2> QED
    BY <2>1, <2>2, <2>3
<1>5. CASE Mark(d)
  BY <1>5 DEF Mark, Answers, Records
<1>6. CASE PauseJob(d)
  BY <1>6 DEF PauseJob, Answers, Statuses
<1>7. CASE HandlerFails(d)
  BY <1>7 DEF HandlerFails, Answers, Statuses
<1>8. CASE HookRunEnds(d)
  BY <1>8 DEF HookRunEnds
<1> QED
  BY <1>1, <1>2, <1>3, <1>4, <1>5, <1>6, <1>7, <1>8 DEF Handler

LEMMA ScansTyped ==
  ASSUME TypeOK, NEW p \in Pollers, NEW m \in Messages,
         \/ FindJob(p, m) \/ Ignore(p, m) \/ Schedule(p, m) \/ RowThrows(p, m)
         \/ MarkQueued(p, m) \/ RetryOrFail(p, m) \/ ScanFails(p, m)
  PROVE  TypeOK'
<1> USE BoundsAssumption DEF TypeOK, hookVars, scanVars, runVars, NextRow, MarkEvent, RunCreated
<1>1. CASE FindJob(p, m)
  BY <1>1 DEF FindJob
<1>2. CASE Ignore(p, m)
  BY <1>2 DEF Ignore, Row, EventStatuses
<1>3. CASE Schedule(p, m)
  <2>1. /\ UNCHANGED <<present, job, crashes, hookVars, event, disturbed>>
        /\ \/ RunCreated(m) /\ ppc' = [ppc EXCEPT ![p] = "marking"] /\ UNCHANGED <<batch, tries>>
           \/ NextRow(p, m) /\ UNCHANGED <<live, closing, ran, again>>
           \/ /\ ppc' = [ppc EXCEPT ![p] = "retrying"]
              /\ UNCHANGED <<batch, tries, live, closing, ran, again>>
    BY <1>3 DEF Schedule
  <2>2. CASE RunCreated(m) /\ ppc' = [ppc EXCEPT ![p] = "marking"] /\ UNCHANGED <<batch, tries>>
    BY <2>1, <2>2
  <2>3. CASE NextRow(p, m) /\ UNCHANGED <<live, closing, ran, again>>
    BY <2>1, <2>3
  <2>4. CASE ppc' = [ppc EXCEPT ![p] = "retrying"]
             /\ UNCHANGED <<batch, tries, live, closing, ran, again>>
    BY <2>1, <2>4
  <2> QED
    BY <2>1, <2>2, <2>3, <2>4
<1>4. CASE RowThrows(p, m)
  BY <1>4 DEF RowThrows
<1>5. CASE MarkQueued(p, m)
  BY <1>5 DEF MarkQueued, Row, EventStatuses
<1>6. CASE RetryOrFail(p, m)
  BY <1>6 DEF RetryOrFail, Row, EventStatuses
<1>7. CASE ScanFails(p, m)
  BY <1>7 DEF ScanFails
<1> QED
  BY <1>1, <1>2, <1>3, <1>4, <1>5, <1>6, <1>7

LEMMA RestTyped ==
  ASSUME TypeOK,
         \/ \E m \in Messages : PollMailbox(m) \/ BackoffPasses(m) \/ MailRun(m)
         \/ \E p \in Pollers : ReadPending(p)
         \/ \E j \in Jobs : SetStatus(j)
         \/ Crash
         \/ UNCHANGED vars
  PROVE  TypeOK'
<1> USE BoundsAssumption DEF TypeOK, hookVars, inboxVars, scanVars, runVars
<1>1. ASSUME NEW m \in Messages, PollMailbox(m)
      PROVE  TypeOK'
  BY <1>1 DEF PollMailbox, Row, EventStatuses
<1>2. ASSUME NEW m \in Messages, BackoffPasses(m)
      PROVE  TypeOK'
  BY <1>2 DEF BackoffPasses, Row, EventStatuses
<1>3. ASSUME NEW m \in Messages, MailRunEnds(m)
      PROVE  TypeOK'
  BY <1>3 DEF MailRunEnds
<1>4. ASSUME NEW m \in Messages, NEW st \in {"processed", "failed"}, MarkFinished(m, st)
      PROVE  TypeOK'
  BY <1>4 DEF MarkFinished, Row, EventStatuses
<1>5. ASSUME NEW p \in Pollers, ReadPending(p)
      PROVE  TypeOK'
  BY <1>5 DEF ReadPending, Row
<1>6. ASSUME NEW j \in Jobs, SetStatus(j)
      PROVE  TypeOK'
  BY <1>6 DEF SetStatus, Statuses
<1>7. CASE Crash
  BY <1>7 DEF Crash, Underway
<1>8. CASE UNCHANGED vars
  BY <1>8 DEF vars
<1> QED
  BY <1>1, <1>2, <1>3, <1>4, <1>5, <1>6, <1>7, <1>8 DEF MailRun

LEMMA StepTyped == TypeOK /\ [Next]_vars => TypeOK'
  BY HandlersTyped, ScansTyped, RestTyped DEF Next, Scan

\* Handlers, records, rows, scans and runs keep their types.
THEOREM IntakeTyped == Spec => []TypeOK
<1>1. Init => TypeOK
  BY InitTyped
<1>2. TypeOK /\ [Next]_vars => TypeOK'
  BY StepTyped
<1> QED
  BY <1>1, <1>2, PTL DEF Spec

-----------------------------------------------------------------------------
(* Webhooks *)

\* What is known of a delivery at each point of its handler: nothing is
\* recorded before the insertion, a run needs a record, and who has recorded
\* a delivery is at work on it, has dealt with it, or has failed.
Progress(d) ==
  /\ dpc[d] \in {"idle", "received", "fresh", "checked"} => record[d] = "none"
  /\ dpc[d] \in {"recorded", "pausing", "ran", "skipping"} => record[d] # "none"
  /\ dpc[d] = "recorded" /\ Source[d] = "disabled" => record[d] = "disabled"
  /\ dpc[d] = "pausing" => record[d] = "disabled"
  /\ dpc[d] \notin {"done", "failed"} => answer[d] = "none"
  /\ dpc[d] = "ran" => run[d] # "none"
  /\ run[d] # "none" => record[d] # "none"
  /\ record[d] # "none" =>
       \/ Handled(d) /\ dpc[d] = "done"
       \/ dpc[d] \in {"recorded", "pausing", "ran", "skipping"}
       \/ d \in broken
  /\ answer[d] = "duplicate" => Known(d)

\* The unique indexes: of deliveries that share a key one is recorded.
OneRecord ==
  \A d, e \in Deliveries :
    (d # e /\ SharesKey(d, e)) => record[d] = "none" \/ record[e] = "none"

HookInv == OneRecord /\ \A d \in Deliveries : Progress(d)

RecordsStay == \A e \in Deliveries : record[e] # "none" => record'[e] # "none"

LEMMA KnownStays ==
  ASSUME RecordsStay, NEW d \in Deliveries, Known(d)
  PROVE  Known(d)'
  BY DEF RecordsStay, Known, SharesKey, Custom

\* The handler of a delivery changes what belongs to that delivery, and
\* records it only as the first with its keys.
LEMMA HandlerChanges ==
  ASSUME TypeOK, NEW d \in Deliveries, Progress(d), Handler(d) \/ HookRunEnds(d)
  PROVE  /\ \A e \in Deliveries \ {d} :
              /\ dpc'[e] = dpc[e] /\ record'[e] = record[e] /\ answer'[e] = answer[e]
              /\ run'[e] = run[e] /\ (e \in broken <=> e \in broken')
         /\ record[d] # "none" => record'[d] # "none"
         /\ record[d] = "none" /\ record'[d] # "none" => ~Known(d)
<1> USE DEF TypeOK, GoesOn, Answer, Progress
<1>1. CASE ReadJob(d)
  BY <1>1 DEF ReadJob
<1>2. CASE LookUp(d)
  BY <1>2 DEF LookUp
<1>3. CASE Record(d)
  BY <1>3 DEF Record
<1>4. CASE CreateRun(d)
  <2>1. /\ \E pc : dpc' = [dpc EXCEPT ![d] = pc]
        /\ \E a : answer' = [answer EXCEPT ![d] = a]
        /\ run' \in {run, [run EXCEPT ![d] = "live"]}
        /\ broken' \in {broken, broken \union {d}}
        /\ UNCHANGED record
    BY <1>4 DEF CreateRun
  <2> QED
    BY <2>1
<1>5. CASE Mark(d)
  BY <1>5 DEF Mark
<1>6. CASE PauseJob(d)
  BY <1>6 DEF PauseJob
<1>7. CASE HandlerFails(d)
  BY <1>7 DEF HandlerFails
<1>8. CASE HookRunEnds(d)
  BY <1>8 DEF HookRunEnds
<1> QED
  BY <1>1, <1>2, <1>3, <1>4, <1>5, <1>6, <1>7, <1>8 DEF Handler

LEMMA HandlerProgress ==
  ASSUME TypeOK, NEW d \in Deliveries, Progress(d), RecordsStay, Handler(d) \/ HookRunEnds(d)
  PROVE  Progress(d)'
<1> USE DEF TypeOK, GoesOn, Answer, Progress, Handled
<1>0. Known(d) => Known(d)'
  BY KnownStays
<1>1. CASE ReadJob(d)
  BY <1>0, <1>1 DEF ReadJob
<1>2. CASE LookUp(d)
  BY <1>0, <1>2 DEF LookUp
<1>3. CASE Record(d)
  BY <1>0, <1>3 DEF Record
<1>4. CASE CreateRun(d)
  <2>1. /\ UNCHANGED record /\ dpc[d] = "recorded" /\ answer[d] = "none" /\ record[d] # "none"
        /\ \/ /\ dpc' = [dpc EXCEPT ![d] = "failed"] /\ answer' = [answer EXCEPT ![d] = "error"]
              /\ broken' = broken \union {d} /\ UNCHANGED run
           \/ /\ dpc' = [dpc EXCEPT ![d] = "skipping"] /\ UNCHANGED <<answer, run, broken>>
           \/ /\ dpc' = [dpc EXCEPT ![d] = "ran"] /\ UNCHANGED <<answer, broken>>
              /\ run' = [run EXCEPT ![d] = "live"]
    BY <1>4 DEF CreateRun
  <2> QED
    BY <2>1
<1>5. CASE Mark(d)
  BY <1>0, <1>5 DEF Mark
<1>6. CASE PauseJob(d)
  BY <1>0, <1>6 DEF PauseJob
<1>7. CASE HandlerFails(d)
  BY <1>0, <1>7 DEF HandlerFails
<1>8. CASE HookRunEnds(d)
  BY <1>0, <1>8 DEF HookRunEnds
<1> QED
  BY <1>1, <1>2, <1>3, <1>4, <1>5, <1>6, <1>7, <1>8 DEF Handler

LEMMA HandlerKeepsHookInv ==
  ASSUME TypeOK, HookInv, NEW d \in Deliveries, Handler(d) \/ HookRunEnds(d)
  PROVE  HookInv'
<1>1. /\ \A e \in Deliveries \ {d} :
           /\ dpc'[e] = dpc[e] /\ record'[e] = record[e] /\ answer'[e] = answer[e]
           /\ run'[e] = run[e] /\ (e \in broken <=> e \in broken')
      /\ record[d] # "none" => record'[d] # "none"
      /\ record[d] = "none" /\ record'[d] # "none" => ~Known(d)
  BY HandlerChanges DEF HookInv
<1>2. RecordsStay
  BY <1>1 DEF RecordsStay
<1>3. Progress(d)'
  BY <1>2, HandlerProgress DEF HookInv
<1>4. ASSUME NEW e \in Deliveries, e # d
      PROVE  Progress(e)'
  <2>1. Known(e) => Known(e)'
    BY <1>2, KnownStays
  <2>2. Progress(e)
    BY DEF HookInv
  <2> QED
    BY <1>1, <1>4, <2>1, <2>2 DEF Progress, Handled
<1>5. OneRecord'
  <2>1. SUFFICES ASSUME NEW e \in Deliveries, NEW f \in Deliveries, e # f, SharesKey(e, f),
                        record'[e] # "none", record'[f] # "none"
                 PROVE  FALSE
    BY DEF OneRecord, SharesKey, Custom
  <2>2. record[e] = "none" \/ record[f] = "none"
    BY <2>1 DEF HookInv, OneRecord
  <2>3. CASE e = d
    <3>1. record[f] # "none"
      BY <1>1, <2>1, <2>3
    <3> QED
      BY <1>1, <2>1, <2>2, <2>3, <3>1 DEF Known, SharesKey
  <2>4. CASE f = d
    <3>1. record[e] # "none" /\ SharesKey(f, e)
      BY <1>1, <2>1, <2>4 DEF SharesKey
    <3> QED
      BY <1>1, <2>1, <2>2, <2>4, <3>1 DEF Known
  <2> QED
    BY <1>1, <2>1, <2>2, <2>3, <2>4
<1> QED
  BY <1>3, <1>4, <1>5 DEF HookInv

\* A crash ends the handlers, and leaves what they have recorded.
LEMMA CrashKeepsHookInv ==
  ASSUME TypeOK, HookInv, Crash
  PROVE  HookInv'
<1>1. ASSUME NEW d \in Deliveries
      PROVE  Progress(d)'
  <2>1. Progress(d)
    BY DEF HookInv
  <2>2. UNCHANGED <<record, answer, run>>
    BY DEF Crash
  <2>3. Known(d) => Known(d)'
    BY <2>2 DEF Known, SharesKey, Custom
  <2> QED
    BY <2>1, <2>2, <2>3 DEF TypeOK, Progress, Handled, Crash, Underway
<1>2. OneRecord'
  BY DEF HookInv, OneRecord, SharesKey, Custom, Crash
<1> QED
  BY <1>1, <1>2 DEF HookInv

LEMMA HookFrame ==
  ASSUME HookInv, UNCHANGED hookVars
  PROVE  HookInv'
  BY DEF HookInv, hookVars, OneRecord, Progress, Handled, Known, SharesKey, Custom

LEMMA HookStep ==
  ASSUME TypeOK, HookInv, [Next]_vars
  PROVE  HookInv'
<1>1. CASE \E d \in Deliveries : Handler(d) \/ HookRunEnds(d)
  BY <1>1, HandlerKeepsHookInv
<1>2. CASE \E m \in Messages : PollMailbox(m) \/ BackoffPasses(m) \/ MailRun(m)
  BY <1>2, HookFrame DEF PollMailbox, BackoffPasses, MailRun, MailRunEnds, MarkFinished
<1>3. ASSUME NEW p \in Pollers, Scan(p) \/ \E m \in Messages : RowThrows(p, m) \/ ScanFails(p, m)
      PROVE  HookInv'
  BY <1>3, HookFrame
     DEF Scan, ReadPending, FindJob, Ignore, Schedule, RowThrows, MarkQueued, RetryOrFail,
         ScanFails
<1>4. CASE \E j \in Jobs : SetStatus(j)
  BY <1>4, HookFrame DEF SetStatus
<1>5. CASE Crash
  BY <1>5, CrashKeepsHookInv
<1>6. CASE UNCHANGED vars
  BY <1>6, HookFrame DEF vars
<1> QED
  BY <1>1, <1>2, <1>3, <1>4, <1>5, <1>6 DEF Next

LEMMA HookInvariant == Spec => [](TypeOK /\ HookInv)
<1>1. Init => TypeOK /\ HookInv
  <2>1. Init => HookInv
    BY DEF Init, HookInv, OneRecord, Progress
  <2> QED
    BY <2>1, InitTyped
<1>2. TypeOK /\ HookInv /\ [Next]_vars => (TypeOK /\ HookInv)'
  BY StepTyped, HookStep
<1> QED
  BY <1>1, <1>2, PTL DEF Spec

\* Of deliveries that share a key at most one gets a run, however many arrive
\* at once or are repeated, and wherever handlers fail or die.
THEOREM KeysRunOnce == Spec => []OneRunPerKey
<1>1. HookInv => OneRunPerKey
  BY DEF HookInv, OneRecord, Progress, OneRunPerKey
<1> QED
  BY <1>1, HookInvariant, PTL

\* "duplicate" is said only if a delivery with the same key was handled, is
\* being handled, or had its handler fail or die.
THEOREM DuplicatesHandled == Spec => []DuplicateOfHandled
<1>1. HookInv => DuplicateOfHandled
  BY DEF HookInv, Progress, Known, DuplicateOfHandled
<1> QED
  BY <1>1, HookInvariant, PTL

-----------------------------------------------------------------------------
(* Inbox events *)

\* A scan that does nothing holds no row.
Resting == \A p \in Pollers : ppc[p] = "idle" => batch[p] = {}

\* Rows that are held, or have a run, exist.
Stored == \A m \in Messages : (m \in ran \/ \E p \in Pollers : m \in batch[p]) => event[m].st # "none"

\* A row that was never disturbed is held by one scan.  Once it has a run, the
\* only scan that may hold it is the one about to mark it, and until then it is
\* marked.
Apart(m) == \A p, q \in Pollers : m \in batch[p] /\ m \in batch[q] => p = q
Marking(p, m) == ppc[p] = "marking" /\ First(p, m)
Marked(m) ==
  m \in ran =>
    /\ \A p \in Pollers : m \in batch[p] => Marking(p, m)
    /\ Pending(m) => \E p \in Pollers : Marking(p, m)

Undisturbed(m) == Apart(m) /\ Marked(m) /\ m \notin again

InboxInv == Resting /\ Stored /\ \A m \in Messages \ disturbed : Undisturbed(m)

\* Two rows cannot both be the first of a scan.
LEMMA FirstUnique ==
  ASSUME NEW p \in Pollers, NEW m \in Messages, NEW n \in Messages, First(p, m), First(p, n)
  PROVE  m = n
  BY MessagesAssumption DEF First

\* While a scan is at its first row and not marking it, no row it holds has a
\* run, unless it was disturbed.
LEMMA NoRunHeld ==
  ASSUME InboxInv, NEW p \in Pollers, ppc[p] # "marking", NEW m \in Messages \ disturbed, m \in batch[p]
  PROVE  m \notin ran
  BY DEF InboxInv, Undisturbed, Marked, Marking

LEMMA ReadKeepsInboxInv ==
  ASSUME TypeOK, InboxInv, NEW p \in Pollers, ReadPending(p)
  PROVE  InboxInv'
<1> DEFINE due == {m \in Messages : Pending(m) /\ event[m].due}
<1>1. /\ ppc[p] = "idle" /\ due # {}
      /\ batch' = [batch EXCEPT ![p] = due]
      /\ ppc' = [ppc EXCEPT ![p] = "scanning"]
      /\ disturbed' = disturbed \union {m \in due : \E q \in Pollers \ {p} : m \in batch[q]}
      /\ UNCHANGED <<event, ran, again>>
  BY DEF ReadPending
<1>2. Resting'
  BY <1>1 DEF TypeOK, InboxInv, Resting
<1>3. Stored'
  BY <1>1 DEF TypeOK, InboxInv, Stored, Pending
<1>4. ASSUME NEW m \in Messages \ disturbed'
      PROVE  Undisturbed(m)'
  <2>1. m \notin disturbed /\ Undisturbed(m) /\ (m \in due => \A q \in Pollers \ {p} : m \notin batch[q])
    BY <1>1 DEF InboxInv
  <2>2. Apart(m)'
    BY <1>1, <2>1 DEF TypeOK, Undisturbed, Apart
  <2>3. m \in ran => m \notin due
    BY <1>1, <2>1 DEF Undisturbed, Marked, Marking, First
  <2>4. ASSUME NEW q \in Pollers, q # p, Marking(q, m)
        PROVE  Marking(q, m)'
    BY <1>1, <2>4 DEF TypeOK, Marking, First
  <2>5. Marked(m)'
    BY <1>1, <2>1, <2>3, <2>4 DEF TypeOK, Undisturbed, Marked, Marking, Pending
  <2> QED
    BY <1>1, <2>1, <2>2, <2>5 DEF Undisturbed
<1> QED
  BY <1>2, <1>3, <1>4 DEF InboxInv

\* A scan that leaves its first row, or turns to another step of it, while
\* no run is created: the row is not a marked one, or no longer pending.
LEMMA RowStepKeepsInboxInv ==
  ASSUME TypeOK, InboxInv, NEW p \in Pollers, NEW m \in Messages, First(p, m),
         \/ ppc[p] # "marking"
         \/ m \in disturbed'
         \/ ~Pending(m)',
         \A n \in Messages : event[n].st # "none" => event'[n].st # "none",
         \A n \in Messages : Pending(n)' => Pending(n),
         \/ NextRow(p, m)
         \/ batch' = [batch EXCEPT ![p] = {}] /\ ppc' = [ppc EXCEPT ![p] = "idle"]
         \/ /\ batch' = batch
            /\ ppc[p] # "marking" \/ m \in disturbed'
            /\ \E pc \in {"found", "ignoring", "marking", "retrying"} : ppc' = [ppc EXCEPT ![p] = pc],
         ran' = ran, again' = again, disturbed \subseteq disturbed'
  PROVE  InboxInv'
<1>1. /\ \A q \in Pollers \ {p} : batch'[q] = batch[q] /\ ppc'[q] = ppc[q]
      /\ batch'[p] \subseteq batch[p]
      /\ batch' = batch \/ m \notin batch'[p]
      /\ ppc'[p] = "idle" => batch'[p] = {}
  BY DEF TypeOK, NextRow, First
<1>2. Resting'
  BY <1>1 DEF InboxInv, Resting
<1>3. Stored'
  BY <1>1 DEF TypeOK, InboxInv, Stored
<1>4. ASSUME NEW n \in Messages \ disturbed'
      PROVE  Undisturbed(n)'
  <2>1. n \notin disturbed /\ Undisturbed(n)
    BY DEF InboxInv
  <2>2. Apart(n)'
    BY <1>1, <2>1 DEF TypeOK, Undisturbed, Apart
  <2>3. ASSUME NEW q \in Pollers, q # p, Marking(q, n)
        PROVE  Marking(q, n)'
    BY <1>1, <2>3 DEF Marking, First
  <2>4. n \in ran => n \notin batch'[p]
    <3>1. CASE ppc[p] # "marking"
      BY <1>1, <2>1, <3>1, NoRunHeld
    <3>2. CASE ppc[p] = "marking"
      <4>1. n \in ran /\ n \in batch[p] => n = m
        BY <2>1, FirstUnique DEF Undisturbed, Marked, Marking
      <4> QED
        BY <1>1, <3>2, <4>1 DEF NextRow, TypeOK
    <3> QED
      BY <3>1, <3>2
  <2>5. ASSUME n \in ran, Pending(n)'
        PROVE  \E q \in Pollers : Marking(q, n)'
    <3>1. PICK q \in Pollers : Marking(q, n)
      BY <2>1, <2>5 DEF Undisturbed, Marked
    <3>2. q # p
      BY <2>5, <3>1, FirstUnique DEF Marking
    <3> QED
      BY <2>3, <3>1, <3>2
  <2>6. Marked(n)'
    BY <1>1, <2>1, <2>3, <2>4, <2>5 DEF Undisturbed, Marked
  <2> QED
    BY <2>1, <2>2, <2>6 DEF Undisturbed
<1> QED
  BY <1>2, <1>3, <1>4 DEF InboxInv

\* A run is created for the first row of a scan that has found its job.
LEMMA RunKeepsInboxInv ==
  ASSUME TypeOK, InboxInv, NEW p \in Pollers, NEW m \in Messages, First(p, m), ppc[p] = "found",
         RunCreated(m), UNCHANGED <<event, batch>>,
         \/ ppc' = [ppc EXCEPT ![p] = "marking"] /\ disturbed' = disturbed
         \/ ppc' = [ppc EXCEPT ![p] = "retrying"] /\ disturbed' = disturbed \union {m}
  PROVE  InboxInv'
<1>1. ran' = ran \union {m} /\ again' = again \union ({m} \intersect ran)
  BY DEF RunCreated
<1>2. Resting'
  BY DEF TypeOK, InboxInv, Resting
<1>3. Stored'
  BY <1>1 DEF TypeOK, InboxInv, Stored, First
<1>4. ASSUME NEW n \in Messages \ disturbed'
      PROVE  Undisturbed(n)'
  <2>1. n \notin disturbed /\ Undisturbed(n)
    BY DEF InboxInv
  <2>2. Apart(n)'
    BY <2>1 DEF Undisturbed, Apart
  <2>3. ASSUME NEW q \in Pollers, q # p, Marking(q, n)
        PROVE  Marking(q, n)'
    BY <2>3 DEF TypeOK, Marking, First
  <2>4. n \notin again' /\ (n \in ran => n \notin batch[p])
    BY <1>1, <2>1, NoRunHeld DEF First, Undisturbed
  <2>5. CASE n # m
    <3>1. n \in ran' => n \in ran
      BY <1>1, <2>5
    <3>2. ASSUME NEW q \in Pollers, Marking(q, n)
          PROVE  Marking(q, n)'
      BY <2>3, <3>2 DEF Marking
    <3>3. Marked(n)'
      BY <2>1, <3>1, <3>2 DEF Undisturbed, Marked, Pending
    <3> QED
      BY <2>2, <2>4, <3>3 DEF Undisturbed
  <2>6. CASE n = m
    <3>1. ppc' = [ppc EXCEPT ![p] = "marking"]
      BY <2>6
    <3>2. Marking(p, m)'
      BY <3>1 DEF TypeOK, Marking, First
    <3>3. \A q \in Pollers : m \in batch[q] => q = p
      BY <2>1, <2>6 DEF Undisturbed, Apart, First
    <3>4. Marked(n)'
      BY <2>6, <3>2, <3>3 DEF Marked
    <3> QED
      BY <2>2, <2>4, <3>4 DEF Undisturbed
  <2> QED
    BY <2>5, <2>6
<1> QED
  BY <1>2, <1>3, <1>4 DEF InboxInv

\* Nothing happens but that rows appear, or change their status without
\* becoming pending.
LEMMA InboxFrame ==
  ASSUME TypeOK, InboxInv, UNCHANGED <<batch, ppc, ran, again, disturbed>>,
         \A n \in Messages : event[n].st # "none" => event'[n].st # "none",
         \A n \in Messages : Pending(n)' => Pending(n) \/ event[n].st = "none"
  PROVE  InboxInv'
<1>1. Resting' /\ Stored'
  BY DEF InboxInv, Resting, Stored
<1>2. ASSUME NEW n \in Messages \ disturbed
      PROVE  Undisturbed(n)'
  <2>1. Undisturbed(n) /\ (n \in ran => event[n].st # "none")
    BY DEF InboxInv, Stored
  <2>2. \A q \in Pollers : Marking(q, n) => Marking(q, n)'
    BY DEF Marking, First
  <2> QED
    BY <2>1, <2>2 DEF Undisturbed, Apart, Marked
<1> QED
  BY <1>1, <1>2 DEF InboxInv

LEMMA CrashKeepsInboxInv ==
  ASSUME TypeOK, InboxInv, Crash
  PROVE  InboxInv'
<1>1. /\ batch' = [p \in Pollers |-> {}] /\ ppc' = [p \in Pollers |-> "idle"]
      /\ UNCHANGED <<event, ran, again>>
      /\ disturbed \subseteq disturbed'
      /\ \A p \in Pollers, m \in Messages : Marking(p, m) => m \in disturbed'
  BY DEF Crash, Marking
<1>2. Resting' /\ Stored'
  BY <1>1 DEF InboxInv, Resting, Stored
<1>3. ASSUME NEW m \in Messages \ disturbed'
      PROVE  Undisturbed(m)'
  <2>1. Undisturbed(m)
    BY <1>1 DEF InboxInv
  <2>2. m \in ran => ~Pending(m)
    BY <1>1, <2>1 DEF Undisturbed, Marked
  <2> QED
    BY <1>1, <2>1, <2>2 DEF Undisturbed, Apart, Marked, Pending
<1> QED
  BY <1>2, <1>3 DEF InboxInv

LEMMA ScanKeepsInboxInv ==
  ASSUME TypeOK, InboxInv, NEW p \in Pollers, NEW m \in Messages,
         \/ FindJob(p, m) \/ Ignore(p, m) \/ Schedule(p, m) \/ RowThrows(p, m)
         \/ MarkQueued(p, m) \/ RetryOrFail(p, m) \/ ScanFails(p, m)
  PROVE  InboxInv'
<1> USE DEF runVars
<1>1. CASE FindJob(p, m)
  BY <1>1, RowStepKeepsInboxInv DEF FindJob, Pending
<1>2. CASE Ignore(p, m)
  BY <1>2, RowStepKeepsInboxInv DEF Ignore, MarkEvent, Pending, TypeOK
<1>3. CASE Schedule(p, m)
  <2>1. /\ First(p, m) /\ ppc[p] = "found" /\ UNCHANGED <<event, disturbed>>
        /\ \/ RunCreated(m) /\ ppc' = [ppc EXCEPT ![p] = "marking"] /\ UNCHANGED batch
           \/ NextRow(p, m) /\ UNCHANGED <<ran, again>>
           \/ ppc' = [ppc EXCEPT ![p] = "retrying"] /\ UNCHANGED <<batch, ran, again>>
    BY <1>3 DEF Schedule
  <2> QED
    BY <2>1, RowStepKeepsInboxInv, RunKeepsInboxInv DEF Pending
<1>4. CASE RowThrows(p, m)
  <2>1. /\ First(p, m) /\ UNCHANGED <<event, batch>> /\ ppc' = [ppc EXCEPT ![p] = "retrying"]
        /\ \/ ppc[p] # "marking" /\ UNCHANGED <<ran, again, disturbed>>
           \/ ppc[p] = "found" /\ RunCreated(m) /\ disturbed' = disturbed \union {m}
           \/ ppc[p] = "marking" /\ UNCHANGED <<ran, again>> /\ disturbed' = disturbed \union {m}
    BY <1>4 DEF RowThrows
  <2> QED
    BY <2>1, RowStepKeepsInboxInv, RunKeepsInboxInv DEF Pending
<1>5. CASE MarkQueued(p, m)
  BY <1>5, RowStepKeepsInboxInv DEF MarkQueued, MarkEvent, Pending, TypeOK
<1>6. CASE RetryOrFail(p, m)
  BY <1>6, RowStepKeepsInboxInv DEF RetryOrFail, Pending, TypeOK
<1>7. CASE ScanFails(p, m)
  BY <1>7, RowStepKeepsInboxInv DEF ScanFails, Pending
<1> QED
  BY <1>1, <1>2, <1>3, <1>4, <1>5, <1>6, <1>7

LEMMA InboxStep ==
  ASSUME TypeOK, InboxInv, [Next]_vars
  PROVE  InboxInv'
<1>1. ASSUME NEW d \in Deliveries, Handler(d) \/ HookRunEnds(d)
      PROVE  InboxInv'
  <2>1. UNCHANGED inboxVars
    BY <1>1 DEF Handler, ReadJob, LookUp, Record, CreateRun, Mark, PauseJob, HandlerFails, HookRunEnds
  <2> QED
    BY <2>1, InboxFrame DEF inboxVars, scanVars, runVars, Pending
<1>2. ASSUME NEW m \in Messages, PollMailbox(m) \/ BackoffPasses(m)
      PROVE  InboxInv'
  BY <1>2, InboxFrame DEF PollMailbox, BackoffPasses, scanVars, runVars, Pending, TypeOK, Row
<1>3. ASSUME NEW m \in Messages, MailRun(m)
      PROVE  InboxInv'
  <2>1. CASE MailRunEnds(m)
    BY <2>1, InboxFrame DEF MailRunEnds, scanVars, Pending
  <2>2. ASSUME NEW st \in {"processed", "failed"}, MarkFinished(m, st)
        PROVE  InboxInv'
    <3>1. event' = IF event[m].st = "queued" THEN [event EXCEPT ![m].st = st] ELSE event
      BY <2>2 DEF MarkFinished
    <3>2. \A n \in Messages : event'[n].st = event[n].st \/ event'[n].st = st
      BY <3>1 DEF TypeOK, Row
    <3> QED
      BY <2>2, <3>2, InboxFrame DEF MarkFinished, scanVars, Pending
  <2> QED
    BY <1>3, <2>1, <2>2 DEF MailRun
<1>4. ASSUME NEW p \in Pollers, Scan(p) \/ \E m \in Messages : RowThrows(p, m) \/ ScanFails(p, m)
      PROVE  InboxInv'
  BY <1>4, ReadKeepsInboxInv, ScanKeepsInboxInv DEF Scan
<1>5. CASE \E j \in Jobs : SetStatus(j)
  BY <1>5, InboxFrame DEF SetStatus, inboxVars, scanVars, runVars, Pending
<1>6. CASE Crash
  BY <1>6, CrashKeepsInboxInv
<1>7. CASE UNCHANGED vars
  BY <1>7, InboxFrame DEF vars, inboxVars, scanVars, runVars, Pending
<1> QED
  BY <1>1, <1>2, <1>3, <1>4, <1>5, <1>6, <1>7 DEF Next

\* A message gets a second run only if the marking of its first one was
\* interrupted, or two polls held it at once.
THEOREM SecondRunsNeedFault == Spec => []SecondRunNeedsFault
<1>1. Init => TypeOK /\ InboxInv
  <2>1. Init => InboxInv
    BY DEF Init, InboxInv, Resting, Stored, Undisturbed, Apart, Marked
  <2> QED
    BY <2>1, InitTyped
<1>2. TypeOK /\ InboxInv /\ [Next]_vars => (TypeOK /\ InboxInv)'
  BY StepTyped, InboxStep
<1>3. TypeOK /\ InboxInv => SecondRunNeedsFault
  BY DEF TypeOK, InboxInv, Undisturbed, SecondRunNeedsFault
<1> QED
  BY <1>1, <1>2, <1>3, PTL DEF Spec
=============================================================================
