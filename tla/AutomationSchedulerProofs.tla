--------------------- MODULE AutomationSchedulerProofs ---------------------
(***************************************************************************)
(* The clock of the automations, proved for all intervals, graces, periods *)
(* and backoffs.                                                           *)
(*                                                                         *)
(* NextApart relates the last queued occurrence to the next one, whatever  *)
(* was down or failed in between: that is why downtime is not replayed.    *)
(* Punctual bounds how far a scheduler that was not interrupted can be     *)
(* behind the schedule and the retries at each point of its tick, which    *)
(* gives the condition on the intervals under which polling alone never    *)
(* makes it skip anything.                                                 *)
(***************************************************************************)
EXTENDS AutomationScheduler, TLAPS

USE DEF schedVars, jobVars, histVars

-----------------------------------------------------------------------------
(* The operators *)

LEMMA NumberFact ==
  /\ PollInterval \in Nat /\ PollInterval > 0
  /\ MaxInterval \in Nat /\ PollInterval <= MaxInterval
  /\ IdleTicks \in Nat /\ IdleTicks > 0
  /\ Period \in Nat /\ Period > 0
  /\ Grace \in Nat /\ Grace < Period
  /\ MaxTick \in Nat
  /\ MaxAttempts \in Nat /\ MaxAttempts >= 1
<1>1. MaxAttempts \in Nat /\ MaxAttempts >= 1
  BY SchedulerAssumption DEF MaxAttempts
<1> QED
  BY <1>1, SchedulerAssumption

LEMMA LeastFact ==
  ASSUME NEW a \in Int, NEW b \in Int
  PROVE  /\ Least(a, b) \in Int
         /\ Least(a, b) <= a /\ Least(a, b) <= b
         /\ Least(a, b) = a \/ Least(a, b) = b
  BY DEF Least

LEMMA ModuloFact ==
  ASSUME NEW p \in Nat, p > 0
  PROVE  /\ p % p = 0 /\ (2 * p) % p = 0
         /\ \A x \in Int : (x % p = 0 /\ x > 0 /\ x < 2 * p) => x = p
<1>1. p % p = 0
  OBVIOUS
<1>2. (2 * p) % p = 0
  OBVIOUS
<1>3. ASSUME NEW x \in Int, x % p = 0, x > 0, x < 2 * p PROVE x = p
  BY <1>3
<1> QED
  BY <1>1, <1>2, <1>3

\* The schedule always moves into the future, by at most a period.
LEMMA NextFromFact ==
  ASSUME nextIn \in -(Grace + Period)..0, NEW a \in Int, a <= 0
  PROVE  NextFrom(a) \in 1..Period
<1>1. CASE Kind = "interval"
  BY <1>1, SchedulerAssumption DEF NextFrom
<1>2. CASE Kind = "daily"
  <2>1. \E d \in 1..Period : (d - nextIn) % Period = 0
    <3> DEFINE d == nextIn + (IF nextIn > -Period THEN Period ELSE 2 * Period)
    <3>1. d \in 1..Period
      BY NumberFact
    <3>2. d - nextIn = Period \/ d - nextIn = 2 * Period
      BY NumberFact
    <3>3. (d - nextIn) % Period = 0
      <4> HIDE DEF d
      <4> QED
        BY NumberFact, <3>2, ModuloFact
    <3> QED
      BY <3>1, <3>3
  <2> QED
    BY <1>2, <2>1, SchedulerAssumption DEF NextFrom
<1> QED
  BY <1>1, <1>2, SchedulerAssumption

\* An occurrence that is consumed within the grace is followed by the one a
\* period after it.
LEMMA NextFromGrid ==
  ASSUME nextIn \in -Grace..0
  PROVE  NextFrom(nextIn) = nextIn + Period
<1>1. CASE Kind = "interval"
  BY <1>1, SchedulerAssumption DEF NextFrom
<1>2. CASE Kind = "daily"
  <2>1. ASSUME NEW d \in 1..Period, (d - nextIn) % Period = 0 PROVE d = nextIn + Period
    <3>1. d - nextIn \in Int /\ d - nextIn > 0 /\ d - nextIn < 2 * Period
      BY NumberFact
    <3>2. d - nextIn = Period
      BY NumberFact, <2>1, <3>1, ModuloFact
    <3> QED
      BY NumberFact, <3>2
  <2>2. nextIn + Period \in 1..Period /\ nextIn + Period - nextIn = Period
    BY NumberFact
  <2>3. (nextIn + Period - nextIn) % Period = 0
    BY NumberFact, <2>2, ModuloFact
  <2> QED
    BY <1>2, <2>1, <2>2, <2>3 DEF NextFrom
<1> QED
  BY <1>1, <1>2, SchedulerAssumption

LEMMA IntervalFact ==
  ASSUME interval \in PollInterval..MaxInterval, NEW i \in Nat
  PROVE  IntervalAfter(i) \in PollInterval..MaxInterval
<1>1. interval * BackoffFactor \in Nat /\ interval * BackoffFactor >= interval
  BY SchedulerAssumption
<1> QED
  BY <1>1, SchedulerAssumption DEF IntervalAfter, Least

-----------------------------------------------------------------------------
(* Types *)

\* TypeOK in two parts, the numbers and the flags.
Amounts ==
  /\ phase \in {"off", "queue", "execute", "todo", "wait"}
  /\ left \in 0..MaxInterval
  /\ interval \in PollInterval..MaxInterval
  /\ idle \in 0..IdleTicks
  /\ spent \in 0..MaxTick
  /\ nextIn \in -(Grace + Period)..Period
  /\ row \in {"none", "queued", "running", "orphan"}
  /\ late \in Int /\ late <= Grace + 1
  /\ attempt \in 1..MaxAttempts
  /\ sinceQueued \in 0..Period

Flags ==
  /\ hadWork \in BOOLEAN /\ ok \in BOOLEAN
  /\ interrupted \in BOOLEAN /\ skip \in BOOLEAN

LEMMA TypeParts == TypeOK <=> Amounts /\ Flags
  BY Zenon DEF TypeOK, Amounts, Flags

LEMMA DiscardFact ==
  ASSUME Amounts, DiscardMissed
  PROVE  /\ nextIn' \in -(Grace + Period)..Period /\ nextIn' >= nextIn
         /\ nextIn' # nextIn => nextIn' > 0
         /\ \/ Missed /\ row' = "none" /\ late' = 0 /\ attempt' = 1
            \/ ~Missed /\ UNCHANGED <<row, late, attempt>>
<1>1. nextIn <= 0 => NextFrom(0) \in 1..Period
  BY NextFromFact, NumberFact DEF Amounts
<1>2. nextIn' = nextIn \/ (nextIn <= 0 /\ nextIn' = NextFrom(0))
  BY DEF DiscardMissed, NextAfterDiscard
<1>3. /\ nextIn' \in -(Grace + Period)..Period /\ nextIn' >= nextIn
      /\ nextIn' # nextIn => nextIn' > 0
  BY <1>1, <1>2, NumberFact DEF Amounts
<1> QED
  BY <1>3 DEF DiscardMissed

\* The three ways of queue-due.
DueLater == DiscardMissed /\ UNCHANGED <<hadWork, sinceQueued>> /\ nextIn' > 0
DueSkipped ==
  /\ nextIn < -Grace /\ nextIn' \in 1..Period /\ skip' = TRUE
  /\ UNCHANGED <<row, late, attempt, hadWork, sinceQueued>>
DueConsumed ==
  /\ nextIn \in -Grace..0 /\ ~Missed
  /\ nextIn' = nextIn + Period /\ nextIn' \in 1..Period /\ skip' = FALSE
  /\ \/ /\ row = "none" /\ row' = "queued" /\ late' = -nextIn /\ attempt' = 1
        /\ hadWork' = TRUE /\ sinceQueued' = 0
     \/ row # "none" /\ UNCHANGED <<row, late, attempt, hadWork, sinceQueued>>

LEMMA QueueDueFact ==
  ASSUME Amounts, QueueDue
  PROVE  /\ phase = "queue" /\ phase' = "execute"
         /\ UNCHANGED <<left, interval, idle, spent, ok, interrupted>>
         /\ DueLater \/ (DueSkipped /\ ~Missed) \/ DueConsumed
<1>1. NextAfterDiscard <= 0 => nextIn <= 0 /\ ~Missed
  BY NextFromFact, NumberFact DEF NextAfterDiscard, Amounts
<1>2. CASE NextAfterDiscard > 0 /\ DiscardMissed /\ UNCHANGED <<hadWork, sinceQueued>>
  BY <1>2 DEF QueueDue, DueLater, DiscardMissed
<1>3. CASE /\ NextAfterDiscard <= 0 /\ Overdue /\ nextIn' = NextFrom(0) /\ skip' = TRUE
           /\ UNCHANGED <<row, late, attempt, hadWork, sinceQueued>>
  <2>1. nextIn < -Grace /\ nextIn' \in 1..Period
    BY <1>1, <1>3, NextFromFact, NumberFact DEF Overdue, Amounts
  <2> QED
    BY <1>1, <1>3, <2>1 DEF QueueDue, DueSkipped
<1>4. CASE /\ NextAfterDiscard <= 0 /\ ~Overdue /\ nextIn' = NextFrom(nextIn) /\ skip' = FALSE
           /\ IF row = "none"
                THEN /\ row' = "queued" /\ late' = -nextIn /\ attempt' = 1
                     /\ hadWork' = TRUE /\ sinceQueued' = 0
                ELSE UNCHANGED <<row, late, attempt, hadWork, sinceQueued>>
  <2>1. nextIn \in -Grace..0
    BY <1>1, <1>4, NumberFact DEF Overdue, Amounts
  <2>2. nextIn' = nextIn + Period /\ nextIn' \in 1..Period
    BY <1>4, <2>1, NextFromGrid, NumberFact
  <2> QED
    BY <1>1, <1>4, <2>1, <2>2 DEF QueueDue, DueConsumed
<1> QED
  BY <1>2, <1>3, <1>4 DEF QueueDue

LEMMA InitTypes == Init => TypeOK
<1> SUFFICES ASSUME Init PROVE TypeOK
  OBVIOUS
<1>1. Amounts
  BY NumberFact DEF Init, Amounts
<1>2. Flags
  BY Zenon DEF Init, Flags
<1> QED
  BY <1>1, <1>2, TypeParts

LEMMA FlagsStep ==
  ASSUME Flags, [Next]_vars
  PROVE  Flags'
<1>1. Missed \in BOOLEAN
  BY Zenon DEF Missed
<1>2. CASE UNCHANGED vars
  BY <1>2, Zenon DEF vars, Flags
<1>3. CASE Elapse \/ Stop \/ Start \/ SweepOrphan \/ RequestFails \/ RunEnds \/ TimerFires
  BY <1>3, Zenon
  DEF Elapse, Stop, Start, SweepOrphan, RequestFails, RunEnds, TimerFires, Flags
<1>4. CASE QueueDue
  BY <1>1, <1>4, Zenon DEF QueueDue, DiscardMissed, Flags
<1>5. CASE ExecuteReady
  BY <1>1, <1>5, Zenon DEF ExecuteReady, DiscardMissed, Flags
<1>6. CASE EndTick
  BY <1>6, Zenon DEF EndTick, Flags
<1> QED
  BY <1>2, <1>3, <1>4, <1>5, <1>6, Zenon DEF Next

LEMMA AmountsStep ==
  ASSUME Amounts, [Next]_vars
  PROVE  Amounts'
<1> USE NumberFact
<1>1. CASE UNCHANGED vars
  BY <1>1 DEF vars, Amounts
<1>2. CASE Elapse
  <2>1. late' \in Int /\ late' <= Grace + 1 /\ sinceQueued' \in 0..Period
    BY <1>2 DEF Elapse, Least, Amounts
  <2>2. nextIn' \in -(Grace + Period)..Period
    BY <1>2 DEF Elapse, Amounts
  <2>3. left' \in 0..MaxInterval /\ spent' \in 0..MaxTick
    BY <1>2 DEF Elapse, Amounts
  <2> QED
    BY <1>2, <2>1, <2>2, <2>3 DEF Elapse, Amounts
<1>3. CASE Stop
  BY <1>3 DEF Stop, Amounts
<1>4. CASE Start
  BY <1>4 DEF Start, Amounts
<1>5. CASE QueueDue
  <2>1. CASE DueLater
    BY <1>5, <2>1, QueueDueFact, DiscardFact DEF DueLater, Amounts
  <2>2. CASE DueSkipped
    BY <1>5, <2>2, QueueDueFact DEF DueSkipped, Amounts
  <2>3. CASE DueConsumed
    <3>1. /\ row' \in {"none", "queued", "running", "orphan"}
          /\ late' \in Int /\ late' <= Grace + 1
          /\ attempt' \in 1..MaxAttempts /\ sinceQueued' \in 0..Period
      BY <2>3 DEF DueConsumed, Amounts
    <3>2. nextIn' \in -(Grace + Period)..Period
      BY <2>3 DEF DueConsumed, Amounts
    <3>3. phase' = "execute" /\ UNCHANGED <<left, interval, idle, spent>>
      BY <1>5, QueueDueFact
    <3> QED
      BY <3>1, <3>2, <3>3 DEF Amounts
  <2> QED
    BY <1>5, <2>1, <2>2, <2>3, QueueDueFact
<1>6. CASE ExecuteReady
  <2>1. CASE DiscardMissed
    BY <1>6, <2>1, DiscardFact DEF ExecuteReady, Amounts
  <2>2. CASE row' = "running" /\ late' = 0 /\ UNCHANGED <<nextIn, attempt>>
    BY <1>6, <2>2 DEF ExecuteReady, Amounts
  <2> QED
    BY <1>6, <2>1, <2>2 DEF ExecuteReady
<1>7. CASE SweepOrphan
  BY <1>7 DEF SweepOrphan, Amounts
<1>8. CASE RequestFails
  BY <1>8 DEF RequestFails, Amounts
<1>9. CASE RunEnds
  <2>1. attempt < MaxAttempts => RetryBackoff[attempt] \in Nat
    BY SchedulerAssumption DEF Amounts, MaxAttempts
  <2>2. \/ row' = "none" /\ late' = 0 /\ attempt' = 1
        \/ /\ attempt < MaxAttempts /\ row' = "queued"
           /\ late' = -RetryBackoff[attempt] /\ attempt' = attempt + 1
    BY <1>9 DEF RunEnds
  <2>3. row' \in {"none", "queued"} /\ late' \in Int /\ late' <= Grace + 1 /\ attempt' \in 1..MaxAttempts
    BY <2>1, <2>2 DEF Amounts
  <2> QED
    BY <1>9, <2>3, Zenon DEF RunEnds, Amounts
<1>10. CASE TimerFires
  BY <1>10 DEF TimerFires, Amounts
<1>11. CASE EndTick
  <2>1. PICK i \in 0..IdleTicks : idle' = i /\ interval' = IntervalAfter(i)
    BY <1>11 DEF EndTick, Least, Amounts
  <2>2. interval' \in PollInterval..MaxInterval
    BY <2>1, IntervalFact DEF Amounts
  <2> QED
    BY <1>11, <2>1, <2>2 DEF EndTick, Amounts
<1> QED
  BY <1>1, <1>2, <1>3, <1>4, <1>5, <1>6, <1>7, <1>8, <1>9, <1>10, <1>11 DEF Next

LEMMA TypesHold == Spec => [](Amounts /\ Flags)
<1>1. Init => Amounts /\ Flags
  BY InitTypes, TypeParts
<1> QED
  BY <1>1, FlagsStep, AmountsStep, PTL DEF Spec

\* Every state keeps its type: in particular the interval of the timer stays
\* between its bounds, and an occurrence is never queued later than the grace.
THEOREM TypeCorrect == Spec => []TypeOK
<1> QED
  BY TypesHold, TypeParts, PTL

-----------------------------------------------------------------------------
(* Starts and downtime *)

\* A run of the schedule is started only while it is at most the grace late,
\* whatever happened since it was queued and however long it was held up.
THEOREM StartsWithinGraceHolds == Spec => StartsWithinGrace
<1>1. ASSUME Amounts, [Next]_vars, row = "queued", row' = "running"
      PROVE  late \in 0..Grace
  <2>1. ExecuteReady
    <3>1. ~QueueDue
      BY <1>1, QueueDueFact, DiscardFact DEF DueLater, DueSkipped, DueConsumed
    <3> QED
      BY <1>1, <3>1
      DEF Next, vars, Elapse, Stop, Start, SweepOrphan, RequestFails, RunEnds, TimerFires,
          EndTick
  <2>2. ~Missed /\ late >= 0
    BY <1>1, <2>1, DiscardFact DEF ExecuteReady
  <2> QED
    BY <1>1, <2>2, NumberFact DEF Missed, Amounts
<1> QED
  BY <1>1, TypesHold, PTL DEF Spec, StartsWithinGrace

\* Until a period has passed since an occurrence was queued, the next one is a
\* period away from it, the grace aside.
NextApart == sinceQueued < Period => nextIn + sinceQueued >= Period - Grace

LEMMA NextApartKept ==
  ASSUME Amounts, NextApart, nextIn' \in Int, nextIn' >= nextIn, sinceQueued' = sinceQueued
  PROVE  NextApart'
<1> SUFFICES ASSUME sinceQueued < Period PROVE nextIn' + sinceQueued >= Period - Grace
  BY DEF NextApart
<1>1. nextIn \in Int /\ sinceQueued \in Int /\ Period - Grace \in Int
  BY NumberFact DEF Amounts
<1>2. nextIn + sinceQueued >= Period - Grace
  BY DEF NextApart
<1> QED
  BY <1>1, <1>2

LEMMA NextApartStep ==
  ASSUME Amounts, NextApart, [Next]_vars
  PROVE  NextApart'
<1> USE NumberFact DEF Amounts, NextApart
<1>1. CASE Elapse
  <2>1. nextIn' \in Int /\ nextIn' >= nextIn - 1
    BY <1>1 DEF Elapse
  <2>2. sinceQueued' = Period \/ sinceQueued' = sinceQueued + 1
    BY <1>1 DEF Elapse, Least
  <2> QED
    BY <2>1, <2>2
<1>2. CASE QueueDue
  <2>1. CASE DueLater
    BY <2>1, DiscardFact DEF DueLater
  <2>2. CASE DueSkipped
    BY <2>2 DEF DueSkipped
  <2>3. CASE DueConsumed
    BY <2>3 DEF DueConsumed
  <2> QED
    BY <1>2, <2>1, <2>2, <2>3, QueueDueFact
<1>3. CASE ExecuteReady
  BY <1>3, DiscardFact, NextApartKept DEF ExecuteReady
<1>4. CASE UNCHANGED <<nextIn, sinceQueued>>
  BY <1>4
<1> QED
  BY <1>1, <1>2, <1>3, <1>4
  DEF Next, vars, Stop, Start, SweepOrphan, RequestFails, RunEnds, TimerFires, EndTick

\* Two runs of the schedule are queued a period apart, less at most the grace,
\* also across crashes and downtime of any length: what was missed meanwhile is
\* not made up for.
THEOREM NoReplayHolds == Spec => NoReplay
<1>1. Init => NextApart
  BY NumberFact DEF Init, NextApart
<1>2. ASSUME Amounts, NextApart, [Next]_vars, row = "none", row' = "queued"
      PROVE  sinceQueued >= Period - Grace
  <2>1. QueueDue
    <3>1. ~ExecuteReady
      BY <1>2, DiscardFact DEF ExecuteReady
    <3> QED
      BY <1>2, <3>1
      DEF Next, vars, Elapse, Stop, Start, SweepOrphan, RequestFails, RunEnds, TimerFires,
          EndTick
  <2>2. nextIn <= 0
    <3>1. ~DueLater /\ ~DueSkipped
      BY <1>2, DiscardFact DEF DueLater, DueSkipped
    <3>2. DueConsumed
      BY <1>2, <2>1, <3>1, QueueDueFact
    <3> QED
      BY <3>2, NumberFact DEF DueConsumed
  <2> QED
    BY <1>2, <2>2, NumberFact DEF Amounts, NextApart
<1>3. Spec => [](Amounts /\ NextApart)
  BY <1>1, NextApartStep, TypesHold, PTL DEF Spec
<1> QED
  BY <1>2, <1>3, PTL DEF Spec, NoReplay

-----------------------------------------------------------------------------
(* Skips *)

\* A tick finds the schedule behind by less than the longest pause and two
\* ticks; that must not be beyond the grace.  And no other run takes the slots,
\* and a retry is never due at once.
PollingKeepsUp ==
  /\ ~Contended
  /\ MaxInterval + 2 * MaxTick <= Grace + 1
  /\ \A i \in 1..Len(RetryBackoff) : RetryBackoff[i] > 0

\* The next occurrence and the queued run are overdue by less than b.
Within(n, r, l, b) == n > -b /\ (r = "queued" => l < b)
OnTime(b) == Within(nextIn, row, late, b)

\* What a tick in which all went well leaves behind, and what can become due
\* until the next one comes to look.
Punctual ==
  /\ phase = "off" => interrupted
  /\ phase = "wait" => left <= interval
  /\ phase = "todo" /\ ok => OnTime(spent)
  /\ phase = "wait" /\ ~interrupted => OnTime(MaxTick + interval - left)
  /\ phase = "queue" /\ ~interrupted => OnTime(MaxTick + interval + spent)
  /\ phase = "execute" /\ ok => nextIn > -spent
  /\ phase = "execute" /\ ~interrupted /\ row = "queued" => late < MaxTick + interval + spent

LEMMA WithinWeakens ==
  ASSUME NEW n \in Int, NEW r, NEW l \in Int, NEW a \in Int, NEW b \in Int, a <= b,
         Within(n, r, l, a)
  PROVE  Within(n, r, l, b)
  BY DEF Within

LEMMA WithinElapse ==
  ASSUME Amounts, Elapse, NEW b \in Int
  PROVE  /\ OnTime(b) => Within(nextIn', row', late', b + 1)
         /\ nextIn > -b => nextIn' > -(b + 1)
         /\ row = "queued" /\ late < b => late' < b + 1
<1>1. nextIn' >= nextIn - 1 /\ nextIn \in Int /\ nextIn' \in Int
  BY NumberFact DEF Elapse, Amounts
<1>2. row' = row /\ late \in Int /\ (row = "queued" => late' \in Int /\ late' <= late + 1)
  BY NumberFact DEF Elapse, Amounts, Least
<1> QED
  BY <1>1, <1>2 DEF OnTime, Within

LEMMA RunEndsFact ==
  ASSUME Amounts, PollingKeepsUp, RunEnds
  PROVE  late' \in Int /\ (row' = "queued" => late' < 0)
<1>1. CASE row' = "none" /\ late' = 0
  BY <1>1
<1>2. CASE attempt < MaxAttempts /\ row' = "queued" /\ late' = -RetryBackoff[attempt]
  <2>1. attempt \in 1..Len(RetryBackoff)
    BY <1>2, SchedulerAssumption DEF Amounts, MaxAttempts
  <2>2. RetryBackoff[attempt] \in Nat /\ RetryBackoff[attempt] > 0
    BY <2>1, SchedulerAssumption DEF PollingKeepsUp
  <2> QED
    BY <1>2, <2>2
<1> QED
  BY <1>1, <1>2 DEF RunEnds

\* In its own tick nothing is overdue beyond the grace, so nothing is skipped.
LEMMA InTime ==
  ASSUME Amounts, Punctual, PollingKeepsUp, ~interrupted
  PROVE  /\ phase = "queue" => nextIn >= -Grace
         /\ phase \in {"queue", "execute"} => ~Missed
<1>1. MaxTick + interval + spent <= Grace + 1 /\ MaxTick + interval + spent \in Int
  BY NumberFact DEF Amounts, PollingKeepsUp
<1>2. phase = "queue" => nextIn >= -Grace
  BY <1>1, NumberFact DEF Amounts, Punctual, OnTime, Within
<1>3. phase \in {"queue", "execute"} => ~Missed
  BY <1>1, NumberFact DEF Amounts, Punctual, OnTime, Within, Missed
<1> QED
  BY <1>2, <1>3

LEMMA PunctualStep ==
  ASSUME Amounts, Punctual, PollingKeepsUp, [Next]_vars
  PROVE  Punctual'
<1> USE NumberFact
<1>a. /\ MaxTick + interval - left \in Int /\ MaxTick + interval + spent \in Int
      /\ spent \in Nat /\ spent <= MaxTick /\ nextIn \in Int /\ late \in Int
      /\ interval \in Nat /\ left \in Nat
  BY DEF Amounts
<1>1. CASE UNCHANGED vars
  BY <1>1 DEF vars, Punctual, OnTime, Within
<1>2. CASE Elapse
  <2>1. CASE phase = "wait"
    <3>1. left' = left - 1 /\ MaxTick + interval - left' = (MaxTick + interval - left) + 1
      BY <1>2, <1>a, <2>1 DEF Elapse
    <3>2. ~interrupted => Within(nextIn', row', late', MaxTick + interval - left')
      BY <1>2, <1>a, <2>1, <3>1, WithinElapse DEF Punctual
    <3> QED
      BY <1>2, <1>a, <2>1, <3>1, <3>2 DEF Elapse, Punctual, OnTime
  <2>2. CASE phase = "off"
    BY <1>2, <2>2 DEF Elapse, Punctual
  <2>3. CASE phase \in {"queue", "execute", "todo"}
    <3>1. /\ spent' = spent + 1
          /\ MaxTick + interval + spent' = (MaxTick + interval + spent) + 1
      BY <1>2, <1>a, <2>3 DEF Elapse
    <3>2. phase = "todo" /\ ok => Within(nextIn', row', late', spent')
      BY <1>2, <1>a, <3>1, WithinElapse DEF Punctual
    <3>3. phase = "queue" /\ ~interrupted =>
            Within(nextIn', row', late', MaxTick + interval + spent')
      BY <1>2, <1>a, <3>1, WithinElapse DEF Punctual
    <3>4. phase = "execute" /\ ok => nextIn' > -spent'
      BY <1>2, <1>a, <3>1, WithinElapse DEF Punctual
    <3>5. phase = "execute" /\ ~interrupted /\ row = "queued" =>
            late' < MaxTick + interval + spent'
      BY <1>2, <1>a, <3>1, WithinElapse DEF Punctual
    <3> QED
      BY <1>2, <2>3, <3>2, <3>3, <3>4, <3>5 DEF Elapse, Punctual, OnTime
  <2> QED
    BY <2>1, <2>2, <2>3 DEF Amounts
<1>3. CASE Stop
  BY <1>3 DEF Stop, Punctual
<1>4. CASE Start
  BY <1>4 DEF Start, Punctual
<1>5. CASE QueueDue
  <2>1. nextIn' > -spent'
    <3>1. nextIn' \in Int /\ nextIn' > 0
      <4>1. DueLater => nextIn' \in Int /\ nextIn' > 0
        BY DiscardFact DEF DueLater
      <4>2. DueSkipped \/ DueConsumed => nextIn' \in 1..Period
        BY DEF DueSkipped, DueConsumed
      <4> QED
        BY <1>5, <4>1, <4>2, QueueDueFact
    <3>2. spent' = spent
      BY <1>5, QueueDueFact
    <3> QED
      BY <1>a, <3>1, <3>2
  <2>2. ASSUME ~interrupted, row' = "queued" PROVE late' < MaxTick + interval + spent
    <3>1. phase = "queue" /\ OnTime(MaxTick + interval + spent)
      BY <1>5, <2>2 DEF QueueDue, Punctual
    <3>2. late' = -nextIn \/ (row = "queued" /\ late' = late)
      BY <1>5, <2>2, QueueDueFact, DiscardFact DEF DueLater, DueSkipped, DueConsumed
    <3> QED
      BY <1>a, <3>1, <3>2 DEF OnTime, Within
  <2>3. phase' = "execute" /\ UNCHANGED <<interval, spent, ok, interrupted>>
    BY <1>5, QueueDueFact
  <2> QED
    BY <2>1, <2>2, <2>3 DEF Punctual
<1>6. CASE ExecuteReady
  <2>1. phase = "execute" /\ phase' = "todo" /\ UNCHANGED <<spent, ok>>
    BY <1>6 DEF ExecuteReady
  <2>2. nextIn' \in Int /\ nextIn' >= nextIn
    BY <1>6, <1>a, DiscardFact DEF ExecuteReady
  <2>3. row' = "queued" => late' < 0
    BY <1>6, <1>a, DiscardFact DEF ExecuteReady, PollingKeepsUp
  <2>4. ok => nextIn' > -spent
    BY <1>a, <2>1, <2>2 DEF Punctual
  <2>5. row' = "queued" => late' < spent
    BY <1>6, <1>a, <2>3, DiscardFact DEF ExecuteReady
  <2> QED
    BY <2>1, <2>4, <2>5 DEF Punctual, OnTime, Within
<1>7. CASE SweepOrphan
  BY <1>7 DEF SweepOrphan, Punctual, OnTime, Within
<1>8. CASE RequestFails
  BY <1>8 DEF RequestFails, Punctual
<1>9. CASE RunEnds
  <2>1. /\ late' \in Int /\ (row' = "queued" => late' < 0)
        /\ UNCHANGED <<phase, left, interval, spent, ok, interrupted, nextIn>>
    BY <1>9, RunEndsFact DEF RunEnds
  <2>2. phase = "wait" => MaxTick + interval - left >= 0
    BY <1>a DEF Punctual
  <2>3. MaxTick + interval + spent >= 0
    BY <1>a
  <2> QED
    BY <1>a, <2>1, <2>2, <2>3 DEF Punctual, OnTime, Within
<1>10. CASE TimerFires
  <2>1. /\ phase = "wait" /\ phase' = "queue" /\ left = 0 /\ spent' = 0
        /\ UNCHANGED <<interval, interrupted, nextIn, row, late>>
    BY <1>10 DEF TimerFires
  <2>2. MaxTick + interval - left = MaxTick + interval + spent'
    BY <1>a, <2>1
  <2> QED
    BY <2>1, <2>2 DEF Punctual, OnTime
<1>11. CASE EndTick
  <2>1. /\ phase = "todo" /\ phase' = "wait"
        /\ interrupted' = ~ok /\ UNCHANGED <<nextIn, row, late>>
    BY <1>11 DEF EndTick
  <2>2. PICK i \in Int : interval' = i /\ left' = i
    BY <1>11, AmountsStep DEF EndTick, Amounts
  <2>3. MaxTick + i - i = MaxTick /\ i <= i
    OBVIOUS
  <2>4. ok => Within(nextIn, row, late, MaxTick)
    BY <1>a, <2>1, WithinWeakens DEF Punctual, OnTime
  <2> QED
    BY <2>1, <2>2, <2>3, <2>4 DEF Punctual, OnTime
<1> QED
  BY <1>1, <1>2, <1>3, <1>4, <1>5, <1>6, <1>7, <1>8, <1>9, <1>10, <1>11 DEF Next

\* While a pause and two ticks exceed the grace by one unit of time at most,
\* only an interruption makes the scheduler skip an occurrence or a retry, for
\* every schedule.  With the numbers of the program, polling alone does.
THEOREM SkipsOnlyWhenInterrupted == PollingKeepsUp => (Spec => SkipsOnlyAfterInterruption)
<1> SUFFICES ASSUME PollingKeepsUp PROVE Spec => SkipsOnlyAfterInterruption
  OBVIOUS
<1>1. Init => Punctual
  BY DEF Init, Punctual
<1>2. ASSUME Amounts, Punctual, [Next]_vars, skip', QueueDue \/ ExecuteReady
      PROVE  interrupted
  <2> SUFFICES ASSUME ~interrupted PROVE FALSE
    OBVIOUS
  <2>1. CASE QueueDue
    <3>1. phase = "queue" /\ ~Missed /\ nextIn >= -Grace
      BY <1>2, <2>1, InTime DEF QueueDue
    <3>2. ~DueSkipped
      BY <1>2, <3>1, NumberFact DEF DueSkipped, Amounts
    <3>3. DueLater \/ DueConsumed
      BY <1>2, <2>1, <3>2, QueueDueFact
    <3>4. ~skip'
      BY <3>1, <3>3, Zenon DEF DueLater, DueConsumed, DiscardMissed
    <3> QED
      BY <1>2, <3>4
  <2>2. CASE ExecuteReady
    <3>1. ~Missed
      BY <1>2, <2>2, InTime DEF ExecuteReady
    <3>2. ~skip'
      BY <2>2, <3>1, Zenon DEF ExecuteReady, DiscardMissed
    <3> QED
      BY <1>2, <3>2
  <2> QED
    BY <1>2, <2>1, <2>2
<1>3. Amounts /\ Punctual /\ [Next]_vars => Punctual'
  BY PunctualStep
<1>4. Spec => [](Amounts /\ Punctual)
  BY <1>1, <1>3, TypesHold, PTL DEF Spec
<1> QED
  BY <1>2, <1>4, PTL DEF Spec, SkipsOnlyAfterInterruption
=============================================================================
