--------------------------- MODULE ChatMessageQueue ---------------------------
(***************************************************************************)
(* The durable chat messages of one session: lib/pi/durable-message-       *)
(* admission.ts (a submission is stored), -queue.ts (cancel, resume,       *)
(* promote), -execution.ts (claim, start, finish) and -row-state.ts (the   *)
(* comparison and the compare-and-set all of them share), on top of        *)
(* collaboration/lifecycle-transaction.ts.                                 *)
(*                                                                         *)
(* Every transaction holds the session row FOR UPDATE and is one action    *)
(* here.  What makes the code hard lies between the transactions: they     *)
(* start from rows that were read earlier, by any process, and the answer  *)
(* to a COMMIT can be lost, after which the caller must find out whether   *)
(* it took effect.  A process that dies is one that takes no more steps:   *)
(* its rows stay as they are, nothing takes them over.                     *)
(*                                                                         *)
(* Access may be lost at any time: the checks of the user's rights, of the *)
(* runtime's registration and of the rights behind the message can fail,   *)
(* as the database can, in every step that makes them, so they appear as   *)
(* the steps Fails.                                                        *)
(*                                                                         *)
(* Payloads are abstracted to the submission they come from (the server    *)
(* message id) and a content (the intent hash).  The lane of a message has *)
(* no influence on any transaction and is left out.                        *)
(***************************************************************************)
EXTENDS Naturals

CONSTANTS Messages,      \* client message ids
          Submissions, Controls, Attempts,   \* operations, each is done once
          None,
          MessageOf,     \* the client message id of a submission
          Content,       \* what is submitted under it
          Replaces,      \* the submission replaces what is queued
          Unpositioned,  \* may be queued from before there were positions
          Legacy         \* may be receipts without payload from before the queue

ASSUME OperationsAssumption ==
  /\ MessageOf \in [Submissions -> Messages]
  /\ Replaces \in [Submissions -> BOOLEAN]
  /\ DOMAIN Content = Submissions
ASSUME OldAssumption == Unpositioned \subseteq Messages /\ Legacy \subseteq Messages
ASSUME NoneAssumption ==
  None \notin Messages /\ None \notin Submissions /\ None \notin Attempts

VARIABLES
  row,        \* pi_message_delivery_receipts of the session
  counter,    \* message_queue_ordinal
  apc, amsg,  \* an execution attempt and its message
  ahold,      \* the state of the message its handle or claim stands for
  cpc, ckind, cmsg,  \* a queue control and its message
  cset, cvec, \* the rows it has read, and after its commit has written
  spc,        \* a submission
  sset, svec, \* the rows it replaces, and after its commit has written
  begun       \* history: messages whose execution was started

attemptVars == <<apc, amsg, ahold, begun>>
controlVars == <<cpc, ckind, cmsg, cset, cvec>>
submitVars  == <<spc, sset, svec>>
vars == <<row, counter, attemptVars, controlVars, submitVars>>

Outcomes == {"succeeded", "failed", "cancelled", "outcome_unknown"}
Phases == {"none", "legacy", "queued", "dispatching", "running"} \union Outcomes
Kinds == {"cancel", "resume", "promote"}

Row == [phase : Phases, rev : Nat, token : Attempts \union {None}, ord : Nat,
        disp : {"none", "ready", "suspended"}, by : Submissions \union {None}]

OldRow(p) == [phase |-> p, rev |-> IF p = "queued" THEN 1 ELSE 0, token |-> None,
              ord |-> 0, disp |-> "none", by |-> None]
Absent == OldRow("none")

TypeOK ==
  /\ row \in [Messages -> Row]
  /\ counter \in Nat
  /\ apc \in [Attempts -> {"idle", "held", "claimLost", "claimed", "dispatching", "startLost",
                           "started", "work", "settling", "cancelling", "abandon", "ended"}]
  /\ amsg \in [Attempts -> Messages \union {None}]
  /\ ahold \in [Attempts -> Row]
  /\ cpc \in [Controls -> {"idle", "held", "lost", "done", "failed"}]
  /\ ckind \in [Controls -> Kinds]
  /\ cmsg \in [Controls -> Messages \union {None}]
  /\ cset \in [Controls -> SUBSET Messages]
  /\ cvec \in [Controls -> [Messages -> Row]]
  /\ spc \in [Submissions -> {"idle", "prepared", "lost", "accepted", "refused", "uncertain"}]
  /\ sset \in [Submissions -> SUBSET Messages]
  /\ svec \in [Submissions -> [Messages -> Row]]
  /\ begun \subseteq Messages

Init ==
  /\ \E U \in SUBSET Unpositioned, L \in SUBSET Legacy :
       row = [m \in Messages |-> OldRow(IF m \in U THEN "queued"
                                       ELSE IF m \in L THEN "legacy" ELSE "none")]
  /\ counter = 0
  /\ apc = [e \in Attempts |-> "idle"]
  /\ amsg = [e \in Attempts |-> None]
  /\ ahold = [e \in Attempts |-> Absent]
  /\ cpc = [c \in Controls |-> "idle"]
  /\ ckind = [c \in Controls |-> "cancel"]
  /\ cmsg = [c \in Controls |-> None]
  /\ cset = [c \in Controls |-> {}]
  /\ cvec = [c \in Controls |-> [m \in Messages |-> Absent]]
  /\ spc = [s \in Submissions |-> "idle"]
  /\ sset = [s \in Submissions |-> {}]
  /\ svec = [s \in Submissions |-> [m \in Messages |-> Absent]]
  /\ begun = {}

-----------------------------------------------------------------------------
(* Rows *)

Queued(m) == row[m].phase = "queued" /\ row[m].token = None

\* Mutant: only the rows of S are kept.
OnlyThese(S, rows) == [m \in S |-> rows[m]]

\* The rows S of a vector; the others do not matter.
Only(S, rows) == [m \in Messages |-> IF m \in S THEN rows[m] ELSE Absent]

\* sameDurableChatMessageState, for every row an operation is about.
SameRows(S, vec) == \A m \in S : row[m] = vec[m]

\* Every transition of a row counts its revision.
Next1(r, phase) == [r EXCEPT !.phase = phase, !.rev = @ + 1]

-----------------------------------------------------------------------------
(* Executions: durable-message-execution.ts *)

\* Mutant: the order is not looked at.
AvailableInAnyOrder(m) ==
  /\ row[m].phase = "queued" => row[m].disp = "ready"
  /\ \A n \in Messages \ {m} :
       row[n].phase \notin {"dispatching", "running", "outcome_unknown", "legacy"}

\* assertSessionAvailable: nothing else is executed or unresolved, and no older
\* message is ready before this one.
Available(m) ==
  /\ row[m].phase = "queued" => row[m].disp = "ready"
  /\ \A n \in Messages \ {m} :
       /\ row[n].phase \notin {"dispatching", "running", "outcome_unknown", "legacy"}
       /\ row[n].phase = "queued" =>
            row[n].ord # 0 /\ ~(row[n].disp = "ready" /\ row[n].ord < row[m].ord)

\* The row after the next transition of an attempt.  The token is drawn for
\* each claim.
Moved(e, phase) == [Next1(ahold[e], phase) EXCEPT !.token = e]

\* Mutant: the transition does not compare the row with the handle.
TransitionOfAnyRow(e, phase, acknowledged, lost) ==
  /\ Available(amsg[e])
  /\ \/ /\ row' = [row EXCEPT ![amsg[e]] = Moved(e, phase)]
        /\ ahold' = [ahold EXCEPT ![e] = Moved(e, phase)]
        /\ apc' = [apc EXCEPT ![e] = acknowledged]
     \/ /\ row' \in {row, [row EXCEPT ![amsg[e]] = Moved(e, phase)]}
        /\ apc' = [apc EXCEPT ![e] = lost]
        /\ UNCHANGED ahold

\* transitionWithUse: the row is as the handle says and the session is
\* available.  COMMIT is answered, or the answer is lost and the transaction
\* committed or not.
Transition(e, phase, acknowledged, lost) ==
  /\ row[amsg[e]] = ahold[e]
  /\ Available(amsg[e])
  /\ \/ /\ row' = [row EXCEPT ![amsg[e]] = Moved(e, phase)]
        /\ ahold' = [ahold EXCEPT ![e] = Moved(e, phase)]
        /\ apc' = [apc EXCEPT ![e] = acknowledged]
     \/ /\ row' \in {row, [row EXCEPT ![amsg[e]] = Moved(e, phase)]}
        /\ apc' = [apc EXCEPT ![e] = lost]
        /\ UNCHANGED ahold

\* recoverCommitted: the attempt goes on with its claim only if the row is
\* exactly what it has written.
RecoverCommitted(e, phase, acknowledged, otherwise) ==
  /\ \/ /\ row[amsg[e]] = Moved(e, phase)
        /\ ahold' = [ahold EXCEPT ![e] = Moved(e, phase)]
        /\ apc' = [apc EXCEPT ![e] = acknowledged]
     \/ /\ apc' = [apc EXCEPT ![e] = otherwise]
        /\ UNCHANGED ahold
  /\ UNCHANGED row

\* A runtime reads the message it is about to execute.
Hold(e, m) ==
  /\ apc[e] = "idle"
  /\ Queued(m)
  /\ apc' = [apc EXCEPT ![e] = "held"]
  /\ amsg' = [amsg EXCEPT ![e] = m]
  /\ ahold' = [ahold EXCEPT ![e] = row[m]]
  /\ UNCHANGED <<row, counter, begun, controlVars, submitVars>>

\* claimOwnedChatMessageExecution
Claim(e) ==
  /\ \/ apc[e] = "held" /\ Transition(e, "dispatching", "claimed", "claimLost")
     \/ apc[e] = "claimLost" /\ RecoverCommitted(e, "dispatching", "claimed", "ended")
  /\ UNCHANGED <<counter, amsg, begun, controlVars, submitVars>>

\* startClaimedChatMessageExecution
StartClaimed(e) ==
  /\ \/ apc[e] = "dispatching" /\ Transition(e, "running", "started", "startLost")
     \/ apc[e] = "startLost" /\ RecoverCommitted(e, "running", "started", "abandon")
  /\ UNCHANGED <<counter, amsg, begun, controlVars, submitVars>>

\* A transition is denied or in conflict, or fails and is rolled back.  A
\* runtime that cannot start what it has claimed cancels it.
TransitionFails(e) ==
  /\ \/ apc[e] = "held" /\ apc' = [apc EXCEPT ![e] = "ended"]
     \/ apc[e] = "dispatching" /\ apc' = [apc EXCEPT ![e] = "abandon"]
  /\ UNCHANGED <<row, counter, amsg, ahold, begun, controlVars, submitVars>>

\* confirmCommittedUse, after the claim and after the start: rights, owner and
\* row are read afresh.  Only now is the claim handed out, or the work begun.
ConfirmUse(e) ==
  /\ apc[e] \in {"claimed", "started"}
  /\ row[amsg[e]] = ahold[e]
  /\ \/ /\ apc[e] = "claimed"
        /\ apc' = [apc EXCEPT ![e] = "dispatching"]
        /\ UNCHANGED begun
     \/ /\ apc[e] = "started"
        /\ apc' = [apc EXCEPT ![e] = "work"]
        /\ begun' = begun \union {amsg[e]}
  /\ UNCHANGED <<row, counter, amsg, ahold, controlVars, submitVars>>

\* Something has changed, or cannot be read.
ConfirmFails(e) ==
  /\ apc[e] \in {"claimed", "started"}
  /\ apc' = [apc EXCEPT ![e] = "cancelling"]
  /\ UNCHANGED <<row, counter, amsg, ahold, begun, controlVars, submitVars>>

\* Mutant: what could not be started is settled as failed.
UnstartedFails(e) ==
  /\ apc[e] \in {"cancelling", "abandon"}
  /\ \/ row[amsg[e]] = ahold[e] /\ row' = [row EXCEPT ![amsg[e]] = Moved(e, "failed")]
     \/ UNCHANGED row
  /\ apc' = [apc EXCEPT ![e] = "ended"]
  /\ UNCHANGED <<counter, amsg, ahold, begun, controlVars, submitVars>>

\* finishClaimedChatMessageExecution(cancelled) before the work has begun: it
\* takes effect, or the row is left to an explicit recovery.
CancelUnstarted(e) ==
  /\ apc[e] \in {"cancelling", "abandon"}
  /\ \/ row[amsg[e]] = ahold[e] /\ row' = [row EXCEPT ![amsg[e]] = Moved(e, "cancelled")]
     \/ UNCHANGED row
  /\ apc' = [apc EXCEPT ![e] = "ended"]
  /\ UNCHANGED <<counter, amsg, ahold, begun, controlVars, submitVars>>

\* Mutants of the settlement: the last writer wins; a failure is retried.
SettleAnyway(e, outcome) ==
  /\ apc[e] \in {"work", "settling"}
  /\ row' = [row EXCEPT ![amsg[e]] = Moved(e, outcome)]
  /\ apc' \in {[apc EXCEPT ![e] = "ended"], [apc EXCEPT ![e] = "settling"]}
  /\ UNCHANGED <<counter, amsg, ahold, begun, controlVars, submitVars>>
SettleRequeuesFailure(e, outcome) ==
  /\ apc[e] \in {"work", "settling"}
  /\ row[amsg[e]] = ahold[e]
  /\ row' = [row EXCEPT ![amsg[e]] =
               IF outcome = "failed" THEN [Next1(ahold[e], "queued") EXCEPT !.token = None]
                                     ELSE Moved(e, outcome)]
  /\ apc' \in {[apc EXCEPT ![e] = "ended"], [apc EXCEPT ![e] = "settling"]}
  /\ UNCHANGED <<counter, amsg, ahold, begun, controlVars, submitVars>>

\* finishClaimedChatMessageExecution of a running message, without regard to
\* rights.  A settlement that could not be confirmed may be tried again, with
\* another outcome, by another handler of the runtime.
Settle(e, outcome) ==
  /\ apc[e] \in {"work", "settling"}
  /\ \/ /\ row[amsg[e]] = ahold[e]
        /\ row' = [row EXCEPT ![amsg[e]] = Moved(e, outcome)]
        /\ apc' \in {[apc EXCEPT ![e] = "ended"], [apc EXCEPT ![e] = "settling"]}
     \/ /\ row[amsg[e]] = Moved(e, outcome)
        /\ apc' = [apc EXCEPT ![e] = "ended"]
        /\ UNCHANGED row
     \/ apc' = [apc EXCEPT ![e] = "settling"] /\ UNCHANGED row
  /\ UNCHANGED <<counter, amsg, ahold, begun, controlVars, submitVars>>

-----------------------------------------------------------------------------
(* Controls: durable-message-queue.ts *)

\* A queued message is read and a control of it requested.
ReadForControl(c, kind, m) ==
  /\ cpc[c] = "idle"
  /\ Queued(m)
  /\ cpc' = [cpc EXCEPT ![c] = "held"]
  /\ ckind' = [ckind EXCEPT ![c] = kind]
  /\ cmsg' = [cmsg EXCEPT ![c] = m]
  /\ cset' = [cset EXCEPT ![c] = {m}]
  /\ cvec' = [cvec EXCEPT ![c] = Only({m}, row)]
  /\ UNCHANGED <<row, counter, attemptVars, submitVars>>

\* The ready messages a promoted one overtakes.
Older(m) ==
  {n \in Messages : Queued(n) /\ row[n].disp = "ready" /\ row[n].ord < row[m].ord}

\* planMutations: what a control asks of the queue, and the queue after it.
Possible(kind, m) ==
  \/ kind = "cancel"
  \/ kind = "resume" /\ row[m].disp # "ready"
  \/ /\ kind = "promote"
     /\ \A n \in Messages : row[n].phase = "queued" => row[n].ord # 0

Affected(kind, m) == IF kind = "promote" THEN {m} \union Older(m) ELSE {m}

Position(kind, m) ==
  IF kind = "resume" /\ row[m].ord = 0 THEN counter + 1 ELSE row[m].ord

Planned(kind, m) == [n \in Messages |->
  IF n = m
    THEN IF kind = "cancel" THEN Next1(row[m], "cancelled")
         ELSE [Next1(row[m], "queued") EXCEPT !.disp = "ready", !.ord = Position(kind, m)]
  ELSE IF n \in Affected(kind, m)
    THEN [Next1(row[n], "queued") EXCEPT !.disp = "suspended"]
  ELSE row[n]]

\* controlQueued: the message is as it was read and still queued, and it and
\* all it overtakes change at once.
ControlCommits(c) ==
  LET m == cmsg[c]
      rows == Planned(ckind[c], m)
  IN /\ cpc[c] = "held"
     /\ SameRows(cset[c], cvec[c]) /\ Queued(m)
     /\ Possible(ckind[c], m)
     /\ cset' = [cset EXCEPT ![c] = Affected(ckind[c], m)]
     /\ cvec' = [cvec EXCEPT ![c] = Only(Affected(ckind[c], m), rows)]
     /\ \/ /\ row' = rows
           /\ counter' = IF rows[m].ord > counter THEN rows[m].ord ELSE counter
           /\ cpc' \in {[cpc EXCEPT ![c] = "done"], [cpc EXCEPT ![c] = "lost"]}
        \/ UNCHANGED <<row, counter>> /\ cpc' = [cpc EXCEPT ![c] = "lost"]
     /\ UNCHANGED <<ckind, cmsg, attemptVars, submitVars>>

\* Denied, in conflict, or failed.
ControlFails(c) ==
  /\ cpc[c] = "held"
  /\ cpc' = [cpc EXCEPT ![c] = "failed"]
  /\ UNCHANGED <<row, counter, ckind, cmsg, cset, cvec, attemptVars, submitVars>>

\* Mutant: a lost answer is taken for a success.
ControlTrustsCommit(c) ==
  /\ cpc[c] = "lost"
  /\ cpc' = [cpc EXCEPT ![c] = "done"]
  /\ UNCHANGED <<row, counter, ckind, cmsg, cset, cvec, attemptVars, submitVars>>

\* recoverCommitted: the change is reported only if every row it wrote is as
\* it was written.
ControlRecovers(c) ==
  /\ cpc[c] = "lost"
  /\ \/ SameRows(cset[c], cvec[c]) /\ cpc' = [cpc EXCEPT ![c] = "done"]
     \/ cpc' = [cpc EXCEPT ![c] = "failed"]
  /\ UNCHANGED <<row, counter, ckind, cmsg, cset, cvec, attemptVars, submitVars>>

-----------------------------------------------------------------------------
(* Submissions: durable-message-admission.ts *)

\* The stored message has the content of the submission.
SameContent(s) ==
  LET t == row[MessageOf[s]].by IN t # None /\ Content[t] = Content[s]

\* prepareChatMessageAdmission: a message that is already stored is replayed.
\* A replacement then reads what is queued.
Prepare(s) ==
  /\ spc[s] = "idle"
  /\ IF row[MessageOf[s]].phase = "none"
       THEN /\ spc' = [spc EXCEPT ![s] = "prepared"]
            /\ sset' = [sset EXCEPT ![s] = IF Replaces[s] THEN {m \in Messages : Queued(m)} ELSE {}]
            /\ svec' = [svec EXCEPT ![s] = Only(sset'[s], row)]
       ELSE /\ spc' = [spc EXCEPT ![s] = IF SameContent(s) THEN "accepted" ELSE "refused"]
            /\ UNCHANGED <<sset, svec>>
  /\ UNCHANGED <<row, counter, attemptVars, controlVars>>

\* The rows after the submission: it is queued last, and what it replaces is
\* cancelled.
Stored(s) == [m \in Messages |->
  IF m = MessageOf[s]
    THEN [phase |-> "queued", rev |-> 1, token |-> None, ord |-> counter + 1,
          disp |-> "ready", by |-> s]
  ELSE IF m \in sset[s] THEN Next1(row[m], "cancelled")
  ELSE row[m]]

\* commitPreparedChatMessageAdmission: the message and the exact replacement
\* are committed together.
Admit(s) ==
  LET S == sset[s] \union {MessageOf[s]}
  IN /\ spc[s] = "prepared"
     /\ row[MessageOf[s]].phase = "none"
     /\ SameRows(sset[s], svec[s])
     /\ sset' = [sset EXCEPT ![s] = S]
     /\ svec' = [svec EXCEPT ![s] = Only(S, Stored(s))]
     /\ \/ /\ row' = Stored(s)
           /\ counter' = counter + 1
           /\ spc' \in {[spc EXCEPT ![s] = "accepted"], [spc EXCEPT ![s] = "lost"]}
        \/ UNCHANGED <<row, counter>> /\ spc' = [spc EXCEPT ![s] = "lost"]
     /\ UNCHANGED <<attemptVars, controlVars>>

\* verifyReplacement: what a replay was to replace is cancelled.
ReplacedAlready(s) ==
  \A m \in sset[s] \ {MessageOf[s]} : row[m] = Next1(svec[s][m], "cancelled")

\* Mutant: the replacement of a replay is not verified.
ReplayUnverified(s) ==
  /\ spc[s] = "prepared"
  /\ row[MessageOf[s]].phase # "none"
  /\ spc' = [spc EXCEPT ![s] = IF SameContent(s) THEN "accepted" ELSE "refused"]
  /\ UNCHANGED <<row, counter, sset, svec, attemptVars, controlVars>>

\* The message was stored by another submission meanwhile.
Replay(s) ==
  /\ spc[s] = "prepared"
  /\ row[MessageOf[s]].phase # "none"
  /\ spc' = [spc EXCEPT ![s] =
               IF SameContent(s) /\ ReplacedAlready(s) THEN "accepted" ELSE "refused"]
  /\ UNCHANGED <<row, counter, sset, svec, attemptVars, controlVars>>

\* Denied, in conflict with a change of the queue, or failed.
AdmissionFails(s) ==
  /\ spc[s] = "prepared"
  /\ spc' = [spc EXCEPT ![s] = "refused"]
  /\ UNCHANGED <<row, counter, sset, svec, attemptVars, controlVars>>

\* Mutant: any stored message confirms a lost answer.
AdmissionRecoversAny(s) ==
  /\ spc[s] = "lost"
  /\ spc' = [spc EXCEPT ![s] =
               IF row[MessageOf[s]].phase # "none" THEN "accepted" ELSE "uncertain"]
  /\ UNCHANGED <<row, counter, sset, svec, attemptVars, controlVars>>

\* The answer to COMMIT was lost: accepted only if the message, with the server
\* id of this submission, and its replacement are as they were written.
AdmissionRecovers(s) ==
  /\ spc[s] = "lost"
  /\ \/ SameRows(sset[s], svec[s]) /\ spc' = [spc EXCEPT ![s] = "accepted"]
     \/ spc' = [spc EXCEPT ![s] = "uncertain"]
  /\ UNCHANGED <<row, counter, sset, svec, attemptVars, controlVars>>

-----------------------------------------------------------------------------

Execution(e) ==
  \/ \E m \in Messages : Hold(e, m)
  \/ Claim(e) \/ StartClaimed(e) \/ TransitionFails(e)
  \/ ConfirmUse(e) \/ ConfirmFails(e) \/ CancelUnstarted(e)
  \/ \E outcome \in Outcomes : Settle(e, outcome)

Control(c) ==
  \/ \E kind \in Kinds, m \in Messages : ReadForControl(c, kind, m)
  \/ ControlCommits(c) \/ ControlFails(c) \/ ControlRecovers(c)

Submission(s) ==
  Prepare(s) \/ Admit(s) \/ Replay(s) \/ AdmissionFails(s) \/ AdmissionRecovers(s)

Next ==
  \/ \E e \in Attempts : Execution(e)
  \/ \E c \in Controls : Control(c)
  \/ \E s \in Submissions : Submission(s)

Spec == Init /\ [][Next]_vars

-----------------------------------------------------------------------------
(* Properties *)

\* A message is worked on undisturbed.  Nobody else moves its row: neither a
\* control with an old handle, nor an attempt that lost the answer to its own
\* COMMIT, nor the failed start of another attempt.  And it is alone in its
\* session: no other message is claimed or running, in any process, and none has
\* an unknown outcome.
WorksAlone ==
  \A e \in Attempts : apc[e] = "work" =>
    /\ row[amsg[e]] = ahold[e]
    /\ \A m \in Messages \ {amsg[e]} :
         row[m].phase \notin {"dispatching", "running", "outcome_unknown", "legacy"}

\* The work on a message is begun at most once, whatever answers are lost.
StartedOnce ==
  [][\A e \in Attempts : apc[e] # "work" /\ apc'[e] = "work" => amsg[e] \notin begun]_vars

\* A settled message is never moved again: no late settlement, control or
\* retry overwrites its outcome.
SettledStays ==
  [][\A m \in Messages : row[m].phase \in Outcomes => row'[m] = row[m]]_vars

\* Messages are begun in the order they were accepted in: none is overtaken by
\* a later one unless a control has moved it.
UntouchedFirst ==
  \A m, n \in Messages :
    (row[m].phase = "queued" /\ row[m].rev = 1 /\ row[m].ord # 0 /\ row[n].ord > row[m].ord)
      => n \notin begun

\* A cancellation that was reported to the user holds: the message was not
\* begun and never will be, even when the report rests on a recovery.
CancelHolds ==
  \A c \in Controls : (cpc[c] = "done" /\ ckind[c] = "cancel") =>
    row[cmsg[c]].phase = "cancelled" /\ cmsg[c] \notin begun

\* An accepted replacement has cancelled all it was to replace, none of which
\* was begun or will be.
ReplacedNeverRuns ==
  \A s \in Submissions : spc[s] = "accepted" =>
    \A m \in sset[s] \ {MessageOf[s]} : row[m].phase = "cancelled" /\ m \notin begun

\* A submission that was reported as accepted is stored with its own content,
\* though others use the same client message id.
AcceptedIsStored ==
  \A s \in Submissions : spc[s] = "accepted" => SameContent(s)

\* What the user of the session sees: a message that is claimed or running, by
\* whatever process and attempt, has been taken.
Inbox == INSTANCE SessionInbox
  WITH Message <- Messages,
       status <- [m \in Messages |-> IF row[m].phase \in {"dispatching", "running"}
                                      THEN "taken" ELSE row[m].phase]

\* Claims, tokens, lost answers and recoveries implement an inbox from which
\* messages are taken one at a time, begun at most once and settled for good.
ImplementsInbox == Inbox!InboxSpec
=============================================================================
