----------------------------- MODULE SessionInbox -----------------------------
(***************************************************************************)
(* What the durable chat messages of a session promise to their user, who  *)
(* knows nothing of processes, tokens, handles and lost answers: messages  *)
(* are accepted, possibly in place of others that are still queued, taken  *)
(* one at a time and only while nothing is unresolved, begun at most once  *)
(* while they are taken, and settled for good.  What was not begun can     *)
(* only be cancelled.                                                      *)
(*                                                                         *)
(* ChatMessageQueue is checked and proved to implement this module.        *)
(***************************************************************************)
CONSTANT Message

VARIABLES status,   \* where a message stands
          begun     \* the messages whose work was begun

inboxVars == <<status, begun>>

Settled == {"succeeded", "failed", "cancelled", "outcome_unknown"}

\* Messages that keep every other one of the session from being taken.
Unresolved == {"taken", "outcome_unknown", "legacy"}

InboxInit ==
  /\ status \in [Message -> {"none", "legacy", "queued"}]
  /\ begun = {}

Accept(m, replaced) ==
  /\ status[m] = "none"
  /\ \A n \in replaced : status[n] = "queued"
  /\ status' = [n \in Message |-> IF n = m THEN "queued"
                                  ELSE IF n \in replaced THEN "cancelled" ELSE status[n]]
  /\ UNCHANGED begun

Withdraw(m) ==
  /\ status[m] = "queued"
  /\ status' = [status EXCEPT ![m] = "cancelled"]
  /\ UNCHANGED begun

Take(m) ==
  /\ status[m] = "queued"
  /\ \A n \in Message \ {m} : status[n] \notin Unresolved
  /\ status' = [status EXCEPT ![m] = "taken"]
  /\ UNCHANGED begun

Begin(m) ==
  /\ status[m] = "taken" /\ m \notin begun
  /\ begun' = begun \union {m}
  /\ UNCHANGED status

Settle(m, outcome) ==
  /\ status[m] = "taken"
  /\ m \in begun \/ outcome = "cancelled"
  /\ status' = [status EXCEPT ![m] = outcome]
  /\ UNCHANGED begun

InboxNext ==
  \E m \in Message :
    \/ \E replaced \in SUBSET Message : Accept(m, replaced)
    \/ Withdraw(m) \/ Take(m) \/ Begin(m)
    \/ \E outcome \in Settled : Settle(m, outcome)

InboxSpec == InboxInit /\ [][InboxNext]_inboxVars
=============================================================================
