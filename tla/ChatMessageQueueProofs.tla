----------------------- MODULE ChatMessageQueueProofs -----------------------
(***************************************************************************)
(* The execution of durable messages, proved for any number of messages,   *)
(* attempts, controls and submissions.                                     *)
(*                                                                         *)
(* The token drawn for a claim is what keeps others from the row: Foreign  *)
(* says that a step leaves alone every row that carries, or comes to       *)
(* carry, the token of another attempt.  Holding says what an attempt at   *)
(* each point knows of its row.                                            *)
(***************************************************************************)
EXTENDS ChatMessageQueue, TLAPS

USE DEF attemptVars, controlVars, submitVars

-----------------------------------------------------------------------------
(* Types *)

LEMMA RowTypes ==
  ASSUME NEW r \in Row, NEW p \in Phases
  PROVE  /\ Next1(r, p) \in Row
         /\ Next1(r, p).phase = p /\ Next1(r, p).token = r.token /\ Next1(r, p).by = r.by
<1>1. PICK k \in Nat : k = r.rev + 1
  BY DEF Row
<1>2. /\ [r EXCEPT !.phase = p, !.rev = k] \in Row
      /\ [r EXCEPT !.phase = p, !.rev = k].phase = p
      /\ [r EXCEPT !.phase = p, !.rev = k].token = r.token
      /\ [r EXCEPT !.phase = p, !.rev = k].by = r.by
  BY DEF Row
<1>3. Next1(r, p) = [r EXCEPT !.phase = p, !.rev = k]
  BY <1>1, Zenon DEF Next1
<1> QED
  BY <1>2, <1>3

LEMMA MovedTypes ==
  ASSUME NEW e \in Attempts, ahold[e] \in Row, NEW p \in Phases
  PROVE  /\ Moved(e, p) \in Row
         /\ Moved(e, p).phase = p /\ Moved(e, p).token = e /\ Moved(e, p).by = ahold[e].by
<1>1. ASSUME NEW n \in Row
      PROVE  /\ [n EXCEPT !.token = e] \in Row
             /\ [n EXCEPT !.token = e].phase = n.phase
             /\ [n EXCEPT !.token = e].token = e
             /\ [n EXCEPT !.token = e].by = n.by
  BY DEF Row
<1>2. Moved(e, p) = [Next1(ahold[e], p) EXCEPT !.token = e]
  BY Zenon DEF Moved
<1> QED
  BY <1>1, <1>2, RowTypes

LEMMA AbsentTypes ==
  ASSUME NEW p \in Phases
  PROVE  OldRow(p) \in Row /\ OldRow(p).phase = p /\ OldRow(p).token = None /\ OldRow(p).by = None
  BY DEF OldRow, Row

LEMMA OnlyTypes ==
  ASSUME NEW S, NEW rows \in [Messages -> Row]
  PROVE  /\ Only(S, rows) \in [Messages -> Row]
         /\ \A m \in Messages : m \in S => Only(S, rows)[m] = rows[m]
<1>1. Absent \in Row
  BY AbsentTypes DEF Absent, Phases
<1> QED
  BY <1>1 DEF Only

LEMMA PlannedTypes ==
  ASSUME TypeOK, NEW kind \in Kinds, NEW m \in Messages
  PROVE  Planned(kind, m) \in [Messages -> Row]
<1>1. Position(kind, m) \in Nat
  BY DEF Position, TypeOK, Row
<1>2. ASSUME NEW n \in Messages PROVE Planned(kind, m)[n] \in Row
  <2>1. row[n] \in Row /\ row[m] \in Row
    BY DEF TypeOK
  <2>2. Next1(row[m], "cancelled") \in Row /\ Next1(row[m], "queued") \in Row
        /\ Next1(row[n], "queued") \in Row
    BY <2>1, RowTypes DEF Phases, Outcomes
  <2>3. [Next1(row[m], "queued") EXCEPT !.disp = "ready", !.ord = Position(kind, m)] \in Row
    BY <1>1, <2>2 DEF Row
  <2>4. [Next1(row[n], "queued") EXCEPT !.disp = "suspended"] \in Row
    BY <2>2 DEF Row
  <2> QED
    BY <2>1, <2>2, <2>3, <2>4 DEF Planned
<1> QED
  BY <1>2 DEF Planned

LEMMA StoredTypes ==
  ASSUME TypeOK, NEW s \in Submissions
  PROVE  Stored(s) \in [Messages -> Row]
<1>1. ASSUME NEW m \in Messages PROVE Stored(s)[m] \in Row
  <2>1. row[m] \in Row /\ Next1(row[m], "cancelled") \in Row
    BY RowTypes DEF TypeOK, Phases, Outcomes
  <2>2. [phase |-> "queued", rev |-> 1, token |-> None, ord |-> counter + 1,
         disp |-> "ready", by |-> s] \in Row
    BY DEF Row, TypeOK, Phases
  <2> QED
    BY <2>1, <2>2 DEF Stored
<1> QED
  BY <1>1 DEF Stored

LEMMA InitTypes == Init => TypeOK
<1> SUFFICES ASSUME Init PROVE TypeOK
  OBVIOUS
<1>1. Absent \in Row /\ OldRow("none") \in Row /\ OldRow("queued") \in Row /\ OldRow("legacy") \in Row
  BY AbsentTypes DEF Absent, Phases
<1>2. row \in [Messages -> Row]
  BY <1>1 DEF Init
<1> QED
  BY <1>1, <1>2 DEF Init, TypeOK, Kinds

-----------------------------------------------------------------------------
(* What an attempt knows of its row *)

Owning == {"claimed", "dispatching", "started", "work", "cancelling"}

Holding(e) ==
  /\ apc[e] # "idle" => amsg[e] \in Messages
  /\ apc[e] \in {"held", "claimLost"} => ahold[e].phase = "queued" /\ ahold[e].token = None
  /\ apc[e] \notin {"idle", "held", "claimLost", "ended"} => ahold[e].token = e
  /\ apc[e] \in {"claimed", "dispatching", "startLost", "abandon"} => ahold[e].phase = "dispatching"
  /\ apc[e] \in {"started", "work", "settling"} => ahold[e].phase = "running"
  /\ apc[e] = "cancelling" => ahold[e].phase \in {"dispatching", "running"}
  /\ apc[e] \in Owning => row[amsg[e]] = ahold[e]
  /\ apc[e] \in {"startLost", "abandon"} => row[amsg[e]] \in {ahold[e], Moved(e, "running")}

HoldingOK == \A e \in Attempts : Holding(e)

\* A message that was not claimed has no token, one that was not stored no submission.
Unclaimed == \A m \in Messages :
  /\ row[m].phase \in {"none", "legacy", "queued"} => row[m].token = None
  /\ row[m].phase = "none" => row[m].by = None

\* A prepared replacement is about queued messages only.
Replacing == \A s \in Submissions : spc[s] = "prepared" =>
  \A m \in sset[s] : svec[s][m].phase = "queued" /\ svec[s][m].token = None

-----------------------------------------------------------------------------
(* How a step of an attempt changes the session *)

\* The transition an attempt may make at each point.
Turn(e, p) ==
  /\ row[amsg[e]] = ahold[e]
  /\ \/ apc[e] = "held" /\ p = "dispatching" /\ Available(amsg[e])
     \/ apc[e] = "dispatching" /\ p = "running" /\ Available(amsg[e])
     \/ apc[e] \in {"cancelling", "abandon"} /\ p = "cancelled"
     \/ apc[e] \in {"work", "settling"} /\ p \in Outcomes

Effect(e) ==
  /\ \A f \in Attempts \ {e} : apc'[f] = apc[f] /\ amsg'[f] = amsg[f] /\ ahold'[f] = ahold[f]
  /\ UNCHANGED <<counter, controlVars, submitVars>>
  /\ \/ UNCHANGED row
     \/ \E p \in Phases : Turn(e, p) /\ row' = [row EXCEPT ![amsg[e]] = Moved(e, p)]

LEMMA TransitionEffect ==
  ASSUME TypeOK, HoldingOK, NEW e \in Attempts,
         NEW phase \in {"dispatching", "running"}, NEW acknowledged, NEW lost,
         \/ apc[e] = "held" /\ phase = "dispatching" /\ acknowledged = "claimed" /\ lost = "claimLost"
         \/ apc[e] = "dispatching" /\ phase = "running" /\ acknowledged = "started" /\ lost = "startLost",
         Transition(e, phase, acknowledged, lost),
         UNCHANGED <<counter, amsg, begun, controlVars, submitVars>>
  PROVE  TypeOK' /\ Effect(e) /\ Holding(e)'
<1>1. amsg[e] \in Messages /\ ahold[e] \in Row
  BY DEF HoldingOK, Holding, TypeOK
<1>2. phase \in Phases /\ Moved(e, phase) \in Row /\ Moved(e, phase).phase = phase
      /\ Moved(e, phase).token = e
  BY <1>1, MovedTypes DEF Phases
<1>3. Turn(e, phase)
  BY DEF Transition, Turn
<1>4. row' \in {row, [row EXCEPT ![amsg[e]] = Moved(e, phase)]}
  BY DEF Transition
<1>5. row' \in [Messages -> Row]
  BY <1>1, <1>2, <1>4 DEF TypeOK
<1>6. ahold' \in [Attempts -> Row]
  BY <1>2 DEF Transition, TypeOK
<1>7. apc' \in {[apc EXCEPT ![e] = acknowledged], [apc EXCEPT ![e] = lost]}
  BY DEF Transition
<1>8. TypeOK'
  BY <1>5, <1>6, <1>7 DEF TypeOK
<1>9. Effect(e)
  BY <1>2, <1>3, <1>4, <1>7 DEF Effect, Transition, TypeOK
<1>10. Holding(e)'
  <2>1. CASE /\ row' = [row EXCEPT ![amsg[e]] = Moved(e, phase)]
             /\ ahold' = [ahold EXCEPT ![e] = Moved(e, phase)]
             /\ apc' = [apc EXCEPT ![e] = acknowledged]
    <3>1. ahold'[e] = Moved(e, phase) /\ row'[amsg[e]] = Moved(e, phase) /\ amsg'[e] = amsg[e]
          /\ apc'[e] = acknowledged
      BY <1>1, <2>1 DEF TypeOK
    <3> QED
      BY <1>1, <1>2, <3>1 DEF Holding, Owning
  <2>2. CASE /\ row' \in {row, [row EXCEPT ![amsg[e]] = Moved(e, phase)]}
             /\ apc' = [apc EXCEPT ![e] = lost]
             /\ UNCHANGED ahold
    <3>1. /\ ahold'[e] = ahold[e] /\ amsg'[e] = amsg[e] /\ apc'[e] = lost
          /\ row'[amsg[e]] \in {ahold[e], Moved(e, phase)}
          /\ Moved(e, phase)' = Moved(e, phase)
      BY <1>1, <2>2 DEF TypeOK, Transition, Moved, Next1
    <3> QED
      BY <1>1, <1>2, <3>1 DEF HoldingOK, Holding, Owning
  <2> QED
    BY <2>1, <2>2 DEF Transition
<1> QED
  BY <1>8, <1>9, <1>10

LEMMA RecoverEffect ==
  ASSUME TypeOK, HoldingOK, NEW e \in Attempts,
         NEW phase \in {"dispatching", "running"}, NEW acknowledged, NEW otherwise,
         \/ apc[e] = "claimLost" /\ phase = "dispatching" /\ acknowledged = "claimed" /\ otherwise = "ended"
         \/ apc[e] = "startLost" /\ phase = "running" /\ acknowledged = "started" /\ otherwise = "abandon",
         RecoverCommitted(e, phase, acknowledged, otherwise),
         UNCHANGED <<counter, amsg, begun, controlVars, submitVars>>
  PROVE  TypeOK' /\ Effect(e) /\ Holding(e)'
<1>1. amsg[e] \in Messages /\ ahold[e] \in Row
  BY DEF HoldingOK, Holding, TypeOK
<1>2. Moved(e, phase) \in Row /\ Moved(e, phase).phase = phase /\ Moved(e, phase).token = e
  BY <1>1, MovedTypes DEF Phases
<1>3. UNCHANGED row /\ apc' \in {[apc EXCEPT ![e] = acknowledged], [apc EXCEPT ![e] = otherwise]}
  BY DEF RecoverCommitted
<1>4. TypeOK'
  BY <1>2, <1>3 DEF TypeOK, RecoverCommitted
<1>5. Effect(e)
  BY <1>3 DEF Effect, RecoverCommitted, TypeOK
<1>6. Holding(e)'
  <2>1. CASE /\ row[amsg[e]] = Moved(e, phase)
             /\ ahold' = [ahold EXCEPT ![e] = Moved(e, phase)]
             /\ apc' = [apc EXCEPT ![e] = acknowledged]
    <3>1. ahold'[e] = Moved(e, phase) /\ row'[amsg[e]] = Moved(e, phase) /\ amsg'[e] = amsg[e]
          /\ apc'[e] = acknowledged
      BY <1>1, <1>3, <2>1 DEF TypeOK
    <3> QED
      BY <1>1, <1>2, <3>1 DEF Holding, Owning
  <2>2. CASE apc' = [apc EXCEPT ![e] = otherwise] /\ UNCHANGED ahold
    <3>1. /\ ahold'[e] = ahold[e] /\ amsg'[e] = amsg[e] /\ apc'[e] = otherwise
          /\ row'[amsg[e]] = row[amsg[e]]
          /\ Moved(e, "running")' = Moved(e, "running")
      BY <1>1, <1>3, <2>2 DEF TypeOK, Moved, Next1
    <3> QED
      BY <1>1, <1>2, <3>1 DEF HoldingOK, Holding, Owning
  <2> QED
    BY <2>1, <2>2 DEF RecoverCommitted
<1> QED
  BY <1>4, <1>5, <1>6

\* Points of an attempt that only change where it is.
LEMMA PointEffect ==
  ASSUME TypeOK, HoldingOK, NEW e \in Attempts,
         NEW x \in {"ended", "abandon", "cancelling", "dispatching", "work"},
         \/ apc[e] = "held" /\ x = "ended"
         \/ apc[e] = "dispatching" /\ x = "abandon"
         \/ apc[e] \in {"claimed", "started"} /\ x = "cancelling"
         \/ apc[e] = "claimed" /\ x = "dispatching"
         \/ apc[e] = "started" /\ x = "work",
         apc' = [apc EXCEPT ![e] = x], begun' \subseteq Messages,
         UNCHANGED <<row, counter, amsg, ahold, controlVars, submitVars>>
  PROVE  TypeOK' /\ Effect(e) /\ Holding(e)'
<1>1. TypeOK'
  BY DEF TypeOK
<1>2. Effect(e)
  BY DEF Effect, TypeOK
<1>3. apc'[e] = x /\ Moved(e, "running")' = Moved(e, "running")
  BY DEF TypeOK, Moved, Next1
<1>4. Holding(e)'
  BY <1>3 DEF HoldingOK, Holding, Owning
<1> QED
  BY <1>1, <1>2, <1>4

\* Points of an attempt that may settle its row.
LEMMA SettleEffect ==
  ASSUME TypeOK, HoldingOK, NEW e \in Attempts, NEW p \in Outcomes,
         NEW x \in {"ended", "settling"},
         \/ apc[e] \in {"cancelling", "abandon"} /\ p = "cancelled" /\ x = "ended"
         \/ apc[e] \in {"work", "settling"},
         \/ row[amsg[e]] = ahold[e] /\ row' = [row EXCEPT ![amsg[e]] = Moved(e, p)]
         \/ UNCHANGED row,
         apc' = [apc EXCEPT ![e] = x],
         UNCHANGED <<counter, amsg, ahold, begun, controlVars, submitVars>>
  PROVE  TypeOK' /\ Effect(e) /\ Holding(e)'
<1>1. amsg[e] \in Messages /\ ahold[e] \in Row /\ p \in Phases
  BY DEF HoldingOK, Holding, TypeOK, Phases
<1>2. Moved(e, p) \in Row
  BY <1>1, MovedTypes
<1>3. row' \in [Messages -> Row]
  BY <1>2 DEF TypeOK
<1>4. TypeOK'
  BY <1>3 DEF TypeOK
<1>5. Effect(e)
  BY <1>1 DEF Effect, Turn, TypeOK
<1>6. apc'[e] = x
  BY DEF TypeOK
<1>7. Holding(e)'
  BY <1>1, <1>6 DEF HoldingOK, Holding, Owning
<1> QED
  BY <1>4, <1>5, <1>7

LEMMA ExecutionEffect ==
  ASSUME TypeOK, HoldingOK, NEW e \in Attempts, Execution(e)
  PROVE  TypeOK' /\ Effect(e) /\ Holding(e)'
<1>1. ASSUME NEW m \in Messages, Hold(e, m) PROVE TypeOK' /\ Effect(e) /\ Holding(e)'
  <2>1. TypeOK'
    BY <1>1 DEF Hold, TypeOK
  <2>2. Effect(e)
    BY <1>1 DEF Hold, Effect, TypeOK
  <2>3. apc'[e] = "held" /\ amsg'[e] = m /\ ahold'[e] = row[m]
    BY <1>1 DEF Hold, TypeOK
  <2>4. Holding(e)'
    BY <1>1, <2>3 DEF Hold, Holding, Owning, Queued
  <2> QED
    BY <2>1, <2>2, <2>4
<1>2. ASSUME Claim(e) PROVE TypeOK' /\ Effect(e) /\ Holding(e)'
  <2>1. CASE apc[e] = "held" /\ Transition(e, "dispatching", "claimed", "claimLost")
    BY <1>2, <2>1, TransitionEffect DEF Claim
  <2>2. CASE apc[e] = "claimLost" /\ RecoverCommitted(e, "dispatching", "claimed", "ended")
    BY <1>2, <2>2, RecoverEffect DEF Claim
  <2> QED
    BY <1>2, <2>1, <2>2 DEF Claim
<1>3. ASSUME StartClaimed(e) PROVE TypeOK' /\ Effect(e) /\ Holding(e)'
  <2>1. CASE apc[e] = "dispatching" /\ Transition(e, "running", "started", "startLost")
    BY <1>3, <2>1, TransitionEffect DEF StartClaimed
  <2>2. CASE apc[e] = "startLost" /\ RecoverCommitted(e, "running", "started", "abandon")
    BY <1>3, <2>2, RecoverEffect DEF StartClaimed
  <2> QED
    BY <1>3, <2>1, <2>2 DEF StartClaimed
<1>4. ASSUME TransitionFails(e) \/ ConfirmFails(e) PROVE TypeOK' /\ Effect(e) /\ Holding(e)'
  <2>1. begun' \subseteq Messages /\ UNCHANGED <<row, counter, amsg, ahold, controlVars, submitVars>>
    BY <1>4 DEF TransitionFails, ConfirmFails, TypeOK
  <2>2. CASE TransitionFails(e)
    BY <2>1, <2>2, PointEffect DEF TransitionFails
  <2>3. CASE ConfirmFails(e)
    BY <2>1, <2>3, PointEffect DEF ConfirmFails
  <2> QED
    BY <1>4, <2>2, <2>3
<1>5. ASSUME ConfirmUse(e) PROVE TypeOK' /\ Effect(e) /\ Holding(e)'
  <2>1. amsg[e] \in Messages
    BY <1>5 DEF ConfirmUse, HoldingOK, Holding
  <2>2. begun' \subseteq Messages /\ UNCHANGED <<row, counter, amsg, ahold, controlVars, submitVars>>
    BY <1>5, <2>1 DEF ConfirmUse, TypeOK
  <2> QED
    BY <1>5, <2>2, PointEffect DEF ConfirmUse
<1>6. ASSUME CancelUnstarted(e) PROVE TypeOK' /\ Effect(e) /\ Holding(e)'
  BY <1>6, SettleEffect DEF CancelUnstarted, Outcomes
<1>7. ASSUME NEW outcome \in Outcomes, Settle(e, outcome) PROVE TypeOK' /\ Effect(e) /\ Holding(e)'
  <2>1. /\ apc[e] \in {"work", "settling"}
        /\ UNCHANGED <<counter, amsg, ahold, begun, controlVars, submitVars>>
        /\ \/ row[amsg[e]] = ahold[e] /\ row' = [row EXCEPT ![amsg[e]] = Moved(e, outcome)]
           \/ UNCHANGED row
        /\ apc' = [apc EXCEPT ![e] = "ended"] \/ apc' = [apc EXCEPT ![e] = "settling"]
    BY <1>7 DEF Settle
  <2> QED
    BY <2>1, SettleEffect
<1> QED
  BY <1>1, <1>2, <1>3, <1>4, <1>5, <1>6, <1>7 DEF Execution

-----------------------------------------------------------------------------
(* How a control and a submission change the session *)

\* They only touch rows that nobody has claimed.
QueueEffect ==
  /\ UNCHANGED attemptVars
  /\ \A m \in Messages :
       \/ row'[m] = row[m]
       \/ /\ row[m].phase \in {"none", "queued"} /\ row[m].token = None
          /\ row'[m].phase \in {"queued", "cancelled"} /\ row'[m].token = None
          /\ row[m].phase = "none" \/ row'[m].by = row[m].by

LEMMA PlannedEffect ==
  ASSUME TypeOK, NEW kind \in Kinds, NEW m \in Messages, Queued(m), NEW n \in Messages
  PROVE  \/ Planned(kind, m)[n] = row[n]
         \/ /\ Queued(n) /\ Planned(kind, m)[n].token = None
            /\ Planned(kind, m)[n].phase \in {"queued", "cancelled"}
            /\ Planned(kind, m)[n].by = row[n].by
<1>1. row[n] \in Row /\ row[m] \in Row
  BY DEF TypeOK
<1>2. /\ Next1(row[m], "cancelled") \in Row /\ Next1(row[m], "cancelled").phase = "cancelled"
      /\ Next1(row[m], "cancelled").token = row[m].token
      /\ Next1(row[m], "cancelled").by = row[m].by /\ Next1(row[m], "queued").by = row[m].by
      /\ Next1(row[n], "queued").by = row[n].by
      /\ Next1(row[m], "queued") \in Row /\ Next1(row[m], "queued").phase = "queued"
      /\ Next1(row[m], "queued").token = row[m].token
      /\ Next1(row[n], "queued") \in Row /\ Next1(row[n], "queued").phase = "queued"
      /\ Next1(row[n], "queued").token = row[n].token
  BY <1>1, RowTypes DEF Phases, Outcomes
<1>3. ASSUME NEW r \in Row, NEW i
      PROVE  /\ [r EXCEPT !.disp = "ready", !.ord = i].phase = r.phase
             /\ [r EXCEPT !.disp = "ready", !.ord = i].token = r.token
             /\ [r EXCEPT !.disp = "ready", !.ord = i].by = r.by
             /\ [r EXCEPT !.disp = "suspended"].by = r.by
             /\ [r EXCEPT !.disp = "suspended"].phase = r.phase
             /\ [r EXCEPT !.disp = "suspended"].token = r.token
  BY DEF Row
<1>4. n \in Affected(kind, m) => Queued(n)
  BY DEF Affected, Older
<1>5. CASE n = m /\ kind = "cancel"
  <2>1. Planned(kind, m)[n] = Next1(row[m], "cancelled")
    BY <1>5, Zenon DEF Planned
  <2> QED
    BY <1>2, <1>5, <2>1 DEF Queued
<1>6. CASE n = m /\ kind # "cancel"
  <2>1. Planned(kind, m)[n]
          = [Next1(row[m], "queued") EXCEPT !.disp = "ready", !.ord = Position(kind, m)]
    BY <1>6, Zenon DEF Planned
  <2> QED
    BY <1>2, <1>3, <1>6, <2>1 DEF Queued
<1>7. CASE n # m /\ n \in Affected(kind, m)
  <2>1. Planned(kind, m)[n] = [Next1(row[n], "queued") EXCEPT !.disp = "suspended"]
    BY <1>7, Zenon DEF Planned
  <2> QED
    BY <1>2, <1>3, <1>4, <1>7, <2>1 DEF Queued
<1>8. CASE n # m /\ n \notin Affected(kind, m)
  BY <1>8, Zenon DEF Planned
<1> QED
  BY <1>5, <1>6, <1>7, <1>8

LEMMA StoredEffect ==
  ASSUME TypeOK, NEW s \in Submissions, row[MessageOf[s]].phase = "none",
         row[MessageOf[s]].token = None, NEW m \in Messages, m \in sset[s] => Queued(m)
  PROVE  \/ Stored(s)[m] = row[m]
         \/ /\ row[m].phase \in {"none", "queued"} /\ row[m].token = None
            /\ Stored(s)[m].phase \in {"queued", "cancelled"} /\ Stored(s)[m].token = None
            /\ row[m].phase = "none" \/ Stored(s)[m].by = row[m].by
<1>1. row[m] \in Row
  BY DEF TypeOK
<1>2. Next1(row[m], "cancelled").phase = "cancelled" /\ Next1(row[m], "cancelled").token = row[m].token
      /\ Next1(row[m], "cancelled").by = row[m].by
  BY <1>1, RowTypes DEF Phases, Outcomes
<1>3. CASE m = MessageOf[s]
  BY <1>3 DEF Stored
<1>4. CASE m # MessageOf[s] /\ m \in sset[s]
  <2>1. Stored(s)[m] = Next1(row[m], "cancelled")
    BY <1>4, Zenon DEF Stored
  <2> QED
    BY <1>2, <1>4, <2>1 DEF Queued
<1>5. CASE m # MessageOf[s] /\ m \notin sset[s]
  BY <1>5, Zenon DEF Stored
<1> QED
  BY <1>3, <1>4, <1>5

\* A control remembers its message.
Aiming == \A c \in Controls : cpc[c] # "idle" => cmsg[c] \in Messages

LEMMA ControlEffect ==
  ASSUME TypeOK, Aiming, NEW c \in Controls, Control(c)
  PROVE  TypeOK' /\ Aiming' /\ QueueEffect /\ UNCHANGED submitVars
<1>1. ASSUME NEW kind \in Kinds, NEW m \in Messages, ReadForControl(c, kind, m)
      PROVE  TypeOK' /\ Aiming' /\ QueueEffect /\ UNCHANGED submitVars
  <2>1. Only({m}, row) \in [Messages -> Row]
    BY OnlyTypes DEF TypeOK
  <2>2. TypeOK'
    BY <1>1, <2>1 DEF ReadForControl, TypeOK
  <2> QED
    BY <1>1, <2>2 DEF ReadForControl, QueueEffect, TypeOK, Aiming
<1>2. ASSUME ControlCommits(c)
      PROVE  TypeOK' /\ Aiming' /\ QueueEffect /\ UNCHANGED submitVars
  <2> DEFINE m == cmsg[c]
             rows == Planned(ckind[c], m)
  <2>1. m \in Messages /\ ckind[c] \in Kinds /\ Queued(m) /\ m = cmsg[c]
    BY <1>2 DEF ControlCommits, Aiming, TypeOK
  <2>2. rows \in [Messages -> Row]
    BY <2>1, PlannedTypes
  <2>3. Affected(ckind[c], m) \subseteq Messages
    BY <2>1 DEF Affected, Older
  <2>4. Only(Affected(ckind[c], m), rows) \in [Messages -> Row]
    BY <2>2, OnlyTypes
  <2>5. row' \in {row, rows}
    BY <1>2 DEF ControlCommits
  <2>6. counter' \in {counter, rows[m].ord}
    BY <1>2 DEF ControlCommits
  <2>7. counter' \in Nat
    BY <2>1, <2>2, <2>6 DEF TypeOK, Row
  <2>8. /\ cset' = [cset EXCEPT ![c] = Affected(ckind[c], m)]
        /\ cvec' = [cvec EXCEPT ![c] = Only(Affected(ckind[c], m), rows)]
        /\ cpc' \in {[cpc EXCEPT ![c] = "done"], [cpc EXCEPT ![c] = "lost"]}
        /\ cpc[c] = "held"
        /\ UNCHANGED <<ckind, cmsg, attemptVars, submitVars>>
    BY <1>2 DEF ControlCommits
  <2>9. row' \in [Messages -> Row]
    BY <2>2, <2>5 DEF TypeOK
  <2> HIDE DEF m, rows
  <2>10. TypeOK'
    BY <2>3, <2>4, <2>7, <2>8, <2>9 DEF TypeOK
  <2>11. Aiming'
    BY <2>1, <2>8 DEF Aiming, TypeOK
  <2>12. \A n \in Messages :
           \/ rows[n] = row[n]
           \/ /\ Queued(n) /\ rows[n].token = None /\ rows[n].phase \in {"queued", "cancelled"}
              /\ rows[n].by = row[n].by
    BY <2>1, PlannedEffect DEF rows
  <2>13. QueueEffect
    BY <2>5, <2>8, <2>12 DEF QueueEffect, Queued
  <2> QED
    BY <2>8, <2>10, <2>11, <2>13
<1>3. ASSUME ControlFails(c) \/ ControlRecovers(c)
      PROVE  TypeOK' /\ Aiming' /\ QueueEffect /\ UNCHANGED submitVars
  <2>1. /\ cpc[c] # "idle"
        /\ cpc' = [cpc EXCEPT ![c] = "done"] \/ cpc' = [cpc EXCEPT ![c] = "failed"]
        /\ UNCHANGED <<row, counter, ckind, cmsg, cset, cvec, attemptVars, submitVars>>
    BY <1>3 DEF ControlFails, ControlRecovers
  <2>2. TypeOK'
    BY <2>1 DEF TypeOK
  <2> QED
    BY <2>1, <2>2 DEF QueueEffect, TypeOK, Aiming
<1> QED
  BY <1>1, <1>2, <1>3 DEF Control

LEMMA SubmissionEffect ==
  ASSUME TypeOK, Unclaimed, Replacing, NEW s \in Submissions, Submission(s)
  PROVE  TypeOK' /\ Replacing' /\ QueueEffect /\ UNCHANGED controlVars
<1>0. MessageOf[s] \in Messages
  BY OperationsAssumption
<1>1. ASSUME Prepare(s)
      PROVE  TypeOK' /\ Replacing' /\ QueueEffect /\ UNCHANGED controlVars
  <2>1. CASE row[MessageOf[s]].phase = "none"
    <3> DEFINE S == IF Replaces[s] THEN {m \in Messages : Queued(m)} ELSE {}
    <3>1. /\ spc' = [spc EXCEPT ![s] = "prepared"]
          /\ sset' = [sset EXCEPT ![s] = S]
          /\ UNCHANGED <<row, counter, attemptVars, controlVars>>
      BY <1>1, <2>1 DEF Prepare
    <3>2. sset'[s] = S /\ S \in SUBSET Messages
      BY <3>1 DEF TypeOK
    <3>3. svec' = [svec EXCEPT ![s] = Only(S, row)]
      BY <1>1, <2>1, <3>2 DEF Prepare
    <3>4. Only(S, row) \in [Messages -> Row] /\ \A m \in S : Only(S, row)[m] = row[m]
      BY <3>2, OnlyTypes DEF TypeOK
    <3>5. \A m \in S : row[m].phase = "queued" /\ row[m].token = None
      BY DEF Queued
    <3> HIDE DEF S
    <3>6. TypeOK'
      BY <3>1, <3>2, <3>3, <3>4 DEF TypeOK
    <3>7. Replacing'
      BY <3>1, <3>2, <3>3, <3>4, <3>5 DEF Replacing, TypeOK
    <3>8. QueueEffect
      BY <3>1 DEF QueueEffect
    <3> QED
      BY <3>1, <3>6, <3>7, <3>8
  <2>2. CASE row[MessageOf[s]].phase # "none"
    <3>1. /\ spc' \in {[spc EXCEPT ![s] = "accepted"], [spc EXCEPT ![s] = "refused"]}
          /\ UNCHANGED <<row, counter, sset, svec, attemptVars, controlVars>>
      BY <1>1, <2>2 DEF Prepare
    <3>2. TypeOK'
      BY <3>1 DEF TypeOK
    <3>3. Replacing'
      BY <3>1 DEF Replacing, TypeOK
    <3> QED
      BY <3>1, <3>2, <3>3 DEF QueueEffect
  <2> QED
    BY <2>1, <2>2
<1>2. ASSUME Admit(s)
      PROVE  TypeOK' /\ Replacing' /\ QueueEffect /\ UNCHANGED controlVars
  <2> DEFINE S == sset[s] \union {MessageOf[s]}
  <2>1. S \in SUBSET Messages /\ Stored(s) \in [Messages -> Row]
    BY <1>0, StoredTypes DEF TypeOK
  <2>2. Only(S, Stored(s)) \in [Messages -> Row]
    BY <2>1, OnlyTypes
  <2>3. /\ sset' = [sset EXCEPT ![s] = S]
        /\ svec' = [svec EXCEPT ![s] = Only(S, Stored(s))]
        /\ row' \in {row, Stored(s)}
        /\ counter' \in {counter, counter + 1}
        /\ spc' \in {[spc EXCEPT ![s] = "accepted"], [spc EXCEPT ![s] = "lost"]}
        /\ UNCHANGED <<attemptVars, controlVars>>
    BY <1>2 DEF Admit
  <2>4. /\ spc[s] = "prepared" /\ row[MessageOf[s]].phase = "none"
        /\ \A m \in sset[s] : row[m] = svec[s][m]
    BY <1>2 DEF Admit, SameRows
  <2>5. \A m \in sset[s] : Queued(m)
    BY <2>4 DEF Replacing, Queued
  <2>6. row[MessageOf[s]].token = None
    BY <1>0, <2>4 DEF Unclaimed
  <2>7. \A m \in Messages :
          \/ Stored(s)[m] = row[m]
          \/ /\ row[m].phase \in {"none", "queued"} /\ row[m].token = None
             /\ Stored(s)[m].phase \in {"queued", "cancelled"} /\ Stored(s)[m].token = None
             /\ row[m].phase = "none" \/ Stored(s)[m].by = row[m].by
    BY <2>4, <2>5, <2>6, StoredEffect
  <2> HIDE DEF S
  <2>8. TypeOK'
    BY <2>1, <2>2, <2>3 DEF TypeOK
  <2>9. Replacing'
    BY <2>3 DEF Replacing, TypeOK
  <2>10. QueueEffect
    BY <2>3, <2>7 DEF QueueEffect
  <2> QED
    BY <2>3, <2>8, <2>9, <2>10
<1>3. ASSUME Replay(s) \/ AdmissionFails(s) \/ AdmissionRecovers(s)
      PROVE  TypeOK' /\ Replacing' /\ QueueEffect /\ UNCHANGED controlVars
  <2>1. /\ spc' \in {[spc EXCEPT ![s] = x] : x \in {"accepted", "refused", "uncertain"}}
        /\ UNCHANGED <<row, counter, sset, svec, attemptVars, controlVars>>
    BY <1>3 DEF Replay, AdmissionFails, AdmissionRecovers
  <2>2. TypeOK'
    BY <2>1 DEF TypeOK
  <2>3. Replacing'
    BY <2>1 DEF Replacing, TypeOK
  <2> QED
    BY <2>1, <2>2, <2>3 DEF QueueEffect
<1> QED
  BY <1>1, <1>2, <1>3 DEF Submission

-----------------------------------------------------------------------------
(* The invariant of the executions *)

\* At most one message is claimed or running, and then nothing is unresolved.
Alone == \A m, n \in Messages :
  (row[m].phase \in {"dispatching", "running"} /\ n # m) =>
    row[n].phase \notin {"dispatching", "running", "outcome_unknown", "legacy"}

\* A message that was begun keeps the token of its attempt.
BegunRows == \A m \in begun :
  row[m].token # None /\ row[m].phase \in {"running"} \union Outcomes

\* An attempt that has not begun is not about a message that was.
Fresh(e) ==
  (apc[e] \notin {"idle", "work", "settling", "ended"} /\ row[amsg[e]].token = e)
    => amsg[e] \notin begun

FreshOK == \A e \in Attempts : Fresh(e)

Foreign(f) ==
  /\ apc'[f] = apc[f] /\ amsg'[f] = amsg[f] /\ ahold'[f] = ahold[f]
  /\ \A m \in Messages : (row[m].token = f \/ row'[m].token = f) => row'[m] = row[m]

LEMMA EffectForeign ==
  ASSUME TypeOK, HoldingOK, NEW e \in Attempts, NEW f \in Attempts \ {e}, Effect(e)
  PROVE  Foreign(f)
<1>1. CASE UNCHANGED row
  BY <1>1 DEF Effect, Foreign
<1>2. ASSUME NEW p \in Phases, Turn(e, p), row' = [row EXCEPT ![amsg[e]] = Moved(e, p)]
      PROVE  Foreign(f)
  <2>1. ahold[e] \in Row /\ amsg[e] \in Messages
    BY <1>2 DEF TypeOK, Turn, HoldingOK, Holding
  <2>2. Moved(e, p).token = e
    BY <2>1, MovedTypes
  <2>3. row[amsg[e]].token \in {None, e}
    BY <1>2 DEF Turn, HoldingOK, Holding
  <2>4. f # None /\ f # e
    BY NoneAssumption
  <2>5. \A m \in Messages : row'[m] = row[m] \/ m = amsg[e]
    BY <1>2, <2>1 DEF TypeOK
  <2>6. row'[amsg[e]].token = e
    BY <1>2, <2>1, <2>2 DEF TypeOK
  <2> QED
    BY <2>3, <2>4, <2>5, <2>6 DEF Effect, Foreign
<1> QED
  BY <1>1, <1>2 DEF Effect

LEMMA QueueForeign ==
  ASSUME TypeOK, NEW f \in Attempts, QueueEffect
  PROVE  Foreign(f)
BY NoneAssumption DEF QueueEffect, Foreign

LEMMA ForeignHolding ==
  ASSUME TypeOK, NEW f \in Attempts, Holding(f), Foreign(f)
  PROVE  Holding(f)'
<1>1. Moved(f, "running")' = Moved(f, "running")
  BY DEF Foreign, Moved, Next1
<1>2. apc[f] \in Owning => row'[amsg[f]] = ahold[f]
  BY DEF Holding, Foreign, Owning
<1>3. apc[f] \in {"startLost", "abandon"} => row'[amsg[f]] = row[amsg[f]]
  <2> SUFFICES ASSUME apc[f] \in {"startLost", "abandon"} PROVE row'[amsg[f]] = row[amsg[f]]
    OBVIOUS
  <2>1. amsg[f] \in Messages /\ ahold[f].token = f
        /\ row[amsg[f]] \in {ahold[f], Moved(f, "running")}
    BY DEF Holding
  <2>2. row[amsg[f]].token = f
    BY <2>1, MovedTypes DEF TypeOK, Phases
  <2> QED
    BY <2>1, <2>2 DEF Foreign
<1> QED
  BY <1>1, <1>2, <1>3 DEF Holding, Foreign

LEMMA ForeignFresh ==
  ASSUME NEW f \in Attempts, Fresh(f), Holding(f), Foreign(f),
         begun' = begun \/ \E m \in Messages : row'[m].token # f /\ begun' = begun \union {m}
  PROVE  Fresh(f)'
BY DEF Fresh, Foreign, Holding

\* Only a confirmed start begins the work.
LEMMA WorkEffect ==
  ASSUME TypeOK, HoldingOK, NEW e \in Attempts, Execution(e)
  PROVE  \/ UNCHANGED begun /\ (apc'[e] = "work" => apc[e] = "work")
         \/ /\ apc[e] = "started" /\ apc'[e] = "work" /\ UNCHANGED <<row, amsg, ahold>>
            /\ begun' = begun \union {amsg[e]}
BY DEF TypeOK, Execution, Hold, Claim, StartClaimed, TransitionFails, ConfirmUse, ConfirmFails,
       CancelUnstarted, Settle, Transition, RecoverCommitted

\* What a step of an attempt does to its row.
Turned(e, p) ==
  /\ amsg[e] \in Messages
  /\ \A m \in Messages \ {amsg[e]} : row'[m] = row[m]
  /\ row[amsg[e]].phase \in {"queued", "dispatching", "running"}
  /\ row[amsg[e]].token = IF row[amsg[e]].phase = "queued" THEN None ELSE e
  /\ row'[amsg[e]].phase = p /\ row'[amsg[e]].token = e
  /\ row'[amsg[e]].by = row[amsg[e]].by
  /\ p \in {"dispatching", "running"} \union Outcomes
  /\ p = "dispatching" => row[amsg[e]].phase = "queued"
  /\ p \in {"dispatching", "running"} => Available(amsg[e])
  /\ p \in Outcomes => row[amsg[e]].phase # "queued"

LEMMA TurnRow ==
  ASSUME TypeOK, HoldingOK, NEW e \in Attempts, NEW p \in Phases, Turn(e, p),
         row' = [row EXCEPT ![amsg[e]] = Moved(e, p)]
  PROVE  Turned(e, p)
<1>1. amsg[e] \in Messages /\ ahold[e] \in Row
  BY DEF Turn, HoldingOK, Holding, TypeOK
<1>2. Moved(e, p).phase = p /\ Moved(e, p).token = e /\ Moved(e, p).by = ahold[e].by
  BY <1>1, MovedTypes
<1>3. row[amsg[e]] = ahold[e]
  BY DEF Turn
<1>4. row'[amsg[e]] = Moved(e, p) /\ \A m \in Messages \ {amsg[e]} : row'[m] = row[m]
  BY <1>1 DEF TypeOK
<1>5. p \in {"dispatching", "running"} \union Outcomes
  BY DEF Turn, Outcomes
<1>7. apc[e] # "held" =>
        ahold[e].token = e /\ ahold[e].phase \in {"dispatching", "running"}
  BY DEF Turn, HoldingOK, Holding
<1>8. apc[e] = "held" => ahold[e].token = None /\ ahold[e].phase = "queued"
  BY DEF HoldingOK, Holding
<1>9. p \in Outcomes => apc[e] # "held"
  BY DEF Turn, Outcomes
<1>10. p = "dispatching" => apc[e] = "held"
  BY DEF Turn, Outcomes
<1>11. p \in {"dispatching", "running"} => Available(amsg[e])
  BY DEF Turn, Outcomes
<1> QED
  BY <1>1, <1>2, <1>3, <1>4, <1>5, <1>7, <1>8, <1>9, <1>10, <1>11 DEF Turned

CoreInv ==
  /\ TypeOK /\ HoldingOK /\ Unclaimed /\ Replacing /\ Aiming
  /\ Alone /\ BegunRows /\ FreshOK

LEMMA InitCore == Init => CoreInv
<1> SUFFICES ASSUME Init PROVE CoreInv
  OBVIOUS
<1>1. TypeOK
  BY InitTypes
<1>2. \A m \in Messages : row[m].phase \in {"none", "legacy", "queued"}
                          /\ row[m].token = None /\ row[m].by = None
  <2>1. \A p \in {"none", "legacy", "queued"} :
          OldRow(p).phase = p /\ OldRow(p).token = None /\ OldRow(p).by = None
    BY AbsentTypes DEF Phases
  <2>2. \A m \in Messages : \E p \in {"none", "legacy", "queued"} : row[m] = OldRow(p)
    BY DEF Init
  <2> QED
    BY <2>1, <2>2
<1>3. Unclaimed /\ Alone
  BY <1>2 DEF Unclaimed, Alone
<1>4. HoldingOK /\ FreshOK
  <2>1. \A e \in Attempts : apc[e] = "idle"
    BY DEF Init
  <2> QED
    BY <2>1 DEF HoldingOK, Holding, FreshOK, Fresh, Owning
<1>5. Replacing /\ Aiming /\ BegunRows
  BY DEF Init, Replacing, Aiming, BegunRows
<1> QED
  BY <1>1, <1>3, <1>4, <1>5 DEF CoreInv

\* What the steps of the queue leave as it is.
LEMMA QueueCore ==
  ASSUME CoreInv, QueueEffect
  PROVE  HoldingOK' /\ Unclaimed' /\ Alone' /\ BegunRows' /\ FreshOK'
<1>1. \A f \in Attempts : Foreign(f)
  BY QueueForeign DEF CoreInv
<1>2. HoldingOK'
  BY <1>1, ForeignHolding DEF CoreInv, HoldingOK
<1>3. Unclaimed'
  BY DEF CoreInv, Unclaimed, QueueEffect
<1>4. Alone'
  BY DEF CoreInv, Alone, QueueEffect
<1>5. begun' = begun /\ begun \subseteq Messages
  BY DEF QueueEffect, CoreInv, TypeOK
<1>6. BegunRows'
  BY <1>5 DEF CoreInv, BegunRows, QueueEffect, Outcomes
<1>7. FreshOK'
  BY <1>1, <1>5, ForeignFresh DEF CoreInv, FreshOK, HoldingOK
<1> QED
  BY <1>2, <1>3, <1>4, <1>6, <1>7

\* An attempt that moves on and has not begun was not about a begun message.
LEMMA EarlyFresh ==
  ASSUME CoreInv, NEW e \in Attempts, Execution(e), Effect(e), UNCHANGED begun
  PROVE  Fresh(e)'
<1> DEFINE Early(x) == x \notin {"idle", "work", "settling", "ended"}
<1> SUFFICES ASSUME Early(apc'[e]), row'[amsg'[e]].token = e PROVE amsg'[e] \notin begun
  BY DEF Fresh
<1>1. CASE apc[e] = "idle"
  <2>1. PICK m \in Messages : Hold(e, m)
    BY <1>1 DEF Execution, Claim, StartClaimed, TransitionFails, ConfirmUse, ConfirmFails,
                CancelUnstarted, Settle
  <2>2. row'[m].token = None /\ amsg'[e] = m
    BY <2>1 DEF Hold, Queued, CoreInv, TypeOK
  <2> QED
    BY <2>2, NoneAssumption
<1>2. CASE apc[e] # "idle"
  <2>1. amsg'[e] = amsg[e] /\ Early(apc[e])
    BY <1>2 DEF CoreInv, TypeOK, Execution, Hold, Claim, StartClaimed, TransitionFails, ConfirmUse,
                ConfirmFails, CancelUnstarted, Settle, Transition, RecoverCommitted
  <2>2. CASE row[amsg[e]].token = e
    BY <2>1, <2>2 DEF CoreInv, FreshOK, Fresh
  <2>3. CASE row[amsg[e]].token # e
    <3>1. PICK p \in Phases : Turn(e, p) /\ row' = [row EXCEPT ![amsg[e]] = Moved(e, p)]
      BY <2>1, <2>3 DEF Effect
    <3>2. row[amsg[e]].token = None
      BY <2>3, <3>1, TurnRow DEF CoreInv, Turned
    <3> QED
      BY <2>1, <3>2 DEF CoreInv, BegunRows
  <2> QED
    BY <2>2, <2>3
<1> QED
  BY <1>1, <1>2

LEMMA ExecutionCore ==
  ASSUME CoreInv, NEW e \in Attempts, Execution(e)
  PROVE  CoreInv'
<1>1. TypeOK' /\ Effect(e) /\ Holding(e)'
  BY ExecutionEffect DEF CoreInv
<1>2. \A f \in Attempts \ {e} : Foreign(f)
  BY <1>1, EffectForeign DEF CoreInv
<1>3. HoldingOK'
  BY <1>1, <1>2, ForeignHolding DEF CoreInv, HoldingOK
<1>4. Replacing' /\ Aiming'
  BY <1>1 DEF CoreInv, Effect, Replacing, Aiming
<1>5. Unclaimed' /\ Alone'
  <2>1. CASE UNCHANGED row
    BY <2>1 DEF CoreInv, Unclaimed, Alone
  <2>2. ASSUME NEW p \in Phases, Turn(e, p), row' = [row EXCEPT ![amsg[e]] = Moved(e, p)]
        PROVE  Unclaimed' /\ Alone'
    <3> DEFINE m == amsg[e]
    <3>1. /\ m \in Messages
          /\ \A n \in Messages \ {m} : row'[n] = row[n]
          /\ row[m].phase \in {"queued", "dispatching", "running"}
          /\ row'[m].phase = p
          /\ p \in {"dispatching", "running"} \union Outcomes
          /\ p \in {"dispatching", "running"} => Available(m)
          /\ p \in Outcomes => row[m].phase # "queued"
      BY <2>2, TurnRow DEF CoreInv, Turned
    <3> HIDE DEF m
    <3>2. p \in {"dispatching", "running"} =>
            \A n \in Messages \ {m} :
              row[n].phase \notin {"dispatching", "running", "outcome_unknown", "legacy"}
      BY <3>1 DEF Available
    <3>3. p \in Outcomes => \A n \in Messages \ {m} :
            row[n].phase \notin {"dispatching", "running", "outcome_unknown", "legacy"}
      BY <3>1 DEF CoreInv, Alone
    <3>4. Alone'
      BY <3>1, <3>2, <3>3 DEF Alone
    <3>5. Unclaimed'
      BY <3>1 DEF Unclaimed, CoreInv, Outcomes
    <3> QED
      BY <3>4, <3>5
  <2> QED
    BY <1>1, <2>1, <2>2 DEF Effect
<1>6. BegunRows'
  <2>1. \A m \in begun : row'[m].token # None /\ row'[m].phase \in {"running"} \union Outcomes
    <3>1. CASE UNCHANGED row
      BY <3>1 DEF CoreInv, BegunRows
    <3>2. ASSUME NEW p \in Phases, Turn(e, p), row' = [row EXCEPT ![amsg[e]] = Moved(e, p)]
          PROVE  \A m \in begun :
                   row'[m].token # None /\ row'[m].phase \in {"running"} \union Outcomes
      <4>1. Turned(e, p)
        BY <3>2, TurnRow DEF CoreInv
      <4>2. e # None /\ begun \subseteq Messages
        BY NoneAssumption DEF CoreInv, TypeOK
      <4>3. \A m \in begun : row[m].token # None /\ row[m].phase \in {"running"} \union Outcomes
        BY DEF CoreInv, BegunRows
      <4>4. amsg[e] \in begun => p # "dispatching"
        BY <4>1, <4>3 DEF Turned, Outcomes
      <4> QED
        BY <4>1, <4>2, <4>3, <4>4 DEF Turned
    <3> QED
      BY <1>1, <3>1, <3>2 DEF Effect
  <2>2. CASE UNCHANGED begun
    BY <2>1, <2>2 DEF BegunRows
  <2>3. CASE /\ apc[e] = "started" /\ UNCHANGED <<row, amsg, ahold>>
             /\ begun' = begun \union {amsg[e]}
    <3>1. row[amsg[e]] = ahold[e] /\ ahold[e].phase = "running" /\ ahold[e].token = e
      BY <2>3 DEF CoreInv, HoldingOK, Holding, Owning
    <3> QED
      BY <2>1, <2>3, <3>1, NoneAssumption DEF BegunRows
  <2> QED
    BY <2>2, <2>3, WorkEffect DEF CoreInv
<1>7. FreshOK'
  <2>1. CASE UNCHANGED begun
    <3>1. ASSUME NEW f \in Attempts \ {e} PROVE Fresh(f)'
      BY <1>2, <2>1, <3>1, ForeignFresh DEF CoreInv, FreshOK, HoldingOK
    <3>2. Fresh(e)'
      BY <1>1, <2>1, EarlyFresh DEF CoreInv, FreshOK
    <3> QED
      BY <3>1, <3>2 DEF FreshOK
  <2>2. CASE /\ apc[e] = "started" /\ apc'[e] = "work" /\ UNCHANGED <<row, amsg, ahold>>
             /\ begun' = begun \union {amsg[e]}
    <3>1. row[amsg[e]].token = e /\ amsg[e] \in Messages
      BY <2>2 DEF CoreInv, HoldingOK, Holding, Owning
    <3>2. ASSUME NEW f \in Attempts \ {e} PROVE Fresh(f)'
      <4>1. \E m \in Messages : row'[m].token # f /\ begun' = begun \union {m}
        BY <2>2, <3>1
      <4>2. Foreign(f) /\ Fresh(f) /\ Holding(f)
        BY <1>2 DEF CoreInv, FreshOK, HoldingOK
      <4> QED
        BY <4>1, <4>2, ForeignFresh
    <3>3. Fresh(e)'
      BY <2>2 DEF Fresh
    <3> QED
      BY <3>2, <3>3 DEF FreshOK
  <2> QED
    BY <2>1, <2>2, WorkEffect DEF CoreInv
<1> QED
  BY <1>1, <1>3, <1>4, <1>5, <1>6, <1>7 DEF CoreInv

-----------------------------------------------------------------------------
(* What has been reported to the user *)

\* A cancellation that was written, or reported.
CancelOK(c) == ckind[c] = "cancel" =>
  /\ cpc[c] = "lost" =>
       cmsg[c] \in cset[c] /\ cvec[c][cmsg[c]].phase = "cancelled" /\ cvec[c][cmsg[c]].token = None
  /\ cpc[c] = "done" => row[cmsg[c]].phase = "cancelled" /\ row[cmsg[c]].token = None

\* A submission that was written, or reported as accepted.
AdmitOK(s) ==
  /\ spc[s] = "idle" => sset[s] = {}
  /\ spc[s] = "lost" =>
       /\ MessageOf[s] \in sset[s] /\ svec[s][MessageOf[s]].by = s
       /\ \A m \in sset[s] \ {MessageOf[s]} :
            svec[s][m].phase = "cancelled" /\ svec[s][m].token = None
  /\ spc[s] = "accepted" =>
       /\ SameContent(s)
       /\ \A m \in sset[s] \ {MessageOf[s]} : row[m].phase = "cancelled" /\ row[m].token = None

Reports == (\A c \in Controls : CancelOK(c)) /\ (\A s \in Submissions : AdmitOK(s))

QueueInv == CoreInv /\ Reports

\* No step moves a settled message or changes what a message holds.
RowsKept == \A m \in Messages :
  /\ row[m].phase \in Outcomes => row'[m] = row[m]
  /\ row[m].by # None => row'[m].by = row[m].by

LEMMA ExecutionRows ==
  ASSUME CoreInv, NEW e \in Attempts, Execution(e)
  PROVE  RowsKept
<1>1. Effect(e)
  BY ExecutionEffect DEF CoreInv
<1>2. CASE UNCHANGED row
  BY <1>2 DEF RowsKept
<1>3. ASSUME NEW p \in Phases, Turn(e, p), row' = [row EXCEPT ![amsg[e]] = Moved(e, p)]
      PROVE  RowsKept
  <2>1. Turned(e, p)
    BY <1>3, TurnRow DEF CoreInv
  <2> QED
    BY <2>1 DEF Turned, RowsKept, Outcomes
<1> QED
  BY <1>1, <1>2, <1>3 DEF Effect

LEMMA QueueRows ==
  ASSUME CoreInv, QueueEffect
  PROVE  RowsKept
BY DEF QueueEffect, RowsKept, CoreInv, Unclaimed, Outcomes

LEMMA KeepsCancel ==
  ASSUME CoreInv, RowsKept, NEW c \in Controls, CancelOK(c),
         cpc'[c] = cpc[c], ckind'[c] = ckind[c], cmsg'[c] = cmsg[c], cset'[c] = cset[c],
         cvec'[c] = cvec[c]
  PROVE  CancelOK(c)'
<1>1. cpc[c] = "done" => cmsg[c] \in Messages
  BY DEF CoreInv, Aiming
<1> QED
  BY <1>1 DEF CancelOK, RowsKept, Outcomes

LEMMA KeepsContent ==
  ASSUME RowsKept, NEW s \in Submissions, SameContent(s)
  PROVE  SameContent(s)'
<1>1. MessageOf[s] \in Messages
  BY OperationsAssumption
<1>2. row[MessageOf[s]].by # None /\ Content[row[MessageOf[s]].by] = Content[s]
  BY Zenon DEF SameContent
<1>3. row'[MessageOf[s]].by = row[MessageOf[s]].by
  BY <1>1, <1>2 DEF RowsKept
<1> QED
  BY <1>2, <1>3, Zenon DEF SameContent

LEMMA KeepsAdmit ==
  ASSUME CoreInv, RowsKept, NEW s \in Submissions, AdmitOK(s),
         spc'[s] = spc[s], sset'[s] = sset[s], svec'[s] = svec[s]
  PROVE  AdmitOK(s)'
<1>1. sset[s] \subseteq Messages
  BY DEF CoreInv, TypeOK
<1>2. spc[s] = "accepted" => SameContent(s)'
  BY KeepsContent DEF AdmitOK
<1> QED
  BY <1>1, <1>2 DEF AdmitOK, RowsKept, Outcomes

LEMMA ControlReports ==
  ASSUME CoreInv, RowsKept, NEW c \in Controls, Control(c), CancelOK(c)
  PROVE  /\ CancelOK(c)'
         /\ \A d \in Controls \ {c} :
              /\ cpc'[d] = cpc[d] /\ ckind'[d] = ckind[d] /\ cmsg'[d] = cmsg[d]
              /\ cset'[d] = cset[d] /\ cvec'[d] = cvec[d]
<1>1. ASSUME NEW d \in Controls \ {c}
      PROVE  /\ cpc'[d] = cpc[d] /\ ckind'[d] = ckind[d] /\ cmsg'[d] = cmsg[d]
             /\ cset'[d] = cset[d] /\ cvec'[d] = cvec[d]
  BY DEF CoreInv, TypeOK, Control, ReadForControl, ControlCommits, ControlFails, ControlRecovers
<1>2. ASSUME NEW kind \in Kinds, NEW m \in Messages, ReadForControl(c, kind, m) PROVE CancelOK(c)'
  <2>1. cpc'[c] = "held"
    BY <1>2 DEF ReadForControl, CoreInv, TypeOK
  <2> QED
    BY <2>1 DEF CancelOK
<1>3. ASSUME ControlFails(c) PROVE CancelOK(c)'
  <2>1. cpc'[c] = "failed"
    BY <1>3 DEF ControlFails, CoreInv, TypeOK
  <2> QED
    BY <2>1 DEF CancelOK
<1>4. ASSUME ControlRecovers(c) PROVE CancelOK(c)'
  <2>1. /\ cpc[c] = "lost" /\ UNCHANGED <<row, ckind, cmsg, cset, cvec>>
        /\ \/ SameRows(cset[c], cvec[c]) /\ cpc'[c] = "done"
           \/ cpc'[c] = "failed"
    BY <1>4 DEF ControlRecovers, CoreInv, TypeOK
  <2>2. SameRows(cset[c], cvec[c]) /\ cmsg[c] \in cset[c] => row[cmsg[c]] = cvec[c][cmsg[c]]
    BY DEF SameRows
  <2> QED
    BY <2>1, <2>2 DEF CancelOK
<1>5. ASSUME ControlCommits(c) PROVE CancelOK(c)'
  <2> SUFFICES ASSUME ckind'[c] = "cancel" PROVE CancelOK(c)'
    BY DEF CancelOK
  <2> DEFINE m == cmsg[c]
             rows == Planned(ckind[c], m)
  <2>1. m \in Messages /\ ckind[c] = "cancel" /\ Queued(m) /\ cmsg' = cmsg
    BY <1>5 DEF ControlCommits, CoreInv, TypeOK, Aiming
  <2>2. row[m] \in Row
    BY <2>1 DEF CoreInv, TypeOK
  <2>3. Next1(row[m], "cancelled").phase = "cancelled" /\ Next1(row[m], "cancelled").token = None
    BY <2>1, <2>2, RowTypes DEF Queued, Phases, Outcomes
  <2>4. rows[m] = Next1(row[m], "cancelled")
    BY <2>1, Zenon DEF Planned
  <2>5. m \in Affected(ckind[c], m)
    BY DEF Affected
  <2>6. rows \in [Messages -> Row]
    BY <2>1, PlannedTypes DEF CoreInv, TypeOK
  <2>7. Only(Affected(ckind[c], m), rows)[m] = rows[m]
    BY <2>1, <2>5, <2>6, OnlyTypes
  <2>8. /\ cset' = [cset EXCEPT ![c] = Affected(ckind[c], m)]
        /\ cvec' = [cvec EXCEPT ![c] = Only(Affected(ckind[c], m), rows)]
        /\ \/ row' = rows /\ cpc' \in {[cpc EXCEPT ![c] = "done"], [cpc EXCEPT ![c] = "lost"]}
           \/ cpc' = [cpc EXCEPT ![c] = "lost"]
    BY <1>5 DEF ControlCommits
  <2>9. cset'[c] = Affected(ckind[c], m) /\ cvec'[c] = Only(Affected(ckind[c], m), rows)
    BY <2>8 DEF CoreInv, TypeOK
  <2>10. cpc'[c] = "done" => row' = rows
    BY <2>8 DEF CoreInv, TypeOK
  <2>11. cmsg'[c] = m
    BY <2>1
  <2> HIDE DEF m, rows
  <2> QED
    BY <2>3, <2>4, <2>5, <2>7, <2>9, <2>10, <2>11 DEF CancelOK
<1> QED
  BY <1>1, <1>2, <1>3, <1>4, <1>5 DEF Control

\* The rows a submission leaves behind.
LEMMA StoredRows ==
  ASSUME CoreInv, NEW s \in Submissions, spc[s] = "prepared", SameRows(sset[s], svec[s])
  PROVE  /\ Stored(s)[MessageOf[s]].by = s
         /\ \A m \in sset[s] \ {MessageOf[s]} :
              Stored(s)[m].phase = "cancelled" /\ Stored(s)[m].token = None
<1>1. MessageOf[s] \in Messages /\ sset[s] \subseteq Messages
  BY OperationsAssumption DEF CoreInv, TypeOK
<1>2. Stored(s)[MessageOf[s]].by = s
  BY <1>1 DEF Stored
<1>3. ASSUME NEW m \in sset[s] \ {MessageOf[s]}
      PROVE  Stored(s)[m].phase = "cancelled" /\ Stored(s)[m].token = None
  <2>1. m \in Messages /\ row[m] \in Row /\ row[m].token = None
    BY <1>1 DEF CoreInv, TypeOK, Replacing, SameRows
  <2>2. Stored(s)[m] = Next1(row[m], "cancelled")
    BY <2>1, Zenon DEF Stored
  <2> QED
    BY <2>1, <2>2, RowTypes DEF Phases, Outcomes
<1> QED
  BY <1>2, <1>3

\* What a replay finds replaced.
LEMMA ReplacedRows ==
  ASSUME CoreInv, NEW s \in Submissions, spc[s] = "prepared", ReplacedAlready(s)
  PROVE  \A m \in sset[s] \ {MessageOf[s]} : row[m].phase = "cancelled" /\ row[m].token = None
<1> TAKE m \in sset[s] \ {MessageOf[s]}
<1>1. svec[s][m] \in Row /\ svec[s][m].token = None
  BY DEF CoreInv, TypeOK, Replacing
<1>2. row[m] = Next1(svec[s][m], "cancelled")
  BY DEF ReplacedAlready
<1> QED
  BY <1>1, <1>2, RowTypes DEF Phases, Outcomes

LEMMA SubmissionReports ==
  ASSUME CoreInv, RowsKept, NEW s \in Submissions, Submission(s), AdmitOK(s)
  PROVE  /\ AdmitOK(s)'
         /\ \A t \in Submissions \ {s} :
              spc'[t] = spc[t] /\ sset'[t] = sset[t] /\ svec'[t] = svec[t]
<1>0. MessageOf[s] \in Messages
  BY OperationsAssumption
<1>1. ASSUME NEW t \in Submissions \ {s}
      PROVE  spc'[t] = spc[t] /\ sset'[t] = sset[t] /\ svec'[t] = svec[t]
  BY DEF CoreInv, TypeOK, Submission, Prepare, Admit, Replay, AdmissionFails, AdmissionRecovers
<1>2. ASSUME Prepare(s) PROVE AdmitOK(s)'
  <2>1. CASE spc'[s] = "prepared"
    BY <2>1 DEF AdmitOK
  <2>2. CASE spc'[s] # "prepared"
    <3>1. /\ spc[s] = "idle" /\ sset'[s] = sset[s]
          /\ spc'[s] \in {"accepted", "refused"}
          /\ spc'[s] = "accepted" => SameContent(s)
      BY <1>2, <2>2 DEF Prepare, CoreInv, TypeOK
    <3>2. spc'[s] = "accepted" => SameContent(s)'
      BY <3>1, KeepsContent
    <3>3. sset'[s] = {}
      BY <3>1 DEF AdmitOK
    <3> QED
      BY <3>1, <3>2, <3>3 DEF AdmitOK
  <2> QED
    BY <2>1, <2>2
<1>3. ASSUME AdmissionFails(s) PROVE AdmitOK(s)'
  <2>1. spc'[s] = "refused"
    BY <1>3 DEF AdmissionFails, CoreInv, TypeOK
  <2> QED
    BY <2>1 DEF AdmitOK
<1>4. ASSUME Replay(s) PROVE AdmitOK(s)'
  <2>1. /\ spc[s] = "prepared" /\ UNCHANGED <<row, sset>>
        /\ \/ spc'[s] = "accepted" /\ SameContent(s) /\ ReplacedAlready(s)
           \/ spc'[s] = "refused"
    BY <1>4 DEF Replay, CoreInv, TypeOK
  <2>2. CASE spc'[s] = "refused"
    BY <2>2 DEF AdmitOK
  <2>3. CASE spc'[s] = "accepted" /\ SameContent(s) /\ ReplacedAlready(s)
    <3>1. SameContent(s)'
      BY <2>3, KeepsContent
    <3>2. \A m \in sset[s] \ {MessageOf[s]} : row[m].phase = "cancelled" /\ row[m].token = None
      BY <2>1, <2>3, ReplacedRows
    <3> QED
      BY <2>1, <2>3, <3>1, <3>2 DEF AdmitOK
  <2> QED
    BY <2>1, <2>2, <2>3
<1>5. ASSUME AdmissionRecovers(s) PROVE AdmitOK(s)'
  <2>1. /\ spc[s] = "lost" /\ UNCHANGED <<row, sset, svec>>
        /\ \/ SameRows(sset[s], svec[s]) /\ spc'[s] = "accepted"
           \/ spc'[s] = "uncertain"
    BY <1>5 DEF AdmissionRecovers, CoreInv, TypeOK
  <2>2. CASE spc'[s] = "uncertain"
    BY <2>2 DEF AdmitOK
  <2>3. CASE SameRows(sset[s], svec[s]) /\ spc'[s] = "accepted"
    <3>1. \A m \in sset[s] : row[m] = svec[s][m]
      BY <2>3 DEF SameRows
    <3>2. /\ MessageOf[s] \in sset[s] /\ svec[s][MessageOf[s]].by = s
          /\ \A m \in sset[s] \ {MessageOf[s]} :
               svec[s][m].phase = "cancelled" /\ svec[s][m].token = None
      BY <2>1 DEF AdmitOK
    <3>3. row[MessageOf[s]].by = s /\ s # None
      BY <3>1, <3>2, NoneAssumption
    <3>4. SameContent(s)
      BY <3>3 DEF SameContent
    <3>5. SameContent(s)'
      BY <3>4, KeepsContent
    <3> QED
      BY <2>1, <2>3, <3>1, <3>2, <3>5 DEF AdmitOK
  <2> QED
    BY <2>1, <2>2, <2>3
<1>6. ASSUME Admit(s) PROVE AdmitOK(s)'
  <2> DEFINE S == sset[s] \union {MessageOf[s]}
             W == Only(S, Stored(s))
  <2>1. /\ spc[s] = "prepared" /\ SameRows(sset[s], svec[s])
        /\ sset' = [sset EXCEPT ![s] = S] /\ svec' = [svec EXCEPT ![s] = W]
        /\ \/ row' = Stored(s) /\ spc' \in {[spc EXCEPT ![s] = "accepted"], [spc EXCEPT ![s] = "lost"]}
           \/ spc' = [spc EXCEPT ![s] = "lost"]
    BY <1>6 DEF Admit
  <2>2. /\ Stored(s)[MessageOf[s]].by = s
        /\ \A m \in sset[s] \ {MessageOf[s]} :
             Stored(s)[m].phase = "cancelled" /\ Stored(s)[m].token = None
    BY <2>1, StoredRows
  <2>3. Stored(s) \in [Messages -> Row] /\ S \subseteq Messages
    BY <1>0, StoredTypes DEF CoreInv, TypeOK
  <2>4. \A m \in S : W[m] = Stored(s)[m]
    BY <2>3, OnlyTypes
  <2>5. sset'[s] = S /\ svec'[s] = W
    BY <2>1 DEF CoreInv, TypeOK
  <2>6. /\ spc'[s] \in {"accepted", "lost"}
        /\ spc'[s] = "accepted" => row' = Stored(s)
    BY <2>1 DEF CoreInv, TypeOK
  <2>7. MessageOf[s] \in S /\ S \ {MessageOf[s]} = sset[s] \ {MessageOf[s]}
    OBVIOUS
  <2>8. \A m \in S \ {MessageOf[s]} : m \in sset[s] \ {MessageOf[s]} /\ m \in S
    OBVIOUS
  <2> HIDE DEF S, W
  <2>9. spc'[s] = "accepted" => SameContent(s)'
    BY <2>2, <2>6, NoneAssumption DEF SameContent
  <2> QED
    BY <2>2, <2>4, <2>5, <2>6, <2>7, <2>8, <2>9 DEF AdmitOK
<1> QED
  BY <1>1, <1>2, <1>3, <1>4, <1>5, <1>6 DEF Submission

-----------------------------------------------------------------------------
(* The invariant is inductive *)

LEMMA InitQueue == Init => QueueInv
<1> SUFFICES ASSUME Init PROVE QueueInv
  OBVIOUS
<1>1. (\A c \in Controls : cpc[c] = "idle")
      /\ (\A s \in Submissions : spc[s] = "idle" /\ sset[s] = {})
  BY DEF Init
<1>2. Reports
  BY <1>1 DEF Reports, CancelOK, AdmitOK
<1> QED
  BY <1>2, InitCore DEF QueueInv

LEMMA StepQueue ==
  ASSUME QueueInv, Next
  PROVE  QueueInv' /\ RowsKept
<1>0. CoreInv /\ TypeOK /\ Aiming /\ Unclaimed /\ Replacing
  BY DEF QueueInv, CoreInv
<1>1. ASSUME NEW e \in Attempts, Execution(e) PROVE QueueInv' /\ RowsKept
  <2>1. CoreInv' /\ RowsKept
    BY <1>0, <1>1, ExecutionCore, ExecutionRows
  <2>2. UNCHANGED <<controlVars, submitVars>>
    BY <1>0, <1>1, ExecutionEffect DEF CoreInv, Effect
  <2>3. ASSUME NEW c \in Controls PROVE CancelOK(c)'
    <3>1. CancelOK(c)
      BY DEF QueueInv, Reports
    <3> QED
      BY <1>0, <2>1, <2>2, <3>1, KeepsCancel
  <2>4. ASSUME NEW s \in Submissions PROVE AdmitOK(s)'
    <3>1. AdmitOK(s)
      BY DEF QueueInv, Reports
    <3> QED
      BY <1>0, <2>1, <2>2, <3>1, KeepsAdmit
  <2> QED
    BY <2>1, <2>3, <2>4 DEF QueueInv, Reports
<1>2. ASSUME NEW c \in Controls, Control(c) PROVE QueueInv' /\ RowsKept
  <2>1. TypeOK' /\ Aiming' /\ QueueEffect /\ UNCHANGED submitVars
    BY <1>0, <1>2, ControlEffect
  <2>2. RowsKept
    BY <1>0, <2>1, QueueRows
  <2>3. HoldingOK' /\ Unclaimed' /\ Alone' /\ BegunRows' /\ FreshOK'
    BY <1>0, <2>1, QueueCore
  <2>4. Replacing'
    BY <1>0, <2>1 DEF Replacing
  <2>5. CoreInv'
    BY <2>1, <2>3, <2>4 DEF CoreInv
  <2>6. CancelOK(c)
    BY DEF QueueInv, Reports
  <2>7. CancelOK(c)'
        /\ \A d \in Controls \ {c} :
             /\ cpc'[d] = cpc[d] /\ ckind'[d] = ckind[d] /\ cmsg'[d] = cmsg[d]
             /\ cset'[d] = cset[d] /\ cvec'[d] = cvec[d]
    BY <1>0, <1>2, <2>2, <2>6, ControlReports
  <2>8. ASSUME NEW d \in Controls \ {c} PROVE CancelOK(d)'
    <3>1. CancelOK(d)
      BY DEF QueueInv, Reports
    <3> QED
      BY <1>0, <2>2, <2>7, <3>1, KeepsCancel
  <2>9. ASSUME NEW s \in Submissions PROVE AdmitOK(s)'
    <3>1. AdmitOK(s)
      BY DEF QueueInv, Reports
    <3> QED
      BY <1>0, <2>1, <2>2, <3>1, KeepsAdmit
  <2> QED
    BY <2>2, <2>5, <2>7, <2>8, <2>9 DEF QueueInv, Reports
<1>3. ASSUME NEW s \in Submissions, Submission(s) PROVE QueueInv' /\ RowsKept
  <2>1. TypeOK' /\ Replacing' /\ QueueEffect /\ UNCHANGED controlVars
    BY <1>0, <1>3, SubmissionEffect
  <2>2. RowsKept
    BY <1>0, <2>1, QueueRows
  <2>3. HoldingOK' /\ Unclaimed' /\ Alone' /\ BegunRows' /\ FreshOK'
    BY <1>0, <2>1, QueueCore
  <2>4. Aiming'
    BY <1>0, <2>1 DEF Aiming
  <2>5. CoreInv'
    BY <2>1, <2>3, <2>4 DEF CoreInv
  <2>6. AdmitOK(s)
    BY DEF QueueInv, Reports
  <2>7. AdmitOK(s)'
        /\ \A t \in Submissions \ {s} :
             spc'[t] = spc[t] /\ sset'[t] = sset[t] /\ svec'[t] = svec[t]
    BY <1>0, <1>3, <2>2, <2>6, SubmissionReports
  <2>8. ASSUME NEW t \in Submissions \ {s} PROVE AdmitOK(t)'
    <3>1. AdmitOK(t)
      BY DEF QueueInv, Reports
    <3> QED
      BY <1>0, <2>2, <2>7, <3>1, KeepsAdmit
  <2>9. ASSUME NEW c \in Controls PROVE CancelOK(c)'
    <3>1. CancelOK(c)
      BY DEF QueueInv, Reports
    <3> QED
      BY <1>0, <2>1, <2>2, <3>1, KeepsCancel
  <2> QED
    BY <2>2, <2>5, <2>7, <2>8, <2>9 DEF QueueInv, Reports
<1> QED
  BY <1>1, <1>2, <1>3 DEF Next

\* A step that changes nothing.
LEMMA StutterQueue ==
  ASSUME QueueInv, UNCHANGED vars
  PROVE  QueueInv'
<1>1. UNCHANGED <<row, counter, apc, amsg, ahold, begun, cpc, ckind, cmsg, cset, cvec,
                  spc, sset, svec>>
  BY DEF vars
<1>2. CoreInv
  BY DEF QueueInv
<1>3. TypeOK'
  BY <1>1, <1>2 DEF CoreInv, TypeOK
<1>4. QueueEffect
  BY <1>1 DEF QueueEffect
<1>5. HoldingOK' /\ Unclaimed' /\ Alone' /\ BegunRows' /\ FreshOK' /\ RowsKept
  BY <1>2, <1>4, QueueCore, QueueRows
<1>6. Aiming' /\ Replacing'
  BY <1>1, <1>2 DEF CoreInv, Aiming, Replacing
<1>7. ASSUME NEW c \in Controls PROVE CancelOK(c)'
  <2>1. CancelOK(c)
    BY DEF QueueInv, Reports
  <2> QED
    BY <1>1, <1>2, <1>5, <2>1, KeepsCancel
<1>8. ASSUME NEW s \in Submissions PROVE AdmitOK(s)'
  <2>1. AdmitOK(s)
    BY DEF QueueInv, Reports
  <2> QED
    BY <1>1, <1>2, <1>5, <2>1, KeepsAdmit
<1> QED
  BY <1>3, <1>5, <1>6, <1>7, <1>8 DEF QueueInv, CoreInv, Reports

LEMMA QueueInvariant == Spec => []QueueInv
<1>1. Init => QueueInv
  BY InitQueue
<1>2. QueueInv /\ [Next]_vars => QueueInv'
  BY StepQueue, StutterQueue
<1> QED
  BY <1>1, <1>2, PTL DEF Spec

-----------------------------------------------------------------------------
(* The order of acceptance *)

\* A message whose row nothing has touched since it was stored with a position.
Untouched(m) == row[m].phase = "queued" /\ row[m].rev = 1 /\ row[m].ord # 0

\* Untouched messages are ready, and stand behind everything that was claimed.
Ordered ==
  /\ \A m \in Messages : row[m].ord <= counter
  /\ \A m \in Messages : row[m].phase = "queued" => row[m].rev >= 1
  /\ \A m \in Messages : Untouched(m) => row[m].disp = "ready"
  /\ \A m, n \in Messages : Untouched(m) /\ row[n].token # None => row[n].ord <= row[m].ord

\* What a step may do to a row: touch it, which gives it a token only if no
\* untouched message stands before it, or store it last.
TouchedRow(m) ==
  /\ row'[m].phase # "queued" \/ row'[m].rev > 1
  /\ row'[m].phase = "queued" => row'[m].rev >= 1
  /\ row'[m].ord <= counter'
  /\ row'[m].token # None =>
       /\ row'[m].ord = row[m].ord
       /\ row[m].token = None =>
            \A n \in Messages \ {m} : Untouched(n) => row[m].ord <= row[n].ord

StoredLast(m) ==
  /\ row'[m].rev = 1 /\ row'[m].token = None
  /\ row'[m].disp = "ready" /\ row'[m].ord = counter'

OrderStep ==
  /\ counter <= counter'
  /\ \A m \in Messages : row'[m] = row[m] \/ TouchedRow(m) \/ StoredLast(m)

LEMMA OrderKept ==
  ASSUME TypeOK, TypeOK', Ordered, OrderStep
  PROVE  Ordered'
<1>1. \A m \in Messages : row[m].ord \in Nat /\ row'[m].ord \in Nat /\ row'[m].rev \in Nat
  BY DEF TypeOK, Row
<1>2. counter \in Nat /\ counter' \in Nat /\ counter <= counter'
  BY DEF TypeOK, OrderStep
<1>3. ASSUME NEW m \in Messages PROVE row'[m].ord <= counter'
  BY <1>1, <1>2 DEF OrderStep, TouchedRow, StoredLast, Ordered
<1>4. ASSUME NEW m \in Messages, row'[m].phase = "queued" PROVE row'[m].rev >= 1
  BY <1>4 DEF OrderStep, TouchedRow, StoredLast, Ordered
<1>5. ASSUME NEW m \in Messages, Untouched(m)'
      PROVE  (row'[m] = row[m] /\ Untouched(m)) \/ StoredLast(m)
  BY <1>1, <1>5 DEF OrderStep, TouchedRow, Untouched
<1>6. ASSUME NEW m \in Messages, Untouched(m)' PROVE row'[m].disp = "ready"
  BY <1>5, <1>6 DEF StoredLast, Ordered
<1>7. ASSUME NEW m \in Messages, NEW n \in Messages, Untouched(m)', row'[n].token # None
      PROVE  row'[n].ord <= row'[m].ord
  <2>1. CASE StoredLast(m)
    BY <1>3, <2>1 DEF StoredLast
  <2>2. CASE row'[m] = row[m] /\ Untouched(m)
    <3>1. CASE row'[n] = row[n]
      BY <1>7, <2>2, <3>1 DEF Ordered
    <3>2. CASE TouchedRow(n)
      <4>1. n # m
        BY <1>1, <1>7, <3>2 DEF TouchedRow, Untouched
      <4>2. row'[n].ord = row[n].ord
        BY <1>7, <3>2 DEF TouchedRow
      <4>3. CASE row[n].token = None
        BY <1>7, <2>2, <3>2, <4>1, <4>2, <4>3 DEF TouchedRow
      <4>4. CASE row[n].token # None
        BY <2>2, <4>2, <4>4 DEF Ordered
      <4> QED
        BY <4>3, <4>4
    <3> QED
      BY <1>7, <3>1, <3>2 DEF OrderStep, StoredLast
  <2> QED
    BY <1>5, <1>7, <2>1, <2>2
<1> QED
  BY <1>3, <1>4, <1>6, <1>7 DEF Ordered

LEMMA Next1Order ==
  ASSUME NEW r \in Row, NEW p \in Phases
  PROVE  Next1(r, p).ord = r.ord /\ Next1(r, p).rev = r.rev + 1 /\ Next1(r, p).disp = r.disp
<1>1. PICK k \in Nat : k = r.rev + 1
  BY DEF Row
<1>2. /\ [r EXCEPT !.phase = p, !.rev = k].ord = r.ord
      /\ [r EXCEPT !.phase = p, !.rev = k].rev = k
      /\ [r EXCEPT !.phase = p, !.rev = k].disp = r.disp
  BY DEF Row
<1>3. Next1(r, p) = [r EXCEPT !.phase = p, !.rev = k]
  BY <1>1, Zenon DEF Next1
<1> QED
  BY <1>1, <1>2, <1>3

LEMMA MovedOrder ==
  ASSUME NEW e \in Attempts, ahold[e] \in Row, NEW p \in Phases
  PROVE  Moved(e, p).ord = ahold[e].ord
<1>1. ASSUME NEW n \in Row PROVE [n EXCEPT !.token = e].ord = n.ord
  BY DEF Row
<1>2. Moved(e, p) = [Next1(ahold[e], p) EXCEPT !.token = e]
  BY Zenon DEF Moved
<1>3. Next1(ahold[e], p) \in Row /\ Next1(ahold[e], p).ord = ahold[e].ord
  BY RowTypes, Next1Order
<1> QED
  BY <1>1, <1>2, <1>3

LEMMA ExecutionOrder ==
  ASSUME CoreInv, Ordered, NEW e \in Attempts, Effect(e)
  PROVE  OrderStep
<1>0. counter \in Nat /\ counter' = counter
  BY DEF CoreInv, TypeOK, Effect
<1>1. CASE UNCHANGED row
  BY <1>0, <1>1 DEF OrderStep
<1>2. ASSUME NEW p \in Phases, Turn(e, p), row' = [row EXCEPT ![amsg[e]] = Moved(e, p)]
      PROVE  OrderStep
  <2> DEFINE m == amsg[e]
  <2>1. Turned(e, p)
    BY <1>2, TurnRow DEF CoreInv
  <2>2. m \in Messages /\ ahold[e] \in Row /\ row[m] = ahold[e]
    BY <1>2, <2>1 DEF Turn, Turned, CoreInv, TypeOK
  <2>3. row'[m].ord = row[m].ord
    BY <1>2, <2>2, MovedOrder DEF CoreInv, TypeOK
  <2>4. /\ row'[m].phase = p /\ p \in {"dispatching", "running"} \union Outcomes
        /\ row[m].token = IF row[m].phase = "queued" THEN None ELSE e
        /\ p \in {"dispatching", "running"} => Available(m)
        /\ p \in Outcomes => row[m].phase # "queued"
        /\ \A n \in Messages \ {m} : row'[n] = row[n]
    BY <2>1 DEF Turned
  <2> HIDE DEF m
  <2>5. row'[m].phase # "queued"
    BY <2>4 DEF Outcomes
  <2>6. row[m].token = None => Available(m)
    BY <2>4, NoneAssumption DEF Outcomes
  <2>7. ASSUME row[m].token = None, NEW n \in Messages \ {m}, Untouched(n)
        PROVE  row[m].ord <= row[n].ord
    <3>1. row[n].disp = "ready" /\ row[n].phase = "queued"
      BY <2>7 DEF Ordered, Untouched
    <3>2. ~(row[n].ord < row[m].ord)
      BY <2>6, <2>7, <3>1 DEF Available
    <3>3. row[n].ord \in Nat /\ row[m].ord \in Nat
      BY <2>2, <2>7 DEF CoreInv, TypeOK, Row
    <3> QED
      BY <3>2, <3>3
  <2>8. row'[m].ord <= counter'
    BY <1>0, <2>2, <2>3 DEF Ordered
  <2>9. TouchedRow(m)
    BY <2>3, <2>5, <2>7, <2>8 DEF TouchedRow
  <2> QED
    BY <1>0, <2>4, <2>9 DEF OrderStep
<1> QED
  BY <1>1, <1>2 DEF Effect

\* A control changes no row without counting its revision, and moves the phase
\* of its own message only.
LEMMA PlannedOrder ==
  ASSUME TypeOK, Ordered, NEW kind \in Kinds, NEW m \in Messages, Queued(m), NEW n \in Messages
  PROVE  \/ Planned(kind, m)[n] = row[n]
         \/ /\ Planned(kind, m)[n].rev > 1 /\ Planned(kind, m)[n].token = None
            /\ n # m => /\ Planned(kind, m)[n].ord = row[n].ord
                        /\ Planned(kind, m)[n].phase = row[n].phase
<1>1. row[n] \in Row /\ row[m] \in Row
  BY DEF TypeOK
<1>2. /\ row[m].rev \in Nat /\ row[m].rev >= 1 /\ row[n].rev \in Nat
      /\ Queued(n) => row[n].rev >= 1
  BY <1>1 DEF Row, Ordered, Queued
<1>3. /\ Next1(row[m], "cancelled").rev > 1
      /\ Next1(row[m], "queued") \in Row /\ Next1(row[m], "queued").rev > 1
      /\ Next1(row[n], "queued") \in Row
      /\ Queued(n) => Next1(row[n], "queued").rev > 1
      /\ Next1(row[n], "queued").ord = row[n].ord /\ Next1(row[n], "queued").phase = "queued"
  <2>1. "queued" \in Phases /\ "cancelled" \in Phases
    BY DEF Phases, Outcomes
  <2> QED
    BY <1>1, <1>2, <2>1, RowTypes, Next1Order
<1>4. ASSUME NEW r \in Row, NEW i
      PROVE  /\ [r EXCEPT !.disp = "ready", !.ord = i].rev = r.rev
             /\ [r EXCEPT !.disp = "suspended"].rev = r.rev
             /\ [r EXCEPT !.disp = "suspended"].ord = r.ord
             /\ [r EXCEPT !.disp = "suspended"].phase = r.phase
  BY DEF Row
<1>5. n \in Affected(kind, m) => Queued(n)
  BY DEF Affected, Older
<1>6. Planned(kind, m)[n] = row[n] \/ Planned(kind, m)[n].token = None
  BY PlannedEffect
<1>7. CASE n = m /\ kind = "cancel"
  <2>1. Planned(kind, m)[n] = Next1(row[m], "cancelled")
    BY <1>7, Zenon DEF Planned
  <2> QED
    BY <1>3, <1>6, <1>7, <2>1
<1>8. CASE n = m /\ kind # "cancel"
  <2>1. Planned(kind, m)[n]
          = [Next1(row[m], "queued") EXCEPT !.disp = "ready", !.ord = Position(kind, m)]
    BY <1>8, Zenon DEF Planned
  <2> QED
    BY <1>3, <1>4, <1>6, <1>8, <2>1
<1>9. CASE n # m /\ n \in Affected(kind, m)
  <2> DEFINE r == Next1(row[n], "queued")
  <2>1. Planned(kind, m)[n] = [r EXCEPT !.disp = "suspended"]
    BY <1>9, Zenon DEF Planned
  <2>2. r \in Row /\ r.rev > 1 /\ r.ord = row[n].ord /\ r.phase = row[n].phase
    BY <1>3, <1>5, <1>9 DEF Queued
  <2> HIDE DEF r
  <2>3. /\ Planned(kind, m)[n].rev = r.rev /\ Planned(kind, m)[n].ord = r.ord
        /\ Planned(kind, m)[n].phase = r.phase
    BY <1>4, <2>1, <2>2
  <2> QED
    BY <1>6, <2>2, <2>3
<1>10. CASE n # m /\ n \notin Affected(kind, m)
  BY <1>10, Zenon DEF Planned
<1> QED
  BY <1>7, <1>8, <1>9, <1>10

LEMMA ControlOrder ==
  ASSUME CoreInv, Ordered, NEW c \in Controls, Control(c)
  PROVE  OrderStep
<1>0. TypeOK /\ counter \in Nat
  BY DEF CoreInv, TypeOK
<1>1. CASE UNCHANGED <<row, counter>>
  BY <1>0, <1>1 DEF OrderStep
<1>2. ASSUME ControlCommits(c), ~UNCHANGED <<row, counter>> PROVE OrderStep
  <2> DEFINE m == cmsg[c]
             rows == Planned(ckind[c], m)
  <2>1. m \in Messages /\ ckind[c] \in Kinds /\ Queued(m)
    BY <1>2 DEF ControlCommits, CoreInv, Aiming, TypeOK
  <2>2. row' = rows /\ counter' = IF rows[m].ord > counter THEN rows[m].ord ELSE counter
    BY <1>2 DEF ControlCommits
  <2>3. rows \in [Messages -> Row]
    BY <1>0, <2>1, PlannedTypes
  <2>4. \A n \in Messages :
          \/ rows[n] = row[n]
          \/ rows[n].rev > 1 /\ rows[n].token = None /\ (n # m => rows[n].ord = row[n].ord)
    BY <1>0, <2>1, PlannedOrder
  <2>5. m \in Messages
    BY <2>1
  <2> HIDE DEF m, rows
  <2>6. rows[m].ord \in Nat /\ counter <= counter' /\ rows[m].ord <= counter'
    BY <1>0, <2>2, <2>3, <2>5 DEF Row
  <2>7. \A n \in Messages : row[n].ord \in Nat /\ row[n].ord <= counter'
    BY <1>0, <2>2, <2>6 DEF TypeOK, Row, Ordered
  <2>8. \A n \in Messages : row'[n] = row[n] \/ TouchedRow(n)
    BY <2>2, <2>3, <2>4, <2>6, <2>7 DEF TouchedRow, Row
  <2> QED
    BY <2>6, <2>8 DEF OrderStep
<1> QED
  BY <1>1, <1>2 DEF Control, ReadForControl, ControlFails, ControlRecovers

LEMMA SubmissionOrder ==
  ASSUME CoreInv, Ordered, NEW s \in Submissions, Submission(s)
  PROVE  OrderStep
<1>0. TypeOK /\ counter \in Nat /\ MessageOf[s] \in Messages
  BY OperationsAssumption DEF CoreInv, TypeOK
<1>1. CASE UNCHANGED <<row, counter>>
  BY <1>0, <1>1 DEF OrderStep
<1>2. ASSUME Admit(s), ~UNCHANGED <<row, counter>> PROVE OrderStep
  <2>1. /\ row' = Stored(s) /\ counter' = counter + 1
        /\ spc[s] = "prepared" /\ \A m \in sset[s] : row[m] = svec[s][m]
    BY <1>2 DEF Admit, SameRows
  <2>2. counter <= counter'
    BY <1>0, <2>1
  <2>3. ASSUME NEW m \in Messages
        PROVE  row'[m] = row[m] \/ TouchedRow(m) \/ StoredLast(m)
    <3>1. row[m] \in Row /\ row[m].ord \in Nat /\ row[m].ord <= counter'
      BY <1>0, <2>1 DEF TypeOK, Row, Ordered
    <3>2. CASE m = MessageOf[s]
      <4>1. row'[m] = [phase |-> "queued", rev |-> 1, token |-> None, ord |-> counter + 1,
                       disp |-> "ready", by |-> s]
        BY <2>1, <3>2 DEF Stored
      <4> QED
        BY <2>1, <4>1 DEF StoredLast
    <3>3. CASE m # MessageOf[s] /\ m \in sset[s]
      <4>1. row'[m] = Next1(row[m], "cancelled")
        BY <2>1, <3>3, Zenon DEF Stored
      <4>2. row[m].token = None
        BY <2>1, <3>3 DEF CoreInv, Replacing
      <4>3. row'[m].phase = "cancelled" /\ row'[m].token = None /\ row'[m].ord = row[m].ord
        <5>1. "cancelled" \in Phases
          BY DEF Phases, Outcomes
        <5> QED
          BY <3>1, <4>1, <4>2, <5>1, RowTypes, Next1Order
      <4> QED
        BY <3>1, <4>3 DEF TouchedRow
    <3>4. CASE m # MessageOf[s] /\ m \notin sset[s]
      BY <2>1, <3>4, Zenon DEF Stored
    <3> QED
      BY <3>2, <3>3, <3>4
  <2> QED
    BY <2>2, <2>3 DEF OrderStep
<1> QED
  BY <1>1, <1>2 DEF Submission, Prepare, Replay, AdmissionFails, AdmissionRecovers

LEMMA InitOrder == Init => Ordered
<1> SUFFICES ASSUME Init PROVE Ordered
  OBVIOUS
<1>1. \A p \in {"none", "legacy", "queued"} :
        /\ OldRow(p).ord = 0 /\ OldRow(p).phase = p /\ OldRow(p).token = None
        /\ p = "queued" => OldRow(p).rev = 1
  BY DEF OldRow
<1>2. \A m \in Messages : \E p \in {"none", "legacy", "queued"} : row[m] = OldRow(p)
  BY DEF Init
<1>3. \A m \in Messages : row[m].ord = 0 /\ row[m].token = None
                          /\ (row[m].phase = "queued" => row[m].rev = 1)
  BY <1>1, <1>2
<1>4. counter = 0
  BY DEF Init
<1> QED
  BY <1>3, <1>4 DEF Ordered, Untouched

LEMMA OrderInvariant == Spec => [](QueueInv /\ Ordered)
<1>1. Init => QueueInv /\ Ordered
  BY InitQueue, InitOrder
<1>2. ASSUME QueueInv, Ordered, Next PROVE QueueInv' /\ Ordered'
  <2>1. QueueInv' /\ CoreInv /\ TypeOK
    BY <1>2, StepQueue DEF QueueInv, CoreInv
  <2>2. OrderStep
    BY <1>2, <2>1, ExecutionEffect, ExecutionOrder, ControlOrder, SubmissionOrder DEF Next, CoreInv
  <2>3. TypeOK'
    BY <2>1 DEF QueueInv, CoreInv
  <2> QED
    BY <1>2, <2>1, <2>2, <2>3, OrderKept
<1>3. ASSUME QueueInv, Ordered, UNCHANGED vars PROVE QueueInv' /\ Ordered'
  <2>1. row' = row /\ counter' = counter
    BY <1>3 DEF vars
  <2> QED
    BY <1>3, <2>1, StutterQueue DEF Ordered, Untouched
<1> QED
  BY <1>1, <1>2, <1>3, PTL DEF Spec

-----------------------------------------------------------------------------
(* The properties *)

\* Every variable keeps its type.
THEOREM TypeCorrect == Spec => []TypeOK
<1>1. QueueInv => TypeOK
  BY DEF QueueInv, CoreInv
<1> QED
  BY <1>1, QueueInvariant, PTL

\* While an attempt works on a message nobody else moves its row, and it works
\* alone in a session in which nothing is unresolved.
THEOREM WorksAloneHolds == Spec => []WorksAlone
<1>1. QueueInv => WorksAlone
  <2> SUFFICES ASSUME QueueInv, NEW e \in Attempts, apc[e] = "work"
               PROVE  /\ row[amsg[e]] = ahold[e]
                      /\ \A m \in Messages \ {amsg[e]} :
                           row[m].phase \notin {"dispatching", "running", "outcome_unknown", "legacy"}
    BY DEF WorksAlone
  <2>1. amsg[e] \in Messages /\ row[amsg[e]] = ahold[e] /\ row[amsg[e]].phase = "running"
    BY DEF QueueInv, CoreInv, HoldingOK, Holding, Owning
  <2> QED
    BY <2>1 DEF QueueInv, CoreInv, Alone
<1> QED
  BY <1>1, QueueInvariant, PTL

\* Cancellations that were reported hold.
THEOREM CancelHoldsAlways == Spec => []CancelHolds
<1>1. QueueInv => CancelHolds
  <2> SUFFICES ASSUME QueueInv, NEW c \in Controls, cpc[c] = "done", ckind[c] = "cancel"
               PROVE  row[cmsg[c]].phase = "cancelled" /\ cmsg[c] \notin begun
    BY DEF CancelHolds
  <2>1. row[cmsg[c]].phase = "cancelled" /\ row[cmsg[c]].token = None
    BY DEF QueueInv, Reports, CancelOK
  <2> QED
    BY <2>1 DEF QueueInv, CoreInv, BegunRows
<1> QED
  BY <1>1, QueueInvariant, PTL

\* What an accepted submission replaces never runs.
THEOREM ReplacedNeverRunsHolds == Spec => []ReplacedNeverRuns
<1>1. QueueInv => ReplacedNeverRuns
  BY DEF QueueInv, CoreInv, Reports, AdmitOK, BegunRows, ReplacedNeverRuns
<1> QED
  BY <1>1, QueueInvariant, PTL

\* What was accepted is stored with the content that was submitted.
THEOREM AcceptedIsStoredHolds == Spec => []AcceptedIsStored
<1>1. QueueInv => AcceptedIsStored
  BY DEF QueueInv, Reports, AdmitOK, AcceptedIsStored
<1> QED
  BY <1>1, QueueInvariant, PTL

\* Messages nobody has touched are begun in the order of their acceptance.
THEOREM UntouchedFirstHolds == Spec => []UntouchedFirst
<1>1. QueueInv /\ Ordered => UntouchedFirst
  <2> SUFFICES ASSUME QueueInv, Ordered, NEW m \in Messages, NEW n \in Messages, Untouched(m),
                      row[n].ord > row[m].ord, n \in begun
               PROVE  FALSE
    BY DEF UntouchedFirst, Untouched
  <2>1. row[n].token # None
    BY DEF QueueInv, CoreInv, BegunRows
  <2>2. row[n].ord <= row[m].ord
    BY <2>1 DEF Ordered
  <2>3. row[n].ord \in Nat /\ row[m].ord \in Nat
    BY DEF QueueInv, CoreInv, TypeOK, Row
  <2> QED
    BY <2>2, <2>3
<1> QED
  BY <1>1, OrderInvariant, PTL

\* No step moves a settled message.
THEOREM SettledStaysHolds == Spec => SettledStays
<1>1. QueueInv /\ [Next]_vars
        => [\A m \in Messages : row[m].phase \in Outcomes => row'[m] = row[m]]_vars
  BY StepQueue DEF RowsKept
<1> QED
  BY <1>1, QueueInvariant, PTL DEF Spec, SettledStays

\* The work on a message is begun at most once.
THEOREM StartedOnceHolds == Spec => StartedOnce
<1>1. ASSUME QueueInv, Next, NEW e \in Attempts, apc[e] # "work", apc'[e] = "work"
      PROVE  amsg[e] \notin begun
  <2>1. TypeOK /\ HoldingOK /\ FreshOK /\ Aiming /\ Unclaimed /\ Replacing
    BY <1>1 DEF QueueInv, CoreInv
  <2>2. PICK f \in Attempts : Execution(f)
    <3>1. ASSUME NEW c \in Controls, Control(c) PROVE FALSE
      BY <1>1, <2>1, <3>1, ControlEffect DEF QueueEffect
    <3>2. ASSUME NEW s \in Submissions, Submission(s) PROVE FALSE
      BY <1>1, <2>1, <3>2, SubmissionEffect DEF QueueEffect
    <3> QED
      BY <1>1, <3>1, <3>2 DEF Next
  <2>3. f = e
    BY <1>1, <2>1, <2>2, ExecutionEffect DEF Effect
  <2>4. apc[e] = "started"
    BY <1>1, <2>1, <2>2, <2>3, WorkEffect
  <2>5. row[amsg[e]].token = e
    BY <2>1, <2>4 DEF HoldingOK, Holding, Owning
  <2> QED
    BY <2>1, <2>4, <2>5 DEF FreshOK, Fresh
<1>2. QueueInv /\ [Next]_vars
        => [\A e \in Attempts : apc[e] # "work" /\ apc'[e] = "work" => amsg[e] \notin begun]_vars
  BY <1>1
<1> QED
  BY <1>2, QueueInvariant, PTL DEF Spec, StartedOnce

-----------------------------------------------------------------------------
(* The refinement *)

\* Where a message stands for the user of its session.
Stands(r) == IF r.phase \in {"dispatching", "running"} THEN "taken" ELSE r.phase

StandsKept(S) == \A n \in Messages \ S : Stands(row'[n]) = Stands(row[n])

LEMMA Stutters ==
  ASSUME StandsKept({}), UNCHANGED begun
  PROVE  UNCHANGED Inbox!inboxVars
BY DEF StandsKept, Stands, Inbox!inboxVars

LEMMA Accepts ==
  ASSUME NEW m \in Messages, NEW R \in SUBSET Messages,
         Stands(row[m]) = "none", Stands(row'[m]) = "queued", m \notin R,
         \A n \in R : Stands(row[n]) = "queued" /\ Stands(row'[n]) = "cancelled",
         StandsKept(R \union {m}), UNCHANGED begun
  PROVE  Inbox!InboxNext
<1>1. \A n \in Messages : Stands(row'[n]) = IF n = m THEN "queued"
                            ELSE IF n \in R THEN "cancelled" ELSE Stands(row[n])
  BY DEF StandsKept
<1>2. Inbox!Accept(m, R)
  BY <1>1 DEF Stands, Inbox!Accept
<1> QED
  BY <1>2 DEF Inbox!InboxNext

\* The steps that move one message.
LEMMA Moves ==
  ASSUME NEW m \in Messages, StandsKept({m}), UNCHANGED begun,
         NEW old, NEW new, Stands(row[m]) = old, Stands(row'[m]) = new,
         \/ old = "queued" /\ new = "cancelled"
         \/ /\ old = "queued" /\ new = "taken"
            /\ \A n \in Messages \ {m} : Stands(row[n]) \notin {"taken", "outcome_unknown", "legacy"}
         \/ old = "taken" /\ new \in Outcomes /\ (m \in begun \/ new = "cancelled")
  PROVE  Inbox!InboxNext
<1>1. [n \in Messages |-> Stands(row'[n])] = [[n \in Messages |-> Stands(row[n])] EXCEPT ![m] = new]
  BY DEF StandsKept
<1>2. CASE old = "queued" /\ new = "cancelled"
  <2>1. Inbox!Withdraw(m)
    BY <1>1, <1>2 DEF Stands, Inbox!Withdraw
  <2> QED
    BY <2>1 DEF Inbox!InboxNext
<1>3. CASE /\ old = "queued" /\ new = "taken"
           /\ \A n \in Messages \ {m} : Stands(row[n]) \notin {"taken", "outcome_unknown", "legacy"}
  <2>1. Inbox!Take(m)
    BY <1>1, <1>3 DEF Stands, Inbox!Take, Inbox!Unresolved
  <2> QED
    BY <2>1 DEF Inbox!InboxNext
<1>4. CASE old = "taken" /\ new \in Outcomes /\ (m \in begun \/ new = "cancelled")
  <2>1. Inbox!Settle(m, new) /\ new \in Inbox!Settled
    BY <1>1, <1>4 DEF Stands, Outcomes, Inbox!Settle, Inbox!Settled
  <2> QED
    BY <2>1 DEF Inbox!InboxNext
<1> QED
  BY <1>2, <1>3, <1>4

LEMMA Begins ==
  ASSUME NEW m \in Messages, Stands(row[m]) = "taken", m \notin begun,
         begun' = begun \union {m}, UNCHANGED row
  PROVE  Inbox!InboxNext
<1>1. Inbox!Begin(m)
  BY DEF Stands, Inbox!Begin
<1> QED
  BY <1>1 DEF Inbox!InboxNext

\* Who settles a message with an outcome has begun it.
WorkBegun == \A e \in Attempts : apc[e] \in {"work", "settling"} => amsg[e] \in begun

LEMMA WorkBegunStep ==
  ASSUME QueueInv, WorkBegun, [Next]_vars
  PROVE  WorkBegun'
<1>0. TypeOK /\ HoldingOK /\ Aiming /\ Unclaimed /\ Replacing
  BY DEF QueueInv, CoreInv
<1>1. CASE UNCHANGED attemptVars
  BY <1>1 DEF WorkBegun
<1>2. ASSUME NEW e \in Attempts, Execution(e) PROVE WorkBegun'
  <2>1. begun \subseteq begun'
    BY <1>0, <1>2, WorkEffect
  <2>2. \A f \in Attempts \ {e} : apc'[f] = apc[f] /\ amsg'[f] = amsg[f]
    BY <1>0, <1>2, ExecutionEffect DEF Effect
  <2>3. apc'[e] \in {"work", "settling"} =>
          /\ amsg'[e] = amsg[e]
          /\ apc[e] \in {"work", "settling"} \/ (apc'[e] = "work" /\ apc[e] # "work")
    BY <1>0, <1>2 DEF TypeOK, Execution, Hold, Claim, StartClaimed, TransitionFails, ConfirmUse,
       ConfirmFails, CancelUnstarted, Settle, Transition, RecoverCommitted
  <2>4. apc'[e] = "work" /\ apc[e] # "work" => amsg[e] \in begun'
    BY <1>0, <1>2, WorkEffect
  <2> QED
    BY <2>1, <2>2, <2>3, <2>4 DEF WorkBegun
<1>3. ASSUME NEW c \in Controls, Control(c) PROVE WorkBegun'
  BY <1>0, <1>3, ControlEffect DEF QueueEffect, WorkBegun
<1>4. ASSUME NEW s \in Submissions, Submission(s) PROVE WorkBegun'
  BY <1>0, <1>4, SubmissionEffect DEF QueueEffect, WorkBegun
<1> QED
  BY <1>1, <1>2, <1>3, <1>4 DEF Next, vars

LEMMA ExecutionImplements ==
  ASSUME QueueInv, WorkBegun, NEW e \in Attempts, Execution(e)
  PROVE  Inbox!InboxNext \/ UNCHANGED Inbox!inboxVars
<1>0. TypeOK /\ HoldingOK /\ CoreInv
  BY DEF QueueInv, CoreInv
<1>1. Effect(e)
  BY <1>0, ExecutionEffect
<1>2. CASE UNCHANGED <<row, begun>>
  BY <1>2, Stutters DEF StandsKept
<1>3. CASE UNCHANGED row /\ ~UNCHANGED begun
  <2>1. /\ apc[e] = "started" /\ apc'[e] = "work" /\ begun' = begun \union {amsg[e]}
    BY <1>0, <1>3, WorkEffect
  <2>2. /\ amsg[e] \in Messages /\ row[amsg[e]] = ahold[e]
        /\ ahold[e].phase = "running" /\ ahold[e].token = e
    BY <1>0, <2>1 DEF HoldingOK, Holding, Owning
  <2>3. amsg[e] \notin begun
    BY <1>0, <2>1, <2>2 DEF CoreInv, FreshOK, Fresh
  <2>4. Stands(row[amsg[e]]) = "taken"
    BY <2>2 DEF Stands
  <2> QED
    BY <1>3, <2>1, <2>2, <2>3, <2>4, Begins
<1>4. ASSUME NEW p \in Phases, Turn(e, p), row' = [row EXCEPT ![amsg[e]] = Moved(e, p)],
             UNCHANGED begun
      PROVE  Inbox!InboxNext \/ UNCHANGED Inbox!inboxVars
  <2> DEFINE m == amsg[e]
  <2>1. Turned(e, p)
    BY <1>0, <1>4, TurnRow
  <2>2. /\ m \in Messages /\ StandsKept({m})
        /\ row[m].phase \in {"queued", "dispatching", "running"} /\ row'[m].phase = p
        /\ p \in {"dispatching", "running"} => Available(m)
        /\ p \in Outcomes => row[m].phase # "queued"
    BY <2>1 DEF Turned, StandsKept
  <2>3. p \in Outcomes => m \in begun \/ p = "cancelled"
    BY <1>4 DEF Turn, WorkBegun, Outcomes
  <2>4. p = "dispatching" \/ p = "running" \/ p \in Outcomes
    BY <2>1 DEF Turned
  <2>5. p = "running" => row[m].phase # "queued"
    BY <1>0, <1>4 DEF Turn, Outcomes, HoldingOK, Holding
  <2> HIDE DEF m
  <2>6. CASE p \in {"dispatching", "running"} /\ row[m].phase # "queued"
    <3>1. StandsKept({})
      BY <2>2, <2>6 DEF StandsKept, Stands
    <3> QED
      BY <1>4, <3>1, Stutters
  <2>7. CASE p = "dispatching" /\ row[m].phase = "queued"
    <3>1. Stands(row[m]) = "queued" /\ Stands(row'[m]) = "taken"
      BY <2>2, <2>7 DEF Stands
    <3>2. \A n \in Messages \ {m} : Stands(row[n]) \notin {"taken", "outcome_unknown", "legacy"}
      <4>1. \A n \in Messages : row[n].phase \in Phases
        BY <1>0 DEF TypeOK, Row
      <4>2. \A n \in Messages \ {m} :
              row[n].phase \notin {"dispatching", "running", "outcome_unknown", "legacy"}
        BY <2>2, <2>7 DEF Available
      <4> QED
        BY <4>1, <4>2 DEF Stands, Phases, Outcomes
    <3> QED
      BY <1>4, <2>2, <3>1, <3>2, Moves
  <2>8. CASE p \in Outcomes
    <3>1. Stands(row[m]) = "taken" /\ Stands(row'[m]) = p
      BY <2>2, <2>8 DEF Stands, Outcomes
    <3> QED
      BY <1>4, <2>2, <2>3, <2>8, <3>1, Moves
  <2> QED
    BY <2>4, <2>5, <2>6, <2>7, <2>8
<1>5. UNCHANGED row \/ UNCHANGED begun
  BY <1>0, WorkEffect
<1> QED
  BY <1>1, <1>2, <1>3, <1>4, <1>5 DEF Effect

LEMMA ControlImplements ==
  ASSUME QueueInv, Ordered, NEW c \in Controls, Control(c)
  PROVE  Inbox!InboxNext \/ UNCHANGED Inbox!inboxVars
<1>0. TypeOK /\ CoreInv /\ Aiming
  BY DEF QueueInv, CoreInv
<1>1. UNCHANGED begun
  BY <1>0, ControlEffect DEF QueueEffect
<1>2. CASE UNCHANGED row
  BY <1>1, <1>2, Stutters DEF StandsKept
<1>3. ASSUME ControlCommits(c), ~UNCHANGED row
      PROVE  Inbox!InboxNext \/ UNCHANGED Inbox!inboxVars
  <2> DEFINE m == cmsg[c]
             rows == Planned(ckind[c], m)
  <2>1. m \in Messages /\ ckind[c] \in Kinds /\ Queued(m) /\ row' = rows
    BY <1>0, <1>3 DEF ControlCommits, Aiming, TypeOK
  <2>2. \A n \in Messages \ {m} : rows[n].phase = row[n].phase
    BY <1>0, <2>1, PlannedOrder
  <2>3. rows[m].phase \in {"queued", "cancelled"}
    BY <1>0, <2>1, PlannedEffect DEF Queued
  <2> HIDE DEF m, rows
  <2>4. StandsKept({m}) /\ Stands(row[m]) = "queued" /\ Stands(row'[m]) = row'[m].phase
    BY <2>1, <2>2, <2>3 DEF StandsKept, Stands, Queued
  <2>5. CASE rows[m].phase = "queued"
    <3>1. StandsKept({})
      BY <2>1, <2>4, <2>5 DEF StandsKept
    <3> QED
      BY <1>1, <3>1, Stutters
  <2>6. CASE rows[m].phase = "cancelled"
    BY <1>1, <2>1, <2>4, <2>6, Moves
  <2> QED
    BY <2>3, <2>5, <2>6
<1> QED
  BY <1>2, <1>3 DEF Control, ReadForControl, ControlFails, ControlRecovers

LEMMA SubmissionImplements ==
  ASSUME QueueInv, NEW s \in Submissions, Submission(s)
  PROVE  Inbox!InboxNext \/ UNCHANGED Inbox!inboxVars
<1>0. TypeOK /\ CoreInv /\ Unclaimed /\ Replacing /\ MessageOf[s] \in Messages
  BY OperationsAssumption DEF QueueInv, CoreInv
<1>1. UNCHANGED begun
  BY <1>0, SubmissionEffect DEF QueueEffect
<1>2. CASE UNCHANGED row
  BY <1>1, <1>2, Stutters DEF StandsKept
<1>3. ASSUME Admit(s), ~UNCHANGED row PROVE Inbox!InboxNext
  <2> DEFINE m == MessageOf[s]
  <2>1. /\ row' = Stored(s) /\ spc[s] = "prepared" /\ row[m].phase = "none"
        /\ SameRows(sset[s], svec[s]) /\ \A n \in sset[s] : row[n] = svec[s][n]
    BY <1>3 DEF Admit, SameRows
  <2>2. \A n \in sset[s] : n \in Messages /\ row[n].phase = "queued"
    BY <1>0, <2>1 DEF Replacing, TypeOK
  <2>3. m \notin sset[s]
    BY <2>1, <2>2
  <2>4. \A n \in sset[s] : row'[n].phase = "cancelled"
    BY <1>0, <2>1, <2>3, StoredRows
  <2>5. row'[m].phase = "queued"
    BY <1>0, <2>1 DEF Stored
  <2>6. \A n \in Messages \ (sset[s] \union {m}) : row'[n] = row[n]
    BY <2>1, Zenon DEF Stored
  <2>7. StandsKept(sset[s] \union {m})
    BY <2>6 DEF StandsKept
  <2>8. /\ Stands(row[m]) = "none" /\ Stands(row'[m]) = "queued"
        /\ \A n \in sset[s] : Stands(row[n]) = "queued" /\ Stands(row'[n]) = "cancelled"
    BY <2>1, <2>2, <2>4, <2>5 DEF Stands
  <2>9. sset[s] \in SUBSET Messages /\ m \in Messages
    BY <1>0 DEF TypeOK
  <2> HIDE DEF m
  <2> QED
    BY <1>1, <2>3, <2>7, <2>8, <2>9, Accepts
<1> QED
  BY <1>2, <1>3 DEF Submission, Prepare, Replay, AdmissionFails, AdmissionRecovers

LEMMA InboxStarts == Init => Inbox!InboxInit
<1> SUFFICES ASSUME Init PROVE Inbox!InboxInit
  OBVIOUS
<1>1. \A p \in {"none", "legacy", "queued"} : OldRow(p).phase = p
  BY DEF OldRow
<1>2. \A m \in Messages : \E p \in {"none", "legacy", "queued"} : row[m] = OldRow(p)
  BY DEF Init
<1>3. \A m \in Messages : row[m].phase \in {"none", "legacy", "queued"}
  BY <1>1, <1>2
<1>4. begun = {}
  BY DEF Init
<1> QED
  BY <1>3, <1>4 DEF Inbox!InboxInit

\* Claims, tokens, handles, lost answers and their recoveries implement the
\* inbox that the user of the session sees.
THEOREM QueueImplementsInbox == Spec => ImplementsInbox
<1> DEFINE Both == QueueInv /\ Ordered
<1>1. Init => WorkBegun
  BY DEF Init, WorkBegun
<1>2. Both /\ WorkBegun /\ [Next]_vars => WorkBegun'
  BY WorkBegunStep
<1>3. Both /\ WorkBegun /\ [Next]_vars => [Inbox!InboxNext]_(Inbox!inboxVars)
  <2> SUFFICES ASSUME QueueInv, Ordered, WorkBegun, [Next]_vars
               PROVE  Inbox!InboxNext \/ UNCHANGED Inbox!inboxVars
    OBVIOUS
  <2>1. CASE UNCHANGED vars
    BY <2>1, Stutters DEF vars, StandsKept
  <2>2. CASE Next
    BY <2>2, ExecutionImplements, ControlImplements, SubmissionImplements DEF Next
  <2> QED
    BY <2>1, <2>2
<1> HIDE DEF Both
<1>4. Spec => []Both
  BY OrderInvariant DEF Both
<1> QED
  BY <1>1, <1>2, <1>3, <1>4, InboxStarts, PTL DEF Spec, ImplementsInbox, Inbox!InboxSpec
=============================================================================
