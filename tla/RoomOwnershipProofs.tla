------------------------- MODULE RoomOwnershipProofs -------------------------
(***************************************************************************)
(* Proofs about RoomOwnership, for any sets of sessions, edits and         *)
(* requests and any number of claims: the types, the safety properties and *)
(* the refinement of SingleWriter.  All of them follow from one inductive  *)
(* invariant, RoomInv.  What it says of a single room (Sound) is stated of *)
(* a record, so that a step of a room has only to show it of the record    *)
(* the step leaves.                                                        *)
(***************************************************************************)
EXTENDS RoomOwnership, TLAPS

USE DEF sessionVars

-----------------------------------------------------------------------------
(* The invariant *)

\* A store in flight is of a loaded room, whose owner the row names, and part of
\* what the room has.
SavingOwns(s, rm) ==
  rm.saving # None =>
    /\ rm.phase \in {"live", "draining", "storing"}
    /\ row.owner = s /\ row.epoch = rm.epoch
    /\ rm.saving \subseteq rm.live

\* No update is on its way to a room whose last store has begun, and the bytes
\* of a release are all of the room.
Frozen(rm) ==
  /\ rm.phase \in {"storing", "stored", "releasing", "committed", "released"} => rm.admitted = {}
  /\ rm.phase \in {"releasing", "committed", "released"} => rm.snapshot = rm.live

\* A room has an epoch, given out before, from its claim on.
Numbered(rm) ==
  /\ rm.epoch <= row.epoch
  /\ rm.phase \in {"none", "opening"} <=> rm.epoch = 0

\* A room has a receipt exactly when its release is committed, and the receipt
\* covers all of it.
Covered(s, rm) ==
  rm.epoch # 0 =>
    /\ receipt[rm.epoch] # None <=> rm.phase \in {"committed", "released"}
    /\ receipt[rm.epoch] # None =>
         /\ receipt[rm.epoch].owner = s
         /\ rm.live \subseteq receipt[rm.epoch].persisted

\* OwnerSeesAll, of one room.
Sees(s, rm) ==
  (rm.phase \notin {"none", "opening", "claimed"} /\ row.owner = s /\ row.epoch = rm.epoch)
    => row.base = rm.base /\ row.stored \subseteq rm.live

Sound(s, rm) ==
  SavingOwns(s, rm) /\ Frozen(rm) /\ Numbered(rm) /\ Covered(s, rm) /\ Sees(s, rm)

\* An epoch that is owned or not yet given out has no receipt.
Epochs ==
  /\ row.epoch <= MaxEpoch
  /\ row.owner # None => row.epoch # 0 /\ receipt[row.epoch] = None
  /\ \A e \in Epoch : e > row.epoch => receipt[e] = None

\* Rooms do not share an epoch.
OneRoom == \A s, t \in Session : room[s].epoch = room[t].epoch /\ room[s].epoch # 0 => s = t

\* What a handoff left contains what the receipt of its epoch says.
Left(q) ==
  q.status = "completed" =>
    /\ q.outcome \in Row
    /\ q.outcome.epoch # 0 =>
         /\ q.outcome.epoch \in Epoch
         /\ receipt[q.outcome.epoch] # None
         /\ receipt[q.outcome.epoch].persisted \subseteq q.outcome.base \union q.outcome.stored

RoomInv ==
  /\ TypeOK
  /\ Epochs
  /\ OneRoom
  /\ \A s \in Session : Sound(s, room[s])
  /\ \A r \in Request : Left(request[r])

-----------------------------------------------------------------------------
(* Records *)

LEMMA NoRoomSound ==
  ASSUME RoomInv, NEW s \in Session
  PROVE  NoRoom \in Room /\ NoRoom.epoch = 0 /\ NoRoom.saving = None /\ Sound(s, NoRoom)
<1>1. NoRoom \in Room
  BY DEF NoRoom, Room, Phase
<1> QED
  BY <1>1 DEF RoomInv, TypeOK, Row, NoRoom, Sound, SavingOwns, Frozen, Numbered, Covered, Sees

\* A step that changes one room only keeps the invariant if the room it leaves
\* is sound and keeps its epoch or gives it up.
LEMMA RoomStep ==
  ASSUME RoomInv, NEW s \in Session, NEW new \in Room,
         Sound(s, new), new.epoch \in {room[s].epoch, 0},
         SetRoom(s, new), UNCHANGED <<row, receipt, request>>,
         guard' \in Session \union Request \union {None},
         backend' \in [Session -> BOOLEAN], active' \in [Session -> BOOLEAN]
  PROVE  RoomInv'
<1>1. TypeOK'
  BY DEF RoomInv, TypeOK, SetRoom
<1>2. /\ room'[s] = new
      /\ \A t \in Session : t # s => room'[t] = room[t]
  BY DEF RoomInv, TypeOK, SetRoom
<1>3. Epochs'
  BY DEF RoomInv, Epochs
<1>4. OneRoom'
  BY <1>2 DEF RoomInv, OneRoom, Sound, Numbered
<1>5. \A t \in Session : Sound(t, room[t])'
  BY <1>2 DEF RoomInv, Sound, SavingOwns, Frozen, Numbered, Covered, Sees
<1>6. \A r \in Request : Left(request[r])'
  BY DEF RoomInv, Left
<1> QED
  BY <1>1, <1>3, <1>4, <1>5, <1>6 DEF RoomInv

\* The same of a step that changes a request only.
LEMMA RequestStep ==
  ASSUME RoomInv, NEW r \in Request, NEW new \in Target, Left(new),
         SetRequest(r, new), UNCHANGED <<row, receipt, room, sessionVars>>,
         guard' \in Session \union Request \union {None}
  PROVE  RoomInv'
<1>1. TypeOK'
  BY DEF RoomInv, TypeOK, SetRequest
<1>2. \A q \in Request : Left(request[q])'
  BY DEF RoomInv, TypeOK, SetRequest, Left
<1>3. Epochs' /\ OneRoom'
  BY DEF RoomInv, Epochs, OneRoom
<1>4. \A t \in Session : Sound(t, room[t])'
  BY DEF RoomInv, Sound, SavingOwns, Frozen, Numbered, Covered, Sees
<1> QED
  BY <1>1, <1>2, <1>3, <1>4 DEF RoomInv

-----------------------------------------------------------------------------
(* Steps of a room that leave the row alone *)

\* What the invariant says of a room, and how a room is before it is used.
LEMMA RoomFacts ==
  ASSUME RoomInv, NEW s \in Session
  PROVE  room[s] \in Room /\ Sound(s, room[s])
BY DEF RoomInv, TypeOK

LEMMA OpenStep ==
  ASSUME RoomInv, NEW s \in Session, Open(s)
  PROVE  RoomInv'
<1> DEFINE new == [NoRoom EXCEPT !.phase = "opening", !.scope = row.scope]
<1>1. new \in Room /\ new.epoch = 0 /\ new.saving = None /\ new.phase = "opening"
  BY NoRoomSound DEF RoomInv, TypeOK, Row, NoRoom, Room, Phase
<1>2. Sound(s, new)
  BY <1>1 DEF RoomInv, TypeOK, Row, Sound, SavingOwns, Frozen, Numbered, Covered, Sees
<1>3. SetRoom(s, new) /\ UNCHANGED <<row, receipt, request, guard, sessionVars>>
  BY DEF Open
<1> QED
  BY <1>1, <1>2, <1>3, RoomStep DEF RoomInv, TypeOK

LEMMA LoadStep ==
  ASSUME RoomInv, NEW s \in Session, Load(s)
  PROVE  RoomInv'
<1> DEFINE new == [room[s] EXCEPT !.phase = "live", !.base = row.base, !.live = row.stored]
<1>1. /\ new \in Room /\ new.epoch = room[s].epoch /\ new.saving = room[s].saving
      /\ new.phase = "live" /\ new.base = row.base /\ new.live = row.stored
  BY RoomFacts DEF RoomInv, TypeOK, Row, Room, Phase
<1>2. Sound(s, new)
  BY <1>1, RoomFacts DEF Load, RowFree, Sound, SavingOwns, Frozen, Numbered, Covered, Sees
<1>3. SetRoom(s, new) /\ UNCHANGED <<row, receipt, request, guard, sessionVars>>
  BY DEF Load
<1> QED
  BY <1>1, <1>2, <1>3, RoomStep DEF RoomInv, TypeOK
LEMMA AdmitStep ==
  ASSUME RoomInv, NEW s \in Session, NEW e \in Edit, Admit(s, e)
  PROVE  RoomInv'
<1> DEFINE new == [room[s] EXCEPT !.admitted = @ \union {e}]
<1>1. new \in Room
  BY RoomFacts DEF Admit, Room, Phase
<1>2. /\ new.epoch = room[s].epoch /\ new.base = room[s].base /\ new.phase = room[s].phase
      /\ new.live = room[s].live /\ new.admitted = room[s].admitted \union {e}
      /\ new.saving = room[s].saving /\ new.snapshot = room[s].snapshot
  BY RoomFacts DEF Room
<1>3. Sound(s, new)
  BY <1>2, RoomFacts DEF Admit, Sound, SavingOwns, Frozen, Numbered, Covered, Sees
<1>4. SetRoom(s, new) /\ UNCHANGED <<row, receipt, request, guard, sessionVars>>
  BY DEF Admit
<1> QED
  BY <1>1, <1>2, <1>3, <1>4, RoomStep DEF RoomInv, TypeOK

LEMMA ApplyStep ==
  ASSUME RoomInv, NEW s \in Session, NEW e \in Edit, Apply(s, e)
  PROVE  RoomInv'
<1> DEFINE new == [room[s] EXCEPT !.admitted = @ \ {e}, !.live = @ \union {e}]
<1>1. new \in Room
  BY RoomFacts DEF Apply, Room, Phase
<1>2. /\ new.epoch = room[s].epoch /\ new.base = room[s].base /\ new.phase = room[s].phase
      /\ new.live = room[s].live \union {e} /\ new.admitted = room[s].admitted \ {e}
      /\ new.saving = room[s].saving /\ new.snapshot = room[s].snapshot
  BY RoomFacts DEF Room
<1>3. Sound(s, new)
  BY <1>2, RoomFacts DEF Apply, Sound, SavingOwns, Frozen, Numbered, Covered, Sees
<1>4. SetRoom(s, new) /\ UNCHANGED <<row, receipt, request, guard, sessionVars>>
  BY DEF Apply
<1> QED
  BY <1>1, <1>2, <1>3, <1>4, RoomStep DEF RoomInv, TypeOK

LEMMA RejectStep ==
  ASSUME RoomInv, NEW s \in Session, NEW e \in Edit, Reject(s, e)
  PROVE  RoomInv'
<1> DEFINE new == [room[s] EXCEPT !.admitted = @ \ {e}]
<1>1. new \in Room
  BY RoomFacts DEF Reject, Room, Phase
<1>2. /\ new.epoch = room[s].epoch /\ new.base = room[s].base /\ new.phase = room[s].phase
      /\ new.live = room[s].live /\ new.admitted = room[s].admitted \ {e}
      /\ new.saving = room[s].saving /\ new.snapshot = room[s].snapshot
  BY RoomFacts DEF Room
<1>3. Sound(s, new)
  BY <1>2, RoomFacts DEF Reject, Sound, SavingOwns, Frozen, Numbered, Covered, Sees
<1>4. SetRoom(s, new) /\ UNCHANGED <<row, receipt, request, guard, sessionVars>>
  BY DEF Reject
<1> QED
  BY <1>1, <1>2, <1>3, <1>4, RoomStep DEF RoomInv, TypeOK

LEMMA StoreBeginsStep ==
  ASSUME RoomInv, NEW s \in Session, StoreBegins(s)
  PROVE  RoomInv'
<1> DEFINE new == [room[s] EXCEPT !.phase = "live", !.saving = room[s].live]
<1>1. new \in Room
  BY RoomFacts DEF Room, Phase
<1>2. /\ new.epoch = room[s].epoch /\ new.base = room[s].base /\ new.phase = "live"
      /\ new.live = room[s].live /\ new.admitted = room[s].admitted
      /\ new.saving = room[s].live /\ new.snapshot = room[s].snapshot
  BY RoomFacts DEF Room
<1>a. /\ room[s].phase \in {"live", "draining"} /\ room[s].saving = None
      /\ row.owner = s /\ row.epoch = room[s].epoch
  BY DEF StoreBegins, Store, DatabaseFence
<1>3. Sound(s, new)
  <2>1. SavingOwns(s, new) /\ Frozen(new)
    BY <1>2, <1>a DEF SavingOwns, Frozen
  <2>2. Numbered(new) /\ Covered(s, new) /\ Sees(s, new)
    BY <1>2, <1>a, RoomFacts DEF Sound, Numbered, Covered, Sees
  <2> QED
    BY <2>1, <2>2 DEF Sound
<1>4. SetRoom(s, new) /\ UNCHANGED <<row, receipt, request, guard, sessionVars>>
  BY DEF StoreBegins, Store
<1> QED
  BY <1>1, <1>2, <1>3, <1>4, RoomStep DEF RoomInv, TypeOK

LEMMA FinalStoreBeginsStep ==
  ASSUME RoomInv, NEW s \in Session, FinalStoreBegins(s)
  PROVE  RoomInv'
<1> DEFINE new == [room[s] EXCEPT !.phase = "storing", !.saving = room[s].live]
<1>1. new \in Room
  BY RoomFacts DEF Room, Phase
<1>2. /\ new.epoch = room[s].epoch /\ new.base = room[s].base /\ new.phase = "storing"
      /\ new.live = room[s].live /\ new.admitted = room[s].admitted
      /\ new.saving = room[s].live /\ new.snapshot = room[s].snapshot
  BY RoomFacts DEF Room
<1>a. /\ room[s].phase \in {"live", "draining"} /\ room[s].saving = None
      /\ row.owner = s /\ row.epoch = room[s].epoch
      /\ room[s].admitted = {}
  BY DEF FinalStoreBegins, Store, DatabaseFence
<1>3. Sound(s, new)
  <2>1. SavingOwns(s, new) /\ Frozen(new)
    BY <1>2, <1>a DEF SavingOwns, Frozen
  <2>2. Numbered(new) /\ Covered(s, new) /\ Sees(s, new)
    BY <1>2, <1>a, RoomFacts DEF Sound, Numbered, Covered, Sees
  <2> QED
    BY <2>1, <2>2 DEF Sound
<1>4. SetRoom(s, new) /\ UNCHANGED <<row, receipt, request, guard, sessionVars>>
  BY DEF FinalStoreBegins, Store
<1> QED
  BY <1>1, <1>2, <1>3, <1>4, RoomStep DEF RoomInv, TypeOK

LEMMA BeginIdleDrainStep ==
  ASSUME RoomInv, NEW s \in Session, BeginIdleDrain(s)
  PROVE  RoomInv'
<1> DEFINE new == [room[s] EXCEPT !.phase = "draining"]
<1>1. new \in Room
  BY RoomFacts DEF Room, Phase
<1>2. /\ new.epoch = room[s].epoch /\ new.base = room[s].base /\ new.phase = "draining"
      /\ new.live = room[s].live /\ new.admitted = room[s].admitted
      /\ new.saving = room[s].saving /\ new.snapshot = room[s].snapshot
  BY RoomFacts DEF Room
<1>3. Sound(s, new)
  BY <1>2, RoomFacts DEF BeginIdleDrain, Sound, SavingOwns, Frozen, Numbered, Covered, Sees
<1>4. SetRoom(s, new) /\ UNCHANGED <<row, receipt, request, guard, sessionVars>>
  BY DEF BeginIdleDrain
<1> QED
  BY <1>1, <1>2, <1>3, <1>4, RoomStep DEF RoomInv, TypeOK

LEMMA BeginTicketDrainStep ==
  ASSUME RoomInv, NEW s \in Session, NEW r \in Request, BeginTicketDrain(s, r)
  PROVE  RoomInv'
<1> DEFINE new == [room[s] EXCEPT !.phase = "draining", !.ticket = r]
<1>1. new \in Room
  BY RoomFacts DEF Room, Phase
<1>2. /\ new.epoch = room[s].epoch /\ new.base = room[s].base /\ new.phase = "draining"
      /\ new.live = room[s].live /\ new.admitted = room[s].admitted
      /\ new.saving = room[s].saving /\ new.snapshot = room[s].snapshot
      /\ new.ticket = r
  BY RoomFacts DEF Room
<1>3. Sound(s, new)
  BY <1>2, RoomFacts DEF BeginTicketDrain, Sound, SavingOwns, Frozen, Numbered, Covered, Sees
<1>4. SetRoom(s, new) /\ UNCHANGED <<row, receipt, request, guard, sessionVars>>
  BY DEF BeginTicketDrain
<1> QED
  BY <1>1, <1>2, <1>3, <1>4, RoomStep DEF RoomInv, TypeOK

LEMMA ReleaseBeginsStep ==
  ASSUME RoomInv, NEW s \in Session, ReleaseBegins(s)
  PROVE  RoomInv'
<1> DEFINE new == [room[s] EXCEPT !.phase = "releasing", !.snapshot = room[s].live]
<1>1. new \in Room
  BY RoomFacts DEF Room, Phase
<1>2. /\ new.epoch = room[s].epoch /\ new.base = room[s].base /\ new.phase = "releasing"
      /\ new.live = room[s].live /\ new.admitted = room[s].admitted
      /\ new.saving = room[s].saving /\ new.snapshot = room[s].live
  BY RoomFacts DEF Room
<1>3. Sound(s, new)
  BY <1>2, RoomFacts DEF ReleaseBegins, Sound, SavingOwns, Frozen, Numbered, Covered, Sees
<1>4. SetRoom(s, new) /\ UNCHANGED <<row, receipt, request, guard, sessionVars>>
  BY DEF ReleaseBegins
<1> QED
  BY <1>1, <1>2, <1>3, <1>4, RoomStep DEF RoomInv, TypeOK

LEMMA StoreFailsStep ==
  ASSUME RoomInv, NEW s \in Session, StoreFails(s)
  PROVE  RoomInv'
<1> DEFINE new == [room[s] EXCEPT !.saving = None]
<1>1. new \in Room
  BY RoomFacts DEF StoreFails, Room, Phase
<1>2. /\ new.epoch = room[s].epoch /\ new.base = room[s].base /\ new.phase = room[s].phase
      /\ new.live = room[s].live /\ new.admitted = room[s].admitted
      /\ new.saving = None /\ new.snapshot = room[s].snapshot
  BY RoomFacts DEF Room
<1>3. Sound(s, new)
  BY <1>2, RoomFacts DEF StoreFails, Sound, SavingOwns, Frozen, Numbered, Covered, Sees
<1>4. SetRoom(s, new) /\ UNCHANGED <<row, receipt, request, guard, backend>>
      /\ active' = [active EXCEPT ![s] = FALSE]
  BY DEF StoreFails
<1> QED
  BY <1>1, <1>2, <1>3, <1>4, RoomStep DEF RoomInv, TypeOK

LEMMA ReleaseReturnsStep ==
  ASSUME RoomInv, NEW s \in Session, ReleaseReturns(s)
  PROVE  RoomInv'
<1> DEFINE new == [room[s] EXCEPT !.phase = "released"]
<1>1. new \in Room
  BY RoomFacts DEF ReleaseReturns, Room, Phase
<1>2. /\ new.epoch = room[s].epoch /\ new.base = room[s].base /\ new.phase = "released"
      /\ new.live = room[s].live /\ new.admitted = room[s].admitted
      /\ new.saving = room[s].saving /\ new.snapshot = room[s].snapshot
  BY RoomFacts DEF Room
<1>3. Sound(s, new)
  BY <1>2, RoomFacts DEF ReleaseReturns, Sound, SavingOwns, Frozen, Numbered, Covered, Sees
<1>4. SetRoom(s, new) /\ UNCHANGED <<row, receipt, request, sessionVars>>
      /\ guard' = None
  BY DEF ReleaseReturns
<1> QED
  BY <1>1, <1>2, <1>3, <1>4, RoomStep DEF RoomInv, TypeOK

\* What is written when a release commits.
LEMMA ReceiptTyped ==
  ASSUME RoomInv, NEW s \in Session
  PROVE  ReceiptOf(s) \in Receipt /\ ReceiptOf(s) # None
<1>1. ReceiptOf(s) \in Receipt
  BY RoomFacts DEF RoomInv, TypeOK, Row, Room, ReceiptOf, Receipt
<1> QED
  BY <1>1, ReceiptAssumption

LEMMA RecoverStep ==
  ASSUME RoomInv, NEW s \in Session, Recover(s)
  PROVE  RoomInv'
<1> DEFINE new == [room[s] EXCEPT !.phase = "released"]
<1>1. new \in Room
  BY RoomFacts DEF Recover, RoomInv, TypeOK, Row, Room, Phase
<1>2. /\ new.epoch = room[s].epoch /\ new.base = room[s].base /\ new.phase = "released"
      /\ new.live = room[s].live /\ new.admitted = room[s].admitted
      /\ new.saving = room[s].saving /\ new.snapshot = room[s].snapshot
  BY RoomFacts DEF Room
<1>3. Sound(s, new)
  <2>1. receipt[room[s].epoch] # None
    BY ReceiptTyped DEF Recover, HasReceipt, HandedOver
  <2>2. room[s].phase = "committed"
    BY <2>1, RoomFacts DEF Recover, Sound, Covered, Numbered
  <2> QED
    BY <1>2, <2>2, RoomFacts DEF Sound, SavingOwns, Frozen, Numbered, Covered, Sees
<1>4. SetRoom(s, new) /\ UNCHANGED <<row, receipt, request, guard, sessionVars>>
  BY DEF Recover
<1> QED
  BY <1>1, <1>2, <1>3, <1>4, RoomStep DEF RoomInv, TypeOK

\* A room that is given up.
LEMMA GoneStep ==
  ASSUME RoomInv, NEW s \in Session, SetRoom(s, NoRoom), UNCHANGED <<row, receipt, request>>,
         guard' \in Session \union Request \union {None},
         backend' \in [Session -> BOOLEAN], active' \in [Session -> BOOLEAN]
  PROVE  RoomInv'
BY NoRoomSound, RoomStep

\* Sessions and the guard may change as they like: the invariant is about what
\* the database and the rooms hold.
LEMMA OtherStep ==
  ASSUME RoomInv, UNCHANGED <<row, receipt, request, room>>,
         guard' \in Session \union Request \union {None},
         backend' \in [Session -> BOOLEAN], active' \in [Session -> BOOLEAN]
  PROVE  RoomInv'
<1>1. TypeOK' /\ Epochs' /\ OneRoom'
  BY DEF RoomInv, TypeOK, Epochs, OneRoom
<1>2. \A s \in Session : Sound(s, room[s])'
  BY DEF RoomInv, Sound, SavingOwns, Frozen, Numbered, Covered, Sees
<1>3. \A r \in Request : Left(request[r])'
  BY DEF RoomInv, Left
<1> QED
  BY <1>1, <1>2, <1>3 DEF RoomInv

LEMMA LosingStep ==
  ASSUME RoomInv, NEW s \in Session, Losing(s)
  PROVE  RoomInv'
<1>1. CASE LoseSession(s)
  BY <1>1, OtherStep DEF LoseSession, RoomInv, TypeOK
<1>2. CASE BackendEnds(s)
  BY <1>2, OtherStep DEF BackendEnds, RoomInv, TypeOK
<1>3. CASE Crash(s)
  BY <1>3, GoneStep DEF Crash, RoomInv, TypeOK
<1> QED
  BY <1>1, <1>2, <1>3 DEF Losing

-----------------------------------------------------------------------------
(* Steps of a request that leave the row alone *)

LEMMA RequestFacts ==
  ASSUME RoomInv, NEW r \in Request
  PROVE  request[r] \in Target /\ row \in Row
BY DEF RoomInv, TypeOK

LEMMA ReserveStep ==
  ASSUME RoomInv, NEW r \in Request, Reserve(r)
  PROVE  RoomInv'
<1> DEFINE new == [NoTarget EXCEPT !.status = "reserved", !.snapshot = row]
<1>1. new \in Target /\ new.status = "reserved"
  BY RequestFacts DEF Target, NoTarget, Kind
<1>2. Left(new)
  BY <1>1 DEF Left
<1>3. SetRequest(r, new) /\ UNCHANGED <<row, receipt, guard, sessionVars, room>>
  BY DEF Reserve
<1> QED
  BY <1>1, <1>2, <1>3, RequestStep DEF RoomInv, TypeOK

\* The same of the steps that only move the status of a request on.
LEMMA StatusStep ==
  ASSUME RoomInv, NEW r \in Request, NEW status \in {"draining", "released", "cancelled"},
         SetRequest(r, [request[r] EXCEPT !.status = status]),
         UNCHANGED <<row, receipt, guard, sessionVars, room>>
  PROVE  RoomInv'
<1> DEFINE new == [request[r] EXCEPT !.status = status]
<1>1. new \in Target /\ new.status = status
  BY RequestFacts DEF Target
<1>2. Left(new)
  BY <1>1 DEF Left
<1> QED
  BY <1>1, <1>2, RequestStep DEF RoomInv, TypeOK

LEMMA ProveStep ==
  ASSUME RoomInv, NEW r \in Request, Prove(r)
  PROVE  RoomInv'
<1> DEFINE new == [request[r] EXCEPT !.status = "released", !.kind = Evidence(r), !.proof = row]
<1>1. Evidence(r) \in Kind
  BY DEF Evidence, Kind
<1>2. new \in Target /\ new.status = "released"
  BY <1>1, RequestFacts DEF Target
<1>3. Left(new)
  BY <1>2 DEF Left
<1>4. SetRequest(r, new) /\ UNCHANGED <<row, receipt, guard, sessionVars, room>>
  BY DEF Prove
<1> QED
  BY <1>2, <1>3, <1>4, RequestStep DEF RoomInv, TypeOK

-----------------------------------------------------------------------------
(* Steps that change the row *)

\* An epoch that is given out is new to every room and every receipt.
LEMMA GrantStep ==
  ASSUME RoomInv, NEW s \in Session, CanClaim(s), NEW new \in Room,
         new.saving = None,
         \/ new.phase = "none" /\ new.epoch = 0
         \/ new.phase = "claimed" /\ new.epoch = row.epoch + 1,
         SetRoom(s, new), row' = [row EXCEPT !.epoch = @ + 1, !.owner = s], guard' = s,
         active' \in [Session -> BOOLEAN], UNCHANGED <<receipt, request, backend>>
  PROVE  RoomInv'
<1>0. row \in Row /\ row.epoch \in Nat /\ row.epoch < MaxEpoch /\ MaxEpoch \in Nat
  BY EpochAssumption DEF RoomInv, TypeOK, Row, CanClaim
<1>k. PICK k \in Nat : k = row.epoch + 1
  BY <1>0
<1>r. row' = [row EXCEPT !.epoch = k, !.owner = s]
  BY <1>k
<1>1. /\ row' \in Row /\ row'.epoch = row.epoch + 1 /\ row'.owner = s
      /\ row.epoch \in Nat /\ row.epoch < MaxEpoch /\ MaxEpoch \in Nat
  BY <1>0, <1>k, <1>r DEF Row
<1>2. /\ room'[s] = new
      /\ \A t \in Session : t # s => room'[t] = room[t] /\ room[t].saving = None
  BY DEF RoomInv, TypeOK, SetRoom, CanClaim, RowFree
<1>3. TypeOK'
  BY <1>1 DEF RoomInv, TypeOK, SetRoom
<1>4. receipt[row.epoch + 1] = None
  BY <1>1 DEF RoomInv, Epochs, Epoch
<1>5. Epochs'
  BY <1>1, <1>4 DEF RoomInv, Epochs, Epoch
<1>6. \A t \in Session : room[t].epoch \in Nat /\ room[t].epoch <= row.epoch
  BY RoomFacts DEF Sound, Numbered, Room
<1>7. OneRoom'
  BY <1>1, <1>2, <1>6 DEF RoomInv, OneRoom
<1>8. ASSUME NEW t \in Session PROVE Sound(t, room[t])'
  <2>1. CASE t = s
    BY <2>1, <1>1, <1>2, <1>4 DEF Sound, SavingOwns, Frozen, Numbered, Covered, Sees
  <2>2. CASE t # s
    BY <2>2, <1>1, <1>2, <1>6, RoomFacts DEF Sound, SavingOwns, Frozen, Numbered, Covered, Sees
  <2> QED
    BY <2>1, <2>2
<1>9. \A r \in Request : Left(request[r])'
  BY DEF RoomInv, Left
<1> QED
  BY <1>3, <1>5, <1>7, <1>8, <1>9 DEF RoomInv

LEMMA ClaimStep ==
  ASSUME RoomInv, NEW s \in Session, Claim(s)
  PROVE  RoomInv'
<1> DEFINE new == [room[s] EXCEPT !.phase = "claimed", !.epoch = row.epoch + 1]
<1>k. PICK k \in Nat : k = row.epoch + 1
  BY DEF RoomInv, TypeOK, Row
<1>n. new = [room[s] EXCEPT !.phase = "claimed", !.epoch = k]
  BY <1>k
<1>1. /\ new \in Room /\ new.saving = room[s].saving
      /\ new.phase = "claimed" /\ new.epoch = row.epoch + 1
  BY <1>k, <1>n, RoomFacts DEF Room, Phase
<1>2. CanClaim(s) /\ room[s].saving = None /\ SetRoom(s, new)
  BY DEF Claim, CanClaim, RowFree
<1>3. /\ row' = [row EXCEPT !.epoch = @ + 1, !.owner = s] /\ guard' = s
      /\ active' \in [Session -> BOOLEAN] /\ UNCHANGED <<receipt, request, backend>>
  BY DEF Claim, RoomInv, TypeOK
<1> QED
  BY <1>1, <1>2, <1>3, GrantStep

LEMMA ClaimUnconfirmedStep ==
  ASSUME RoomInv, NEW s \in Session, ClaimUnconfirmed(s)
  PROVE  RoomInv'
<1>1. NoRoom \in Room /\ NoRoom.phase = "none" /\ NoRoom.epoch = 0 /\ NoRoom.saving = None
  BY NoRoomSound DEF NoRoom
<1>2. CanClaim(s) /\ SetRoom(s, NoRoom)
  BY DEF ClaimUnconfirmed
<1>3. /\ row' = [row EXCEPT !.epoch = @ + 1, !.owner = s] /\ guard' = s
      /\ active' \in [Session -> BOOLEAN] /\ UNCHANGED <<receipt, request, backend>>
  BY DEF ClaimUnconfirmed, RoomInv, TypeOK
<1> QED
  BY <1>1, <1>2, <1>3, GrantStep

\* A token that is given back while no store is in flight.
LEMMA AbandonLoadStep ==
  ASSUME RoomInv, NEW s \in Session, AbandonLoad(s)
  PROVE  RoomInv'
<1>1. CASE row' = row
  BY <1>1, GoneStep DEF AbandonLoad, RoomInv, TypeOK
<1>2. CASE row' # row
  <2>1. /\ RowFree /\ row' = [row EXCEPT !.owner = None] /\ SetRoom(s, NoRoom) /\ guard' = None
        /\ UNCHANGED <<receipt, request, backend, active>>
    BY <1>2 DEF AbandonLoad
  <2>2. /\ row' \in Row /\ row'.owner = None
        /\ row'.epoch = row.epoch /\ row'.base = row.base /\ row'.stored = row.stored
    BY <2>1 DEF RoomInv, TypeOK, Row
  <2>3. /\ room'[s] = NoRoom /\ NoRoom \in Room /\ NoRoom.epoch = 0
        /\ \A t \in Session : t # s => room'[t] = room[t] /\ room[t].saving = None
    BY <2>1, NoRoomSound DEF RoomInv, TypeOK, SetRoom, RowFree
  <2>4. TypeOK'
    BY <2>1, <2>2, <2>3 DEF RoomInv, TypeOK, SetRoom
  <2>5. Epochs'
    BY <2>1, <2>2 DEF RoomInv, Epochs
  <2>6. OneRoom'
    BY <2>3 DEF RoomInv, OneRoom
  <2>7. ASSUME NEW t \in Session PROVE Sound(t, room[t])'
    <3>1. CASE t = s
      BY <3>1, <2>1, <2>2, <2>3, NoRoomSound DEF Sound, SavingOwns, Frozen, Numbered, Covered, Sees
    <3>2. CASE t # s
      BY <3>2, <2>1, <2>2, <2>3, RoomFacts, NoneAssumption
         DEF Sound, SavingOwns, Frozen, Numbered, Covered, Sees
    <3> QED
      BY <3>1, <3>2
  <2>8. \A r \in Request : Left(request[r])'
    BY <2>1 DEF RoomInv, Left
  <2> QED
    BY <2>4, <2>5, <2>6, <2>7, <2>8 DEF RoomInv
<1> QED
  BY <1>1, <1>2

LEMMA StoreCommitsStep ==
  ASSUME RoomInv, NEW s \in Session, StoreCommits(s)
  PROVE  RoomInv'
<1> DEFINE phase == IF room[s].phase = "storing" THEN "stored" ELSE room[s].phase
           new == [room[s] EXCEPT !.saving = None, !.phase = phase]
<1>1. /\ new \in Room /\ new.saving = None /\ new.phase = phase
      /\ new.epoch = room[s].epoch /\ new.base = room[s].base /\ new.live = room[s].live
      /\ new.admitted = room[s].admitted /\ new.snapshot = room[s].snapshot
  BY RoomFacts DEF Room, Phase
<1>2. /\ SetRoom(s, new) /\ row' = [row EXCEPT !.stored = @ \union room[s].saving]
      /\ UNCHANGED <<receipt, request, guard, sessionVars>>
  BY DEF StoreCommits
<1> HIDE DEF new, phase
<1>3. /\ room[s].phase \in {"live", "draining", "storing"}
      /\ row.owner = s /\ row.epoch = room[s].epoch /\ room[s].epoch # 0
      /\ room[s].saving \subseteq room[s].live /\ row.stored \subseteq room[s].live
      /\ room[s].saving \subseteq Edit /\ row.base = room[s].base
  BY RoomFacts DEF StoreCommits, Sound, SavingOwns, Numbered, Sees, Room
<1>4. /\ row' \in Row /\ row'.owner = s /\ row'.epoch = row.epoch /\ row'.base = row.base
      /\ row'.stored = row.stored \union room[s].saving
  BY <1>2, <1>3 DEF RoomInv, TypeOK, Row
<1>5. room'[s] = new /\ \A t \in Session : t # s => room'[t] = room[t]
  BY <1>2 DEF RoomInv, TypeOK, SetRoom
<1>6. TypeOK'
  BY <1>1, <1>2, <1>4 DEF RoomInv, TypeOK, SetRoom
<1>7. Epochs' /\ OneRoom'
  <2>1. Epochs'
    BY <1>2, <1>3, <1>4 DEF RoomInv, Epochs
  <2>2. \A t \in Session : room'[t].epoch = room[t].epoch
    BY <1>1, <1>5
  <2> QED
    BY <2>1, <2>2 DEF RoomInv, OneRoom
<1>8. ASSUME NEW t \in Session PROVE Sound(t, room[t])'
  <2>1. CASE t = s
    <3>1. SavingOwns(s, room[s])' /\ Frozen(room[s])'
      BY <1>1, <1>3, <1>5, RoomFacts DEF Sound, SavingOwns, Frozen, phase
    <3>2. Numbered(room[s])' /\ Covered(s, room[s])'
      BY <1>1, <1>2, <1>3, <1>4, <1>5, RoomFacts DEF Sound, Numbered, Covered, phase
    <3>3. Sees(s, room[s])'
      BY <1>1, <1>3, <1>4, <1>5 DEF Sees
    <3> QED
      BY <2>1, <3>1, <3>2, <3>3 DEF Sound
  <2>2. CASE t # s
    BY <2>2, <1>2, <1>3, <1>4, <1>5, RoomFacts
       DEF Sound, SavingOwns, Frozen, Numbered, Covered, Sees
  <2> QED
    BY <2>1, <2>2
<1>9. \A r \in Request : Left(request[r])'
  BY <1>2 DEF RoomInv, Left
<1> QED
  BY <1>6, <1>7, <1>8, <1>9 DEF RoomInv

LEMMA ReleaseCommitsStep ==
  ASSUME RoomInv, NEW s \in Session, ReleaseCommits(s)
  PROVE  RoomInv'
<1> DEFINE new == [room[s] EXCEPT !.phase = "committed"]
           r == room[s].ticket
           acknowledged == [request[r] EXCEPT !.status = "released", !.kind = "owner_drain"]
<1>1. /\ new \in Room /\ new.saving = room[s].saving /\ new.phase = "committed"
      /\ new.epoch = room[s].epoch /\ new.live = room[s].live
      /\ new.admitted = room[s].admitted /\ new.snapshot = room[s].snapshot
  BY RoomFacts DEF Room, Phase
<1>2. /\ SetRoom(s, new) /\ row' = [row EXCEPT !.owner = None]
      /\ receipt' = [receipt EXCEPT ![room[s].epoch] = ReceiptOf(s)]
      /\ UNCHANGED <<guard, sessionVars>>
  BY DEF ReleaseCommits
<1>3. /\ room[s].phase = "releasing" /\ RowFree /\ row.owner = s /\ row.epoch = room[s].epoch
      /\ room[s].snapshot \subseteq row.stored
  BY DEF ReleaseCommits, DatabaseFence
<1> HIDE DEF new
<1>4. room[s].epoch \in Epoch /\ room[s].admitted = {} /\ room[s].snapshot = room[s].live
  BY <1>3, EpochAssumption, RoomFacts
     DEF RoomInv, TypeOK, Row, Epochs, Epoch, Sound, Frozen, Numbered
<1>5. ReceiptOf(s) \in Receipt /\ ReceiptOf(s) # None
      /\ ReceiptOf(s).owner = s /\ ReceiptOf(s).persisted = row.stored
  BY ReceiptTyped DEF ReceiptOf
<1>6. /\ receipt'[room[s].epoch] = ReceiptOf(s)
      /\ \A e : e # room[s].epoch => receipt'[e] = receipt[e]
      /\ receipt' \in [Epoch -> Receipt \union {None}]
  BY <1>2, <1>4, <1>5 DEF RoomInv, TypeOK
<1>7. /\ row' \in Row /\ row'.owner = None /\ row'.epoch = row.epoch /\ row'.stored = row.stored
  BY <1>2 DEF RoomInv, TypeOK, Row
<1>8. room'[s] = new /\ \A t \in Session : t # s => room'[t] = room[t] /\ room[t].saving = None
  BY <1>2, <1>3 DEF RoomInv, TypeOK, SetRoom, RowFree
<1>9. \/ UNCHANGED request
      \/ r \in Request /\ SetRequest(r, acknowledged)
  BY RoomFacts DEF ReleaseCommits, Room
<1>10. ASSUME r \in Request PROVE acknowledged \in Target /\ acknowledged.status = "released"
  BY <1>10, RequestFacts DEF Target, Kind
<1>11. request' \in [Request -> Target]
  BY <1>9, <1>10 DEF RoomInv, TypeOK, SetRequest
<1>12. TypeOK'
  BY <1>1, <1>2, <1>6, <1>7, <1>11 DEF RoomInv, TypeOK, SetRoom
<1>13. Epochs'
  BY <1>3, <1>6, <1>7 DEF RoomInv, Epochs, TypeOK, Row, Epoch
<1>14. OneRoom'
  <2>1. \A t \in Session : room'[t].epoch = room[t].epoch
    BY <1>1, <1>8
  <2> QED
    BY <2>1 DEF RoomInv, OneRoom
<1>15. ASSUME NEW t \in Session PROVE Sound(t, room[t])'
  <2>1. CASE t = s
    <3>1. SavingOwns(s, room[s])' /\ Frozen(room[s])' /\ Numbered(room[s])'
      BY <1>1, <1>3, <1>4, <1>7, <1>8, RoomFacts DEF Sound, SavingOwns, Frozen, Numbered, RowFree
    <3>2. Covered(s, room[s])'
      BY <1>1, <1>3, <1>4, <1>5, <1>6, <1>8 DEF Covered
    <3>3. Sees(s, room[s])'
      BY <1>7, <1>8, NoneAssumption DEF Sees
    <3> QED
      BY <2>1, <3>1, <3>2, <3>3 DEF Sound
  <2>2. CASE t # s
    <3>1. room[t].epoch = 0 \/ room[t].epoch # room[s].epoch
      BY <2>2 DEF RoomInv, OneRoom
    <3>2. room[t].epoch # 0 => receipt'[room[t].epoch] = receipt[room[t].epoch]
      BY <3>1, <1>6
    <3>3. SavingOwns(t, room[t])' /\ Frozen(room[t])' /\ Numbered(room[t])'
      BY <2>2, <1>7, <1>8, RoomFacts DEF Sound, SavingOwns, Frozen, Numbered
    <3>4. Covered(t, room[t])'
      BY <2>2, <3>2, <1>8, RoomFacts DEF Sound, Covered
    <3>5. Sees(t, room[t])'
      BY <1>7, NoneAssumption DEF Sees
    <3> QED
      BY <3>3, <3>4, <3>5 DEF Sound
  <2> QED
    BY <2>1, <2>2
<1>16. receipt[room[s].epoch] = None
  BY <1>3, <1>4, RoomFacts DEF Sound, Covered, Numbered
<1>17. ASSUME NEW q \in Request PROVE Left(request[q])'
  <2>1. CASE request'[q] = request[q]
    <3>1. SUFFICES ASSUME request[q].status = "completed", request[q].outcome.epoch # 0
                   PROVE  receipt'[request[q].outcome.epoch] = receipt[request[q].outcome.epoch]
      BY <2>1 DEF RoomInv, Left
    <3> QED
      BY <3>1, <1>6, <1>16 DEF RoomInv, Left
  <2>2. CASE request'[q] # request[q]
    BY <2>2, <1>9, <1>10 DEF RoomInv, TypeOK, SetRequest, Left
  <2> QED
    BY <2>1, <2>2
<1> QED
  BY <1>12, <1>13, <1>14, <1>15, <1>17 DEF RoomInv

\* What a handoff does to the row: it keeps the owner and the epoch, and what it
\* takes out of the content it puts into the base.
Changes ==
  /\ row' \in Row /\ row'.owner = row.owner /\ row'.epoch = row.epoch
  /\ row.base \union row.stored \subseteq row'.base \union row'.stored
  /\ \/ /\ row'.scope \in {row.scope, row.scope + 1}
        /\ row'.base = row.base /\ row.stored \subseteq row'.stored
     \/ /\ row'.scope = row.scope + 1
        /\ row'.base = row.base \union row.stored /\ row'.stored = {}

LEMMA RowChanges ==
  ASSUME RoomInv, NEW r \in Request, HandoffCommits(r)
  PROVE  Changes
<1>1. row \in Row
  BY DEF RoomInv, TypeOK
<1>2. CASE Revise
  <2>1. PICK scope \in {row.scope, row.scope + 1}, links \in SUBSET (Edit \ row.base) :
          row' = [row EXCEPT !.scope = scope, !.stored = @ \union links]
    BY <1>2 DEF Revise
  <2>2. scope \in Nat /\ links \subseteq Edit
    BY <1>1 DEF Row
  <2>3. /\ row' \in Row /\ row'.owner = row.owner /\ row'.epoch = row.epoch
        /\ row'.scope = scope /\ row'.base = row.base /\ row'.stored = row.stored \union links
    BY <1>1, <2>1, <2>2 DEF Row
  <2> QED
    BY <2>3 DEF Changes
<1>3. CASE Reencode
  <2>1. PICK scope \in Nat : scope = row.scope + 1
    BY <1>1 DEF Row
  <2>2. row' = [row EXCEPT !.scope = scope, !.base = @ \union row.stored, !.stored = {}]
    BY <1>3, <2>1 DEF Reencode
  <2>3. /\ row' \in Row /\ row'.owner = row.owner /\ row'.epoch = row.epoch
        /\ row'.scope = scope /\ row'.base = row.base \union row.stored /\ row'.stored = {}
    BY <1>1, <2>2 DEF Row
  <2> QED
    BY <2>1, <2>3 DEF Changes
<1> QED
  BY <1>2, <1>3 DEF HandoffCommits

LEMMA HandoffCommitsStep ==
  ASSUME RoomInv, NEW r \in Request, HandoffCommits(r)
  PROVE  RoomInv'
<1> DEFINE new == [request[r] EXCEPT !.status = "completed", !.outcome = row']
<1>1. Quiescent(r) /\ Changes
  BY RowChanges DEF HandoffCommits
<1>2. row.owner = None /\ RowFree
  BY <1>1 DEF Quiescent
<1>3. /\ row' \in Row /\ row'.owner = None /\ row'.epoch = row.epoch
      /\ row.base \union row.stored \subseteq row'.base \union row'.stored
  BY <1>1, <1>2 DEF Changes
<1>4. SetRequest(r, new) /\ UNCHANGED <<receipt, guard, sessionVars, room>>
  BY DEF HandoffCommits
<1>5. new \in Target /\ new.outcome = row'
  BY <1>3, RequestFacts DEF Target
<1>6. row.epoch = 0 \/ ReceiptHolds(r) \/ OutcomeHolds(r)
  BY DEF HandoffCommits, Quiescent
<1>7. row.epoch # 0 =>
        /\ row.epoch \in Epoch /\ receipt[row.epoch] # None
        /\ receipt[row.epoch].persisted \subseteq row.base \union row.stored
  <2>1. CASE ReceiptHolds(r)
    BY <2>1 DEF ReceiptHolds
  <2>2. CASE OutcomeHolds(r)
    BY <2>2 DEF OutcomeHolds, RoomInv, Left
  <2> QED
    BY <1>6, <2>1, <2>2
<1>8. TypeOK'
  BY <1>3, <1>4, <1>5 DEF RoomInv, TypeOK, SetRequest
<1>9. Epochs' /\ OneRoom'
  BY <1>3, <1>4 DEF RoomInv, Epochs, OneRoom
<1> HIDE DEF new
<1>10. ASSUME NEW s \in Session PROVE Sound(s, room[s])'
  BY <1>2, <1>3, <1>4, RoomFacts, NoneAssumption
     DEF RowFree, Sound, SavingOwns, Frozen, Numbered, Covered, Sees
<1>11. request'[r].outcome = row' /\ \A q \in Request : q # r => request'[q] = request[q]
  BY <1>4, <1>5 DEF RoomInv, TypeOK, SetRequest
<1>12. ASSUME NEW q \in Request PROVE Left(request[q])'
  <2>1. CASE q = r
    BY <2>1, <1>3, <1>4, <1>7, <1>11 DEF Left
  <2>2. CASE q # r
    BY <2>2, <1>4, <1>11 DEF RoomInv, Left
  <2> QED
    BY <2>1, <2>2
<1> QED
  BY <1>8, <1>9, <1>10, <1>12 DEF RoomInv

-----------------------------------------------------------------------------
(* The invariant holds *)

LEMMA OpeningKeepsInv ==
  ASSUME RoomInv, NEW s \in Session, Opening(s)
  PROVE  RoomInv'
BY OpenStep, ClaimStep, ClaimUnconfirmedStep, LoadStep, AbandonLoadStep DEF Opening

LEMMA EditingKeepsInv ==
  ASSUME RoomInv, NEW s \in Session, Editing(s)
  PROVE  RoomInv'
BY AdmitStep, ApplyStep, RejectStep, StoreBeginsStep, StoreCommitsStep, StoreFailsStep DEF Editing

LEMMA DrainingKeepsInv ==
  ASSUME RoomInv, NEW s \in Session, Draining(s)
  PROVE  RoomInv'
<1>1. ASSUME NEW r \in Request, Refuse(s, r) PROVE RoomInv'
  BY <1>1, StatusStep DEF Refuse
<1>2. CASE Finish(s)
  BY <1>2, GoneStep DEF Finish, RoomInv, TypeOK
<1> QED
  BY <1>1, <1>2, BeginIdleDrainStep, BeginTicketDrainStep, FinalStoreBeginsStep,
     ReleaseBeginsStep, ReleaseCommitsStep, ReleaseReturnsStep, RecoverStep DEF Draining

LEMMA RequestingKeepsInv ==
  ASSUME RoomInv, NEW r \in Request, Requesting(r)
  PROVE  RoomInv'
<1>1. CASE Cancel(r)
  BY <1>1, StatusStep DEF Cancel
<1>2. CASE StartDrain(r)
  BY <1>2, StatusStep DEF StartDrain
<1>3. CASE HandoffBegins(r)
  BY <1>3, OtherStep DEF HandoffBegins, RoomInv, TypeOK
<1>4. CASE HandoffEnds(r)
  BY <1>4, OtherStep DEF HandoffEnds, RoomInv, TypeOK
<1> QED
  BY <1>1, <1>2, <1>3, <1>4, ReserveStep, ProveStep, HandoffCommitsStep DEF Requesting

LEMMA InitInv == Init => RoomInv
<1> SUFFICES ASSUME Init PROVE RoomInv
  OBVIOUS
<1>1. TypeOK
  <2>1. NewRow \in Row /\ NoRoom \in Room
    BY DEF NewRow, Row, NoRoom, Room, Phase
  <2>2. NoTarget \in Target
    BY <2>1 DEF NoTarget, Target
  <2> QED
    BY <2>1, <2>2 DEF Init, TypeOK
<1>2. Epochs
  BY EpochAssumption DEF Init, NewRow, Epochs
<1>3. OneRoom /\ \A s \in Session : Sound(s, room[s])
  BY DEF Init, NewRow, NoRoom, OneRoom, Sound, SavingOwns, Frozen, Numbered, Covered, Sees
<1>4. \A r \in Request : Left(request[r])
  BY DEF Init, NoTarget, Left
<1> QED
  BY <1>1, <1>2, <1>3, <1>4 DEF RoomInv

LEMMA NextKeepsInv == RoomInv /\ [Next]_vars => RoomInv'
<1> SUFFICES ASSUME RoomInv, [Next]_vars PROVE RoomInv'
  OBVIOUS
<1>1. CASE UNCHANGED vars
  BY <1>1, OtherStep DEF vars, RoomInv, TypeOK
<1>2. CASE Next
  BY <1>2, OpeningKeepsInv, EditingKeepsInv, DrainingKeepsInv, LosingStep, RequestingKeepsInv
     DEF Next
<1> QED
  BY <1>1, <1>2

LEMMA RoomInvariant == Spec => []RoomInv
  BY InitInv, NextKeepsInv, PTL DEF Spec

-----------------------------------------------------------------------------
(* Safety *)

\* Rows, receipts, requests and rooms keep their types: an epoch never passes
\* the claims that were made, a proof and an outcome are rows.
THEOREM RoomsTyped == Spec => []TypeOK
<1>1. RoomInv => TypeOK
  BY DEF RoomInv
<1> QED
  BY <1>1, RoomInvariant, PTL

\* The loaded owner has seen all that is stored, for any number of processes.
THEOREM OwnersSeeAll == Spec => []OwnerSeesAll
<1>1. RoomInv => OwnerSeesAll
  BY DEF RoomInv, Sound, Sees, OwnerSeesAll
<1> QED
  BY <1>1, RoomInvariant, PTL

\* A room is released on a receipt that covers it, whether its release was
\* answered or recovered.
THEOREM ReleasesProven == Spec => []ReleaseProven
<1>1. ASSUME RoomInv, NEW s \in Session, room[s].phase = "released"
      PROVE  /\ receipt[room[s].epoch] # None
             /\ receipt[room[s].epoch].owner = s
             /\ room[s].live \subseteq receipt[room[s].epoch].persisted
             /\ room[s].admitted = {}
  BY <1>1, RoomFacts DEF Sound, Frozen, Numbered, Covered
<1>2. RoomInv => ReleaseProven
  BY <1>1 DEF ReleaseProven
<1> QED
  BY <1>2, RoomInvariant, PTL

-----------------------------------------------------------------------------
(* What steps do to the row *)

\* A step of a session leaves the row alone, begins a new term of its own, adds
\* what its room has to the content, or ends the term.
Begins(s) == row'.epoch = row.epoch + 1 /\ row'.owner = s /\ row'.stored = row.stored
Grows(s) == /\ row.owner = s /\ row'.epoch = row.epoch /\ row'.owner = row.owner
            /\ row'.stored \in SUBSET Edit /\ row.stored \subseteq row'.stored
            /\ row.epoch = room[s].epoch /\ row.base = room[s].base
            /\ row'.stored \subseteq room[s].live
Ends == /\ row.owner # None /\ row'.owner = None
        /\ row'.epoch = row.epoch /\ row'.stored = row.stored
SessionStep(s) ==
  \/ row' = row
  \/ row'.scope = row.scope /\ row'.base = row.base /\ (Begins(s) \/ Grows(s) \/ Ends)

LEMMA ClaimBegins ==
  ASSUME RoomInv, NEW s \in Session, Claim(s) \/ ClaimUnconfirmed(s)
  PROVE  SessionStep(s)
<1>1. row' = [row EXCEPT !.epoch = @ + 1, !.owner = s]
  BY DEF Claim, ClaimUnconfirmed
<1>2. PICK k \in Nat : k = row.epoch + 1
  BY DEF RoomInv, TypeOK, Row
<1>3. row' = [row EXCEPT !.epoch = k, !.owner = s]
  BY <1>1, <1>2
<1> QED
  BY <1>2, <1>3 DEF RoomInv, TypeOK, Row, SessionStep, Begins

LEMMA StoreGrows ==
  ASSUME RoomInv, NEW s \in Session, StoreCommits(s)
  PROVE  SessionStep(s)
<1>1. /\ row' = [row EXCEPT !.stored = @ \union room[s].saving]
      /\ room[s].saving \subseteq Edit /\ room[s].saving \subseteq room[s].live
      /\ row.owner = s /\ row.epoch = room[s].epoch
      /\ row.base = room[s].base /\ row.stored \subseteq room[s].live
  BY RoomFacts DEF StoreCommits, Sound, SavingOwns, Sees, Room
<1> QED
  BY <1>1 DEF RoomInv, TypeOK, Row, SessionStep, Grows

LEMMA ReleaseEnds ==
  ASSUME RoomInv, NEW s \in Session, ReleaseCommits(s) \/ AbandonLoad(s), row' # row
  PROVE  SessionStep(s)
<1>1. row' = [row EXCEPT !.owner = None] /\ row.owner = s /\ s # None
  BY NoneAssumption DEF ReleaseCommits, DatabaseFence, AbandonLoad
<1> QED
  BY <1>1 DEF RoomInv, TypeOK, Row, SessionStep, Ends

LEMMA SessionSteps ==
  ASSUME RoomInv, NEW s \in Session, Opening(s) \/ Editing(s) \/ Draining(s) \/ Losing(s)
  PROVE  SessionStep(s)
<1>1. CASE row' = row
  BY <1>1 DEF SessionStep
<1>2. CASE row' # row
  <2>1. \/ Claim(s) \/ ClaimUnconfirmed(s) \/ AbandonLoad(s)
        \/ StoreCommits(s) \/ ReleaseCommits(s)
    BY <1>2 DEF Opening, Editing, Draining, Losing, Open, Load, Admit, Apply, Reject,
       StoreBegins, FinalStoreBegins, Store, StoreFails, BeginIdleDrain, BeginTicketDrain,
       Refuse, ReleaseBegins, ReleaseReturns, Recover, Finish, LoseSession, BackendEnds, Crash
  <2> QED
    BY <1>2, <2>1, ClaimBegins, StoreGrows, ReleaseEnds
<1> QED
  BY <1>1, <1>2

\* A request changes a row only when it is quiescent, and only as a handoff does.
LEMMA RequestSteps ==
  ASSUME RoomInv, NEW r \in Request, Requesting(r)
  PROVE  row' = row \/ (Quiescent(r) /\ Changes)
<1>1. CASE HandoffCommits(r)
  BY <1>1, RowChanges DEF HandoffCommits
<1>2. CASE ~HandoffCommits(r)
  BY <1>2 DEF Requesting, Reserve, Cancel, StartDrain, Prove, HandoffBegins, HandoffEnds
<1> QED
  BY <1>1, <1>2

-----------------------------------------------------------------------------
(* Handoffs *)

\* A quiescent row has all that the rooms of its epoch ever had.
LEMMA QuiescentComplete ==
  ASSUME RoomInv, NEW r \in Request, Quiescent(r), row.epoch # 0,
         NEW s \in Session, room[s].epoch = row.epoch
  PROVE  room[s].live \subseteq row.base \union row.stored /\ room[s].admitted = {}
<1>1. receipt[row.epoch] # None /\ receipt[row.epoch].persisted \subseteq row.base \union row.stored
  <2>1. CASE ReceiptHolds(r)
    BY <2>1 DEF ReceiptHolds
  <2>2. CASE OutcomeHolds(r)
    BY <2>2 DEF OutcomeHolds, RoomInv, Left
  <2> QED
    BY <2>1, <2>2 DEF Quiescent
<1>2. room[s].phase \in {"committed", "released"}
      /\ room[s].live \subseteq receipt[row.epoch].persisted
  BY <1>1, RoomFacts DEF Sound, Covered
<1> QED
  BY <1>1, <1>2, RoomFacts DEF Sound, Frozen

\* A handoff loses no edit of any room of the epoch it takes over.
THEOREM HandoffsSeeAll == Spec => HandoffSeesAll
<1> DEFINE SeesAll ==
      row'.scope # row.scope \/ (row.owner = None /\ row'.stored # row.stored) =>
        \A s \in Session : (room[s].phase # "none" /\ room[s].epoch = row.epoch /\ row.epoch # 0)
          => room[s].live \subseteq row.base \union row.stored /\ room[s].admitted = {}
<1>1. RoomInv /\ [Next]_vars => [SeesAll]_vars
  <2> SUFFICES ASSUME RoomInv, Next PROVE SeesAll
    OBVIOUS
  <2>1. ASSUME NEW s \in Session, Opening(s) \/ Editing(s) \/ Draining(s) \/ Losing(s)
        PROVE  SeesAll
    BY <2>1, SessionSteps, NoneAssumption DEF SessionStep, Begins, Grows, Ends
  <2>2. CASE \E r \in Request : Requesting(r)
    BY <2>2, RequestSteps, QuiescentComplete
  <2> QED
    BY <2>1, <2>2 DEF Next
<1> QED
  BY <1>1, RoomInvariant, PTL DEF Spec, HandoffSeesAll

-----------------------------------------------------------------------------
(* The refinement *)

LEMMA WriterStarts == Init => Writer!WriterInit
BY DEF Init, NewRow, Writer!WriterInit

LEMMA WriterSteps == RoomInv /\ [Next]_vars => [Writer!WriterNext]_(Writer!writerVars)
<1> SUFFICES ASSUME RoomInv, [Next]_vars
             PROVE  [Writer!WriterNext]_(Writer!writerVars)
  OBVIOUS
<1>1. CASE row' = row
  BY <1>1 DEF Writer!writerVars
<1>2. ASSUME NEW s \in Session, SessionStep(s), row' # row
      PROVE  Writer!WriterNext
  <2>1. CASE Begins(s)
    BY <1>2, <2>1 DEF SessionStep, Begins, Grows, Ends, Writer!WriterNext, Writer!TakeOver
  <2>2. CASE Grows(s)
    BY <1>2, <2>2, NoneAssumption DEF SessionStep, Begins, Grows, Ends, Writer!WriterNext, Writer!Write
  <2>3. CASE Ends
    BY <1>2, <2>3 DEF SessionStep, Begins, Grows, Ends, Writer!WriterNext, Writer!Resign
  <2> QED
    BY <1>2, <2>1, <2>2, <2>3 DEF SessionStep
<1>3. ASSUME NEW r \in Request, Quiescent(r), Changes
      PROVE  [Writer!WriterNext]_(Writer!writerVars)
  BY <1>3 DEF Changes, Row, Quiescent, Writer!WriterNext, Writer!Change, Writer!BeginAnew
<1> QED
  BY <1>1, <1>2, <1>3, SessionSteps, RequestSteps DEF Next, vars

\* Every behaviour of the sessions, rooms and requests is one of the abstract
\* document with its terms.
THEOREM RoomsImplementSingleWriter == Spec => ImplementsSingleWriter
  BY RoomInvariant, WriterStarts, WriterSteps, PTL
  DEF Spec, ImplementsSingleWriter, Writer!WriterSpec

\* A fence by the epoch is sound: epochs never fall, within one the owner can
\* only resign, and nobody owns it again.
THEOREM TermsHaveOneOwner ==
  Spec => [][row'.epoch > row.epoch \/ (row'.epoch = row.epoch /\ row'.owner \in {row.owner, None})]_vars
<1>1. ASSUME RoomInv, [Next]_vars
      PROVE  row'.epoch > row.epoch \/ (row'.epoch = row.epoch /\ row'.owner \in {row.owner, None})
  <2>1. row.epoch \in Nat
    BY <1>1 DEF RoomInv, TypeOK, Row
  <2>2. [Writer!WriterNext]_(Writer!writerVars)
    BY <1>1, WriterSteps
  <2> QED
    BY <2>1, <2>2 DEF Writer!WriterNext, Writer!TakeOver, Writer!Write, Writer!Resign,
                      Writer!Change, Writer!BeginAnew, Writer!writerVars
<1>2. RoomInv /\ [Next]_vars
        => [row'.epoch > row.epoch \/ (row'.epoch = row.epoch /\ row'.owner \in {row.owner, None})]_vars
  BY <1>1
<1> QED
  BY <1>2, RoomInvariant, PTL DEF Spec

\* The document is written by nobody who might overwrite what he has not seen:
\* either by the owner, in his epoch and on the history he has loaded, who adds
\* to the stored edits, all of which he knows, such as his room has; or without
\* an owner, at a time when no room of the last epoch has more than the row.
THEOREM WritersHaveSeenAll ==
  Spec => [][row'.base # row.base \/ row'.stored # row.stored =>
    \/ \E s \in Session :
         /\ row.owner = s /\ row.epoch = room[s].epoch
         /\ row'.base = row.base /\ row.base = room[s].base
         /\ row.stored \subseteq row'.stored /\ row'.stored \subseteq room[s].live
    \/ /\ row.owner = None
       /\ \A s \in Session : room[s].epoch = row.epoch /\ row.epoch # 0
            => room[s].live \subseteq row.base \union row.stored /\ room[s].admitted = {}]_vars
<1> DEFINE ByOwner ==
             \E s \in Session :
               /\ row.owner = s /\ row.epoch = room[s].epoch
               /\ row'.base = row.base /\ row.base = room[s].base
               /\ row.stored \subseteq row'.stored /\ row'.stored \subseteq room[s].live
           ByHandoff ==
             /\ row.owner = None
             /\ \A s \in Session : room[s].epoch = row.epoch /\ row.epoch # 0
                  => room[s].live \subseteq row.base \union row.stored /\ room[s].admitted = {}
           Known == row'.base # row.base \/ row'.stored # row.stored => ByOwner \/ ByHandoff
<1>1. RoomInv /\ [Next]_vars => [Known]_vars
  <2> SUFFICES ASSUME RoomInv, Next PROVE Known
    OBVIOUS
  <2>1. ASSUME NEW s \in Session, Opening(s) \/ Editing(s) \/ Draining(s) \/ Losing(s)
        PROVE  Known
    <3>1. row' = row \/ (row'.base = row.base /\ (row'.stored = row.stored \/ Grows(s)))
      BY <2>1, SessionSteps DEF SessionStep, Begins, Ends
    <3> QED
      BY <3>1 DEF Grows
  <2>2. ASSUME NEW r \in Request, Requesting(r)
        PROVE  Known
    <3>1. row' = row \/ (Quiescent(r) /\ row.owner = None)
      BY <2>2, RequestSteps DEF Quiescent
    <3> QED
      BY <3>1, QuiescentComplete
  <2> QED
    BY <2>1, <2>2 DEF Next
<1> QED
  BY <1>1, RoomInvariant, PTL DEF Spec
=============================================================================
