---------------------------- MODULE RoomOwnership ----------------------------
(***************************************************************************)
(* Who may write one collaborative document: lib/collaboration/room-owner  *)
(* (claim, fence and release in the database), room-owner-runtime and      *)
(* room-activity-gate (the same in a process), room-owner-release (receipt *)
(* and recovery), room-admission*, representation-drain-refusal (a request *)
(* to change the document drains its owner and takes it over), the store   *)
(* of persistence.ts and the hooks of server/collaboration-server.ts.      *)
(*                                                                         *)
(* The document is one row of collaboration_yjs_states.  A room in the     *)
(* memory of a process takes edits and stores them into the row later.     *)
(* Each process has one owner session, a dedicated database connection     *)
(* that holds an advisory lock, the guard, while it owns the document.     *)
(* Three views of ownership are thus kept apart and drift: the session as  *)
(* the process sees it (active), the backend in the database (backend) and *)
(* the owner token of the row.  A lost session is never replaced.          *)
(*                                                                         *)
(* A transaction that takes the row FOR UPDATE is one action when nothing  *)
(* waits inside of it.  The store is two, for it runs on a connection of   *)
(* the pool that outlives the owner session: between its check of the      *)
(* fence and its commit everybody else who wants the row waits (RowFree).  *)
(*                                                                         *)
(* Yjs updates merge without order, so content is a set of edits.  It has  *)
(* two parts, for a handoff may encode the document anew: base, the edits  *)
(* whose effect is in the text the present Yjs history began with, and     *)
(* stored, those made since.  The scope of the document (path,             *)
(* representation, generation, schema) is a number that a handoff may      *)
(* advance, and does when it begins a new history.  An owner token is the session and   *)
(* the epoch: epochs are never given out twice.  Requests have the one     *)
(* document as their target, which makes the state of request and target   *)
(* one.  Limits on rooms and queues, and other documents, are left out.    *)
(***************************************************************************)
EXTENDS Naturals

CONSTANTS Session,     \* processes, each with the one owner session of its life
          Edit,        \* updates of clients and agents; a client may send one again
          Request,     \* admission requests
          Refusable,   \* those to change the representation
          None,
          MaxEpoch     \* bound: claims of the document

ASSUME NoneAssumption == None \notin Session /\ None \notin Request
ASSUME DisjointAssumption == Session \intersect Request = {}
ASSUME RefusableAssumption == Refusable \subseteq Request
ASSUME EpochAssumption == MaxEpoch \in Nat

VARIABLES
  row,      \* the state row: epoch, owner token, scope, base and stored content
  receipt,  \* collaboration_room_release_receipts, by epoch
  request,  \* collaboration_admission_requests and _targets
  guard,    \* holder of the advisory lock of the document
  backend,  \* the database backend of a session exists
  active,   \* the session as its process sees it
  room      \* the room of the document in a process

sessionVars == <<backend, active>>
vars == <<row, receipt, request, guard, backend, active, room>>

Epoch == 1..MaxEpoch
Row == [epoch : Nat, owner : Session \union {None}, scope : Nat,
        base : SUBSET Edit, stored : SUBSET Edit]
Receipt == [owner : Session, scope : Nat, persisted : SUBSET Edit, live : SUBSET Edit,
            ticket : Request \union {None}]
Kind == {"vacant", "normal_release", "owner_drain", "lifecycle_outcome"}
Target == [status : {"absent", "reserved", "draining", "released", "completed", "cancelled"},
           snapshot : Row, kind : Kind \union {None}, proof : Row \union {None},
           outcome : Row \union {None}]
Phase == {"none", "opening", "claimed", "live", "draining", "storing", "stored",
          "releasing", "committed", "released"}
Room == [phase : Phase, epoch : Nat, scope : Nat,
         base : SUBSET Edit,                    \* of the history it has loaded
         live : SUBSET Edit,                    \* the edits it has beyond that
         admitted : SUBSET Edit,                \* activities: updates on their way
         saving : (SUBSET Edit) \union {None},  \* what a store in flight captured
         snapshot : SUBSET Edit,                \* the bytes of the release
         ticket : Request \union {None}]

ASSUME ReceiptAssumption == None \notin Receipt

NoRoom == [phase |-> "none", epoch |-> 0, scope |-> 0, base |-> {}, live |-> {}, admitted |-> {},
           saving |-> None, snapshot |-> {}, ticket |-> None]
NewRow == [epoch |-> 0, owner |-> None, scope |-> 1, base |-> {}, stored |-> {}]
NoTarget == [status |-> "absent", snapshot |-> NewRow, kind |-> None, proof |-> None,
             outcome |-> None]

TypeOK ==
  /\ row \in Row
  /\ receipt \in [Epoch -> Receipt \union {None}]
  /\ request \in [Request -> Target]
  /\ guard \in Session \union Request \union {None}
  /\ backend \in [Session -> BOOLEAN]
  /\ active \in [Session -> BOOLEAN]
  /\ room \in [Session -> Room]

Init ==
  /\ row = NewRow
  /\ receipt = [e \in Epoch |-> None]
  /\ request = [r \in Request |-> NoTarget]
  /\ guard = None
  /\ backend = [s \in Session |-> TRUE]
  /\ active = [s \in Session |-> TRUE]
  /\ room = [s \in Session |-> NoRoom]

-----------------------------------------------------------------------------
(* The database *)

\* Mutant: the row is not locked before it is written.
RowUnlocked == TRUE

\* Nobody holds the row FOR UPDATE.
RowFree == \A s \in Session : room[s].saving = None

\* assertCollaborationRoomOwnerFence, for the fence of a room.
DatabaseFence(s) ==
  /\ row.epoch = room[s].epoch
  /\ row.owner = s
  /\ row.scope = room[s].scope
  /\ guard = s /\ backend[s]

\* An active request for the document closes admission to new owners.
Reserved(r) == request[r].status \in {"reserved", "draining", "released"}

SetRoom(s, new) == room' = [room EXCEPT ![s] = new]
SetRequest(r, new) == request' = [request EXCEPT ![r] = new]

-----------------------------------------------------------------------------
(* A room is opened *)

\* The state is read without a lock; its scope is what will be claimed.
Open(s) ==
  /\ room[s].phase = "none" /\ active[s]
  /\ SetRoom(s, [NoRoom EXCEPT !.phase = "opening", !.scope = row.scope])
  /\ UNCHANGED <<row, receipt, request, guard, sessionVars>>

CanClaim(s) ==
  /\ room[s].phase = "opening" /\ active[s] /\ backend[s]
  /\ \A r \in Request : ~Reserved(r)
  /\ guard = None /\ RowFree
  /\ row.scope = room[s].scope
  /\ row.epoch < MaxEpoch

\* Mutant: the epoch of an owner who left his token behind is taken over.
ClaimInEpoch(s) ==
  /\ CanClaim(s)
  /\ row' = [row EXCEPT !.epoch = IF row.owner = None THEN @ + 1 ELSE @, !.owner = s]
  /\ guard' = s
  /\ SetRoom(s, [room[s] EXCEPT !.phase = "claimed", !.epoch = row'.epoch])
  /\ UNCHANGED <<receipt, request, sessionVars>>

Claim(s) ==
  /\ CanClaim(s)
  /\ row' = [row EXCEPT !.epoch = @ + 1, !.owner = s]
  /\ guard' = s
  /\ SetRoom(s, [room[s] EXCEPT !.phase = "claimed", !.epoch = row.epoch + 1])
  /\ UNCHANGED <<receipt, request, sessionVars>>

\* The claim is committed but its answer is lost: the session ends, the token
\* and (as long as the backend lives) the guard stay behind.
ClaimUnconfirmed(s) ==
  /\ CanClaim(s)
  /\ row' = [row EXCEPT !.epoch = @ + 1, !.owner = s]
  /\ guard' = s
  /\ active' = [active EXCEPT ![s] = FALSE]
  /\ SetRoom(s, NoRoom)
  /\ UNCHANGED <<receipt, request, backend>>

\* The state is read again after the claim: a store of the previous owner may
\* have been committed while the claim waited for the row.
Load(s) ==
  /\ room[s].phase = "claimed" /\ active[s]
  /\ row.scope = room[s].scope
  /\ SetRoom(s, [room[s] EXCEPT !.phase = "live", !.base = row.base, !.live = row.stored])
  /\ UNCHANGED <<row, receipt, request, guard, sessionVars>>

\* Loading fails.  The release of an owner that has not loaded writes no
\* receipt, and a release that fails takes the session with it.
AbandonLoad(s) ==
  /\ room[s].phase \in {"opening", "claimed"}
  /\ SetRoom(s, NoRoom)
  /\ IF room[s].phase = "claimed" /\ active[s] /\ backend[s]
       THEN /\ RowFree
            /\ row' = IF row.epoch = room[s].epoch /\ row.owner = s
                        THEN [row EXCEPT !.owner = None] ELSE row
            /\ guard' = None
            /\ UNCHANGED active
       ELSE /\ active' = IF room[s].phase = "claimed" THEN [active EXCEPT ![s] = FALSE] ELSE active
            /\ UNCHANGED <<row, guard>>
  /\ UNCHANGED <<receipt, request, backend>>

-----------------------------------------------------------------------------
(* Edits and stores *)

\* Mutant: the gate stays open while it drains.
AdmitAlways(s, e) ==
  /\ room[s].phase \in {"live", "draining"} /\ active[s]
  /\ e \notin room[s].base \union room[s].live \union room[s].admitted
  /\ SetRoom(s, [room[s] EXCEPT !.admitted = @ \union {e}])
  /\ UNCHANGED <<row, receipt, request, guard, sessionVars>>

\* An update takes a lease of the activity gate, which a drain closes.  A
\* client with an update of an earlier history is refused when it connects.
Admit(s, e) ==
  /\ room[s].phase = "live" /\ active[s]
  /\ e \notin room[s].base \union room[s].live \union room[s].admitted
  /\ SetRoom(s, [room[s] EXCEPT !.admitted = @ \union {e}])
  /\ UNCHANGED <<row, receipt, request, guard, sessionVars>>

\* The lease is all that keeps an update inside the life of the room: between
\* the last check of the fence and the application nothing else looks.
Apply(s, e) ==
  /\ e \in room[s].admitted
  /\ SetRoom(s, [room[s] EXCEPT !.admitted = @ \ {e}, !.live = @ \union {e}])
  /\ UNCHANGED <<row, receipt, request, guard, sessionVars>>

\* Access revoked, a drain begun or ownership lost before the update is applied.
Reject(s, e) ==
  /\ e \in room[s].admitted
  /\ SetRoom(s, [room[s] EXCEPT !.admitted = @ \ {e}])
  /\ UNCHANGED <<row, receipt, request, guard, sessionVars>>

\* A store captures the room and locks the row after the checks of both fences.
Store(s, from, to) ==
  /\ room[s].phase = from /\ room[s].saving = None
  /\ active[s] /\ DatabaseFence(s) /\ RowFree
  /\ SetRoom(s, [room[s] EXCEPT !.phase = to, !.saving = room[s].live])
  /\ UNCHANGED <<row, receipt, request, guard, sessionVars>>

\* onStoreDocument, debounced, whenever the room has something to store.
StoreBegins(s) == room[s].live # row.stored /\ Store(s, "live", "live")

\* Mutant: the drain does not wait for the activities.
FinalStoreAtOnce(s) == Store(s, "draining", "storing")

\* The last store of a drain begins when the last activity is over.
FinalStoreBegins(s) == room[s].admitted = {} /\ Store(s, "draining", "storing")

StoreCommits(s) ==
  /\ room[s].saving # None
  /\ row' = [row EXCEPT !.stored = @ \union room[s].saving]
  /\ SetRoom(s, [room[s] EXCEPT !.saving = None,
                                !.phase = IF @ = "storing" THEN "stored" ELSE @])
  /\ UNCHANGED <<receipt, request, guard, sessionVars>>

\* A store that fails, in the database or at its fence, ends the session: the
\* room is kept as it is, closed to everybody.
StoreFails(s) ==
  /\ room[s].saving # None
  /\ active' = [active EXCEPT ![s] = FALSE]
  /\ SetRoom(s, [room[s] EXCEPT !.saving = None])
  /\ UNCHANGED <<row, receipt, request, guard, backend>>

-----------------------------------------------------------------------------
(* A room is drained and released *)

\* The unload of a room without connections closes the gate only when no
\* activity is left.
BeginIdleDrain(s) ==
  /\ room[s].phase = "live" /\ active[s] /\ room[s].admitted = {}
  /\ SetRoom(s, [room[s] EXCEPT !.phase = "draining"])
  /\ UNCHANGED <<row, receipt, request, guard, sessionVars>>

\* The worker of the process polls for drains of the fences it owns.
Asked(s, r) ==
  /\ request[r].status = "draining"
  /\ request[r].snapshot.owner = s /\ request[r].snapshot.epoch = room[s].epoch

BeginTicketDrain(s, r) ==
  /\ room[s].phase = "live" /\ active[s] /\ Asked(s, r)
  /\ SetRoom(s, [room[s] EXCEPT !.phase = "draining", !.ticket = r])
  /\ UNCHANGED <<row, receipt, request, guard, sessionVars>>

\* A change of representation is refused while clients are connected.
Refuse(s, r) ==
  /\ r \in Refusable
  /\ room[s].phase = "live" /\ active[s] /\ Asked(s, r)
  /\ RowFree /\ DatabaseFence(s)
  /\ SetRequest(r, [request[r] EXCEPT !.status = "cancelled"])
  /\ UNCHANGED <<row, receipt, guard, sessionVars, room>>

\* The handle is revoked and the bytes frozen before the release is queued.
ReleaseBegins(s) ==
  /\ room[s].phase = "stored" /\ active[s]
  /\ SetRoom(s, [room[s] EXCEPT !.phase = "releasing", !.snapshot = room[s].live])
  /\ UNCHANGED <<row, receipt, request, guard, sessionVars>>

\* Mutant: the receipt is made out after the token was given back.
ReceiptAfterwards(s) == [owner |-> None, scope |-> room[s].scope, persisted |-> row.stored,
                         live |-> room[s].snapshot, ticket |-> room[s].ticket]

\* What the receipt of a room will say.
ReceiptOf(s) == [owner |-> s, scope |-> room[s].scope, persisted |-> row.stored,
                 live |-> room[s].snapshot, ticket |-> room[s].ticket]

\* The row contains the frozen bytes: the receipt is written, the token given
\* back and the ticket acknowledged.  The COMMIT may be on its way when the
\* process gives the session up, so active is not asked.
ReleaseCommits(s) ==
  LET r == room[s].ticket IN
  /\ room[s].phase = "releasing"
  /\ RowFree /\ DatabaseFence(s)
  /\ room[s].snapshot \subseteq row.stored
  /\ row' = [row EXCEPT !.owner = None]
  /\ receipt' = [receipt EXCEPT ![room[s].epoch] = ReceiptOf(s)]
  /\ IF r = None THEN UNCHANGED request
     ELSE /\ request[r].status = "draining"
          /\ SetRequest(r, [request[r] EXCEPT !.status = "released", !.kind = "owner_drain"])
  /\ SetRoom(s, [room[s] EXCEPT !.phase = "committed"])
  /\ UNCHANGED <<guard, sessionVars>>

\* The guard is given back and the answer arrives.
ReleaseReturns(s) ==
  /\ room[s].phase = "committed" /\ active[s] /\ backend[s]
  /\ guard' = None
  /\ SetRoom(s, [room[s] EXCEPT !.phase = "released"])
  /\ UNCHANGED <<row, receipt, request, sessionVars>>

\* The receipt is in place and the row as it says: what the request took over
\* may have moved on when its outcome is committed.
HasReceipt(s) ==
  /\ guard = None /\ RowFree
  /\ room[s].ticket # None => request[room[s].ticket].status = "released"
  /\ row.epoch = room[s].epoch /\ row.owner = None /\ row.scope = room[s].scope
  /\ room[s].snapshot \subseteq row.stored
  /\ receipt[room[s].epoch] = ReceiptOf(s)

HandedOver(s) ==
  LET r == room[s].ticket IN
  /\ r # None
  /\ request[r].status = "completed" /\ request[r].kind = "owner_drain"
  /\ receipt[room[s].epoch] # None
  /\ receipt[room[s].epoch].ticket = r /\ receipt[room[s].epoch].live = room[s].snapshot

\* A release without an answer: with the session closed, the receipt is looked
\* up by reading only, again and again, and nothing is repeated.
Recover(s) ==
  /\ room[s].phase \in {"releasing", "committed"} /\ ~active[s]
  /\ HasReceipt(s) \/ HandedOver(s)
  /\ SetRoom(s, [room[s] EXCEPT !.phase = "released"])
  /\ UNCHANGED <<row, receipt, request, guard, sessionVars>>

\* The document is destroyed and its identifier free again.
Finish(s) ==
  /\ room[s].phase = "released"
  /\ SetRoom(s, NoRoom)
  /\ UNCHANGED <<row, receipt, request, guard, sessionVars>>

-----------------------------------------------------------------------------
(* Sessions are lost *)

\* A command times out, a probe fails, the runtime is disposed of.
LoseSession(s) ==
  /\ active[s]
  /\ active' = [active EXCEPT ![s] = FALSE]
  /\ UNCHANGED <<row, receipt, request, guard, backend, room>>

\* The backend ends, with its locks; the process need not know of it.
BackendEnds(s) ==
  /\ backend[s]
  /\ backend' = [backend EXCEPT ![s] = FALSE]
  /\ guard' = IF guard = s THEN None ELSE guard
  /\ UNCHANGED <<row, receipt, request, active, room>>

Crash(s) ==
  /\ room[s].phase # "none"
  /\ active' = [active EXCEPT ![s] = FALSE]
  /\ SetRoom(s, NoRoom)
  /\ UNCHANGED <<row, receipt, request, guard, backend>>

-----------------------------------------------------------------------------
(* Requests *)

Reserve(r) ==
  /\ request[r].status = "absent"
  /\ \A q \in Request : ~Reserved(q)
  /\ RowFree
  /\ SetRequest(r, [NoTarget EXCEPT !.status = "reserved", !.snapshot = row])
  /\ UNCHANGED <<row, receipt, guard, sessionVars, room>>

\* Only a request that was not started can be cancelled.
Cancel(r) ==
  /\ request[r].status = "reserved"
  /\ SetRequest(r, [request[r] EXCEPT !.status = "cancelled"])
  /\ UNCHANGED <<row, receipt, guard, sessionVars, room>>

StartDrain(r) ==
  /\ request[r].status = "reserved" /\ request[r].snapshot.owner # None
  /\ SetRequest(r, [request[r] EXCEPT !.status = "draining"])
  /\ UNCHANGED <<row, receipt, guard, sessionVars, room>>

\* The receipt of the last owner describes the row as it is.
ReceiptHolds(r) ==
  /\ row.epoch \in Epoch /\ receipt[row.epoch] # None
  /\ LET found == receipt[row.epoch] IN
     /\ found.scope = row.scope /\ found.persisted = row.stored
     /\ request[r].snapshot.owner \in {None, found.owner}

\* The row is exactly what an earlier handoff left.
OutcomeHolds(r) ==
  /\ request[r].snapshot.owner = None
  /\ \E q \in Request : request[q].status = "completed" /\ request[q].outcome = row

Evidence(r) ==
  IF request[r].snapshot.epoch = 0 THEN "vacant"
  ELSE IF ~ReceiptHolds(r) THEN "lifecycle_outcome"
  ELSE IF request[r].kind = "owner_drain" THEN "owner_drain" ELSE "normal_release"

\* Mutant: the owner is gone when the guard is free.
QuiescentByGuard(r) ==
  /\ request[r].status \in {"reserved", "draining", "released"}
  /\ RowFree
  /\ row.epoch = request[r].snapshot.epoch /\ row.scope = request[r].snapshot.scope

\* That the guard is free proves nothing: the token must have been given back,
\* and the row must be what somebody left who had stored all he knew.
Quiescent(r) ==
  /\ request[r].status \in {"reserved", "draining", "released"}
  /\ RowFree
  /\ row.epoch = request[r].snapshot.epoch /\ row.scope = request[r].snapshot.scope
  /\ row.owner = None
  /\ row.epoch = 0 \/ ReceiptHolds(r) \/ OutcomeHolds(r)
  /\ Evidence(r) = "owner_drain" => receipt[row.epoch].ticket = r
  /\ request[r].status = "released" => request[r].kind = Evidence(r)
  /\ request[r].snapshot.owner = None => row = request[r].snapshot

Prove(r) ==
  /\ guard = None /\ Quiescent(r)
  /\ request[r].proof = None
  /\ SetRequest(r, [request[r] EXCEPT !.status = "released", !.kind = Evidence(r), !.proof = row])
  /\ UNCHANGED <<row, receipt, guard, sessionVars, room>>

\* The handoff holds the guard on a session of its own until that ends.
HandoffBegins(r) ==
  /\ Reserved(r) /\ guard = None
  /\ guard' = r
  /\ UNCHANGED <<row, receipt, request, sessionVars, room>>

\* A change of path or lifecycle, of links by a prepared update, or of both; or
\* of nothing, when the request is aborted.
Revise ==
  \E scope \in {row.scope, row.scope + 1}, links \in SUBSET (Edit \ row.base) :
    row' = [row EXCEPT !.scope = scope, !.stored = @ \union links]

\* A compaction or a change of representation: a fresh document with the text
\* of the old one (up to the spelling of its Markdown) and nothing of its
\* history.
Reencode == row' = [row EXCEPT !.scope = @ + 1, !.base = @ \union row.stored, !.stored = {}]

\* The document is changed on the proof that was stored and still is what the
\* row shows.
HandoffCommits(r) ==
  /\ guard = r /\ Quiescent(r) /\ request[r].proof = row
  /\ Revise \/ Reencode
  /\ SetRequest(r, [request[r] EXCEPT !.status = "completed", !.outcome = row'])
  /\ UNCHANGED <<receipt, guard, sessionVars, room>>

HandoffEnds(r) ==
  /\ guard = r
  /\ guard' = None
  /\ UNCHANGED <<row, receipt, request, sessionVars, room>>

-----------------------------------------------------------------------------
Opening(s) == Open(s) \/ Claim(s) \/ ClaimUnconfirmed(s) \/ Load(s) \/ AbandonLoad(s)

Editing(s) ==
  \/ \E e \in Edit : Admit(s, e) \/ Apply(s, e) \/ Reject(s, e)
  \/ StoreBegins(s) \/ StoreCommits(s) \/ StoreFails(s)

Draining(s) ==
  \/ BeginIdleDrain(s)
  \/ \E r \in Request : BeginTicketDrain(s, r) \/ Refuse(s, r)
  \/ FinalStoreBegins(s) \/ ReleaseBegins(s) \/ ReleaseCommits(s) \/ ReleaseReturns(s)
  \/ Recover(s) \/ Finish(s)

Losing(s) == LoseSession(s) \/ BackendEnds(s) \/ Crash(s)

Requesting(r) ==
  \/ Reserve(r) \/ Cancel(r) \/ StartDrain(r) \/ Prove(r)
  \/ HandoffBegins(r) \/ HandoffCommits(r) \/ HandoffEnds(r)

Next ==
  \/ \E s \in Session : Opening(s) \/ Editing(s) \/ Draining(s) \/ Losing(s)
  \/ \E r \in Request : Requesting(r)

Spec == Init /\ [][Next]_vars

\* What a process goes on with by itself: activities end, queries are answered
\* or time out, and the heartbeat finds out that the backend is gone.
Works(s) ==
  \/ Load(s) \/ AbandonLoad(s)
  \/ \E e \in Edit : Apply(s, e) \/ Reject(s, e)
  \/ FinalStoreBegins(s) \/ StoreCommits(s) \/ StoreFails(s)
  \/ ReleaseBegins(s) \/ ReleaseCommits(s)
  \/ ~backend[s] /\ LoseSession(s)

Polls(s) == \E r \in Request : BeginTicketDrain(s, r)

FairSpec ==
  Spec /\ \A s \in Session : WF_vars(Works(s)) /\ WF_vars(Polls(s))

-----------------------------------------------------------------------------
(* Properties *)

\* The owner that has loaded the document knows all that is stored, and on the
\* same history: nobody else writes after its load, whatever sessions, stores
\* and handoffs it has outlived.
OwnerSeesAll ==
  \A s \in Session :
    (room[s].phase \notin {"none", "opening", "claimed"} /\ row.owner = s
       /\ row.epoch = room[s].epoch)
      => row.base = room[s].base /\ row.stored \subseteq room[s].live

\* A room that is released, so that its document may be destroyed, has a
\* receipt of its own epoch for everything that was ever applied to it, also
\* when its own release never got an answer.
ReleaseProven ==
  \A s \in Session : room[s].phase = "released" =>
    /\ receipt[room[s].epoch] # None
    /\ receipt[room[s].epoch].owner = s
    /\ room[s].live \subseteq receipt[room[s].epoch].persisted
    /\ room[s].admitted = {}

\* A handoff changes the document only after the last owner has stored all it
\* had: no room of the current epoch, in whatever state its session is, has an
\* edit on its way, or one that neither the row nor the text its history began
\* with contains.
HandoffSeesAll ==
  [][row'.scope # row.scope \/ (row.owner = None /\ row'.stored # row.stored) =>
       \A s \in Session : (room[s].phase # "none" /\ room[s].epoch = row.epoch /\ row.epoch # 0)
         => room[s].live \subseteq row.base \union row.stored /\ room[s].admitted = {}]_vars

\* A drain that was asked for comes to an end: the owner stores and lets go, or
\* refuses, unless its session is lost.  Neither the activities of the room nor
\* an unload that is under way can block it.
DrainSettles ==
  \A s \in Session, r \in Request :
    request[r].status = "draining" /\ request[r].snapshot.owner = s
      ~> request[r].status # "draining" \/ row.owner # s \/ ~active[s] \/ ~backend[s]

Writer == INSTANCE SingleWriter
  WITH Writer <- Session, term <- row.epoch, writer <- row.owner,
       base <- row.base, content <- row.stored, scope <- row.scope

\* The stored document has one writer at a time, in terms, and is changed from
\* outside only between them.
ImplementsSingleWriter == Writer!WriterSpec
=============================================================================
