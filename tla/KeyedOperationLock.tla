------------------------- MODULE KeyedOperationLock -------------------------
(***************************************************************************)
(* app/lib/concurrency/keyed-operation-lock.ts: a lock per key, built from *)
(* a chain of promises.  The store maps a key to the tail of its chain.    *)
(* A call reads the tail it finds (prev), puts its own tail in its place   *)
(* in the same turn of the event loop, and starts its operation once the   *)
(* tail it found has settled.  Its own tail settles after the tail it      *)
(* found and after its completion, which the release of the lease          *)
(* resolves.  A promise is named by the call that created it: the tail of  *)
(* call o is o.                                                            *)
(*                                                                         *)
(* The difficulty is in three separate turns: the release deletes the map  *)
(* entry at once (when it is still the releaser's own), the tail settles   *)
(* in a later microtask, and the waiter resumes in one later still.  In    *)
(* between, new calls may find the old tail, a newer tail or no tail.      *)
(* With holdUntil the lease also outlives the operation: a call that       *)
(* returned keeps its place until the promises given to holdUntil settle.  *)
(*                                                                         *)
(* A call is used once.  The key of a call is a constant, KeyOf.           *)
(***************************************************************************)
CONSTANTS Ops,            \* calls of withKeyedOperationLease
          Keys,           \* keys of one namespace of the store
          KeyOf,          \* the key each call is made with
          Settlements,    \* promises that callbacks may pass to holdUntil
          None            \* Promise.resolve(): no earlier tail

ASSUME KeyOfAssumption == KeyOf \in [Ops -> Keys]
ASSUME NoneAssumption == None \notin Ops

VARIABLES tails,          \* store.tails: the last tail of each key
          prev,           \* the tail a call found, its local "previous"
          pc,             \* the progress of a call
          held,           \* the promises a call passed to lease.holdUntil
          settled,        \* promises of Settlements that have settled
          tailSettled,    \* calls whose tail promise has settled
          before          \* history: unreleased calls of the key at the call

vars == <<tails, prev, pc, held, settled, tailSettled, before>>

States == {"new", "waiting", "running", "holding", "released"}

TypeOK ==
  /\ tails \in [Keys -> Ops \union {None}]
  /\ prev \in [Ops -> Ops \union {None}]
  /\ pc \in [Ops -> States]
  /\ held \in [Ops -> SUBSET Settlements]
  /\ settled \subseteq Settlements
  /\ tailSettled \subseteq Ops
  /\ before \in [Ops -> SUBSET Ops]

\* The lease of a call in one of these states has been taken and not released.
Unreleased(o) == pc[o] \in {"waiting", "running", "holding"}

\* The callback of the call has started and its lease is not released.
Occupies(o) == pc[o] \in {"running", "holding"}

-----------------------------------------------------------------------------

Init ==
  /\ tails = [k \in Keys |-> None]
  /\ prev = [o \in Ops |-> None]
  /\ pc = [o \in Ops |-> "new"]
  /\ held = [o \in Ops |-> {}]
  /\ settled = {}
  /\ tailSettled = {}
  /\ before = [o \in Ops |-> {}]

\* Mutant: the release is handed out with the key instead of the tail.
CallForgetsState(o) ==
  /\ pc[o] = "new"
  /\ prev' = [prev EXCEPT ![o] = KeyOf[o]]
  /\ tails' = [tails EXCEPT ![KeyOf[o]] = o]
  /\ pc' = [pc EXCEPT ![o] = "waiting"]
  /\ UNCHANGED <<held, settled, tailSettled, before>>

\* The synchronous part of a call, up to "await previous": read the tail of
\* the key, chain the own tail after it and store the own tail.
Call(o) ==
  /\ pc[o] = "new"
  /\ prev' = [prev EXCEPT ![o] = tails[KeyOf[o]]]
  /\ tails' = [tails EXCEPT ![KeyOf[o]] = o]
  /\ pc' = [pc EXCEPT ![o] = "waiting"]
  /\ before' = [before EXCEPT ![o] =
                  {p \in Ops : KeyOf[p] = KeyOf[o] /\ Unreleased(p)}]
  /\ UNCHANGED <<held, settled, tailSettled>>

PreviousSettled(o) == prev[o] = None \/ prev[o] \in tailSettled

\* Mutant: the callback starts without awaiting the previous tail.
EnterWithoutWaiting(o) ==
  /\ pc[o] = "waiting"
  /\ pc' = [pc EXCEPT ![o] = "running"]
  /\ UNCHANGED <<tails, prev, held, settled, tailSettled, before>>

\* "await previous" resumes and the callback starts.
Enter(o) ==
  /\ pc[o] = "waiting"
  /\ PreviousSettled(o)
  /\ pc' = [pc EXCEPT ![o] = "running"]
  /\ UNCHANGED <<tails, prev, held, settled, tailSettled, before>>

\* The callback passes a promise to lease.holdUntil; several are combined
\* with Promise.all.  A call made after the callback returned has no effect
\* (the finally block has read holdSettlement) and is left out.
HoldUntil(o, s) ==
  /\ pc[o] = "running"
  /\ s \notin held[o]
  /\ held' = [held EXCEPT ![o] = @ \union {s}]
  /\ UNCHANGED <<tails, prev, pc, settled, tailSettled, before>>

\* Broken variants of releaseLease, used as mutants: it forgets the key whoever
\* owns the entry; it resolves the completion only while the entry is its own.
ReleaseLeaseAlwaysForgets(o) ==
  /\ pc' = [pc EXCEPT ![o] = "released"]
  /\ tails' = [tails EXCEPT ![KeyOf[o]] = None]

ReleaseLeaseOnlyIfLast(o) ==
  IF tails[KeyOf[o]] = o
    THEN ReleaseLeaseAlwaysForgets(o)
    ELSE pc' = [pc EXCEPT ![o] = "holding"] /\ UNCHANGED tails

\* releaseLease: resolve the completion, and forget the key unless a later
\* call has put its tail there.
ReleaseLease(o) ==
  /\ pc' = [pc EXCEPT ![o] = "released"]
  /\ tails' = IF tails[KeyOf[o]] = o
                THEN [tails EXCEPT ![KeyOf[o]] = None]
                ELSE tails

\* Mutant: the finally block does not look at holdSettlement.
ReturnIgnoringHold(o) ==
  /\ pc[o] = "running"
  /\ ReleaseLease(o)
  /\ UNCHANGED <<prev, held, settled, tailSettled, before>>

\* The callback settles with nothing held: finally releases at once.
ReturnAndRelease(o) ==
  /\ pc[o] = "running"
  /\ held[o] = {}
  /\ ReleaseLease(o)
  /\ UNCHANGED <<prev, held, settled, tailSettled, before>>

\* The callback settles while promises are held: the caller gets its result,
\* the lease stays.
ReturnAndHold(o) ==
  /\ pc[o] = "running"
  /\ held[o] # {}
  /\ pc' = [pc EXCEPT ![o] = "holding"]
  /\ UNCHANGED <<tails, prev, held, settled, tailSettled, before>>

\* holdSettlement.finally(releaseLease)
ReleaseHeld(o) ==
  /\ pc[o] = "holding"
  /\ held[o] \subseteq settled
  /\ ReleaseLease(o)
  /\ UNCHANGED <<prev, held, settled, tailSettled, before>>

\* previous.catch(...).then(() => completion): the microtask that settles the
\* tail of a released call.
SettleTail(o) ==
  /\ pc[o] = "released"
  /\ o \notin tailSettled
  /\ PreviousSettled(o)
  /\ tailSettled' = tailSettled \union {o}
  /\ UNCHANGED <<tails, prev, pc, held, settled, before>>

\* Work behind a held promise ends, successfully or not.
Settle(s) ==
  /\ s \notin settled
  /\ settled' = settled \union {s}
  /\ UNCHANGED <<tails, prev, pc, held, tailSettled, before>>

\* Every call has been made, has finished, and left nothing behind.
Finished ==
  /\ \A o \in Ops : pc[o] = "released"
  /\ tailSettled = Ops
  /\ settled = Settlements
  /\ UNCHANGED vars

Return(o) == ReturnAndRelease(o) \/ ReturnAndHold(o)

Next ==
  \/ \E o \in Ops :
       \/ Call(o)
       \/ Enter(o)
       \/ \E s \in Settlements : HoldUntil(o, s)
       \/ Return(o)
       \/ ReleaseHeld(o)
       \/ SettleTail(o)
  \/ \E s \in Settlements : Settle(s)
  \/ Finished

\* Promise reactions run (Enter, ReleaseHeld, SettleTail are microtasks of the
\* event loop); callbacks and the work behind held promises are assumed to end.
Fairness ==
  /\ \A o \in Ops :
       /\ WF_vars(Enter(o))
       /\ WF_vars(Return(o))
       /\ WF_vars(ReleaseHeld(o))
       /\ WF_vars(SettleTail(o))
  /\ \A s \in Settlements : WF_vars(Settle(s))

Spec == Init /\ [][Next]_vars
FairSpec == Spec /\ Fairness

-----------------------------------------------------------------------------
(* Properties *)

\* The callbacks of two calls with one key never overlap; a call that returned
\* with held promises still counts as running.
MutualExclusion ==
  \A o, p \in Ops :
    (o # p /\ KeyOf[o] = KeyOf[p]) => ~(Occupies(o) /\ Occupies(p))

\* A callback starts only after every call of its key that was made earlier
\* and was unreleased at that time has released its lease and whatever it
\* put under holdUntil has settled: calls are served in the order in which
\* they were made, however the map entry was deleted and re-created meanwhile.
FifoExclusion ==
  \A o \in Ops :
    pc[o] \in {"running", "holding", "released"} =>
      \A p \in before[o] : pc[p] = "released" /\ held[p] \subseteq settled

\* The map never loses or misplaces a chain: an unreleased call is either the
\* tail its key maps to or stands in front of it, and an entry is a live call,
\* so that a key nobody uses leaves no entry behind.
TailCoversUnreleased ==
  \A k \in Keys :
    /\ tails[k] # None => KeyOf[tails[k]] = k /\ Unreleased(tails[k])
    /\ \A o \in Ops :
         (KeyOf[o] = k /\ Unreleased(o)) =>
           /\ tails[k] # None
           /\ o = tails[k] \/ o \in before[tails[k]]

\* Every call that is made gets its turn.
EveryCallRuns == \A o \in Ops : (pc[o] = "waiting") ~> (pc[o] = "running")

-----------------------------------------------------------------------------
(* The lock implements SessionMutex. *)

AbstractSt ==
  [o \in Ops |-> CASE pc[o] = "waiting" -> "waiting"
                   [] Occupies(o) -> "active"
                   [] OTHER -> "idle"]

AbstractKey == [o \in Ops |-> IF Unreleased(o) THEN KeyOf[o] ELSE None]

AbstractAhead ==
  [o \in Ops |-> IF Unreleased(o) THEN {p \in before[o] : Unreleased(p)} ELSE {}]

Mutex == INSTANCE SessionMutex WITH st <- AbstractSt, key <- AbstractKey,
                                    ahead <- AbstractAhead

\* Every step of the promise chain is a step of the abstract lock or a stutter.
ImplementsMutex == Mutex!MutexSpec
=============================================================================
