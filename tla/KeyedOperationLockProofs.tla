---------------------- MODULE KeyedOperationLockProofs ----------------------
(***************************************************************************)
(* Proofs about KeyedOperationLock, for any number of calls, keys and held *)
(* promises.  The inductive invariant relates the chain of tails (what the *)
(* program has) to the set of calls that came before (what the lock        *)
(* promises): the tail a call found covers every call before it, and a     *)
(* settled tail means that the call and everything before it is released.  *)
(***************************************************************************)
EXTENDS KeyedOperationLock, TLAPS

LEMMA InitTypeOK == Init => TypeOK
BY NoneAssumption, KeyOfAssumption DEF Init, TypeOK, States

\* The state, the tails and the histories always have their types.
LEMMA TypeStep == TypeOK /\ [Next]_vars => TypeOK'
<1> SUFFICES ASSUME TypeOK, [Next]_vars PROVE TypeOK'
  OBVIOUS
<1> USE KeyOfAssumption, NoneAssumption DEF TypeOK, States
<1>1. ASSUME NEW o \in Ops, Call(o) PROVE TypeOK'
  BY <1>1 DEF Call
<1>2. ASSUME NEW o \in Ops, Enter(o) PROVE TypeOK'
  BY <1>2 DEF Enter
<1>3. ASSUME NEW o \in Ops, NEW s \in Settlements, HoldUntil(o, s) PROVE TypeOK'
  BY <1>3 DEF HoldUntil
<1>4. ASSUME NEW o \in Ops, ReturnAndRelease(o) PROVE TypeOK'
  BY <1>4 DEF ReturnAndRelease, ReleaseLease
<1>5. ASSUME NEW o \in Ops, ReturnAndHold(o) PROVE TypeOK'
  BY <1>5 DEF ReturnAndHold
<1>6. ASSUME NEW o \in Ops, ReleaseHeld(o) PROVE TypeOK'
  BY <1>6 DEF ReleaseHeld, ReleaseLease
<1>7. ASSUME NEW o \in Ops, SettleTail(o) PROVE TypeOK'
  BY <1>7 DEF SettleTail
<1>8. ASSUME NEW s \in Settlements, Settle(s) PROVE TypeOK'
  BY <1>8 DEF Settle
<1>9. CASE UNCHANGED vars
  BY <1>9 DEF vars
<1> QED
  BY <1>1, <1>2, <1>3, <1>4, <1>5, <1>6, <1>7, <1>8, <1>9
  DEF Next, Return, Finished

THEOREM TypeCorrect == Spec => []TypeOK
<1> QED BY InitTypeOK, TypeStep, PTL DEF Spec

-----------------------------------------------------------------------------
(* The inductive invariant *)

\* Only earlier calls of the same key come before a call.
BeforeIsEarlier ==
  \A o, p \in Ops : p \in before[o] =>
    p # o /\ KeyOf[p] = KeyOf[o] /\ pc[p] # "new" /\ pc[o] # "new"

\* The tail a call found stands for every call before it.
PrevCoversBefore ==
  \A o \in Ops : pc[o] # "new" =>
    IF prev[o] = None
      THEN before[o] = {}
      ELSE prev[o] \in before[o] /\ before[o] \subseteq {prev[o]} \union before[prev[o]]

\* A tail settles after the release of its call, and a release honours holds.
SettledIsReleased == \A o \in tailSettled : pc[o] = "released"
ReleaseHonoursHolds == \A o \in Ops : pc[o] = "released" => held[o] \subseteq settled

\* Two unreleased calls of one key are ordered.
UnreleasedOrdered ==
  \A o, p \in Ops :
    (o # p /\ KeyOf[o] = KeyOf[p] /\ Unreleased(o) /\ Unreleased(p)) =>
      o \in before[p] \/ p \in before[o]

Inv ==
  /\ TypeOK
  /\ BeforeIsEarlier
  /\ PrevCoversBefore
  /\ SettledIsReleased
  /\ ReleaseHonoursHolds
  /\ UnreleasedOrdered
  /\ TailCoversUnreleased
  /\ FifoExclusion

LEMMA InitInv == Init => Inv
<1> SUFFICES ASSUME Init PROVE Inv
  OBVIOUS
<1>1. TypeOK
  BY InitTypeOK
<1> QED
  BY <1>1, KeyOfAssumption
  DEF Init, Inv, BeforeIsEarlier, PrevCoversBefore, SettledIsReleased,
      ReleaseHonoursHolds, UnreleasedOrdered, TailCoversUnreleased,
      FifoExclusion, Unreleased

\* A new call puts itself behind every unreleased call of its key.
LEMMA CallInv == ASSUME Inv, NEW o \in Ops, Call(o) PROVE Inv'
<1> USE KeyOfAssumption, NoneAssumption DEF Inv, Unreleased
<1>0. TypeOK'
  BY TypeStep DEF Next
<1>1. /\ pc[o] = "new"
      /\ pc' = [pc EXCEPT ![o] = "waiting"]
      /\ prev' = [prev EXCEPT ![o] = tails[KeyOf[o]]]
      /\ tails' = [tails EXCEPT ![KeyOf[o]] = o]
      /\ before' = [before EXCEPT ![o] =
                      {p \in Ops : KeyOf[p] = KeyOf[o] /\ Unreleased(p)}]
      /\ UNCHANGED <<held, settled, tailSettled>>
  BY DEF Call
<1>2. \A p \in Ops : o \notin before[p]
  BY <1>1 DEF BeforeIsEarlier
<1>3. BeforeIsEarlier'
  BY <1>1 DEF BeforeIsEarlier, TypeOK
<1>4. PrevCoversBefore'
  <2> SUFFICES ASSUME NEW q \in Ops, pc'[q] # "new"
               PROVE IF prev'[q] = None
                       THEN before'[q] = {}
                       ELSE /\ prev'[q] \in before'[q]
                            /\ before'[q] \subseteq {prev'[q]} \union before'[prev'[q]]
    BY DEF PrevCoversBefore
  <2>1. CASE q = o
    BY <1>1, <2>1 DEF TailCoversUnreleased, TypeOK
  <2>2. CASE q # o
    BY <1>1, <1>2, <2>2 DEF PrevCoversBefore, TypeOK
  <2> QED BY <2>1, <2>2
<1>5. SettledIsReleased'
  BY <1>1 DEF SettledIsReleased, TypeOK
<1>6. ReleaseHonoursHolds'
  BY <1>1 DEF ReleaseHonoursHolds, TypeOK
<1>7. UnreleasedOrdered'
  BY <1>1 DEF UnreleasedOrdered, TypeOK
<1>8. TailCoversUnreleased'
  BY <1>1 DEF TailCoversUnreleased, TypeOK
<1>9. FifoExclusion'
  BY <1>1, <1>2 DEF FifoExclusion, TypeOK
<1> QED
  BY <1>0, <1>3, <1>4, <1>5, <1>6, <1>7, <1>8, <1>9

\* A call enters when the tail it found has settled, hence when every call
\* before it is released.
LEMMA EnterInv == ASSUME Inv, NEW o \in Ops, Enter(o) PROVE Inv'
<1> USE KeyOfAssumption, NoneAssumption DEF Inv, Unreleased
<1>0. TypeOK'
  BY TypeStep DEF Next
<1>1. /\ pc[o] = "waiting"
      /\ pc' = [pc EXCEPT ![o] = "running"]
      /\ UNCHANGED <<tails, prev, held, settled, tailSettled, before>>
  BY DEF Enter
<1>2. \A p \in before[o] : pc[p] = "released" /\ held[p] \subseteq settled
  <2>1. CASE prev[o] = None
    BY <1>1, <2>1 DEF PrevCoversBefore
  <2>2. CASE prev[o] \in tailSettled
    BY <1>1, <2>2
    DEF PrevCoversBefore, SettledIsReleased, ReleaseHonoursHolds,
        FifoExclusion, TypeOK
  <2> QED
    BY <2>1, <2>2 DEF Enter, PreviousSettled
<1>3. BeforeIsEarlier'
  BY <1>1 DEF BeforeIsEarlier, TypeOK
<1>4. PrevCoversBefore'
  BY <1>1 DEF PrevCoversBefore, TypeOK
<1>5. SettledIsReleased'
  BY <1>1 DEF SettledIsReleased, TypeOK
<1>6. ReleaseHonoursHolds'
  BY <1>1 DEF ReleaseHonoursHolds, TypeOK
<1>7. UnreleasedOrdered'
  BY <1>1 DEF UnreleasedOrdered, TypeOK
<1>8. TailCoversUnreleased'
  BY <1>1 DEF TailCoversUnreleased, TypeOK
<1>9. FifoExclusion'
  BY <1>1, <1>2 DEF FifoExclusion, BeforeIsEarlier, TypeOK
<1> QED
  BY <1>0, <1>3, <1>4, <1>5, <1>6, <1>7, <1>8, <1>9

\* Releasing a lease keeps the chain whole: when the releaser still owns the
\* entry, no other call of its key is unreleased.
LEMMA ReleaseInv ==
  ASSUME Inv, NEW o \in Ops, Occupies(o), held[o] \subseteq settled,
         ReleaseLease(o), TypeOK',
         UNCHANGED <<prev, held, settled, tailSettled, before>>
  PROVE  Inv'
<1> USE KeyOfAssumption, NoneAssumption DEF Inv, Unreleased
<1>1. /\ pc[o] \in {"running", "holding"}
      /\ pc' = [pc EXCEPT ![o] = "released"]
      /\ UNCHANGED <<prev, held, settled, tailSettled, before>>
      /\ tails' = IF tails[KeyOf[o]] = o
                    THEN [tails EXCEPT ![KeyOf[o]] = None]
                    ELSE tails
  BY DEF ReleaseLease, Occupies
<1>2. \A p \in before[o] : pc[p] = "released"
  BY <1>1 DEF FifoExclusion
<1>3. BeforeIsEarlier'
  BY <1>1 DEF BeforeIsEarlier, TypeOK
<1>4. PrevCoversBefore'
  BY <1>1 DEF PrevCoversBefore, TypeOK
<1>5. SettledIsReleased'
  BY <1>1 DEF SettledIsReleased, TypeOK
<1>6. ReleaseHonoursHolds'
  BY <1>1 DEF ReleaseHonoursHolds, TypeOK
<1>7. UnreleasedOrdered'
  BY <1>1 DEF UnreleasedOrdered, TypeOK
<1>8. TailCoversUnreleased'
  <2>1. CASE tails[KeyOf[o]] = o
    BY <1>1, <1>2, <2>1 DEF TailCoversUnreleased, TypeOK
  <2>2. CASE tails[KeyOf[o]] # o
    BY <1>1, <2>2 DEF TailCoversUnreleased, TypeOK
  <2> QED BY <2>1, <2>2
<1>9. FifoExclusion'
  BY <1>1, <1>2 DEF FifoExclusion, TypeOK
<1> QED
  BY <1>3, <1>4, <1>5, <1>6, <1>7, <1>8, <1>9

\* The remaining steps move no call into or out of the chain.
LEMMA QuietInv ==
  ASSUME Inv, TypeOK',
         UNCHANGED <<tails, prev, before>>,
         \A p \in Ops : \/ pc'[p] = pc[p] /\ (held'[p] = held[p] \/ pc[p] = "running")
                        \/ pc[p] = "running" /\ pc'[p] = "holding" /\ held'[p] = held[p],
         settled \subseteq settled',
         \A p \in tailSettled' : pc[p] = "released"
  PROVE  Inv'
<1> USE KeyOfAssumption, NoneAssumption DEF Inv, Unreleased, TypeOK
<1>3. BeforeIsEarlier'
  BY DEF BeforeIsEarlier
<1>4. PrevCoversBefore'
  BY DEF PrevCoversBefore
<1>5. SettledIsReleased'
  BY DEF SettledIsReleased
<1>6. ReleaseHonoursHolds'
  BY DEF ReleaseHonoursHolds
<1>7. UnreleasedOrdered'
  BY DEF UnreleasedOrdered
<1>8. TailCoversUnreleased'
  BY DEF TailCoversUnreleased
<1>9. FifoExclusion'
  BY DEF FifoExclusion
<1> QED
  BY <1>3, <1>4, <1>5, <1>6, <1>7, <1>8, <1>9

LEMMA InvStep == Inv /\ [Next]_vars => Inv'
<1> SUFFICES ASSUME Inv, [Next]_vars PROVE Inv'
  OBVIOUS
<1>0. TypeOK /\ TypeOK'
  BY TypeStep DEF Inv
<1>1. ASSUME NEW o \in Ops, Call(o) PROVE Inv'
  BY <1>1, CallInv
<1>2. ASSUME NEW o \in Ops, Enter(o) PROVE Inv'
  BY <1>2, EnterInv
<1>3. ASSUME NEW o \in Ops, NEW s \in Settlements, HoldUntil(o, s) PROVE Inv'
  BY <1>0, <1>3, QuietInv DEF HoldUntil, Inv, SettledIsReleased, TypeOK
<1>4. ASSUME NEW o \in Ops, ReturnAndRelease(o) PROVE Inv'
  BY <1>0, <1>4, ReleaseInv DEF ReturnAndRelease, Occupies
<1>5. ASSUME NEW o \in Ops, ReturnAndHold(o) PROVE Inv'
  BY <1>0, <1>5, QuietInv DEF ReturnAndHold, Inv, SettledIsReleased, TypeOK
<1>6. ASSUME NEW o \in Ops, ReleaseHeld(o) PROVE Inv'
  BY <1>0, <1>6, ReleaseInv DEF ReleaseHeld, Occupies
<1>7. ASSUME NEW o \in Ops, SettleTail(o) PROVE Inv'
  BY <1>0, <1>7, QuietInv DEF SettleTail, Inv, SettledIsReleased, TypeOK
<1>8. ASSUME NEW s \in Settlements, Settle(s) PROVE Inv'
  BY <1>0, <1>8, QuietInv DEF Settle, Inv, SettledIsReleased, TypeOK
<1>9. CASE UNCHANGED vars
  BY <1>0, <1>9, QuietInv DEF vars, Inv, SettledIsReleased, TypeOK
<1> QED
  BY <1>1, <1>2, <1>3, <1>4, <1>5, <1>6, <1>7, <1>8, <1>9
  DEF Next, Return, Finished

LEMMA InvImpliesMutualExclusion == Inv => MutualExclusion
BY DEF Inv, MutualExclusion, Occupies, Unreleased, UnreleasedOrdered, FifoExclusion

LEMMA InvAlways == Spec => []Inv
<1> QED BY InitInv, InvStep, PTL DEF Spec

\* Callbacks of one key never overlap.
THEOREM MutualExclusionHolds == Spec => []MutualExclusion
<1> QED BY InvAlways, InvImpliesMutualExclusion, PTL

\* Callbacks of one key run in the order of their calls, each after the held
\* work of the calls before it.
THEOREM FifoExclusionHolds == Spec => []FifoExclusion
<1>1. Inv => FifoExclusion
  BY DEF Inv
<1> QED BY InvAlways, <1>1, PTL

\* The store maps a key to the last unreleased call of it, and to nothing when
\* there is none.
THEOREM TailCoversUnreleasedHolds == Spec => []TailCoversUnreleased
<1>1. Inv => TailCoversUnreleased
  BY DEF Inv
<1> QED BY InvAlways, <1>1, PTL

-----------------------------------------------------------------------------
(* The promise chain implements the abstract lock. *)

LEMMA RefinementInit == Init => Mutex!MutexInit
BY NoneAssumption
DEF Init, Mutex!MutexInit, AbstractSt, AbstractKey, AbstractAhead, Occupies, Unreleased

\* A call requests: the unreleased calls of its key are the abstract queue.
LEMMA CallRequests ==
  ASSUME Inv, NEW o \in Ops, Call(o) PROVE Mutex!Request(o, KeyOf[o])
<1> USE KeyOfAssumption, NoneAssumption DEF Unreleased, Occupies
<1>1. /\ TypeOK
      /\ pc[o] = "new"
      /\ pc' = [pc EXCEPT ![o] = "waiting"]
      /\ before' = [before EXCEPT ![o] =
                      {p \in Ops : KeyOf[p] = KeyOf[o] /\ Unreleased(p)}]
  BY DEF Call, Inv
<1>2. \A p \in Ops : o \notin before[p]
  BY <1>1 DEF Inv, BeforeIsEarlier
<1>3. AbstractSt[o] = "idle"
  BY <1>1 DEF AbstractSt
<1>4. AbstractSt' = [AbstractSt EXCEPT ![o] = "waiting"]
  BY <1>1 DEF AbstractSt, TypeOK
<1>5. AbstractKey' = [AbstractKey EXCEPT ![o] = KeyOf[o]]
  BY <1>1 DEF AbstractKey, TypeOK
<1>6. \A p \in Ops : (AbstractSt[p] # "idle" /\ AbstractKey[p] = KeyOf[o])
                       <=> (KeyOf[p] = KeyOf[o] /\ Unreleased(p))
  BY <1>1 DEF AbstractSt, AbstractKey, TypeOK
<1>7. AbstractAhead' = [AbstractAhead EXCEPT ![o] =
        {p \in Ops : AbstractSt[p] # "idle" /\ AbstractKey[p] = KeyOf[o]}]
  <2> DEFINE New == {p \in Ops : AbstractSt[p] # "idle" /\ AbstractKey[p] = KeyOf[o]}
  <2>1. AbstractAhead'[o] = New
    BY <1>1, <1>6 DEF AbstractAhead, TypeOK
  <2>2. ASSUME NEW q \in Ops, q # o PROVE AbstractAhead'[q] = AbstractAhead[q]
    <3>1. before'[q] = before[q] /\ pc'[q] = pc[q]
      BY <1>1, <2>2 DEF TypeOK
    <3>2. \A p \in before[q] : pc'[p] = pc[p]
      BY <1>1, <1>2 DEF TypeOK
    <3>3. {p \in before'[q] : Unreleased(p)'} = {p \in before[q] : Unreleased(p)}
      BY <3>1, <3>2
    <3> QED BY <3>1, <3>3 DEF AbstractAhead
  <2>3. /\ AbstractAhead' = [q \in Ops |-> AbstractAhead'[q]]
        /\ AbstractAhead = [q \in Ops |-> AbstractAhead[q]]
    BY DEF AbstractAhead
  <2> HIDE DEF New
  <2>4. AbstractAhead' = [AbstractAhead EXCEPT ![o] = New]
    BY <2>1, <2>2, <2>3
  <2> QED BY <2>4 DEF New
<1> QED
  BY <1>3, <1>4, <1>5, <1>7 DEF Mutex!Request

\* A callback starts with nothing before it: a grant.
LEMMA EnterGrants ==
  ASSUME Inv, NEW o \in Ops, Enter(o) PROVE Mutex!Grant(o)
<1> USE KeyOfAssumption, NoneAssumption DEF Unreleased, Occupies
<1>1. /\ TypeOK
      /\ pc[o] = "waiting"
      /\ pc' = [pc EXCEPT ![o] = "running"]
      /\ UNCHANGED before
  BY DEF Enter, Inv
<1>2. \A p \in before[o] : pc[p] = "released"
  BY EnterInv, <1>1 DEF Inv, FifoExclusion, TypeOK
<1>3. AbstractSt[o] = "waiting" /\ AbstractAhead[o] = {}
  BY <1>1, <1>2 DEF AbstractSt, AbstractAhead, TypeOK
<1>4. AbstractSt' = [AbstractSt EXCEPT ![o] = "active"]
  BY <1>1 DEF AbstractSt, TypeOK
<1>5. AbstractKey' = AbstractKey
  BY <1>1 DEF AbstractKey, TypeOK
<1>6. AbstractAhead' = AbstractAhead
  BY <1>1 DEF AbstractAhead, TypeOK
<1> QED
  BY <1>3, <1>4, <1>5, <1>6 DEF Mutex!Grant

\* Giving up the lease is a release.
LEMMA LeaseReleases ==
  ASSUME Inv, NEW o \in Ops, Occupies(o), ReleaseLease(o), UNCHANGED before
  PROVE  Mutex!Release(o)
<1> USE KeyOfAssumption, NoneAssumption DEF Unreleased, Occupies
<1>1. /\ TypeOK
      /\ pc' = [pc EXCEPT ![o] = "released"]
      /\ UNCHANGED before
  BY DEF ReleaseLease, Inv
<1>2. \A p \in before[o] : pc[p] = "released"
  BY DEF Inv, FifoExclusion
<1>3. AbstractSt[o] = "active"
  BY <1>1 DEF AbstractSt
<1>4. AbstractSt' = [AbstractSt EXCEPT ![o] = "idle"]
  BY <1>1 DEF AbstractSt, TypeOK
<1>5. AbstractKey' = [AbstractKey EXCEPT ![o] = None]
  BY <1>1 DEF AbstractKey, TypeOK
<1>6. AbstractAhead' = [p \in Ops |-> AbstractAhead[p] \ {o}]
  <2>1. ASSUME NEW q \in Ops PROVE AbstractAhead'[q] = AbstractAhead[q] \ {o}
    BY <1>1, <1>2 DEF AbstractAhead, TypeOK
  <2>2. AbstractAhead' = [q \in Ops |-> AbstractAhead'[q]]
    BY DEF AbstractAhead
  <2> QED BY <2>1, <2>2
<1> QED
  BY <1>3, <1>4, <1>5, <1>6 DEF Mutex!Release

\* A step that leaves every call on its side of waiting, active and idle, and
\* the histories alone, is no step of the abstract lock.
LEMMA QuietStutters ==
  ASSUME TypeOK, UNCHANGED before,
         \A p \in Ops : (pc'[p] = pc[p]) \/ (pc[p] = "running" /\ pc'[p] = "holding")
  PROVE  UNCHANGED <<AbstractSt, AbstractKey, AbstractAhead>>
<1>1. \A p \in Ops : /\ Unreleased(p)' <=> Unreleased(p)
                     /\ Occupies(p)' <=> Occupies(p)
                     /\ (pc'[p] = "waiting") <=> (pc[p] = "waiting")
  BY DEF Unreleased, Occupies
<1>2. AbstractSt' = AbstractSt
  BY <1>1 DEF AbstractSt
<1>3. AbstractKey' = AbstractKey
  BY <1>1 DEF AbstractKey
<1>4. AbstractAhead' = AbstractAhead
  <2>1. ASSUME NEW q \in Ops PROVE AbstractAhead'[q] = AbstractAhead[q]
    <3>1. {p \in before[q]' : Unreleased(p)'} = {p \in before[q] : Unreleased(p)}
      BY <1>1 DEF TypeOK
    <3> QED BY <1>1, <3>1 DEF AbstractAhead
  <2>2. /\ AbstractAhead' = [q \in Ops |-> AbstractAhead'[q]]
        /\ AbstractAhead = [q \in Ops |-> AbstractAhead[q]]
    BY DEF AbstractAhead
  <2> QED BY <2>1, <2>2
<1> QED
  BY <1>2, <1>3, <1>4

LEMMA RefinementStep ==
  Inv /\ [Next]_vars => [Mutex!MutexNext]_(Mutex!mutexVars)
<1> SUFFICES ASSUME Inv, [Next]_vars
             PROVE  [Mutex!MutexNext]_(Mutex!mutexVars)
  OBVIOUS
<1>0. TypeOK
  BY DEF Inv
<1>1. ASSUME NEW o \in Ops, Call(o) PROVE Mutex!MutexNext
  BY <1>1, CallRequests, KeyOfAssumption DEF Mutex!MutexNext
<1>2. ASSUME NEW o \in Ops, Enter(o) PROVE Mutex!MutexNext
  BY <1>2, EnterGrants DEF Mutex!MutexNext
<1>3. ASSUME NEW o \in Ops, ReturnAndRelease(o) \/ ReleaseHeld(o) PROVE Mutex!MutexNext
  BY <1>3, LeaseReleases DEF ReturnAndRelease, ReleaseHeld, Occupies, Mutex!MutexNext
<1>4. ASSUME NEW o \in Ops, ReturnAndHold(o) PROVE UNCHANGED Mutex!mutexVars
  BY <1>0, <1>4, QuietStutters DEF ReturnAndHold, TypeOK, Mutex!mutexVars
<1>5. ASSUME NEW o \in Ops, NEW s \in Settlements, HoldUntil(o, s)
      PROVE  UNCHANGED Mutex!mutexVars
  BY <1>0, <1>5, QuietStutters DEF HoldUntil, Mutex!mutexVars
<1>6. ASSUME NEW o \in Ops, SettleTail(o) PROVE UNCHANGED Mutex!mutexVars
  BY <1>0, <1>6, QuietStutters DEF SettleTail, Mutex!mutexVars
<1>7. ASSUME NEW s \in Settlements, Settle(s) PROVE UNCHANGED Mutex!mutexVars
  BY <1>0, <1>7, QuietStutters DEF Settle, Mutex!mutexVars
<1>8. CASE UNCHANGED vars
  BY <1>0, <1>8, QuietStutters DEF vars, Mutex!mutexVars
<1> QED
  BY <1>1, <1>2, <1>3, <1>4, <1>5, <1>6, <1>7, <1>8 DEF Next, Return, Finished

\* Every behaviour of the promise chain is a behaviour of the abstract lock.
THEOREM LockImplementsMutex == Spec => ImplementsMutex
<1> QED
  BY InvAlways, RefinementInit, RefinementStep, PTL
  DEF Spec, ImplementsMutex, Mutex!MutexSpec
=============================================================================
