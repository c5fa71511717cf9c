-------------------- MODULE AutomationRunsSessionProofs --------------------
(***************************************************************************)
(* The session lock and the dispatch slots in AutomationRuns, proved for   *)
(* all constants: a session never has two agents at work, and a slot is    *)
(* taken exactly while the execution it was given to goes on.              *)
(*                                                                         *)
(* ExecutionStep says how a step may change an execution, LockStep that it *)
(* changes the lock only by the operations of SessionMutex.  Of two        *)
(* operations of one session, one is always ahead of the other (LockOrder),*)
(* an agent works only while its operation is active (Shape), and a chat   *)
(* becomes busy only under the lock (SessionFree).                         *)
(*                                                                         *)
(* SlotStep says how a step changes a slot.  Executions with a slot are of *)
(* different runs and have not left: an agent that outlives its execution  *)
(* holds no slot any more (SlotInv).                                       *)
(***************************************************************************)
EXTENDS AutomationRunsProofs, FiniteSetTheorems

USE DEF jobVars, rowVars, outVars, opVars, lockVars, envVars

-----------------------------------------------------------------------------
(* How a step changes an execution *)

LEMMA ExecutionStep ==
  ASSUME TypeOK, ShapeOK, [Next]_vars, NEW e \in Executors
  PROVE  SameExecution(e) \/ Execution(e) \/ Crash
<1>1. CASE UNCHANGED vars
  BY <1>1 DEF vars, SameExecution
<1>2. CASE Store \/ Users \/ Tick
  BY <1>2 DEF SameExecution, Store, ScheduleRun, WebhookArrives, CreatePendingRun,
      TimePasses, DiscardMissed, AdvanceSchedule, SweepReads, SweepWrites, Users,
      ReadForEdit, CommitEdit, RejectEdit, DeleteJob, ChatStarts, ChatEnds, Tick
<1>3. CASE \E x \in Executors : Execution(x)
  BY <1>3, ExecutionShape
<1> QED
  BY <1>1, <1>2, <1>3 DEF Next

\* The agent of an execution only comes to work by LoopStarts.
LEMMA WorkStep ==
  ASSUME TypeOK, ShapeOK, [Next]_vars, NEW e \in Executors, Working(e)'
  PROVE  /\ run'[e] = run[e] /\ expAtt'[e] = expAtt[e]
         /\ Working(e) \/ LoopStarts(e)
<1>1. CASE SameExecution(e)
  BY <1>1 DEF SameExecution, Working
<1>2. CASE Crash
  BY <1>2 DEF Crash, Working
<1>3. CASE Execution(e)
  <2>1. \/ Working(e) /\ UNCHANGED <<run, expAtt>>
        \/ LoopStarts(e) /\ UNCHANGED <<run, expAtt>>
        \/ op'[e] \in {"none", "revalidate", "check", "wrote"}
        \/ UNCHANGED op /\ pc[e] = "idle"
        \/ UNCHANGED op /\ UNCHANGED <<run, expAtt>>
        \/ NotStarted(e)
        \/ CatchWrites(e)
    BY <1>3
    DEF Execution, Dispatch, ExecuteDirectly, Begin, MarkStarted, PreparationFails,
        AwaitSession, EnterSession, Revalidate, ClaimLost, LoopStarts, SessionBusy,
        SetupFails, LoopEnds, LoopAborts, CommitOutcome, PauseAfterDelivery,
        OutcomeUnknown, PersistUncertain, WorkReturns, Deadline, GraceEnds, WorkSettles,
        MoveTo, TypeOK, OpTypes, Working
  <2>2. CASE NotStarted(e) \/ (UNCHANGED op /\ pc[e] = "idle")
    BY <2>2 DEF NotStarted, Working, ShapeOK, Shape, HasWork
  <2>3. CASE CatchWrites(e)
    BY <2>3 DEF CatchWrites, Working, TypeOK, OpTypes
  <2> QED
    BY <2>1, <2>2, <2>3 DEF Working
<1> QED
  BY <1>1, <1>2, <1>3, ExecutionStep

-----------------------------------------------------------------------------
(* How a step changes the session lock *)

LockChange ==
  \/ UNCHANGED lockVars
  \/ Lock!Reset
  \/ \E x \in Executors :
       \/ \E s \in Sessions : Lock!Request(x, s)
       \/ Lock!Grant(x)
       \/ Lock!Release(x)

LEMMA LockStep == TypeOK /\ ShapeOK /\ [Next]_vars => LockChange
<1> SUFFICES ASSUME TypeOK, ShapeOK, [Next]_vars PROVE LockChange
  OBVIOUS
<1>1. CASE UNCHANGED vars \/ Store \/ Users \/ Tick
  BY <1>1 DEF vars, LockChange, Store, ScheduleRun, WebhookArrives, CreatePendingRun,
      TimePasses, DiscardMissed, AdvanceSchedule, SweepReads, SweepWrites, Users,
      ReadForEdit, CommitEdit, RejectEdit, DeleteJob, ChatStarts, ChatEnds, Tick
<1>2. CASE Crash
  BY <1>2 DEF Crash, LockChange
<1>3. ASSUME NEW x \in Executors, Execution(x) PROVE LockChange
  <2>1. CASE AwaitSession(x)
    BY <2>1, FunctionsAssumption
    DEF AwaitSession, LockChange, TypeOK, OutTypes, ShapeOK, Shape
  <2>2. CASE ~AwaitSession(x)
    BY <1>3, <2>2
    DEF LockChange, Execution, Dispatch, ExecuteDirectly, Begin, MarkStarted, NotStarted,
        PreparationFails, EnterSession, Revalidate, ClaimLost, LoopStarts, SessionBusy,
        SetupFails, LoopEnds, LoopAborts, CommitOutcome, PauseAfterDelivery, OutcomeUnknown,
        PersistUncertain, WorkReturns, Deadline, GraceEnds, CatchWrites, WorkSettles
  <2> QED
    BY <2>1, <2>2
<1> QED
  BY <1>1, <1>2, <1>3 DEF Next

\* Of two operations of one session, one waits for the other.
LockOrder ==
  /\ \A e \in Executors : lockSt[e] = "active" => lockAhead[e] = {}
  /\ \A e, f \in Executors :
       (e # f /\ lockSt[e] # "idle" /\ lockSt[f] # "idle" /\ lockKey[e] = lockKey[f])
         => e \in lockAhead[f] \/ f \in lockAhead[e]

LEMMA LockOrderStep ==
  ASSUME Lock!MutexTypeOK, LockOrder, LockChange
  PROVE  LockOrder'
<1>1. CASE UNCHANGED lockVars
  BY <1>1 DEF LockOrder
<1>2. CASE Lock!Reset
  BY <1>2 DEF LockOrder, Lock!Reset
<1>3. ASSUME NEW x \in Executors, NEW s \in Sessions, Lock!Request(x, s) PROVE LockOrder'
  BY <1>3 DEF LockOrder, Lock!Request, Lock!MutexTypeOK
<1>4. ASSUME NEW x \in Executors, Lock!Grant(x) PROVE LockOrder'
  BY <1>4 DEF LockOrder, Lock!Grant, Lock!MutexTypeOK
<1>5. ASSUME NEW x \in Executors, Lock!Release(x) PROVE LockOrder'
  BY <1>5 DEF LockOrder, Lock!Release, Lock!MutexTypeOK
<1> QED
  BY <1>1, <1>2, <1>3, <1>4, <1>5 DEF LockChange

\* A session with an agent at work has no busy chat.
SessionFree == \A e \in Executors : Working(e) => SessionOf[run[e]] \notin live

LEMMA SessionFreeStep ==
  ASSUME TypeOK, ShapeOK, SessionFree, [Next]_vars
  PROVE  SessionFree'
<1> SUFFICES ASSUME NEW e \in Executors, Working(e)' PROVE SessionOf[run'[e]] \notin live'
  BY DEF SessionFree
<1>1. run'[e] = run[e] /\ (Working(e) \/ LoopStarts(e))
  BY WorkStep
<1>2. SessionOf[run[e]] \notin live
  BY <1>1 DEF SessionFree, LoopStarts
<1>3. lockSt[e] = "active" /\ lockKey[e] = SessionOf[run[e]]
  BY <1>1 DEF Working, LoopStarts, ShapeOK, Shape, HasWork
<1>4. \/ live' \subseteq live
      \/ \E s \in Sessions : ChatStarts(s)
  <2>1. CASE UNCHANGED vars \/ Store \/ Users \/ Tick \/ Crash
    BY <2>1 DEF vars, Store, ScheduleRun, WebhookArrives, CreatePendingRun, TimePasses,
        DiscardMissed, AdvanceSchedule, SweepReads, SweepWrites, Users, ReadForEdit,
        CommitEdit, RejectEdit, DeleteJob, ChatEnds, Tick, Crash
  <2>2. ASSUME NEW x \in Executors, Execution(x) PROVE UNCHANGED live
    BY <2>2
    DEF Execution, Dispatch, ExecuteDirectly, Begin, MarkStarted, NotStarted,
        PreparationFails, AwaitSession, EnterSession, Revalidate, ClaimLost, LoopStarts,
        SessionBusy, SetupFails, LoopEnds, LoopAborts, CommitOutcome, PauseAfterDelivery,
        OutcomeUnknown, PersistUncertain, WorkReturns, Deadline, GraceEnds, CatchWrites
  <2> QED
    BY <2>1, <2>2 DEF Next
<1>5. ASSUME NEW s \in Sessions, ChatStarts(s) PROVE SessionOf[run[e]] \notin live'
  BY <1>2, <1>3, <1>5 DEF ChatStarts
<1> QED
  BY <1>1, <1>2, <1>4, <1>5

SessionInv == TypeOK /\ ShapeOK /\ LockOrder /\ SessionFree

LEMMA SessionInvHolds == Spec => []SessionInv
<1>1. Init => SessionInv
  <2>1. Init => LockOrder /\ SessionFree
    BY DEF Init, LockOrder, SessionFree, Working, Lock!MutexInit
  <2> QED
    BY <2>1, InitShape DEF SessionInv
<1>2. SessionInv /\ [Next]_vars => SessionInv'
  BY ShapeStep, LockStep, LockOrderStep, SessionFreeStep DEF SessionInv, TypeOK
<1> QED
  BY <1>1, <1>2, PTL DEF Spec

\* A session never has two agents at work, an automation loop that ignored its
\* abort and the live chat runtime included.
THEOREM OneAgentPerSessionHolds == Spec => []OneAgentPerSession
<1>1. SessionInv => OneAgentPerSession
  <2> SUFFICES ASSUME SessionInv, NEW e \in Executors, Working(e)
               PROVE  /\ SessionOf[run[e]] \notin live
                      /\ \A f \in Executors \ {e} :
                           Working(f) => SessionOf[run[f]] # SessionOf[run[e]]
    BY DEF OneAgentPerSession
  <2>1. \A f \in Executors : Working(f) =>
          lockSt[f] = "active" /\ lockKey[f] = SessionOf[run[f]]
    BY DEF SessionInv, ShapeOK, Shape, HasWork, Working
  <2>2. \A f \in Executors \ {e} :
          Working(f) => SessionOf[run[f]] # SessionOf[run[e]]
    BY <2>1 DEF SessionInv, LockOrder
  <2> QED
    BY <2>2 DEF SessionInv, SessionFree
<1> QED
  BY <1>1, SessionInvHolds, PTL

\* Executions use the session lock only as its specification allows, so what
\* KeyedOperationLock is proved to implement is all they rely on.
THEOREM LockUsedAsSpecified == Spec => Lock!MutexSpec
<1>1. Init => Lock!MutexInit
  BY DEF Init
<1>2. LockChange => [Lock!MutexNext]_(Lock!mutexVars)
  BY DEF LockChange, lockVars, Lock!MutexNext, Lock!mutexVars
<1>3. SessionInv /\ [Next]_vars => [Lock!MutexNext]_(Lock!mutexVars)
  BY <1>2, LockStep DEF SessionInv
<1> QED
  BY <1>1, <1>3, SessionInvHolds, PTL DEF Spec, Lock!MutexSpec

-----------------------------------------------------------------------------
(* The dispatch slots *)

SlotInv ==
  /\ SlotsMatchExecutions
  /\ \A e \in Executors : limited[e] => pc[e] \notin {"idle", "zombie"}
  /\ \A e, f \in Executors : (limited[e] /\ limited[f] /\ run[e] = run[f]) => e = f

SameSlot(e) == limited'[e] = limited[e] /\ run'[e] = run[e]

\* An execution takes a slot for its run when it is dispatched, keeps it, or
\* leaves it.
SlotKept(e) ==
  /\ SameSlot(e) /\ UNCHANGED dispatched
  /\ limited[e] => pc'[e] \notin {"idle", "zombie"}
SlotLeft(e) == limited'[e] = FALSE /\ Leaves(e)
SlotTaken(e) ==
  /\ ~limited[e]
  /\ \/ limited'[e] = FALSE /\ UNCHANGED dispatched
     \/ /\ limited'[e] = TRUE /\ pc'[e] = "prepare"
        /\ run'[e] \notin dispatched /\ dispatched' = dispatched \union {run'[e]}
        /\ Cardinality(dispatched) < MaxDispatches

SlotStep(e) ==
  /\ \A f \in Executors \ {e} : SameSlot(f) /\ pc'[f] = pc[f]
  /\ SlotKept(e) \/ SlotLeft(e) \/ SlotTaken(e)

LEMMA ForgetSlot ==
  ASSUME TypeOK, NEW e \in Executors, Forget(e)
  PROVE  /\ limited'[e] = FALSE
         /\ \A f \in Executors \ {e} : SameSlot(f) /\ pc'[f] = pc[f]
  BY DEF Forget, TypeOK, OutTypes, SameSlot

LEMMA MoveSlot ==
  ASSUME TypeOK, NEW e \in Executors, NEW p \in OuterStates \ {"idle", "zombie"}, MoveTo(e, p)
  PROVE  SlotStep(e)
  BY DEF MoveTo, TypeOK, OutTypes, SlotStep, SlotKept, SameSlot

LEMMA SettlesSlot ==
  ASSUME TypeOK, SlotInv, NEW e \in Executors, NEW outcome, WorkSettles(e, outcome)
  PROVE  SlotStep(e)
<1>1. CASE MoveTo(e, "failing") \/ MoveTo(e, "shutdown")
  BY <1>1, MoveSlot DEF OuterStates
<1>2. CASE Exit(e)
  BY <1>2, ForgetSlot DEF Exit, SlotStep, SlotLeft
<1>3. CASE pc[e] = "zombie" /\ Forget(e) /\ UNCHANGED dispatched
  BY <1>3, ForgetSlot DEF SlotInv, SlotStep, SlotLeft, Leaves
<1> QED
  BY <1>1, <1>2, <1>3 DEF WorkSettles

LEMMA ExecutionSlot ==
  ASSUME TypeOK, ShapeOK, SlotInv, NEW e \in Executors, Execution(e)
  PROVE  SlotStep(e)
<1>1. ASSUME NEW r \in Runs, Dispatch(e, r) \/ ExecuteDirectly(e, r) PROVE SlotStep(e)
  <2>1. ~limited[e] /\ pc[e] = "idle"
    BY <1>1 DEF Dispatch, ExecuteDirectly, Begin, SlotInv
  <2>2. PICK b \in BOOLEAN : Begin(e, r, b) /\ (b => Dispatch(e, r)) /\ (~b => UNCHANGED dispatched)
    BY <1>1 DEF Dispatch, ExecuteDirectly
  <2>3. /\ \A f \in Executors \ {e} : SameSlot(f) /\ pc'[f] = pc[f]
        /\ pc'[e] = "prepare" /\ run'[e] = r /\ limited'[e] = b
    BY <2>2 DEF Begin, TypeOK, OutTypes, SameSlot
  <2> QED
    BY <2>1, <2>2, <2>3 DEF SlotStep, SlotTaken, Dispatch
<1>2. CASE MarkStarted(e)
  BY <1>2 DEF MarkStarted, TypeOK, OutTypes, SlotStep, SlotKept, SameSlot
<1>3. CASE NotStarted(e)
  BY <1>3, ForgetSlot DEF NotStarted, Exit, SlotStep, SlotLeft
<1>4. CASE \/ PreparationFails(e) \/ AwaitSession(e) \/ EnterSession(e)
           \/ Deadline(e) \/ GraceEnds(e)
  BY <1>4, MoveSlot
  DEF PreparationFails, AwaitSession, EnterSession, Deadline, GraceEnds, OuterStates
<1>5. CASE \/ ClaimLost(e) \/ SessionBusy(e) \/ SetupFails(e) \/ LoopAborts(e)
           \/ WorkReturns(e)
  BY <1>5, SettlesSlot DEF ClaimLost, SessionBusy, SetupFails, LoopAborts, WorkReturns
<1>6. CASE CatchWrites(e)
  <2>1. CASE op[e] = "none"
    BY <1>6, <2>1, ForgetSlot DEF CatchWrites, Exit, SlotStep, SlotLeft
  <2>2. CASE op[e] # "none"
    BY <1>6, <2>2 DEF CatchWrites, TypeOK, OutTypes, SlotStep, SlotLeft, SameSlot
  <2> QED
    BY <2>1, <2>2
<1>7. CASE UNCHANGED outVars /\ HasWork(e)
  BY <1>7 DEF SlotStep, SlotKept, SameSlot, SlotInv
<1> QED
  BY <1>1, <1>2, <1>3, <1>4, <1>5, <1>6, <1>7
  DEF Execution, Revalidate, LoopStarts, LoopEnds, CommitOutcome, PauseAfterDelivery,
      OutcomeUnknown, PersistUncertain, HasWork

LEMMA SlotInvStep ==
  ASSUME TypeOK, ShapeOK, SlotInv, [Next]_vars
  PROVE  SlotInv'
<1>1. CASE UNCHANGED <<pc, run, limited, dispatched>>
  BY <1>1 DEF SlotInv, SlotsMatchExecutions
<1>2. CASE Crash
  BY <1>2 DEF Crash, SlotInv, SlotsMatchExecutions
<1>3. ASSUME NEW e \in Executors, SlotStep(e) PROVE SlotInv'
  <2> USE <1>3 DEF SlotInv, SlotsMatchExecutions
  <2>1. CASE SlotKept(e)
    BY <2>1 DEF SlotStep, SlotKept, SameSlot
  <2>2. CASE SlotLeft(e)
    <3>1. \A f \in Executors : limited'[f] => f # e /\ limited[f] /\ run'[f] = run[f] /\ pc'[f] = pc[f]
      BY <2>2 DEF SlotStep, SlotLeft, SameSlot
    <3>2. \A f \in Executors \ {e} : limited[f] => limited'[f] /\ (limited[e] => run[f] # run[e])
      BY DEF SlotStep, SameSlot
    <3>3. SlotsMatchExecutions'
      BY <2>2, <3>1, <3>2 DEF SlotLeft, Leaves
    <3> QED
      BY <3>1, <3>3
  <2>3. CASE SlotTaken(e)
    <3>1. \A f \in Executors \ {e} : SameSlot(f) /\ pc'[f] = pc[f]
      BY DEF SlotStep
    <3>2. CASE limited'[e] = FALSE /\ UNCHANGED dispatched
      BY <2>3, <3>1, <3>2 DEF SlotTaken, SameSlot
    <3>3. CASE /\ limited'[e] = TRUE /\ pc'[e] = "prepare"
               /\ run'[e] \notin dispatched /\ dispatched' = dispatched \union {run'[e]}
      <4>1. SlotsMatchExecutions'
        BY <2>3, <3>1, <3>3 DEF SlotTaken, SameSlot
      <4> QED
        BY <2>3, <3>1, <3>3, <4>1 DEF SlotTaken, SameSlot
    <3> QED
      BY <2>3, <3>2, <3>3 DEF SlotTaken
  <2> QED
    BY <2>1, <2>2, <2>3 DEF SlotStep
<1>4. CASE Store \/ Users \/ Tick
  BY <1>1, <1>4
  DEF Store, ScheduleRun, WebhookArrives, CreatePendingRun, TimePasses, DiscardMissed,
      AdvanceSchedule, SweepReads, SweepWrites, Users, ReadForEdit, CommitEdit, RejectEdit,
      DeleteJob, ChatStarts, ChatEnds, Tick
<1> QED
  BY <1>1, <1>2, <1>3, <1>4, ExecutionSlot DEF Next, vars

LEMMA SlotInvHolds == Spec => [](TypeOK /\ ShapeOK /\ SlotInv)
<1>1. Init => TypeOK /\ ShapeOK /\ SlotInv
  <2>1. Init => SlotInv
    BY DEF Init, SlotInv, SlotsMatchExecutions
  <2> QED
    BY <2>1, InitShape
<1>2. TypeOK /\ ShapeOK /\ SlotInv /\ [Next]_vars => (TypeOK /\ ShapeOK /\ SlotInv)'
  BY ShapeStep, SlotInvStep
<1> QED
  BY <1>1, <1>2, PTL DEF Spec

\* A dispatch slot is taken exactly while the execution it was given to goes
\* on: none leaks on any way out, timeouts and late settlements included, and
\* none is given back early.
THEOREM SlotsMatchExecutionsHolds == Spec => []SlotsMatchExecutions
<1>1. SlotInv => SlotsMatchExecutions
  BY DEF SlotInv
<1> QED
  BY <1>1, SlotInvHolds, PTL

SlotsBounded == IsFiniteSet(dispatched) /\ Cardinality(dispatched) <= MaxDispatches

LEMMA SlotsBoundedStep ==
  ASSUME TypeOK, ShapeOK, SlotInv, SlotsBounded, [Next]_vars
  PROVE  SlotsBounded'
<1> USE NumbersAssumption DEF SlotsBounded
<1>1. CASE UNCHANGED dispatched
  BY <1>1
<1>2. CASE Crash
  BY <1>2, FS_EmptySet DEF Crash
<1>3. ASSUME NEW e \in Executors, SlotStep(e) PROVE SlotsBounded'
  <2>0. Cardinality(dispatched) \in Nat
    BY FS_CardinalityType
  <2>1. CASE dispatched' = dispatched \ {run[e]}
    <3>1. /\ IsFiniteSet(dispatched')
          /\ Cardinality(dispatched') \in {Cardinality(dispatched), Cardinality(dispatched) - 1}
      BY <2>1, FS_RemoveElement
    <3> QED
      BY <2>0, <3>1
  <2>2. CASE Cardinality(dispatched) < MaxDispatches /\ dispatched' = dispatched \union {run'[e]}
    <3>1. /\ IsFiniteSet(dispatched')
          /\ Cardinality(dispatched') \in {Cardinality(dispatched), Cardinality(dispatched) + 1}
      BY <2>2, FS_AddElement
    <3> QED
      BY <2>0, <2>2, <3>1
  <2> QED
    BY <1>1, <1>3, <2>1, <2>2 DEF SlotStep, SlotKept, SlotLeft, SlotTaken, Leaves
<1>4. CASE Store \/ Users \/ Tick
  BY <1>1, <1>4
  DEF Store, ScheduleRun, WebhookArrives, CreatePendingRun, TimePasses, DiscardMissed,
      AdvanceSchedule, SweepReads, SweepWrites, Users, ReadForEdit, CommitEdit, RejectEdit,
      DeleteJob, ChatStarts, ChatEnds, Tick
<1> QED
  BY <1>1, <1>2, <1>3, <1>4, ExecutionSlot DEF Next, vars

\* The executions that the dispatcher has started and that have not left it.
Dispatched == {e \in Executors : limited[e]}

\* However executions, pauses, deadlines and crashes interleave, at most
\* MaxDispatches executions of the dispatcher go on at a time: a run never
\* shares its slot with another, and the slots are as many as the limit.
THEOREM ConcurrencyLimit ==
  Spec => [](IsFiniteSet(Dispatched) /\ Cardinality(Dispatched) <= MaxDispatches)
<1>1. Init => SlotsBounded
  BY FS_EmptySet, NumbersAssumption DEF Init, SlotsBounded
<1>2. Spec => [](SlotInv /\ SlotsBounded)
  BY <1>1, SlotInvHolds, SlotsBoundedStep, PTL DEF Spec
<1>3. SlotInv /\ SlotsBounded =>
        IsFiniteSet(Dispatched) /\ Cardinality(Dispatched) <= MaxDispatches
  <2> SUFFICES ASSUME SlotInv, SlotsBounded
               PROVE  IsFiniteSet(Dispatched) /\ Cardinality(Dispatched) <= MaxDispatches
    OBVIOUS
  <2> DEFINE slot == [e \in Dispatched |-> run[e]]
  <2>1. slot \in Injection(Dispatched, dispatched)
    BY DEF Dispatched, Injection, IsInjective, SlotInv, SlotsMatchExecutions
  <2>2. IsFiniteSet(Dispatched) /\ Cardinality(Dispatched) <= Cardinality(dispatched)
    BY <2>1, FS_Injection DEF SlotsBounded
  <2>3. Cardinality(Dispatched) \in Nat /\ Cardinality(dispatched) \in Nat
    BY <2>2, FS_CardinalityType DEF SlotsBounded
  <2> QED
    BY <2>2, <2>3, NumbersAssumption DEF SlotsBounded
<1> QED
  BY <1>2, <1>3, PTL
=============================================================================
