---------------------------- MODULE SessionMutex ----------------------------
(***************************************************************************)
(* What a keyed operation lock promises to its callers: the operations of  *)
(* one key run one at a time and in the order in which they were called.   *)
(*                                                                         *)
(* The specification has no queue.  An operation that is requested notes   *)
(* the operations of its key that are still unfinished (ahead), and may    *)
(* start once none of them is left.  KeyedOperationLock, which models the  *)
(* promise chain of the program, is checked and proved to implement this   *)
(* module, and AutomationRuns takes its session lock from here.            *)
(***************************************************************************)
CONSTANTS Ops,     \* operations: calls of withKeyedOperationLease
          Keys,    \* lock keys: one for each (user, session)
          None     \* no key

VARIABLES st,      \* where an operation stands: idle, waiting or active
          key,     \* the key an operation was requested for
          ahead    \* unfinished operations of its key that came before it

mutexVars == <<st, key, ahead>>

MutexTypeOK ==
  /\ st \in [Ops -> {"idle", "waiting", "active"}]
  /\ key \in [Ops -> Keys \union {None}]
  /\ ahead \in [Ops -> SUBSET Ops]

MutexInit ==
  /\ st = [o \in Ops |-> "idle"]
  /\ key = [o \in Ops |-> None]
  /\ ahead = [o \in Ops |-> {}]

Request(o, k) ==
  /\ st[o] = "idle"
  /\ st' = [st EXCEPT ![o] = "waiting"]
  /\ key' = [key EXCEPT ![o] = k]
  /\ ahead' = [ahead EXCEPT ![o] = {p \in Ops : st[p] # "idle" /\ key[p] = k}]

Grant(o) ==
  /\ st[o] = "waiting"
  /\ ahead[o] = {}
  /\ st' = [st EXCEPT ![o] = "active"]
  /\ UNCHANGED <<key, ahead>>

Release(o) ==
  /\ st[o] = "active"
  /\ st' = [st EXCEPT ![o] = "idle"]
  /\ key' = [key EXCEPT ![o] = None]
  /\ ahead' = [p \in Ops |-> ahead[p] \ {o}]

\* The process that holds the lock table exits: every operation is gone.
Reset ==
  /\ st' = [o \in Ops |-> "idle"]
  /\ key' = [o \in Ops |-> None]
  /\ ahead' = [o \in Ops |-> {}]

MutexNext ==
  \/ \E o \in Ops :
       \/ \E k \in Keys : Request(o, k)
       \/ Grant(o)
       \/ Release(o)
  \/ Reset

MutexSpec == MutexInit /\ [][MutexNext]_mutexVars

\* Two operations of one key are never active together.
OneActivePerKey ==
  \A o, p \in Ops :
    (o # p /\ st[o] = "active" /\ st[p] = "active") => key[o] # key[p]
=============================================================================
