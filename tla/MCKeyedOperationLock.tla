------------------------ MODULE MCKeyedOperationLock ------------------------
EXTENDS KeyedOperationLock, TLC

CONSTANTS o1, o2, o3, o4, k1, k2

\* Three calls contend for one key, a fourth uses another.
MCKeyOf == (o1 :> k1) @@ (o2 :> k1) @@ (o3 :> k1) @@ (o4 :> k2)

=============================================================================
