CONSTANTS
  o1 = o1
  o2 = o2
  o3 = o3
  o4 = o4
  k1 = k1
  k2 = k2
  Ops = {o1, o2, o3, o4}
  Keys = {k1, k2}
  KeyOf <- MCKeyOf
  Settlements = {s1}
  None = None
SPECIFICATION FairSpec
INVARIANTS
  TypeOK
  FifoExclusion
PROPERTIES
  ImplementsMutex
  EveryCallRuns
