CONSTANTS
  s1 = s1
  s2 = s2
  e1 = e1
  e2 = e2
  r1 = r1
  r2 = r2
  None = None
  Session = {s1, s2}
  Edit = {e1}
  Request = {r1, r2}
  Refusable = {r1, r2}
  MaxEpoch = 2
SPECIFICATION Spec
CHECK_DEADLOCK FALSE
SYMMETRY RoomSymmetry
VIEW RoomView
INVARIANTS
  TypeOK
  OwnerSeesAll
  ReleaseProven
PROPERTIES
  HandoffSeesAll
  ImplementsSingleWriter
