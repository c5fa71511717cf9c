CONSTANTS
  s1 = s1
  s2 = s2
  e1 = e1
  e2 = e2
  r1 = r1
  r2 = r2
  None = None
  Session = {s1, s2}
  Edit = {e1}
  Request = {r1}
  Refusable = {r1}
  MaxEpoch = 2
SPECIFICATION FairSpec
CHECK_DEADLOCK FALSE
PROPERTIES
  DrainSettles
