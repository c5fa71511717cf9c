CONSTANTS
  m1 = m1
  m2 = m2
  m3 = m3
  s1 = s1
  s2 = s2
  s3 = s3
  s4 = s4
  a1 = a1
  a2 = a2
  c1 = c1
  c2 = c2
  None = None
  Messages = {m1, m2}
  Submissions = {s1, s2, s3, s4}
  Controls = {}
  Attempts = {a1, a2}
  MessageOf <- SharedMessage
  Content <- SharedContent
  Replaces <- Replacement
  Unpositioned = {}
  Legacy = {m2}
SPECIFICATION Spec
CHECK_DEADLOCK FALSE
SYMMETRY AttemptSymmetry
INVARIANTS
  ReplacedNeverRuns
  AcceptedIsStored
