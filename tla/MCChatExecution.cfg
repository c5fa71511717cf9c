CONSTANTS
  m1 = m1
  m2 = m2
  m3 = m3
  s1 = s1
  s2 = s2
  s3 = s3
  s4 = s4
  a1 = a1
  a2 = a2
  c1 = c1
  c2 = c2
  None = None
  Messages = {m1, m2, m3}
  Submissions = {s1, s2}
  Controls = {c1}
  Attempts = {a1, a2}
  MessageOf <- OwnMessages
  Content <- OwnContents
  Replaces <- NoReplacement
  Unpositioned = {m3}
  Legacy = {m3}
SPECIFICATION Spec
CHECK_DEADLOCK FALSE
SYMMETRY AttemptSymmetry
INVARIANTS
  TypeOK
  WorksAlone
  UntouchedFirst
  CancelHolds
PROPERTIES
  StartedOnce
  SettledStays
  ImplementsInbox
