CONSTANTS
  d1 = d1
  d2 = d2
  d3 = d3
  d4 = d4
  d5 = d5
  d6 = d6
  d7 = d7
  d8 = d8
  hook = hook
  trigger = trigger
  inbox = inbox
  i1 = i1
  i2 = i2
  i3 = i3
  k1 = k1
  k2 = k2
  p1 = p1
  p2 = p2
  None = None
  Deliveries <- MCDeliveries
  Messages <- MCMessages
  Pollers = {p1, p2}
  Jobs = {hook, trigger, inbox}
  JobOf <- MCJobOf
  Source <- MCSource
  EventId <- MCEventId
  OtherKey <- MCOtherKey
  Scenarios <- MCScenarios
  EventAttempts = 2
  MaxCrashes = 1
SPECIFICATION FairSpec
CHECK_DEADLOCK FALSE
INVARIANTS
  TypeOK
  OneRunPerKey
  DuplicateOfHandled
  SecondRunNeedsFault
PROPERTIES
  PendingEnds
