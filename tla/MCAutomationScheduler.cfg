CONSTANTS
  PollInterval = 1
  MaxInterval = 8
  BackoffFactor = 2
  IdleTicks = 3
  Grace = 6
  RetryBackoff <- Backoffs
  Period = 12
  Kind = "daily"
  MaxTick = 1
  Contended = TRUE
SPECIFICATION FairSpec
INVARIANTS
  TypeOK
PROPERTIES
  StartsWithinGrace
  OccurrencesConsumed
  NoReplay
