CONSTANTS
  PollInterval = 1
  MaxInterval = 5
  BackoffFactor = 2
  IdleTicks = 3
  Grace = 6
  RetryBackoff <- Backoffs
  Period = 12
  Kind = "interval"
  MaxTick = 1
  Contended = FALSE
SPECIFICATION Spec
PROPERTIES
  SkipsOnlyAfterInterruption
