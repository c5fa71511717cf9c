CONSTANTS
  PollInterval = 1
  MaxInterval = 8
  BackoffFactor = 2
  IdleTicks = 3
  Grace = 6
  RetryBackoff <- Backoffs
  Period = 24
  Kind = "interval"
  MaxTick = 0
  Contended = FALSE
SPECIFICATION Spec
PROPERTIES
  SkipsOnlyAfterInterruption
