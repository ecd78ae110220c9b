SPECIFICATION LiveSpec
CONSTANTS
  Keys <- TwoKeys
  MaxTs = 2
  MaxVal = 1
  MaxFaults = 2
  BatchSize = 1
  MaxAttempts = 2
  InfraAbortAfter = 2
  RequeueMax = 2
  NullRows = {}
  Invalid = {}
  Excluded = {}
  Reverts = FALSE
  ResetExclusive = TRUE
CHECK_DEADLOCK FALSE
PROPERTIES
  EverythingSettles
