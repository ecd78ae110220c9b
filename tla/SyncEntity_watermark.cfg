SPECIFICATION Spec
CONSTANTS
  Keys <- TwoKeys
  MaxTs = 2
  MaxVal = 2
  MaxFaults = 1
  BatchSize = 1
  MaxAttempts = 2
  InfraAbortAfter = 2
  RequeueMax = 2
  NullRows = {2}
  Invalid = {}
  Excluded = {}
  Reverts = FALSE
  ResetExclusive = TRUE
CHECK_DEADLOCK FALSE
INVARIANTS
  TypeOK
  NoRowLost
  SkipIsSafe
  OwedRowsComeBack
PROPERTIES
  OkMeansComplete
  WatermarkMonotone
  QueueDrainsHonestly
  IsDelivery
