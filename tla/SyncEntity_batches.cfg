SPECIFICATION Spec
CONSTANTS
  Keys <- ThreeKeys
  MaxTs = 2
  MaxVal = 1
  MaxFaults = 1
  BatchSize = 2
  MaxAttempts = 2
  InfraAbortAfter = 2
  RequeueMax = 3
  NullRows = {3}
  Invalid = {2}
  Excluded = {}
  Reverts = FALSE
  ResetExclusive = TRUE
CHECK_DEADLOCK FALSE
INVARIANTS
  IInv
  OwedRowsComeBack
