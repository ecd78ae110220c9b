SPECIFICATION Spec
CONSTANTS
  Orders <- OneOrder
  MaxVal = 2
  Itemless = {}
  MaxFaults = 1
  BatchSize = 1
  MaxAttempts = 2
  OracleFails = TRUE
CHECK_DEADLOCK FALSE
PROPERTY
  NoLiveOrderDeleted
