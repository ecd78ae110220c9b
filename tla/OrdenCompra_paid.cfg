SPECIFICATION Spec
CONSTANTS
  Orders <- OneOrder
  MaxVal = 2
  Itemless = {}
  MaxFaults = 1
  BatchSize = 1
  MaxAttempts = 2
  OracleFails = FALSE
CHECK_DEADLOCK FALSE
PROPERTY
  NoPaidOrderDeleted
