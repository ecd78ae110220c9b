SPECIFICATION Spec
CONSTANTS
  Orders <- OneOrder
  MaxVal = 3
  Itemless = {2}
  MaxFaults = 1
  BatchSize = 1
  MaxAttempts = 2
  OracleFails = FALSE
CHECK_DEADLOCK FALSE
INVARIANTS
  IInv
  HashIsAcknowledged
  SkippedIsDeleted
PROPERTIES
  LinksOnlyGrow
  NoLiveOrderDeleted
  AnnulledAreDeleted
  ConfirmedArrive
