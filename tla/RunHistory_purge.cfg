SPECIFICATION Spec
CONSTANTS
  Runs <- TwoRuns
  MaxDay = 2
CHECK_DEADLOCK FALSE
INVARIANTS
  OnlyReportedIsPurged
