SPECIFICATION Spec
CONSTANTS
  Ops <- OneOp
  MaxVal = 2
  MaxFaults = 3
  MaxAttempts = 2
  SinOC = TRUE
  Blind = TRUE
INVARIANTS IInv PaymentsOwedComeBack RetentionsOwedComeBack
PROPERTIES PaymentsArrive RetentionsArrive
