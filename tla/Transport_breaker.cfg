SPECIFICATION Spec
CONSTANTS
  Procs <- TwoProcs
  MaxTries = 3
  Base = 1
  Cap = 3
  MaxTracked = 3
  MaxFaults = 3
INVARIANTS TypeOK RefusedOnceWhileOpen
PROPERTIES Recovers
