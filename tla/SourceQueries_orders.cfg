SPECIFICATION Spec
CONSTANTS
  Ops <- SomeOps
  Key <- SomeOps
  Ocs <- SomeOcs
  Rcs <- SomeRcs
  Ejercicio <- Ejercicios
  Imputable <- SomeRows
  NoOc = 0
  EjMin = 2
  NewYear = 3
  FirstDay = 4
  MaxDay = 5
  Window = 3
  Skew = 1
  Late = 1
  Ahead = 1
  Gap = 1
  BatchSize = 2
INVARIANTS IInv GroupsStayWhole NoConfirmationMissed OcScopeCoversOps
PROPERTIES BatchesAreBounded
