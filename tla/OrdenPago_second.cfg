SPECIFICATION Spec
CONSTANTS
  Ops <- SomeOps
  Comps <- SomeComps
  Pedidos <- SomePedidos
  Orders <- TheOrders
  Pays <- ThePays
  Solicitud <- NoRequests
  NoSolicitud = "none"
  Amount <- OneAmount
  OutOfScope = {}
  Readings = {"nothing", "amount", "number", "both"}
  MaxVal = 1
  MaxGastos = 3
  MaxFaults = 0
  MaxAttempts = 2
CHECK_DEADLOCK FALSE
PROPERTIES NoSecondGasto
