SPECIFICATION Spec
CONSTANTS
  Ops <- SomeOps
  Comps <- SomeComps
  Pedidos <- SomePedidos
  Orders <- TheOrders
  Pays <- ThePays
  Solicitud <- OneRequest
  NoSolicitud = "none"
  Amount <- OneAmount
  OutOfScope = {}
  Readings = {"nothing", "amount", "both"}
  MaxVal = 1
  MaxGastos = 3
  MaxFaults = 1
  MaxAttempts = 2
CHECK_DEADLOCK FALSE
INVARIANTS IInv OneEditPerGasto NoGastoMadeUp TakenAreKept
PROPERTIES LinkedGastosStay
