----------------------------- MODULE MCOrdenPago -----------------------------
EXTENDS OrdenPago

\* Two OPs pay the first invoice, one of them a second one too, of one purchase
\* order; the two invoices have one request and one amount.
SomeOps == {"op1", "op2"}
SomeComps == {"fa", "fb"}
SomePedidos == {"oc"}
TheOrders == [op \in SomeOps |-> SomePedidos]
ThePays == [op \in SomeOps |-> IF op = "op1" THEN {"fa"} ELSE SomeComps]
OneRequest == [c \in SomeComps |-> "sg"]
NoRequests == [c \in SomeComps |-> "none"]
OneAmount == [c \in SomeComps |-> 1]
=============================================================================
