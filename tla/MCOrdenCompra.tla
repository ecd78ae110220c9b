--------------------------- MODULE MCOrdenCompra ---------------------------
(***************************************************************************)
(* OrdenCompra on one order: the orders share nothing but a batch.         *)
(***************************************************************************)
EXTENDS OrdenCompra

OneOrder  == {"26-1-1"}
=============================================================================
