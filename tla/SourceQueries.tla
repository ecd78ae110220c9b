--------------------------- MODULE SourceQueries ---------------------------
(***************************************************************************)
(* What source_repository.py reads from RAFAM for orden_pago, retenciones  *)
(* and oc_items: the boundary of the ejercicio, the watermark on           *)
(* FECH_CONFIRM, the window of confirmed orders that are read again, the   *)
(* keys of the retry queue, the joins that lead from an order to its       *)
(* purchase orders, and the batches the rows are handed over in.  RAFAM is *)
(* written while the program runs, with dates that are not those of today. *)
(***************************************************************************)
EXTENDS BatchGrouping, FiniteSetsExt

CONSTANTS
  Ops, Ocs, Rcs,  \* keys of ORDEN_PAGO (numbers), ORDEN_COMPRA, REG_COMP
  Ejercicio,      \* the ejercicio of each of these
  Imputable,      \* rows ORDEN_PAGO_IMPUT may hold: [op, rc, comprob]
  NoOc,           \* a REG_COMP with no purchase order
  EjMin, NewYear, \* RAFAM_EJERCICIO_MIN and the day it begins
  FirstDay,       \* the day the program is installed
  MaxDay,         \* bound: the last day
  Window,         \* pending_reprocess_days
  Skew,           \* hours UTC is ahead of the local dates of RAFAM, in days
  Late, Ahead,    \* how far before and after today a confirmation is dated
  Gap             \* days from a query read without failure to the next one

ASSUME CalendarAssumption ==
  /\ MaxDay \in Nat /\ NewYear \in 1..MaxDay /\ FirstDay \in 1..MaxDay
  /\ Window \in Nat /\ Skew \in Nat /\ Late \in Nat /\ Ahead \in Nat /\ Gap \in Nat

ASSUME TablesAssumption ==
  /\ Ops \subseteq Nat /\ IsFiniteSet(Ops) /\ Key = Ops
  /\ Ejercicio \in [Ops \cup Ocs \cup Rcs -> Nat] /\ EjMin \in Nat
  /\ IsFiniteSet(Imputable) /\ \A i \in Imputable : i.rc \in Rcs

\* cron runs every day, and nobody confirms an order with a date of a month ago.
ASSUME WindowAssumption == Late + Gap + Skew <= Window

VARIABLES
  today,
  ordenPago,    \* ORDEN_PAGO: ESTADO_OP ("none" = no row) and FECH_CONFIRM (0 = NULL)
  ordenCompra,  \* ORDEN_COMPRA with items: FECH_CONFIRM, 0 if there is no row
  regComp,      \* REG_COMP: the purchase order of each row
  imput,        \* ORDEN_PAGO_IMPUT
  cp,           \* sync_checkpoints: the watermark, 0 = none
  pending,      \* retry_queue: the pending keys
  asked,        \* the run: day of its query, 0 when there is no run
  date,         \* the run: FECH_CONFIRM of the rows of the result
  failed,       \* the run: has a batch failed?
  lastRead,     \* day of the last query read to its end without a failed batch
  missed        \* confirmed orders no batch has taken yet

rafam == <<today, ordenPago, ordenCompra, regComp, imput>>
run   == <<asked, date, failed, bgVars>>
vars  == <<rafam, cp, pending, run, lastRead, missed>>

Days == 1..MaxDay

(***************************************************************************)
(* The queries.                                                            *)
(***************************************************************************)

\* _ejercicio_boundary_filter.  A date that is NULL satisfies no comparison.
InBoundary(ej, fc) == ej >= EjMin \/ (ej = EjMin - 1 /\ fc >= NewYear)

\* The base condition: ESTADO_OP = 'C', CONFIRMADO = 'S' and a FECH_CONFIRM.
Confirmed(op) == ordenPago[op].estado = "C" /\ ordenPago[op].fc # 0

AfterWatermark(op) == Confirmed(op) /\ ordenPago[op].fc >= cp

\* A variant with the window on the orders that are still N.
InWindowUnconfirmed(op) ==
  ordenPago[op].estado = "N" /\ ordenPago[op].fc + Window >= today + Skew

\* The orders of the last days, counted back from now in UTC.
InWindow(op) == Confirmed(op) /\ ordenPago[op].fc + Window >= today + Skew

\* _apply_incremental_filters for orden_pago and retenciones.
OpSelected(op) ==
  /\ ordenPago[op].estado # "none"
  /\ InBoundary(Ejercicio[op], ordenPago[op].fc)
  /\ IF cp = 0 THEN Confirmed(op)
     ELSE AfterWatermark(op) \/ InWindow(op) \/ op \in pending

\* _build_op_imput_subquery, a left join: the receipts of an order, each with
\* the purchase order of the REG_COMP it was imputed to.
ImputRows(op) ==
  {[comprob |-> i.comprob, oc |-> regComp[i.rc]] : i \in {i \in imput : i.op = op}}

OcsOf(op) == {r.oc : r \in ImputRows(op)} \ {NoOc}

\* A variant that looks only at orders of the ejercicio.
RequiredOcsOfEjercicio ==
  UNION {OcsOf(op) : op \in {op \in Ops : Confirmed(op) /\ Ejercicio[op] >= EjMin}}

\* _build_op_required_oc_subquery: the purchase orders of the orders in scope.
RequiredOcs ==
  UNION {OcsOf(op) : op \in {op \in Ops : /\ Confirmed(op)
                                          /\ \/ Ejercicio[op] >= EjMin
                                             \/ ordenPago[op].fc >= NewYear}}

\* The purchase orders there are.
Purchases == {oc \in Ocs : ordenCompra[oc] # 0}

\* _build_oc_items_statement: a full load, with _apply_oc_dependency_filter.
OcsRead ==
  {oc \in Purchases :
     InBoundary(Ejercicio[oc], ordenCompra[oc]) \/ oc \in RequiredOcs}

\* A variant that orders by the number of the order alone.
BeforeByNumber(a, b) == a < b

\* ORDER BY FECH_CONFIRM, EJERCICIO, NRO_OP, with NULLs last.
Before(a, b) ==
  LET fa == ordenPago[a].fc
      fb == ordenPago[b].fc
  IN \/ fa # 0 /\ (fb = 0 \/ fa < fb)
     \/ fa = fb /\ (Ejercicio[a] < Ejercicio[b] \/ (Ejercicio[a] = Ejercicio[b] /\ a < b))

\* _build_orden_pago_statement: a row for each receipt of each order selected,
\* or a single one.
RowCount(op) == IF ImputRows(op) = {} THEN 1 ELSE Cardinality(ImputRows(op))
OpRows == UNION {{op} \X (1..RowCount(op)) : op \in {op \in Ops : OpSelected(op)}}

\* The i-th row is the one with i rows up to it, and of it the batches need the key
\* alone.
UpTo(r) == {s \in OpRows : Before(s[1], r[1]) \/ (s[1] = r[1] /\ s[2] <= r[2])}

OpQuery ==
  [i \in 1..Cardinality(OpRows) |-> (CHOOSE r \in OpRows : Cardinality(UpTo(r)) = i)[1]]

(***************************************************************************)
(* RAFAM.                                                                  *)
(***************************************************************************)

\* cron runs the pipeline every day, and one run at least in Gap days ends well.
Tick ==
  /\ today < MaxDay /\ today - lastRead < Gap
  /\ today' = today + 1
  /\ UNCHANGED <<ordenPago, ordenCompra, regComp, imput, cp, pending, run, lastRead, missed>>

\* An order is confirmed, or confirmed again, dated some days off.
Confirm(op) ==
  /\ ordenPago[op].estado \in {"none", "N"}
  /\ \E d \in {d \in Days : d + Late >= today /\ d <= today + Ahead} :
       ordenPago' = [ordenPago EXCEPT ![op] = [estado |-> "C", fc |-> d]]
  /\ missed' = missed \cup {op}
  /\ UNCHANGED <<today, ordenCompra, regComp, imput, cp, pending, run, lastRead>>

\* It is taken back for good or to be confirmed again.
TakeBack(op) ==
  /\ ordenPago[op].estado = "C"
  /\ \E e \in {"N", "A"} :
       ordenPago' = [ordenPago EXCEPT ![op] = [estado |-> e, fc |-> IF e = "N" THEN 0 ELSE @.fc]]
  /\ missed' = missed \ {op}
  /\ UNCHANGED <<today, ordenCompra, regComp, imput, cp, pending, run, lastRead>>

\* An order pays its receipts.  Their REG_COMP is of its own ejercicio.  This and
\* the next action change nothing a run in progress reads.
Impute(op) ==
  /\ asked = 0
  /\ {i \in Imputable : i.op = op} \ imput # {}
  /\ imput' = imput \cup {i \in Imputable : i.op = op}
  /\ UNCHANGED <<today, ordenPago, ordenCompra, regComp, cp, pending, run, lastRead, missed>>

\* A purchase order is confirmed, and may be the one of a REG_COMP.
Purchase(oc) ==
  /\ asked = 0
  /\ oc \notin Purchases
  /\ \E d \in {d \in Days : d <= today} : ordenCompra' = [ordenCompra EXCEPT ![oc] = d]
  /\ \E rcs \in SUBSET {rc \in Rcs : Ejercicio[rc] = Ejercicio[oc] /\ regComp[rc] = NoOc} :
       regComp' = [rc \in Rcs |-> IF rc \in rcs THEN oc ELSE regComp[rc]]
  /\ UNCHANGED <<today, ordenPago, imput, cp, pending, run, lastRead, missed>>

(***************************************************************************)
(* A run of the orden_pago stage.                                          *)
(***************************************************************************)

Query ==
  /\ asked = 0
  /\ asked' = today /\ failed' = FALSE
  /\ date' = [op \in Ops |-> ordenPago[op].fc]
  /\ Opened(OpQuery)
  /\ UNCHANGED <<rafam, cp, pending, lastRead, missed>>

\* advance_partial: the greatest date of the batch, and never back.
Advanced(latest) == IF latest > cp THEN latest ELSE cp

\* A batch goes well: an order with no imputation yet is put in the queue.  After a
\* failed batch the watermark stays where it is.
BatchGood(taken) ==
  LET dates == {date[op] : op \in taken} \ {0}
  IN /\ cp' = IF failed \/ dates = {} THEN cp ELSE Advanced(Max(dates))
     /\ pending' = (pending \ taken) \cup {op \in taken : ImputRows(op) = {}}
     /\ missed' = missed \ {op \in taken : date[op] = ordenPago[op].fc}
     /\ UNCHANGED failed

BatchBad ==
  /\ failed' = TRUE
  /\ UNCHANGED <<cp, pending, missed>>

\* A row is read, and the batch that hands over, if any, is processed.
ReadOn ==
  /\ asked # 0 /\ BgNext
  /\ IF start' = start THEN UNCHANGED <<cp, pending, missed, failed>>
     ELSE BatchGood({result[i] : i \in start..(start' - 1)}) \/ BatchBad
  /\ UNCHANGED <<rafam, asked, date, lastRead>>

Over ==
  /\ asked' = 0 /\ failed' = FALSE /\ date' = [op \in Ops |-> 0] /\ Opened(<<>>)
  /\ UNCHANGED <<rafam, cp, pending, missed>>

EndRun ==
  /\ asked # 0 /\ start = Len(result) + 1
  /\ lastRead' = IF failed THEN lastRead ELSE asked
  /\ Over

\* The process dies, or the cursor raises between two fetches.
Stop == asked # 0 /\ UNCHANGED lastRead /\ Over

\* RAFAM is full of orders when the program runs for the first time.
Init ==
  /\ today = FirstDay
  /\ \E old \in SUBSET Ops, d \in [Ops -> 1..FirstDay] :
       /\ ordenPago = [op \in Ops |-> IF op \in old THEN [estado |-> "C", fc |-> d[op]]
                                     ELSE [estado |-> "none", fc |-> 0]]
       /\ missed = old
  /\ ordenCompra = [oc \in Ocs |-> 0] /\ regComp = [rc \in Rcs |-> NoOc] /\ imput = {}
  /\ cp = 0 /\ pending = {} /\ lastRead = FirstDay
  /\ asked = 0 /\ failed = FALSE /\ date = [op \in Ops |-> 0]
  /\ result = <<>> /\ start = 1 /\ group = 1 /\ next = 1

Rafam ==
  \/ Tick
  \/ \E op \in Ops : Confirm(op) \/ TakeBack(op) \/ Impute(op)
  \/ \E oc \in Ocs : Purchase(oc)

Next == Rafam \/ Query \/ ReadOn \/ EndRun \/ Stop

Spec == Init /\ [][Next]_vars

(***************************************************************************)
(* What must hold.                                                         *)
(***************************************************************************)

TypeOK ==
  /\ today \in Days /\ lastRead \in Days /\ asked \in 0..MaxDay /\ cp \in 0..MaxDay
  /\ ordenPago \in [Ops -> [estado : {"none", "N", "C", "A"}, fc : 0..MaxDay]]
  /\ ordenCompra \in [Ocs -> 0..MaxDay] /\ regComp \in [Rcs -> Ocs \cup {NoOc}]
  /\ imput \subseteq Imputable /\ pending \subseteq Ops /\ missed \subseteq Ops
  /\ date \in [Ops -> 0..MaxDay] /\ failed \in BOOLEAN
  /\ BgInv

\* A confirmed order that no batch has taken is one the next query selects, or the
\* rest of this one holds, whatever its date, the batches that failed and the
\* runs that died.  source_repository.py:1504-1577.
NoConfirmationMissed ==
  \A op \in missed :
    InBoundary(Ejercicio[op], ordenPago[op].fc) => cp = 0 \/ OpSelected(op)

\* The purchase order an order in scope was imputed to is read by oc_items, even
\* when it is of the ejercicio before and was confirmed in it.
\* source_repository.py:1203-1333.
OcScopeCoversOps ==
  \A op \in {op \in Ops : OpSelected(op) /\ Confirmed(op)} :
    OcsOf(op) \cap Purchases \subseteq OcsRead

(***************************************************************************)
(* The inductive invariant behind NoConfirmationMissed.                    *)
(***************************************************************************)

\* A run is of today or before, and after the last query read to its end.
CalendarInv ==
  /\ lastRead <= today /\ today <= lastRead + Gap
  /\ asked # 0 => lastRead <= asked /\ asked <= today

\* The rows of the result come by date, those without one last; with no run there are
\* none.
ResultInv ==
  /\ asked = 0 => result = <<>>
  /\ \A i, j \in Rows :
       i <= j /\ date[result[j]] # 0 =>
         0 < date[result[i]] /\ date[result[i]] <= date[result[j]]

\* A missed order the watermark has passed was confirmed since the last query.
BehindInv ==
  \A op \in missed :
    /\ Confirmed(op)
    /\ InBoundary(Ejercicio[op], ordenPago[op].fc) =>
         cp = 0 \/ ordenPago[op].fc >= cp \/ ordenPago[op].fc + Late >= lastRead

\* Until a batch fails, a missed order is one still to be handed over, as it was
\* read, or was confirmed since the query of the run.
AheadInv ==
  asked # 0 /\ ~failed =>
    \A op \in missed :
      InBoundary(Ejercicio[op], ordenPago[op].fc) =>
        \/ ordenPago[op].fc + Late >= asked
        \/ date[op] = ordenPago[op].fc /\ \E i \in Rows : start <= i /\ result[i] = op

IInv == TypeOK /\ CalendarInv /\ ResultInv /\ BehindInv /\ AheadInv
=============================================================================
