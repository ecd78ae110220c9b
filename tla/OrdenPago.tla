----------------------------- MODULE OrdenPago -----------------------------
(***************************************************************************)
(* The payload of orden_pago: payment orders, and with each one the gastos *)
(* of the invoices (comprobantes) it pays.  A supplier may have uploaded   *)
(* an invoice through the portal first, so Paxapos may hold a gasto of it  *)
(* already, with a picture and little else.  orden_pago and solic_gastos   *)
(* decide which of the gastos of a purchase order is the invoice           *)
(* (mappers/gasto_matching.py); Paxapos gets an edit by id.                *)
(*                                                                         *)
(* How an order waits for the other stages, and what becomes of the        *)
(* retentions, is in PaymentChain; a number stands for the whole identity  *)
(* of an invoice (punto de venta, number, type, supplier).                 *)
(***************************************************************************)
EXTENDS Naturals, FiniteSets, RetryStore

CONSTANTS
  Ops,         \* payment orders
  Comps,       \* invoices they pay
  Pedidos,     \* purchase orders
  Orders,      \* the purchase orders in an OP's REG_COMP
  Pays,        \* the invoices in an OP's ORDEN_PAGO_IMPUT
  Solicitud,   \* the SOLIC_GASTOS of an invoice, or NoSolicitud
  NoSolicitud,
  Amount,      \* CTA_IMPORTE_COMPR of an invoice
  OutOfScope,  \* OPs of an excluded supplier, of no valid amount, or TIPO_OP N
  Readings,    \* what the portal may read of a picture: nothing, amount, number, both
  MaxVal, MaxGastos, MaxFaults  \* bounds: edits of an OP, gastos, faults

ASSUME PaymentsAssumption ==
  /\ IsFiniteSet(Ops) /\ IsFiniteSet(Comps) /\ IsFiniteSet(Pedidos)
  /\ Orders \in [Ops -> SUBSET Pedidos] /\ Pays \in [Ops -> SUBSET Comps]
  /\ Amount \in [Comps -> Nat \ {0}] /\ OutOfScope \subseteq Ops
  /\ DOMAIN Solicitud = Comps
  /\ \A c \in Comps : Solicitud[c] = NoSolicitud \/ Solicitud[c] \notin Comps

\* Two OPs that pay one invoice pay it for one purchase order.
ASSUME OneOrderAssumption ==
  \A o, p \in Ops : Pays[o] \cap Pays[p] # {} => Orders[o] = Orders[p] \/ {} \in {Orders[o], Orders[p]}

ASSUME PaymentBoundsAssumption ==
  MaxVal \in Nat \ {0} /\ MaxGastos \in Nat \ {0} /\ MaxFaults \in Nat

VARIABLES
  val,          \* RAFAM: version of each OP, 0 = not confirmed yet
  complete,     \* RAFAM: invoices with an amount, a date and a linked supplier
  migrated,     \* link_orden_compra: purchase orders with a remote id
  gasto,        \* Paxapos: the gastos, by id
  opLink,       \* link_orden_pago: version it remembers, 0 = no link
  gastoLink,    \* link_gasto: id of the gasto each key is linked to, 0 = none
  queue,        \* retry_queue of orden_pago
  taken,        \* OPs a good batch has taken
  forgotten,    \* taken OPs not put in the queue because its failure was swallowed
  unlinked,     \* taken OPs answered ok whose first link could not be written
  pc,
  payload,      \* OPs of the payload
  todo,         \* invoices of the payload still to be paired
  pool,         \* of each purchase order, the gastos nobody is paired with
  blocks, edits,  \* invoices with a gasto block, and the gasto it edits (0: none)
  held,         \* OPs to be held back
  out, answered,  \* the answers: for each OP, and the gasto of each invoice
  faults

env   == <<val, complete, migrated>>
links == <<opLink, gastoLink>>
plan  == <<payload, todo, pool, blocks, edits, held>>
batch == <<plan, out, answered>>
missed == <<forgotten, unlinked>>
vars  == <<env, gasto, links, queue, taken, missed, pc, batch, faults>>

Ids == 1..MaxGastos
Unread == "unread"
NoPedido == "direct"
NoPicture == "none"

ASSUME NumbersAssumption == Unread \notin Comps

\* nro is the invoice whose number the gasto has, amount 0 one not read; doc the
\* invoice on the picture; traced, has RAFAM created or completed it?
Gasto == [nro : Comps \cup {Unread}, ped : Pedidos \cup {NoPedido},
          amount : Nat, doc : Comps \cup {NoPicture}, traced : BOOLEAN]
NoGasto == [nro |-> Unread, ped |-> NoPedido, amount |-> 0, doc |-> NoPicture, traced |-> FALSE]

Exists(g) == gasto[g] # NoGasto
Free      == {g \in Ids : ~Exists(g)}
Numbered(c) == {g \in Ids : Exists(g) /\ gasto[g].nro = c}

Fault == faults < MaxFaults /\ faults' = faults + 1

PedidosOf(op) == Orders[op] \cap migrated
PaidBy(c)     == {op \in Ops : c \in Pays[op]}
OrdersOf(c)   == UNION {Orders[op] : op \in PaidBy(c)}

\* The external ids of an invoice's gasto.  orden_pago knows it by its request
\* (SOLIC_GASTOS), and by its own number only when it has none; solic_gastos adds
\* the number when the request has several invoices, and saves the link under
\* both.  gasto_external_id, _expand_multi_comprobante, persist_links.
SameRequest(c) == {d \in Comps : Solicitud[d] = Solicitud[c]}
OpKey(c)  == IF Solicitud[c] = NoSolicitud THEN c ELSE Solicitud[c]
SgKeys(c) == IF SameRequest(c) = {c} THEN {Solicitud[c]} ELSE {c, Solicitud[c]}
Keys      == Comps \cup {OpKey(c) : c \in Comps}

\* gasto_ids_pareados.
Linked == {gastoLink[k] : k \in Keys} \ {0}

(***************************************************************************)
(* elegir_gasto_portal: which gasto of P is invoice c?  The one with its   *)
(* number; else the only one, if nothing was read of it; else the only one *)
(* of its amount.                                                          *)
(***************************************************************************)
TheOne(S) == CHOOSE g \in S : TRUE

Elegido(P, c) ==
  LET byNro == {g \in P : gasto[g].nro = c}
      Q     == IF byNro = {} THEN P ELSE byNro
      same  == {g \in Q : gasto[g].amount = Amount[c]}
  IN CASE Cardinality(byNro) = 1 -> TheOne(byNro)
       [] Cardinality(byNro) # 1 /\ Cardinality(Q) = 1 /\ gasto[TheOne(Q)].nro = Unread -> TheOne(Q)
       [] Cardinality(byNro) # 1 /\ (Cardinality(Q) # 1 \/ gasto[TheOne(Q)].nro # Unread)
            /\ Cardinality(same) = 1 -> TheOne(same)
       [] OTHER -> 0

(***************************************************************************)
(* RAFAM, the earlier stages and the portal.  A batch works on the rows    *)
(* its query returned and the links of its process: what RAFAM changes     *)
(* while it goes on is as good as changed after it.                        *)
(***************************************************************************)

Confirm(op) ==
  /\ pc = "idle" /\ val[op] < MaxVal
  /\ val' = [val EXCEPT ![op] = @ + 1]
  /\ UNCHANGED <<complete, migrated, gasto, links, queue, taken, missed, pc, batch, faults>>

Complete(c) ==
  /\ pc = "idle" /\ c \notin complete
  /\ complete' = complete \cup {c}
  /\ UNCHANGED <<val, migrated, gasto, links, queue, taken, missed, pc, batch, faults>>

Migrate(p) ==
  /\ pc = "idle" /\ p \notin migrated
  /\ migrated' = migrated \cup {p}
  /\ UNCHANGED <<val, complete, gasto, links, queue, taken, missed, pc, batch, faults>>

\* The supplier uploads an invoice on the page of its purchase order, once: the
\* number and the amount are read, or not.  Between the query for the gastos and the
\* POST is when it may come too late; the other steps look at no new gasto.
Upload(c) ==
  /\ pc \in {"idle", "post"}
  /\ \A g \in Ids : gasto[g].doc # c
  /\ \E g \in Free, p \in OrdersOf(c) \cap migrated, read \in Readings :
       /\ \A h \in Free : g <= h
       /\ gasto' = [gasto EXCEPT ![g] =
            [nro |-> IF read \in {"number", "both"} THEN c ELSE Unread, ped |-> p,
             amount |-> IF read \in {"amount", "both"} THEN Amount[c] ELSE 0,
             doc |-> c, traced |-> FALSE]]
  /\ UNCHANGED <<env, links, queue, taken, missed, pc, batch, faults>>

(***************************************************************************)
(* solic_gastos: completes the gastos of the portal, and never creates one.*)
(***************************************************************************)

Idle == /\ pc' = "idle" /\ payload' = {} /\ todo' = {} /\ blocks' = {} /\ held' = {}
        /\ pool' = [p \in Pedidos |-> {}] /\ edits' = [c \in Comps |-> 0]
        /\ out' = [op \in Ops |-> "none"]
        /\ answered' = [c \in Comps |-> 0]

\* Not yet completed by RAFAM.
Untraced == {g \in Ids : Exists(g) /\ ~gasto[g].traced}

\* pick_resolved takes the only gasto of the order, whatever its number says.
Resolved(c) ==
  LET P == {g \in Untraced : gasto[g].ped \in OrdersOf(c) \cap migrated}
      byNro == {g \in Untraced : gasto[g].nro = c}
  IN CASE Cardinality(P) = 1           -> TheOne(P)
       [] Cardinality(P) > 1           -> Elegido(P, c)
       [] P = {} /\ byNro # {}         -> CHOOSE g \in byNro : \A h \in byNro : g <= h
       [] OTHER                        -> 0

Fillable(g) == gasto[g].nro = Unread \/ gasto[g].amount = 0

\* _build_solic_gastos_statement: the requests, with their invoices.
Requested == {c \in Comps : Solicitud[c] # NoSolicitud}

\* _map_solic_gasto and the filter that follows it: an invoice with all its data, on
\* a purchase order that was sent.
Candidates(read) == {c \in read \cap complete : OrdersOf(c) \cap migrated # {}}

\* build_payload, and nothing is sent if no gasto can be filled.
Solicit(read) ==
  /\ pc = "idle"
  /\ LET found == {c \in Candidates(read) : Resolved(c) # 0 /\ Fillable(Resolved(c))}
     IN /\ found # {}
        /\ blocks' = found
        /\ edits' = [c \in Comps |-> IF c \in found THEN Resolved(c) ELSE 0]
  /\ pc' = "sg-post"
  /\ UNCHANGED <<env, gasto, links, queue, taken, missed, payload, todo, pool, held, out, answered,
                 faults>>

\* The stage reads the requests of the last days, and those in its queue.
TakeSolicitudes ==
  \E read \in SUBSET {Solicitud[c] : c \in Requested} :
    Solicit({c \in Requested : Solicitud[c] \in read})

\* backfill-gastos reads them all, under the lock, and leaves the checkpoint alone.
BackfillGastos == Solicit(Requested)

\* merge fill_empty: of the invoices that fill one gasto the first one does, and the
\* others find nothing empty.
Filled(g, c) ==
  [gasto[g] EXCEPT !.nro = IF @ = Unread THEN c ELSE @,
                   !.amount = IF @ = 0 THEN Amount[c] ELSE @,
                   !.traced = TRUE]

AnswerSolicitudes ==
  /\ pc = "sg-post"
  /\ \E first \in [{edits[c] : c \in blocks} -> blocks], lost \in BOOLEAN :
       /\ \A g \in DOMAIN first : edits[first[g]] = g
       /\ gasto' = [g \in Ids |-> IF g \in DOMAIN first THEN Filled(g, first[g]) ELSE gasto[g]]
       /\ IF lost
          THEN /\ Fault /\ Idle
          ELSE /\ pc' = "sg-persist" /\ answered' = edits
               /\ UNCHANGED <<faults, plan, out>>
  /\ UNCHANGED <<env, links, queue, taken, missed>>

\* The links with those of some keys replaced.
GastoLinked(to) == [k \in Keys |-> IF k \in DOMAIN to THEN to[k] ELSE gastoLink[k]]

\* The gastos an invoice of key k was completed in.
CompletedFor(k) == {answered[c] : c \in {d \in blocks : k \in SgKeys(d)}}

KeysCompleted == {k \in Keys : CompletedFor(k) # {}}

\* persist_links; results come in any order.
PersistSolicitudes ==
  /\ pc = "sg-persist"
  /\ \E to \in [KeysCompleted -> 0..MaxGastos] :
       /\ \A k \in KeysCompleted : to[k] \in CompletedFor(k)
       /\ gastoLink' = GastoLinked(to)
  /\ Idle
  /\ UNCHANGED <<env, gasto, opLink, queue, taken, missed, faults>>

\* The link store fails after some of them.
PersistSolicitudesFails ==
  /\ Fault
  /\ pc = "sg-persist"
  /\ \E some \in SUBSET KeysCompleted : \E to \in [some -> 0..MaxGastos] :
       /\ \A k \in some : to[k] \in CompletedFor(k)
       /\ gastoLink' = GastoLinked(to)
  /\ Idle
  /\ UNCHANGED <<env, gasto, opLink, queue, taken, missed>>

(***************************************************************************)
(* orden_pago.build_payload: what becomes of each OP of the batch.         *)
(***************************************************************************)

\* Already sent, as it is now.
Unchanged(rows) == {op \in rows : opLink[op] = val[op]}

\* The rest, one condition after the other.
Rest(rows)        == (rows \ Unchanged(rows)) \ OutOfScope
NoReceipt(rows)   == {op \in Rest(rows) : Pays[op] = {}}
Several(rows)     == {op \in Rest(rows) \ NoReceipt(rows) : Cardinality(PedidosOf(op)) > 1}
NotMigrated(rows) == {op \in Rest(rows) \ NoReceipt(rows) : PedidosOf(op) = {} /\ Orders[op] # {}}
Ready(rows) == Rest(rows) \ (NoReceipt(rows) \cup Several(rows) \cup NotMigrated(rows))

\* What the query returns for sure; the window of recent days adds more.
MustRead == {op \in Ops : val[op] # 0 /\ (op \notin taken \/ queue[op].status = "pending")}

\* A variant that offers every gasto of the order again.
PortalPoolAll(p) == {g \in Ids : Exists(g) /\ gasto[g].ped = p}

\* _fetch_gastos_portal.
PortalPool(p) == {g \in Ids \ Linked : Exists(g) /\ gasto[g].ped = p}

\* _enqueue_op: of the OPs that wait, that f could not be put in the queue is logged
\* and forgotten.
Swallowed(waiting, f) ==
  /\ forgotten' = (forgotten \ waiting) \cup
                    {op \in f : queue[op].status = "absent" /\ opLink[op] = 0}
  /\ IF f = {} THEN UNCHANGED faults ELSE Fault

\* Those that wait are queued, except f, and those there is nothing to send of leave.
Queue(rows, f) ==
  queue' = [op \in Ops |->
    IF op \in Unchanged(rows) \/ op \in rows \cap OutOfScope THEN Removed(queue[op])
    ELSE IF op \in (Rest(rows) \ Ready(rows)) \ f THEN Enqueued(queue[op], "dependency_missing")
    ELSE queue[op]]

TakeBatch ==
  /\ pc = "idle"
  /\ \E again \in SUBSET {op \in taken : val[op] # 0} :
       LET rows  == (MustRead \cup again) \ PermanentKeys(queue)
           ready == Ready(rows)
       IN /\ rows # {}
          /\ \E f \in SUBSET (Rest(rows) \ ready) :
               Queue(rows, f) /\ Swallowed(Rest(rows) \ ready, f)
          /\ IF ready = {}
             THEN Idle /\ taken' = taken \cup rows
             ELSE /\ pc' = "pair" /\ payload' = ready
                  /\ todo' = UNION {Pays[op] : op \in ready}
                  /\ pool' = [p \in Pedidos |->
                       IF \E op \in ready : p \in PedidosOf(op) THEN PortalPool(p) ELSE {}]
                  /\ taken' = taken \cup (rows \ ready)
                  /\ UNCHANGED <<blocks, edits, held, out, answered>>
  /\ UNCHANGED <<env, gasto, links, unlinked>>

\* The purchase orders an invoice is sent with (one at most).
SentWith(c) == UNION {PedidosOf(op) : op \in payload \cap PaidBy(c)}

\* A variant that holds one of the OPs that pay the invoice.
HeldOne(c) == {CHOOSE op \in payload : c \in Pays[op]}

\* cc_key_to_op_keys.
HeldFor(c) == {op \in payload : c \in Pays[op]}

\* A variant that leaves a gasto in the pool after it is paired.
Kept(g) == {}

PoolTakes(g) == {g}

\* One invoice: its gasto block, and the gasto of the portal it completes.  An
\* invoice without data has none, and if a gasto of the portal could be it, the
\* OPs that pay it wait: Paxapos would make a gasto up from the number.
Pair(c) ==
  /\ pc = "pair" /\ c \in todo
  /\ todo' = todo \ {c}
  /\ LET P    == UNION {pool[p] : p \in SentWith(c)}
         best == Elegido(P, c)
     IN IF c \notin complete
        THEN /\ held' = IF P # {} THEN held \cup HeldFor(c) ELSE held
             /\ UNCHANGED <<pool, blocks, edits>>
        ELSE /\ blocks' = blocks \cup {c}
             /\ edits' = [edits EXCEPT ![c] = best]
             /\ pool' = [p \in Pedidos |-> pool[p] \ PoolTakes(best)]
             /\ UNCHANGED held
  /\ UNCHANGED <<env, gasto, links, queue, taken, missed, pc, payload, out, answered, faults>>

\* A variant that trusts the window to bring the OPs held back.
QueuedNotHeld(op) == queue[op]

QueuedIfHeld(op) == IF op \in held THEN Enqueued(queue[op], "dependency_missing") ELSE queue[op]

\* The OPs held leave the payload, the gasto blocks stay; with no OP left nothing
\* is sent.
Hold ==
  /\ pc = "pair" /\ todo = {}
  /\ \E f \in SUBSET held :
       /\ Swallowed(held, f)
       /\ queue' = [op \in Ops |-> IF op \in f THEN queue[op] ELSE QueuedIfHeld(op)]
  /\ taken' = taken \cup held
  /\ IF payload \subseteq held THEN Idle
     ELSE /\ pc' = "post" /\ payload' = payload \ held /\ held' = {}
          /\ UNCHANGED <<todo, pool, blocks, edits, out, answered>>
  /\ UNCHANGED <<env, gasto, links, unlinked>>

(***************************************************************************)
(* The POST, which Paxapos takes row by row.  A block with an id edits     *)
(* that gasto, one with the number of a gasto there is lands on it, the    *)
(* others create one; an OP without the block of one of its invoices gets  *)
(* a gasto made up from the number.                                        *)
(***************************************************************************)

Lands(c) == IF edits[c] # 0 THEN {edits[c]}
            ELSE IF Numbered(c) # {} THEN Numbered(c) ELSE Free

\* _merge_edit_gasto_portal keeps the amount that was read.
Edited(g, c) ==
  [gasto[g] EXCEPT !.nro = c, !.amount = IF @ = 0 THEN Amount[c] ELSE @, !.traced = TRUE]

Created(c) ==
  [nro |-> c, ped |-> IF SentWith(c) = {} THEN NoPedido ELSE TheOne(SentWith(c)),
   amount |-> Amount[c], doc |-> NoPicture, traced |-> TRUE]

Applied(id) ==
  [g \in Ids |->
    LET by == {c \in DOMAIN id : id[c] = g}
        c  == IF \E d \in by : edits[d] = g THEN CHOOSE d \in by : edits[d] = g
              ELSE CHOOSE d \in by : TRUE
    IN IF by = {} THEN gasto[g] ELSE IF Exists(g) THEN Edited(g, c) ELSE Created(c)]

Post ==
  /\ pc = "post"
  /\ \E good \in SUBSET payload, lost \in BOOLEAN :
       LET landing == blocks \cup UNION {Pays[op] : op \in good}
       IN \E id \in [landing -> Ids] :
            /\ \A c \in landing : id[c] \in Lands(c)
            /\ \A c, d \in landing : c # d /\ id[c] = id[d] => id[c] \notin Free
            /\ gasto' = Applied(id)
            /\ IF lost
               THEN /\ Fault /\ Idle
               ELSE /\ pc' = "persist"
                    /\ answered' = [c \in Comps |-> IF c \in blocks THEN id[c] ELSE 0]
                    /\ out' = [op \in Ops |-> IF op \in good THEN "ok"
                                              ELSE IF op \in payload THEN "rejected" ELSE "none"]
                    /\ pool' = [p \in Pedidos |-> {}] /\ edits' = [c \in Comps |-> 0]
                    /\ UNCHANGED <<faults, payload, todo, blocks, held>>
  /\ UNCHANGED <<env, links, queue, taken, missed>>

\* What was answered of the invoices is used no more.
GastosDone == /\ blocks' = {} /\ edits' = [c \in Comps |-> 0] /\ answered' = [c \in Comps |-> 0]
              /\ UNCHANGED <<payload, todo, pool, held, out>>

AnsweredOk == {op \in Ops : out[op] = "ok"}

OpLinked(ops) == [op \in Ops |-> IF op \in ops THEN val[op] ELSE opLink[op]]

\* persist_links_orden_pago.
PersistOps ==
  /\ pc = "persist"
  /\ opLink' = OpLinked(AnsweredOk)
  /\ forgotten' = forgotten \ AnsweredOk /\ unlinked' = unlinked \ AnsweredOk
  /\ pc' = "persist-gastos"
  /\ UNCHANGED <<env, gasto, gastoLink, queue, taken, batch, faults>>

\* The link store fails after some of them: the batch is a bad one, but what
\* Paxapos answered is recorded (the finally of write_batch).
PersistOpsFails ==
  /\ Fault
  /\ pc = "persist"
  /\ \E kept \in SUBSET AnsweredOk :
       /\ opLink' = OpLinked(kept) /\ forgotten' = forgotten \ kept
       /\ unlinked' = (unlinked \ kept) \cup {op \in (AnsweredOk \ kept) \cap taken : opLink[op] = 0}
  /\ pc' = "record-failed" /\ GastosDone
  /\ UNCHANGED <<env, gasto, gastoLink, queue, taken>>

\* The gastos an invoice of key k was answered with.
AnsweredFor(k) == {answered[c] : c \in {d \in blocks : OpKey(d) = k}}

KeysAnswered == {k \in Keys : AnsweredFor(k) # {}}

\* persist_links_gastos.  Two invoices of one request have one key.
PersistGastos ==
  /\ pc = "persist-gastos"
  /\ \E to \in [KeysAnswered -> 0..MaxGastos] :
       /\ \A k \in KeysAnswered : to[k] \in AnsweredFor(k)
       /\ gastoLink' = GastoLinked(to)
  /\ pc' = "record" /\ GastosDone
  /\ UNCHANGED <<env, gasto, opLink, queue, taken, missed, faults>>

PersistGastosFails ==
  /\ Fault
  /\ pc = "persist-gastos"
  /\ \E some \in SUBSET KeysAnswered : \E to \in [some -> 0..MaxGastos] :
       /\ \A k \in some : to[k] \in AnsweredFor(k)
       /\ gastoLink' = GastoLinked(to)
  /\ pc' = "record-failed" /\ GastosDone
  /\ UNCHANGED <<env, gasto, opLink, queue, taken, missed>>

\* A variant that counts a batch whose links failed as good.
GoodAnyway == payload

\* The rows of a failed batch are read again.
TakenNow == IF pc = "record" THEN payload ELSE {}

Recorded(op) == CASE out[op] = "ok"       -> Removed(queue[op])
                  [] out[op] = "rejected" -> Enqueued(queue[op], "backend_rejected")
                  [] OTHER                -> queue[op]

\* _record_batch_outcomes.
Record ==
  /\ pc \in {"record", "record-failed"}
  /\ queue' = [op \in Ops |-> Recorded(op)]
  /\ taken' = taken \cup TakenNow
  /\ Idle
  /\ UNCHANGED <<env, gasto, links, missed, faults>>

\* The queue fails after some of them, which makes the batch a bad one.
RecordFails ==
  /\ Fault
  /\ pc \in {"record", "record-failed"}
  /\ \E done \in SUBSET payload :
       queue' = [op \in Ops |-> IF op \in done THEN Recorded(op) ELSE queue[op]]
  /\ Idle
  /\ UNCHANGED <<env, gasto, links, taken, missed>>

\* The process dies: the batch did not go well, and its rows are read again.
Crash ==
  /\ Fault
  /\ pc # "idle"
  /\ Idle
  /\ UNCHANGED <<env, gasto, links, queue, taken, missed>>

(***************************************************************************)
(* The specification.                                                      *)
(***************************************************************************)
Init ==
  /\ val = [op \in Ops |-> 0] /\ complete \in SUBSET Comps /\ migrated = {}
  /\ gasto = [g \in Ids |-> NoGasto]
  /\ opLink = [op \in Ops |-> 0] /\ gastoLink = [k \in Keys |-> 0]
  /\ queue = [op \in Ops |-> NoEntry] /\ taken = {} /\ forgotten = {} /\ unlinked = {}
  /\ pc = "idle" /\ payload = {} /\ todo = {}
  /\ pool = [p \in Pedidos |-> {}] /\ blocks = {} /\ edits = [c \in Comps |-> 0]
  /\ held = {} /\ out = [op \in Ops |-> "none"]
  /\ answered = [c \in Comps |-> 0] /\ faults = 0

Environment ==
  \/ \E op \in Ops : Confirm(op)
  \/ \E c \in Comps : Complete(c) \/ Upload(c)
  \/ \E p \in Pedidos : Migrate(p)

Pipeline ==
  \/ BackfillGastos \/ TakeSolicitudes \/ AnswerSolicitudes \/ PersistSolicitudes
  \/ TakeBatch \/ (\E c \in Comps : Pair(c)) \/ Hold
  \/ Post \/ PersistOps \/ PersistGastos \/ Record

PipelineFault ==
  PersistSolicitudesFails \/ PersistOpsFails \/ PersistGastosFails \/ RecordFails \/ Crash

Next == Environment \/ Pipeline \/ PipelineFault

Spec == Init /\ [][Next]_vars

(***************************************************************************)
(* What must hold.                                                         *)
(***************************************************************************)
TypeOK ==
  /\ val \in [Ops -> 0..MaxVal] /\ complete \subseteq Comps /\ migrated \subseteq Pedidos
  /\ gasto \in [Ids -> Gasto \cup {NoGasto}]
  /\ opLink \in [Ops -> 0..MaxVal]
  /\ gastoLink \in [Keys -> 0..MaxGastos] /\ queue \in [Ops -> Entry]
  /\ taken \subseteq Ops /\ forgotten \subseteq Ops /\ unlinked \subseteq Ops
  /\ pc \in {"idle", "sg-post", "sg-persist", "pair", "post", "persist", "persist-gastos", "record",
             "record-failed"}
  /\ payload \subseteq Ops /\ todo \subseteq Comps
  /\ pool \in [Pedidos -> SUBSET Ids] /\ blocks \subseteq Comps
  /\ edits \in [Comps -> 0..MaxGastos] /\ held \subseteq Ops
  /\ out \in [Ops -> {"none", "ok", "rejected"}] /\ answered \in [Comps -> 0..MaxGastos]
  /\ faults \in 0..MaxFaults

\* In one payload a gasto of the portal is completed with one invoice.
\* orden_pago.py:784-806.
OneEditPerGasto ==
  pc \in {"pair", "post"} =>
    \A c, d \in blocks : c # d /\ edits[c] = edits[d] => edits[c] = 0

\* No OP is posted with an invoice that has no gasto block while a gasto of the
\* portal may still be that invoice: Paxapos would make a second gasto up.
\* orden_pago.py:778-783, 815-824.
NoGastoMadeUp ==
  pc = "post" => \A op \in payload : Pays[op] \subseteq blocks \/ \A p \in PedidosOf(op) : pool[p] = {}

\* An OP a good batch has taken is linked, queued or out of scope, whichever of
\* the conditions of build_payload stopped it, unless the queue failed to take it, or
\* Paxapos has it and the link store failed.  orden_pago.py:83-97, 474-595, 815-828;
\* exporter.py:638-646.
TakenAreKept ==
  \A op \in taken \ OutOfScope :
    opLink[op] # 0 \/ queue[op].status # "absent" \/ op \in forgotten \cup unlinked

\* What RAFAM has linked to an invoice, under its number, is never given to
\* another, by either stage, though the pool of the batch is as old as its query.
\* orden_pago.py:868-885, gasto_matching.py:113-123.
LinkedGastosStay ==
  [][\A c \in Comps, g \in Linked :
       g \in {gastoLink[OpKey(c)], gastoLink[c]} /\ gasto[g].nro = c => gasto'[g].nro = c]_vars

\* An invoice whose gasto RAFAM has completed does not take the gasto of another
\* invoice too.  orden_pago.py:731-735.
NoSecondGasto ==
  [][\A c \in Comps, g, h \in Ids :
       /\ g # h /\ Exists(h)
       /\ gasto[g].nro = c /\ gasto[g].traced /\ gasto[h].nro # c /\ gasto[h].doc # c
       => gasto'[h].nro # c]_vars

(***************************************************************************)
(* The inductive invariant behind them.                                    *)
(***************************************************************************)

\* With no batch there is nothing of one.
IdleInv ==
  pc = "idle" => /\ payload = {} /\ todo = {} /\ blocks = {} /\ held = {}
                 /\ pool = [p \in Pedidos |-> {}] /\ edits = [c \in Comps |-> 0]

\* What is offered, and what a block edits, is a gasto that exists; solic_gastos
\* has no block without one.
EditsInv ==
  /\ \A p \in Pedidos : \A g \in pool[p] : Exists(g)
  /\ \A c \in Comps : edits[c] # 0 => c \in blocks /\ Exists(edits[c])
  /\ pc = "sg-post" => \A c \in blocks : edits[c] # 0

\* A gasto leaves the pool when it is paired, and none of them is linked.
PairInv ==
  pc \in {"pair", "post"} =>
    /\ \A p \in Pedidos : pool[p] \cap Linked = {}
    /\ \A c \in blocks : /\ edits[c] \notin Linked
                         /\ \A p \in Pedidos : edits[c] \notin pool[p]

\* An OP that is not held has its invoices still to be paired, or with their block, or
\* no gasto of its purchase order is left for them.
WaitInv ==
  pc = "pair" =>
    \A op \in payload \ held : \A c \in Pays[op] :
      c \in todo \cup blocks \/ \A p \in PedidosOf(op) : pool[p] = {}

\* The OPs of a payload are confirmed, and are all answered; those answered well have
\* a link from then on, unless the link store failed: those taken are then unlinked.
AnswerInv ==
  /\ \A op \in payload : val[op] # 0
  /\ pc \in {"persist", "persist-gastos", "record", "record-failed"} =>
       \A op \in Ops : op \in payload <=> out[op] # "none"
  /\ pc \in {"persist-gastos", "record"} => \A op \in AnsweredOk : opLink[op] # 0
  /\ pc = "record-failed" => \A op \in AnsweredOk \cap taken : opLink[op] # 0 \/ op \in unlinked

IInv ==
  /\ TypeOK /\ IdleInv /\ EditsInv /\ PairInv /\ WaitInv /\ AnswerInv
  /\ OneEditPerGasto /\ NoGastoMadeUp /\ TakenAreKept
=============================================================================
