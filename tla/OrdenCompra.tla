---------------------------- MODULE OrdenCompra ----------------------------
(***************************************************************************)
(* The life of a purchase order (orden_compra) between RAFAM and Paxapos.  *)
(* Three writers share its link and its Pedido:                            *)
(*   - the oc_items stage of the pipeline (mappers/oc_items.py), which     *)
(*     reads the whole table in every run and decides by state and hash;   *)
(*   - sync-changes (change_sync.py), under the same lock, which compares  *)
(*     the content of every linked order with the hash on record;          *)
(*   - check_integrity --apply, a cron job that takes no lock.             *)
(* Two orders meet only in a batch, so the rows of the two tables are      *)
(* functions of the order.                                                 *)
(***************************************************************************)
EXTENDS Naturals, FiniteSets, RetryStore

CONSTANTS
  Orders,      \* keys <ejercicio, uni_compra, nro_oc>
  MaxVal,      \* bound: last version of an order's content
  Itemless,    \* versions none of whose items can be mapped
  MaxFaults,   \* bound: failures, lost answers, crashes and manual deletions
  BatchSize,   \* --batch-size
  OracleFails  \* may the query of fetch_estado_by_key fail?

ASSUME OrdersAssumption == IsFiniteSet(Orders)

ASSUME OrderBoundsAssumption ==
  /\ MaxVal \in Nat \ {0} /\ MaxFaults \in Nat /\ BatchSize \in Nat \ {0}
  /\ Itemless \subseteq 1..MaxVal
  /\ OracleFails \in BOOLEAN

VARIABLES
  est, val, cc,   \* RAFAM: ESTADO_OC ("none" = no such order), content, comprobante
  prov,           \* does the order's supplier have a link?
  pax,            \* Paxapos: the Pedido, content 0 = never created
  link,           \* entity_links: link_orden_compra
  queue,          \* retry_queue, entity oc_items
  pc, who,        \* the locked process: its phase, and pipeline or changes
  snap,           \* the rows its query returned
  rest,           \* orders of the query not grouped into a batch yet
  create, anular, \* orders of the payload, as an upsert or as a soft-delete
  out,            \* the answer for each order of the payload
  check,          \* check_integrity: idle, check, propagate, mark
  links, suspect, \* check_integrity: links to verify, the order being deleted
  backfilled,     \* orders whose hash --backfill-only wrote with nothing sent
  faults

rafam == <<est, val, cc, prov>>
job   == <<pc, who, snap, rest, create, anular, out>>
cron  == <<check, links, suspect>>
vars  == <<rafam, pax, link, queue, job, cron, backfilled, faults>>

States == {"none", "N", "R", "A"}

\* compute_payload_hash of the grouped order, with the state as a shadow field.
\* An order's content and its state tell two hashes apart.
NoHash == <<0, "none">>
HashOf(row) == <<row.val, row.est>>
Hashes == (0..MaxVal) \X States

\* One row of link_orden_compra; estado "none" and remote FALSE is no row.
Link == [estado : States, remote : BOOLEAN, hash : Hashes, deleted : BOOLEAN,
         hasOp : BOOLEAN]
NoLink == [estado |-> "none", remote |-> FALSE, hash |-> NoHash, deleted |-> FALSE,
           hasOp |-> FALSE]

Row == [est : States, val : 0..MaxVal, cc : BOOLEAN]
RowOf(k) == [est |-> est[k], val |-> val[k], cc |-> cc[k]]

\* Before the query, and before the answer.
Nothing == [k \in Orders |-> [est |-> "none", val |-> 0, cc |-> FALSE]]
Unanswered == [k \in Orders |-> "none"]

Fault == faults < MaxFaults /\ faults' = faults + 1

(***************************************************************************)
(* RAFAM, the other stages of the pipeline, and Paxapos.                   *)
(***************************************************************************)

\* A clerk creates, edits, confirms, unconfirms or annuls the order, or its
\* receipt comes in.  An annulled order stays annulled, a purged one gone.
Edit(k) ==
  /\ est[k] # "A" /\ (est[k] = "none" => val[k] = 0)
  /\ \E e \in States \ {"none"}, v \in {val[k], val[k] + 1} \cap (1..MaxVal),
        c \in {cc[k], TRUE} :
       /\ <<e, v, c>> # <<est[k], val[k], cc[k]>>
       /\ est' = [est EXCEPT ![k] = e]
       /\ val' = [val EXCEPT ![k] = v]
       /\ cc' = [cc EXCEPT ![k] = c]
  /\ UNCHANGED <<backfilled, prov, pax, link, queue, job, cron, faults>>

\* The row disappears from ORDEN_COMPRA.
Purge(k) ==
  /\ Fault
  /\ est[k] \notin {"none", "A"}
  /\ est' = [est EXCEPT ![k] = "none"]
  /\ UNCHANGED <<backfilled, val, cc, prov, pax, link, queue, job, cron>>

\* The proveedores stage links the supplier.
SupplierLinked(k) ==
  /\ pc = "idle" /\ ~prov[k]
  /\ prov' = [prov EXCEPT ![k] = TRUE]
  /\ UNCHANGED <<backfilled, est, val, cc, pax, link, queue, job, cron, faults>>

\* The orden_pago stage has sent an OP of this order: mark_oc_has_op.
OpMarks(k) ==
  /\ pc = "idle" /\ link[k].remote /\ ~link[k].hasOp
  /\ link' = [link EXCEPT ![k].hasOp = TRUE]
  /\ UNCHANGED <<backfilled, rafam, pax, queue, job, cron, faults>>

\* Somebody deletes the Pedido in the Paxapos UI.
RemoteDelete(k) ==
  /\ Fault
  /\ pax[k].val # 0 /\ ~pax[k].deleted
  /\ pax' = [pax EXCEPT ![k].deleted = TRUE]
  /\ UNCHANGED <<backfilled, rafam, link, queue, job, cron>>

(***************************************************************************)
(* The oc_items stage and sync-changes, under the lock.                    *)
(***************************************************************************)

\* oc_items is full_load: every order of the table, in every run.
StartStage ==
  /\ pc = "idle"
  /\ pc' = "loop" /\ who' = "pipeline"
  /\ snap' = [k \in Orders |-> RowOf(k)]
  /\ rest' = {k \in Orders : est[k] # "none"}
  /\ UNCHANGED <<backfilled, rafam, pax, link, queue, create, anular, out, cron, faults>>

\* _sync_oc_items: of every link whose order still exists and has a linked
\* supplier, those with no hash on record or another one.
Differing ==
  {k \in Orders : /\ link[k].estado # "none" /\ est[k] # "none" /\ prov[k]
                  /\ link[k].hash # HashOf(RowOf(k))}

\* fetch_oc_items_by_keys: the rows of the linked orders as they are now.  What it
\* holds of the others nobody looks at.
FetchedByKeys == [k \in Orders |-> RowOf(k)]

\* The rows of the orders that differ go through write_batch as one batch, with
\* an exporter that has no retry store.
StartChanges ==
  /\ pc = "idle" /\ Differing # {}
  /\ pc' = "loop" /\ who' = "changes"
  /\ snap' = FetchedByKeys
  /\ rest' = Differing
  /\ UNCHANGED <<backfilled, rafam, pax, link, queue, create, anular, out, cron, faults>>

\* --backfill-only: the hash of the content there is now, with nothing sent.
Backfill ==
  /\ pc = "idle" /\ Differing # {}
  /\ backfilled' = backfilled \cup Differing
  /\ link' = [k \in Orders |->
                IF k \in Differing THEN [link[k] EXCEPT !.hash = HashOf(RowOf(k))]
                ELSE link[k]]
  /\ UNCHANGED <<rafam, pax, queue, job, cron, faults>>

\* Rows grouped by order; an order whose supplier has no link is left out.
Grouped(b) == {k \in b : prov[k]}

\* A variant that leaves permanent orders out before it looks at their state.
ToDeleteUnlessPermanent(b) ==
  {k \in Grouped(b) : /\ snap[k].est = "A" /\ link[k].remote
                      /\ ~(link[k].estado = "A" /\ link[k].deleted)
                      /\ queue[k].status # "permanent"}

\* A variant that takes an order that is no longer confirmed for an annulled one.
ToDeleteUnconfirmed(b) ==
  {k \in Grouped(b) : /\ snap[k].est # "R" /\ link[k].remote
                      /\ ~(link[k].estado = "A" /\ link[k].deleted)}

\* An annulled order Paxapos knows, unless its deletion is on record.
ToDelete(b) ==
  {k \in Grouped(b) : /\ snap[k].est = "A" /\ link[k].remote
                      /\ ~(link[k].estado = "A" /\ link[k].deleted)}

\* permanent_external_ids, empty without a retry store.
Permanent == IF who = "pipeline" THEN PermanentKeys(queue) ELSE {}

\* _map_oc_item maps one item of the order at least.
HasItems(row) == row.val \notin Itemless

\* Orders with items that are neither annulled nor permanent.
Live(b) ==
  {k \in Grouped(b) : /\ snap[k].est # "A" /\ HasItems(snap[k])
                      /\ k \notin Permanent}

SameState(k) == link[k].estado = "R" /\ link[k].hash = HashOf(snap[k])

\* A variant that sends a confirmed order again only when its state changed.
ToCreateByState(b) ==
  {k \in Live(b) : IF snap[k].est = "R" THEN link[k].estado # "R"
                   ELSE snap[k].cc \/ link[k].hasOp}

\* A confirmed order goes unless it went in that state with that content; any
\* other goes only if it has a receipt or a payment.
ToCreate(b) ==
  {k \in Live(b) : IF snap[k].est = "R" THEN ~SameState(k)
                   ELSE snap[k].cc \/ link[k].hasOp}

\* A variant that writes down the orders of the payload before they are sent.
ToRegisterAll(b) == Live(b) \cup {k \in Grouped(b) : snap[k].est = "A"}

ToRegister(b) ==
  {k \in Live(b) : k \notin ToCreate(b)}
    \cup {k \in Grouped(b) : snap[k].est = "A" /\ ~link[k].remote}

\* A variant that registers with no remote id.
RegisteredAnew(k) ==
  [link[k] EXCEPT !.estado = snap[k].est, !.remote = FALSE,
                  !.hash = IF snap[k].est = "A" THEN NoHash ELSE HashOf(snap[k])]

\* save_link without deleted_at and has_op, which keep their values.  The hash of
\* an annulled order is not computed.
Registered(k) ==
  [link[k] EXCEPT !.estado = snap[k].est,
                  !.hash = IF snap[k].est = "A" THEN NoHash ELSE HashOf(snap[k])]

\* build_payload.  The links of the orders not sent are written here.
TakeBatch(b) ==
  /\ pc = "loop"
  /\ b \subseteq rest /\ b # {}
  /\ IF who = "changes" THEN b = rest
     ELSE Cardinality(b) <= BatchSize /\ (b # rest => Cardinality(b) = BatchSize)
  /\ rest' = rest \ b
  /\ create' = ToCreate(b) /\ anular' = ToDelete(b)
  /\ link' = [k \in Orders |-> IF k \in ToRegister(b) THEN Registered(k) ELSE link[k]]
  /\ pc' = IF ToCreate(b) \cup ToDelete(b) = {} THEN "loop" ELSE "post"
  /\ UNCHANGED <<backfilled, rafam, pax, queue, who, snap, out, cron, faults>>

Payload == create \cup anular

\* Paxapos takes the order: the upsert of its content, or the soft-delete.  A
\* deleted Pedido is not written, though an upsert may bring it back.
Taken(k) ==
  IF k \in anular THEN [pax[k] EXCEPT !.deleted = TRUE]
  ELSE [val |-> snap[k].val, deleted |-> FALSE]

\* An answer with an outcome for every order of the payload.  Rejections of an
\* upsert are no fault of the environment.
Respond ==
  /\ pc = "post"
  /\ \E o \in [Payload -> {"ok", "rejected", "dependency"}] :
       /\ IF \E k \in Payload : o[k] = "dependency" \/ (k \in anular /\ o[k] = "rejected")
            THEN Fault ELSE UNCHANGED faults
       /\ out' = [k \in Orders |-> IF k \in Payload THEN o[k] ELSE "none"]
       /\ pax' = [k \in Orders |->
                    IF k \in Payload /\ o[k] = "ok" THEN Taken(k) ELSE pax[k]]
  /\ pc' = "persist"
  /\ UNCHANGED <<backfilled, rafam, link, queue, who, snap, rest, create, anular, cron>>

\* No usable answer.  Paxapos may have taken any part of the payload.
PostFails ==
  /\ Fault
  /\ pc = "post"
  /\ \E taken \in SUBSET Payload :
       pax' = [k \in Orders |-> IF k \in taken THEN Taken(k) ELSE pax[k]]
  /\ create' = {} /\ anular' = {} /\ pc' = "loop"
  /\ UNCHANGED <<backfilled, rafam, link, queue, who, snap, rest, out, cron>>

\* persist_links writes a link for each order taken; deleted_at is set by a
\* confirmed deletion and cleared by an upsert.
Persisted(k) ==
  [link[k] EXCEPT !.estado = snap[k].est, !.remote = TRUE, !.deleted = k \in anular,
                  !.hash = IF k \in anular THEN NoHash ELSE HashOf(snap[k])]

\* A variant that writes down the deletion whatever the answer was.
AcceptedAll == Payload

Accepted == {k \in Payload : out[k] = "ok"}

Persist ==
  /\ pc = "persist"
  /\ link' = [k \in Orders |-> IF k \in Accepted THEN Persisted(k) ELSE link[k]]
  /\ backfilled' = backfilled \ Accepted
  /\ pc' = "record"
  /\ UNCHANGED <<rafam, pax, queue, who, snap, rest, create, anular, out, cron, faults>>

ReasonOf(outcome) ==
  IF outcome = "dependency" THEN "dependency_missing" ELSE "backend_rejected"

\* _record_batch_outcomes, when there is a retry store.
Record ==
  /\ pc = "record"
  /\ queue' = [k \in Orders |->
                 IF who = "changes" \/ k \notin Payload THEN queue[k]
                 ELSE IF out[k] = "ok" THEN Removed(queue[k])
                 ELSE Enqueued(queue[k], ReasonOf(out[k]))]
  /\ create' = {} /\ anular' = {} /\ out' = Unanswered /\ pc' = "loop"
  /\ UNCHANGED <<backfilled, rafam, pax, link, who, snap, rest, cron, faults>>

\* The memory of the process goes with it.
Over ==
  /\ pc' = "idle" /\ who' = "pipeline" /\ snap' = Nothing
  /\ rest' = {} /\ create' = {} /\ anular' = {} /\ out' = Unanswered
  /\ UNCHANGED <<backfilled, rafam, pax, link, queue, cron>>

EndJob == pc = "loop" /\ rest = {} /\ Over /\ UNCHANGED faults

\* The process dies, or the link store or the queue raises.
Crash == Fault /\ pc # "idle" /\ Over

(***************************************************************************)
(* check_integrity --apply --entity orden_compra.                          *)
(***************************************************************************)

\* The links not deleted that have a remote id.
CheckStarts ==
  /\ check = "idle"
  /\ links' = {k \in Orders : link[k].remote /\ ~link[k].deleted}
  /\ links' # {}
  /\ check' = "check"
  /\ UNCHANGED <<backfilled, rafam, pax, link, queue, job, suspect, faults>>

\* fetch_estado_by_key answers None for a row that does not exist, and for a
\* query that fails.
Answers(k) == {est[k]} \cup IF OracleFails THEN {"none"} ELSE {}

\* An order annulled, or not found, is deleted in Paxapos.
CheckOne(k) ==
  /\ check = "check" /\ k \in links
  /\ links' = links \ {k}
  /\ \E answer \in Answers(k) :
       IF answer \in {"A", "none"}
         THEN check' = "propagate" /\ suspect' = {k}
         ELSE UNCHANGED <<check, suspect>>
  /\ UNCHANGED <<backfilled, rafam, pax, link, queue, job, faults>>

\* propagate_orden_compra_soft_delete, confirmed by Paxapos.
Propagate(k) ==
  /\ check = "propagate" /\ k \in suspect
  /\ pax' = [pax EXCEPT ![k].deleted = TRUE]
  /\ check' = "mark"
  /\ UNCHANGED <<backfilled, rafam, link, queue, job, links, suspect, faults>>

\* Refused, failed, or done without an answer: the error is counted, the link stays.
PropagateFails(k) ==
  /\ Fault
  /\ check = "propagate" /\ k \in suspect
  /\ \E d \in {pax[k].deleted, TRUE} : pax' = [pax EXCEPT ![k].deleted = d]
  /\ check' = "check" /\ suspect' = {}
  /\ UNCHANGED <<backfilled, rafam, link, queue, job, links>>

\* mark_deleted touches deleted_at alone.
Mark(k) ==
  /\ check = "mark" /\ k \in suspect
  /\ link' = [link EXCEPT ![k].deleted = TRUE]
  /\ check' = "check" /\ suspect' = {}
  /\ UNCHANGED <<backfilled, rafam, pax, queue, job, links, faults>>

CheckEnds ==
  /\ check = "check" /\ links = {}
  /\ check' = "idle"
  /\ UNCHANGED <<backfilled, rafam, pax, link, queue, job, links, suspect, faults>>

CheckCrash ==
  /\ Fault
  /\ check # "idle"
  /\ check' = "idle" /\ links' = {} /\ suspect' = {}
  /\ UNCHANGED <<backfilled, rafam, pax, link, queue, job>>

(***************************************************************************)
(* The specification.                                                      *)
(***************************************************************************)

Init ==
  /\ est = [k \in Orders |-> "none"] /\ val = [k \in Orders |-> 0]
  /\ cc = [k \in Orders |-> FALSE] /\ prov = [k \in Orders |-> FALSE]
  /\ pax = [k \in Orders |-> [val |-> 0, deleted |-> FALSE]]
  /\ link = [k \in Orders |-> NoLink] /\ queue = [k \in Orders |-> NoEntry]
  /\ pc = "idle" /\ who = "pipeline"
  /\ snap = Nothing
  /\ rest = {} /\ create = {} /\ anular = {} /\ out = Unanswered
  /\ check = "idle" /\ links = {} /\ suspect = {}
  /\ backfilled = {} /\ faults = 0

Environment ==
  \E k \in Orders : Edit(k) \/ Purge(k) \/ SupplierLinked(k) \/ OpMarks(k) \/ RemoteDelete(k)

BatchStep == (\E b \in SUBSET rest : TakeBatch(b)) \/ Respond \/ Persist \/ Record \/ EndJob

JobStep == StartStage \/ StartChanges \/ Backfill \/ BatchStep \/ PostFails \/ Crash

CheckStep ==
  \/ CheckStarts \/ CheckEnds \/ CheckCrash
  \/ \E k \in Orders :
       CheckOne(k) \/ Propagate(k) \/ PropagateFails(k) \/ Mark(k)

Next == Environment \/ JobStep \/ CheckStep

\* cron starts the pipeline again and again, and a run once started goes on.
Fairness == SF_vars(StartStage) /\ WF_vars(BatchStep)

Spec == Init /\ [][Next]_vars /\ Fairness

(***************************************************************************)
(* What must hold.                                                         *)
(***************************************************************************)

TypeOK ==
  /\ est \in [Orders -> States] /\ val \in [Orders -> 0..MaxVal]
  /\ cc \in [Orders -> BOOLEAN] /\ prov \in [Orders -> BOOLEAN]
  /\ pax \in [Orders -> [val : 0..MaxVal, deleted : BOOLEAN]]
  /\ link \in [Orders -> Link] /\ queue \in [Orders -> Entry]
  /\ pc \in {"idle", "loop", "post", "persist", "record"}
  /\ who \in {"pipeline", "changes"} /\ snap \in [Orders -> Row]
  /\ rest \subseteq Orders /\ create \subseteq Orders /\ anular \subseteq Orders
  /\ out \in [Orders -> {"none", "ok", "rejected", "dependency"}]
  /\ check \in {"idle", "check", "propagate", "mark"}
  /\ links \subseteq Orders /\ suspect \subseteq Orders
  /\ backfilled \subseteq Orders /\ faults \in 0..MaxFaults

\* Contents and annulments only go forward, so what an earlier query or an
\* earlier answer said of an order is never ahead of what is there now.
NeverAhead ==
  \A k \in Orders :
    /\ pax[k].val <= val[k] /\ snap[k].val <= val[k]
    /\ pc # "idle" => pax[k].val <= snap[k].val
    /\ snap[k].est = "A" \/ link[k].estado = "A" => est[k] = "A"
    /\ pc # "idle" /\ link[k].estado = "A" => snap[k].est = "A"
    /\ link[k].remote \/ snap[k].est # "none" \/ est[k] # "none" => val[k] # 0

\* What the process knows of the orders of its payload.
PayloadKnown ==
  /\ pc = "idle" => rest = {}
  /\ pc \notin {"post", "persist", "record"} => Payload = {}
  /\ \A k \in rest : snap[k].est # "none"
  /\ \A k \in create : snap[k].est \notin {"none", "A"}
  /\ \A k \in anular : snap[k].est = "A"
  /\ pc = "persist" =>
       \A k \in Accepted : IF k \in anular THEN pax[k].deleted
                          ELSE pax[k].val >= snap[k].val

\* What check_integrity knows of the links it took.
SuspectsKnown ==
  /\ \A k \in links \cup suspect : val[k] # 0
  /\ ~OracleFails => \A k \in suspect : est[k] \in {"A", "none"}

\* A link in state A with a Pedido carries the mark of its deletion.
AnnulledIsMarked ==
  \A k \in Orders :
    link[k].estado = "A" /\ link[k].remote => link[k].deleted

\* The hash of a confirmed order is one Paxapos acknowledged, so an order left
\* out as unchanged is one whose content Paxapos holds, or had a later one of.
\* oc_items.py:207-230.
HashIsAcknowledged ==
  \A k \in Orders \ backfilled :
    link[k].estado = "R" /\ link[k].hash[2] = "R" => pax[k].val >= link[k].hash[1]

\* An annulled order is passed over only when Paxapos has deleted its Pedido,
\* whichever of the three writers set the mark.  oc_items.py:185-192.
SkippedIsDeleted ==
  \A k \in Orders :
    link[k].estado = "A" /\ link[k].remote /\ link[k].deleted => pax[k].deleted

\* The inductive invariant of the proofs.
IInv ==
  /\ TypeOK /\ NeverAhead /\ PayloadKnown /\ SuspectsKnown /\ AnnulledIsMarked
  /\ HashIsAcknowledged /\ SkippedIsDeleted

\* No writer forgets the Pedido of an order or that it was paid: losing the
\* remote id would make its annulment invisible.  entity_link_store.py:118-143.
LinksOnlyGrow ==
  [][\A k \in Orders : /\ link[k].remote => link'[k].remote
                       /\ link[k].hasOp => link'[k].hasOp]_vars

\* A step of the program, even one whose answer is lost, deletes no Pedido whose
\* order is alive in RAFAM.  source_repository.py:1642-1757, oc_items.py:181-198.
NoLiveOrderDeleted ==
  [][\A k \in Orders :
       /\ pax'[k].deleted /\ ~pax[k].deleted
       /\ <<job, cron>>' # <<job, cron>>
       => est[k] \in {"A", "none"}]_vars

\* oc_items deletes no Pedido whose order is marked as paid.
\* docs/rafam_paxapos_equivalencias.md:125-127, oc_items.py:185-198.
NoPaidOrderDeleted ==
  [][\A k \in anular :
       link[k].hasOp /\ pax'[k].deleted => pax[k].deleted \/ job' = job]_vars

\* An annulled order Paxapos knows of is deleted there in the end, even if it
\* had run out of retries.  oc_items.py:181-198.
AnnulledAreDeleted ==
  \A k \in Orders : est[k] = "A" /\ link[k].remote /\ prov[k] ~> pax[k].deleted

Settled(k) ==
  \/ val[k] \in Itemless \/ ~prov[k]
  \/ pax[k].val = val[k] \/ k \in backfilled
  \/ queue[k].status = "permanent"

\* An order that stays confirmed and whose supplier is linked reaches Paxapos with its last
\* content, or runs out of retries where the operator sees it, or was declared
\* up to date by a backfill.
ConfirmedArrive == \A k \in Orders : <>[](est[k] = "R") => <>[]Settled(k)
=============================================================================
