---------------------------- MODULE PaymentChain ----------------------------
(***************************************************************************)
(* A payment order on its way through the pipeline: proveedores, oc_items, *)
(* orden_pago and retenciones run one after the other, each with a         *)
(* watermark and a retry queue of its own, and each needs what an earlier  *)
(* one left in entity_links.  How one stage cuts its rows into batches and *)
(* moves its watermark is in SyncEntity, BatchGrouping and SourceQueries;  *)
(* here a stage takes the rows its query selects as one batch.             *)
(***************************************************************************)
EXTENDS Naturals, FiniteSets, RetryStore

CONSTANTS
  Ops,       \* keys <ejercicio, nro_op>
  MaxVal,    \* bound: last version of the fields an order's link remembers
  MaxFaults, \* bound: failures, crashes and manual interventions
  SinOC,     \* RAFAM_MIGRAR_OP_SIN_OC: are direct expenses sent?
  Blind      \* may the query of the deductions fail?

ASSUME OpsAssumption == IsFiniteSet(Ops)

ASSUME ChainBoundsAssumption ==
  /\ MaxVal \in Nat \ {0} /\ MaxFaults \in Nat
  /\ SinOC \in BOOLEAN /\ Blind \in BOOLEAN

VARIABLES
  val,        \* RAFAM: version of the order, 0 = not confirmed yet
  annulled,   \* RAFAM: orders whose ESTADO_OP is no longer C
  deducted,   \* RAFAM: orders with deductions that are retentions
  backed,     \* RAFAM: orders of a purchase order; the others are direct expenses
  supplier,   \* of each order's supplier: linked, asked, fresh, stale
  ordered,    \* orders whose purchase order is linked
  egreso,     \* Paxapos: version of the Egreso, 0 = none, Gone = deleted by hand
  applied,    \* Paxapos: the retentions of the Egreso: none, part, all
  opLink,     \* link_orden_pago: version it remembers (0 = no link), deleted_at
  retLink,    \* link_retenciones: what the fingerprint is of: none, part, all
  opQueue, retQueue,  \* retry_queue of the two entities
  opSel, retSel,  \* is the order selected by its date: no, unread, reading, read
  pc,             \* the stage and its phase
  snap,           \* the rows of the batch
  sent, out,      \* orders of the payload, answer for each
  mapped,         \* pending_fingerprints: what the payload has of each one's deductions
  forgotten,      \* orders not put in the queue because its failure was swallowed
  unseen,         \* orders whose deductions could not be read
  opUnlinked, retUnlinked,  \* orders taken whose first link could not be written
  faults

rafam == <<val, annulled, deducted, backed>>
deps  == <<supplier, ordered>>
pax   == <<egreso, applied>>
local == <<opLink, retLink, opQueue, retQueue, opSel, retSel>>
batch == <<snap, sent, out, mapped>>
unlinked == <<opUnlinked, retUnlinked>>
missed == <<forgotten, unseen, unlinked>>
vars  == <<rafam, deps, pax, local, pc, batch, missed, faults>>

Gone == MaxVal + 1

NoLink == [val |-> 0, deleted |-> FALSE]
Unanswered == [op \in Ops |-> "none"]
Nothing    == [op \in Ops |-> "none"]
Extents    == {"none", "part", "all"}

Fault == faults < MaxFaults /\ faults' = faults + 1

Confirmed == {op \in Ops : val[op] # 0 /\ op \notin annulled}

(***************************************************************************)
(* RAFAM, Paxapos, time and the operator.                                  *)
(***************************************************************************)

\* The order is confirmed: the queries of both stages select it by its date.
Confirm(op) ==
  /\ val[op] = 0
  /\ val' = [val EXCEPT ![op] = 1]
  /\ deducted' \in {deducted, deducted \cup {op}}
  /\ opSel' = [opSel EXCEPT ![op] = "unread"]
  /\ retSel' = [retSel EXCEPT ![op] = "unread"]
  /\ UNCHANGED <<annulled, backed, deps, pax, opLink, retLink, opQueue, retQueue, pc, batch,
                 missed, faults>>

\* An edit leaves FECH_CONFIRM as it was.
Edit(op) ==
  /\ op \in Confirmed /\ val[op] < MaxVal
  /\ val' = [val EXCEPT ![op] = @ + 1]
  /\ UNCHANGED <<annulled, deducted, backed, deps, pax, local, pc, batch, missed, faults>>

Annul(op) ==
  /\ op \in Confirmed
  /\ annulled' = annulled \cup {op}
  /\ UNCHANGED <<val, deducted, backed, deps, pax, local, pc, batch, missed, faults>>

\* The watermark and the window pass by an order, once a good batch has taken it
\* (SourceQueries, NoConfirmationMissed).
OpAges(op) ==
  /\ opSel[op] = "read"
  /\ opSel' = [opSel EXCEPT ![op] = "no"]
  /\ UNCHANGED <<rafam, deps, pax, opLink, retLink, opQueue, retQueue, retSel, pc, batch,
                 missed, faults>>

RetAges(op) ==
  /\ retSel[op] = "read"
  /\ retSel' = [retSel EXCEPT ![op] = "no"]
  /\ UNCHANGED <<rafam, deps, pax, opLink, retLink, opQueue, retQueue, opSel, pc, batch,
                 missed, faults>>

\* Somebody deletes the Egreso in the Paxapos UI.
RemoteDelete(op) ==
  /\ Fault
  /\ egreso[op] \notin {0, Gone}
  /\ egreso' = [egreso EXCEPT ![op] = Gone] /\ applied' = [applied EXCEPT ![op] = "none"]
  /\ UNCHANGED <<rafam, deps, local, pc, batch, missed>>

\* retry-queue --requeue.  No lock.
RequeuePermanent ==
  /\ PermanentKeys(opQueue) \cup PermanentKeys(retQueue) # {}
  /\ Fault
  /\ opQueue' = [op \in Ops |-> Requeued(opQueue[op])]
  /\ retQueue' = [op \in Ops |-> Requeued(retQueue[op])]
  /\ UNCHANGED <<rafam, deps, pax, opLink, retLink, opSel, retSel, pc, batch, missed>>

(***************************************************************************)
(* proveedores and oc_items.                                               *)
(***************************************************************************)

StartRun ==
  /\ pc = "idle"
  /\ pc' = "proveedores"
  /\ UNCHANGED <<rafam, deps, pax, local, batch, missed, faults>>

\* A supplier is read when its row is new or somebody asked for it, and Paxapos
\* takes it, or the failure leaves it to be read again.
SuppliersStage ==
  /\ pc = "proveedores"
  /\ pc' = "oc_items"
  /\ \E f \in SUBSET {op \in Ops : supplier[op] \in {"fresh", "asked"}} :
       /\ IF f = {} THEN UNCHANGED faults ELSE Fault
       /\ supplier' = [op \in Ops |-> IF supplier[op] \in {"fresh", "asked"} /\ op \notin f
                                      THEN "linked" ELSE supplier[op]]
  /\ UNCHANGED <<rafam, ordered, pax, local, batch, missed>>

\* oc_items reads everything, every time.  It passes over a purchase order whose
\* supplier has no link, and asks nobody for that supplier.
OrdersStage ==
  /\ pc = "oc_items"
  /\ pc' = "orden_pago"
  /\ \E f \in SUBSET {op \in backed \ ordered : supplier[op] = "linked"} :
       /\ IF f = {} THEN UNCHANGED faults ELSE Fault
       /\ ordered' = ordered \cup ({op \in backed : supplier[op] = "linked"} \ f)
  /\ UNCHANGED <<rafam, supplier, pax, local, batch, missed>>

(***************************************************************************)
(* A batch of either stage.                                                *)
(***************************************************************************)

\* What becomes of the rows of the batch: they go on being selected by date until
\* the batch has gone well.
Marked(sel, from, to) == [op \in Ops |-> IF sel[op] = from THEN to ELSE sel[op]]

BatchOver ==
  snap' = [op \in Ops |-> 0] /\ sent' = {} /\ out' = Unanswered /\ mapped' = Nothing

Answered(a) == {op \in Ops : out[op] = a}

(***************************************************************************)
(* orden_pago.                                                             *)
(***************************************************************************)

OpRows == {op \in Ops : val[op] # 0 /\ (opSel[op] # "no" \/ opQueue[op].status = "pending")}

\* Confirmed orders that have not run out of retries.
OpEligible == (OpRows \cap Confirmed) \ PermanentKeys(opQueue)

\* Sent before and not changed since.
OpUnchanged == {op \in OpEligible : opLink[op].val = val[op]}

\* The others are looked at one dependency after the other.  A purchase order not
\* sent yet comes first, and with it a direct expense that is not to be sent.
NoOrder == {op \in OpEligible \ OpUnchanged : IF op \in backed THEN op \notin ordered ELSE ~SinOC}

NoSupplier == {op \in (OpEligible \ OpUnchanged) \ NoOrder : supplier[op] # "linked"}

ToWait == NoOrder \cup NoSupplier

\* A variant that leaves the orders whose supplier has no link to the window.
OpQueuedWithSupplier(op, f) ==
  IF op \in f THEN opQueue[op]
  ELSE IF op \in OpUnchanged THEN Removed(opQueue[op])
  ELSE IF op \in NoOrder THEN Enqueued(opQueue[op], "dependency_missing")
  ELSE opQueue[op]

\* _enqueue_op and _resolve_op: a failure of the store is logged and forgotten.
OpQueued(op, f) ==
  IF op \in f THEN opQueue[op]
  ELSE IF op \in OpUnchanged THEN Removed(opQueue[op])
  ELSE IF op \in ToWait THEN Enqueued(opQueue[op], "dependency_missing")
  ELSE opQueue[op]

\* A variant that asks for no supplier.
NobodyAsked(op, f) == supplier[op]

\* _enqueue_missing_proveedores, whose failures (f) are logged and forgotten too.
Asked(op, f) ==
  IF op \in NoSupplier \ f /\ supplier[op] = "stale" THEN "asked" ELSE supplier[op]

\* build_payload.
TakeOps ==
  /\ pc = "orden_pago"
  /\ \E f \in SUBSET (OpUnchanged \cup ToWait), g \in SUBSET NoSupplier :
       /\ IF f = {} /\ g = {} THEN UNCHANGED faults ELSE Fault
       /\ opQueue' = [op \in Ops |-> OpQueued(op, f)]
       /\ forgotten' = forgotten \cup {op \in f \cap ToWait : opQueue[op].status = "absent"}
       /\ supplier' = [op \in Ops |-> Asked(op, g)]
  /\ sent' = (OpEligible \ OpUnchanged) \ ToWait
  /\ snap' = val /\ out' = Unanswered /\ mapped' = Nothing
  /\ IF sent' = {} THEN opSel' = Marked(opSel, "unread", "read") /\ pc' = "retenciones"
     ELSE opSel' = Marked(opSel, "unread", "reading") /\ pc' = "op-post"
  /\ UNCHANGED <<rafam, ordered, pax, opLink, retLink, retQueue, retSel, unseen, unlinked>>

\* An upsert by the id of the link, else by identificador_pago.  An Egreso whose
\* id is gone is left alone, and that too is a success.
OpTaken(op) == IF egreso[op] = Gone /\ opLink[op].val # 0 THEN Gone ELSE snap[op]

\* A refusal is about the order; the other failures are the environment's.
AnswerOps ==
  /\ pc = "op-post"
  /\ \E o \in [sent -> {"ok", "rejected", "dependency", "untracked"}] :
       /\ IF \E op \in sent : o[op] \in {"dependency", "untracked"} THEN Fault
          ELSE UNCHANGED faults
       /\ out' = [op \in Ops |-> IF op \notin sent THEN "none"
                                 ELSE IF o[op] = "ok" /\ OpTaken(op) = Gone THEN "gone"
                                 ELSE o[op]]
       /\ egreso' = [op \in Ops |-> IF op \in sent /\ o[op] = "ok" THEN OpTaken(op)
                                    ELSE egreso[op]]
  /\ pc' = "op-persist"
  /\ UNCHANGED <<rafam, deps, applied, local, snap, sent, mapped, missed>>

\* The POST fails, though Paxapos may have taken any part of it.
PostOpsFails ==
  /\ Fault
  /\ pc = "op-post"
  /\ \E taken \in SUBSET sent :
       egreso' = [op \in Ops |-> IF op \in taken THEN OpTaken(op) ELSE egreso[op]]
  /\ opSel' = Marked(opSel, "reading", "unread")
  /\ pc' = "retenciones" /\ BatchOver
  /\ UNCHANGED <<rafam, deps, applied, opLink, retLink, opQueue, retQueue, retSel, missed>>

OpLinked(ops) ==
  [op \in Ops |-> IF op \in ops THEN [opLink[op] EXCEPT !.val = snap[op]] ELSE opLink[op]]

\* persist_links_orden_pago writes the links of the orders taken, not of those gone.
PersistOps ==
  /\ pc = "op-persist"
  /\ opLink' = OpLinked(Answered("ok"))
  /\ opUnlinked' = opUnlinked \ Answered("ok")
  /\ pc' = "op-record"
  /\ UNCHANGED <<rafam, deps, pax, retLink, opQueue, retQueue, opSel, retSel, batch,
                 forgotten, unseen, retUnlinked, faults>>

\* The link store fails after some of the links: the batch is a bad one, and its
\* outcomes are recorded all the same (the finally of write_batch).
PersistOpsFails ==
  /\ Fault
  /\ pc = "op-persist"
  /\ \E kept \in SUBSET Answered("ok") :
       /\ opLink' = OpLinked(kept)
       /\ opUnlinked' = (opUnlinked \ kept)
                          \cup {op \in Answered("ok") \ kept : opLink[op].val = 0}
  /\ opSel' = Marked(opSel, "reading", "unread")
  /\ pc' = "op-record"
  /\ UNCHANGED <<rafam, deps, pax, retLink, opQueue, retQueue, retSel, batch,
                 forgotten, unseen, retUnlinked>>

Recorded(entry, answer) ==
  CASE answer \in {"ok", "gone"} -> Removed(entry)
    [] answer = "rejected"       -> Enqueued(entry, "backend_rejected")
    [] answer = "dependency"     -> Enqueued(entry, "dependency_missing")
    [] OTHER                     -> entry

\* The answers _record_batch_outcomes writes down as they are.
Recordable == {"ok", "gone", "rejected", "dependency"}

\* A variant that counts a batch with an error it could not record as good.
AllRecordedAlways == TRUE

\* An error that names no row makes the batch a bad one.
AllRecorded == \A op \in Ops : out[op] # "untracked"

AllWritten == \A op \in Ops : out[op] \in {"none", "untracked", "recorded"}

\* _record_batch_outcomes, one answer and one commit after the other.
RecordOp(op) ==
  /\ pc = "op-record" /\ out[op] \in Recordable
  /\ opQueue' = [opQueue EXCEPT ![op] = Recorded(@, out[op])]
  /\ out' = [out EXCEPT ![op] = "recorded"]
  /\ UNCHANGED <<rafam, deps, pax, opLink, retLink, retQueue, opSel, retSel, pc, snap, sent,
                 mapped, missed, faults>>

EndOps ==
  /\ pc = "op-record" /\ AllWritten
  /\ opSel' = Marked(opSel, "reading", IF AllRecorded THEN "read" ELSE "unread")
  /\ pc' = "retenciones" /\ BatchOver
  /\ UNCHANGED <<rafam, deps, pax, opLink, retLink, opQueue, retQueue, retSel, missed, faults>>

\* The query fails, or the retry store does with some of the outcomes recorded: the
\* stage is given up, and the run goes on with the next one.
OpsStageFails ==
  /\ Fault
  /\ pc \in {"orden_pago", "op-record"}
  /\ opSel' = Marked(opSel, "reading", "unread")
  /\ pc' = "retenciones" /\ BatchOver
  /\ UNCHANGED <<rafam, deps, pax, opLink, retLink, opQueue, retQueue, retSel, missed>>

(***************************************************************************)
(* retenciones: the same orders, with a watermark of their own.            *)
(***************************************************************************)

RetRows == {op \in Ops : /\ val[op] # 0
                         /\ \/ retSel[op] # "no" /\ op \notin annulled
                            \/ retQueue[op].status = "pending"}

RetEligible == RetRows \ PermanentKeys(retQueue)

Payment(op) == opLink[op].val # 0

\* An order not migrated yet waits for it; one whose Egreso is gone is passed over.
RetWaits == {op \in RetEligible \cap deducted : ~Payment(op)}

\* The deductions of the others are mapped with the catalogue of Paxapos, which may
\* lack the type of all of them or of some: m is what it has.
RetMapped == {op \in RetEligible \cap deducted : Payment(op) /\ ~opLink[op].deleted}

RetUnmapped(m) == {op \in RetMapped : m[op] = "none"}

\* With no deductions, or sent before with the same ones: nothing is left to do.
RetDone(m) ==
  {op \in RetEligible : op \notin deducted}
    \cup {op \in RetMapped \ RetUnmapped(m) : retLink[op] = m[op]}

\* The deductions that did not map are left out of the payload, and logged.
RetSent(m) == {op \in RetMapped \ RetUnmapped(m) : retLink[op] # m[op]}

\* A variant that passes over the orders not migrated yet.
RetQueuedNotAtAll(op, m) ==
  IF op \in RetUnmapped(m) THEN Enqueued(retQueue[op], "dependency_missing")
  ELSE IF op \in RetDone(m) THEN Removed(retQueue[op])
  ELSE retQueue[op]

\* An order none of whose deductions can be mapped waits for the catalogue, even if
\* they were sent before.
RetQueued(op, m) ==
  IF op \in RetWaits \cup RetUnmapped(m) THEN Enqueued(retQueue[op], "dependency_missing")
  ELSE IF op \in RetDone(m) THEN Removed(retQueue[op])
  ELSE retQueue[op]

\* build_payload.
TakeRets ==
  /\ pc = "retenciones"
  /\ \E m \in [RetMapped -> Extents] :
       /\ IF \A op \in RetMapped : m[op] = "all" THEN UNCHANGED faults ELSE Fault
       /\ retQueue' = [op \in Ops |-> RetQueued(op, m)]
       /\ sent' = RetSent(m)
       /\ mapped' = [op \in Ops |-> IF op \in RetSent(m) THEN m[op] ELSE "none"]
  /\ snap' = val /\ out' = Unanswered
  /\ IF sent' = {} THEN retSel' = Marked(retSel, "unread", "read") /\ pc' = "idle"
     ELSE retSel' = Marked(retSel, "unread", "reading") /\ pc' = "ret-post"
  /\ UNCHANGED <<rafam, deps, pax, opLink, retLink, opQueue, opSel, missed>>

\* The retry store fails in the middle of it: the batch is a bad one.
TakeRetsFails ==
  /\ Fault
  /\ pc = "retenciones"
  /\ \E m \in [RetMapped -> Extents], done \in SUBSET RetEligible :
       retQueue' = [op \in Ops |-> IF op \in done THEN RetQueued(op, m) ELSE retQueue[op]]
  /\ pc' = "idle"
  /\ UNCHANGED <<rafam, deps, pax, opLink, retLink, opQueue, opSel, retSel, batch, missed>>

\* fetch_deducciones_for_ops answers None: the batch sends nothing and is good.
TakeRetsBlind ==
  /\ Blind /\ Fault
  /\ pc = "retenciones"
  /\ retSel' = Marked(retSel, "unread", "read")
  /\ unseen' = unseen \cup {op \in RetRows \cap deducted : retSel[op] = "unread"}
  /\ pc' = "idle"
  /\ UNCHANGED <<rafam, deps, pax, opLink, retLink, opQueue, retQueue, opSel, batch, forgotten,
                 unlinked>>

\* The retentions of an Egreso are those sent last.
Carried(ops) == [op \in Ops |-> IF op \in ops THEN mapped[op] ELSE applied[op]]

\* egreso_not_found is the answer for an Egreso that is gone.
AnswerRets ==
  /\ pc = "ret-post"
  /\ \E o \in [sent -> {"ok", "rejected", "dependency", "untracked"}] :
       /\ IF \E op \in sent : o[op] \in {"dependency", "untracked"} THEN Fault
          ELSE UNCHANGED faults
       /\ out' = [op \in Ops |-> IF op \notin sent THEN "none"
                                 ELSE IF egreso[op] = Gone THEN "notfound" ELSE o[op]]
       /\ applied' = Carried({op \in sent : o[op] = "ok" /\ egreso[op] # Gone})
  /\ pc' = "ret-persist"
  /\ UNCHANGED <<rafam, deps, egreso, local, snap, sent, mapped, missed>>

PostRetsFails ==
  /\ Fault
  /\ pc = "ret-post"
  /\ \E taken \in SUBSET {op \in sent : egreso[op] # Gone} : applied' = Carried(taken)
  /\ retSel' = Marked(retSel, "reading", "unread")
  /\ pc' = "idle" /\ BatchOver
  /\ UNCHANGED <<rafam, deps, egreso, opLink, retLink, opQueue, retQueue, opSel, missed>>

RetLinked(ops) == [op \in Ops |-> IF op \in ops THEN mapped[op] ELSE retLink[op]]

\* persist_links_retenciones.
PersistRets ==
  /\ pc = "ret-persist"
  /\ retLink' = RetLinked(Answered("ok"))
  /\ retUnlinked' = retUnlinked \ Answered("ok")
  /\ pc' = "ret-record"
  /\ UNCHANGED <<rafam, deps, pax, opLink, opQueue, retQueue, opSel, retSel, batch,
                 forgotten, unseen, opUnlinked, faults>>

PersistRetsFails ==
  /\ Fault
  /\ pc = "ret-persist"
  /\ \E kept \in SUBSET Answered("ok") :
       /\ retLink' = RetLinked(kept)
       /\ retUnlinked' = (retUnlinked \ kept)
                           \cup {op \in Answered("ok") \ kept : retLink[op] = "none"}
  /\ retSel' = Marked(retSel, "reading", "unread")
  /\ pc' = "ret-record"
  /\ UNCHANGED <<rafam, deps, pax, opLink, opQueue, retQueue, opSel, batch,
                 forgotten, unseen, opUnlinked>>

RecordRet(op) ==
  /\ pc = "ret-record" /\ out[op] \in Recordable
  /\ retQueue' = [retQueue EXCEPT ![op] = Recorded(@, out[op])]
  /\ out' = [out EXCEPT ![op] = "recorded"]
  /\ UNCHANGED <<rafam, deps, pax, opLink, retLink, opQueue, opSel, retSel, pc, snap, sent,
                 mapped, missed, faults>>

\* _on_backend_dependency_missing: three commits for an Egreso that is gone.  The
\* retention is queued, the link of the order is marked, and the retention is left
\* to the operator.
QueueLost(op) ==
  /\ pc = "ret-record" /\ out[op] = "notfound"
  /\ retQueue' = [retQueue EXCEPT ![op] = Enqueued(@, "dependency_missing")]
  /\ out' = [out EXCEPT ![op] = "queued"]
  /\ UNCHANGED <<rafam, deps, pax, opLink, retLink, opQueue, opSel, retSel, pc, snap, sent,
                 mapped, missed, faults>>

MarkLost(op) ==
  /\ pc = "ret-record" /\ out[op] = "queued"
  /\ opLink' = [opLink EXCEPT ![op].deleted = TRUE]
  /\ out' = [out EXCEPT ![op] = "marked"]
  /\ UNCHANGED <<rafam, deps, pax, retLink, opQueue, retQueue, opSel, retSel, pc, snap, sent,
                 mapped, missed, faults>>

GiveUpLost(op) ==
  /\ pc = "ret-record" /\ out[op] = "marked"
  /\ retQueue' = [retQueue EXCEPT ![op] = MarkedPermanent(@)]
  /\ out' = [out EXCEPT ![op] = "recorded"]
  /\ UNCHANGED <<rafam, deps, pax, opLink, retLink, opQueue, opSel, retSel, pc, snap, sent,
                 mapped, missed, faults>>

EndRets ==
  /\ pc = "ret-record" /\ AllWritten
  /\ retSel' = Marked(retSel, "reading", IF AllRecorded THEN "read" ELSE "unread")
  /\ pc' = "idle" /\ BatchOver
  /\ UNCHANGED <<rafam, deps, pax, opLink, retLink, opQueue, retQueue, opSel, missed, faults>>

\* The process dies, or the stage of retenciones is given up: the watermarks are
\* where the last good batch left them.
Crash ==
  /\ Fault
  /\ pc # "idle"
  /\ opSel' = Marked(opSel, "reading", "unread")
  /\ retSel' = Marked(retSel, "reading", "unread")
  /\ pc' = "idle" /\ BatchOver
  /\ UNCHANGED <<rafam, deps, pax, opLink, retLink, opQueue, retQueue, missed>>

(***************************************************************************)
(* The specification.                                                      *)
(***************************************************************************)

\* A supplier may have a link already, be new, or be behind the watermark of
\* proveedores with no link.
Init ==
  /\ val = [op \in Ops |-> 0] /\ annulled = {} /\ deducted = {}
  /\ backed \in SUBSET Ops
  /\ supplier \in [Ops -> {"linked", "fresh", "stale"}] /\ ordered = {}
  /\ egreso = [op \in Ops |-> 0] /\ applied = Nothing
  /\ opLink = [op \in Ops |-> NoLink] /\ retLink = Nothing
  /\ opQueue = [op \in Ops |-> NoEntry] /\ retQueue = [op \in Ops |-> NoEntry]
  /\ opSel = [op \in Ops |-> "no"] /\ retSel = [op \in Ops |-> "no"]
  /\ pc = "idle" /\ snap = [op \in Ops |-> 0] /\ sent = {} /\ out = Unanswered
  /\ mapped = Nothing
  /\ forgotten = {} /\ unseen = {} /\ opUnlinked = {} /\ retUnlinked = {} /\ faults = 0

Environment ==
  \/ \E op \in Ops : \/ Confirm(op) \/ Edit(op) \/ Annul(op)
                     \/ OpAges(op) \/ RetAges(op) \/ RemoteDelete(op)
  \/ RequeuePermanent

RunStep ==
  \/ StartRun \/ SuppliersStage \/ OrdersStage
  \/ TakeOps \/ AnswerOps \/ PersistOps \/ EndOps
  \/ TakeRets \/ AnswerRets \/ PersistRets \/ EndRets
  \/ \E op \in Ops : RecordOp(op) \/ RecordRet(op) \/ QueueLost(op) \/ MarkLost(op) \/ GiveUpLost(op)

RunFault ==
  \/ PostOpsFails \/ PersistOpsFails \/ OpsStageFails
  \/ TakeRetsFails \/ TakeRetsBlind \/ PostRetsFails \/ PersistRetsFails \/ Crash

Next == Environment \/ RunStep \/ RunFault

\* cron starts run after run, and a run goes on to its end unless it dies.
Spec == Init /\ [][Next]_vars /\ WF_vars(RunStep)

(***************************************************************************)
(* What must hold.                                                         *)
(***************************************************************************)

Selections == {"no", "unread", "reading", "read"}

Answers == {"none", "ok", "gone", "notfound", "rejected", "dependency", "untracked",
            "queued", "marked", "recorded"}

TypeOK ==
  /\ val \in [Ops -> 0..MaxVal] /\ annulled \subseteq Ops /\ deducted \subseteq Ops
  /\ backed \subseteq Ops
  /\ supplier \in [Ops -> {"linked", "asked", "fresh", "stale"}] /\ ordered \subseteq Ops
  /\ egreso \in [Ops -> 0..Gone] /\ applied \in [Ops -> Extents]
  /\ opLink \in [Ops -> [val : 0..MaxVal, deleted : BOOLEAN]] /\ retLink \in [Ops -> Extents]
  /\ opQueue \in [Ops -> Entry] /\ retQueue \in [Ops -> Entry]
  /\ opSel \in [Ops -> Selections] /\ retSel \in [Ops -> Selections]
  /\ pc \in {"idle", "proveedores", "oc_items", "orden_pago", "op-post", "op-persist",
             "op-record", "retenciones", "ret-post", "ret-persist", "ret-record"}
  /\ snap \in [Ops -> 0..MaxVal] /\ sent \subseteq Ops
  /\ out \in [Ops -> Answers] /\ mapped \in [Ops -> Extents]
  /\ forgotten \subseteq Ops /\ unseen \subseteq Ops
  /\ opUnlinked \subseteq Ops /\ retUnlinked \subseteq Ops /\ faults \in 0..MaxFaults

\* A stage whose payload is empty sends nothing, and only an order selected for
\* its deductions or its payment is in one.
BatchKnown ==
  /\ pc \notin {"op-post", "op-persist", "op-record", "ret-post", "ret-persist", "ret-record"}
       => sent = {}
  /\ pc \notin {"op-persist", "op-record", "ret-persist", "ret-record"} => out = Unanswered
  /\ \A op \in Ops :
       /\ out[op] # "none" => op \in sent
       /\ opSel[op] = "reading" => pc \in {"op-post", "op-persist", "op-record"}
       /\ retSel[op] = "reading" => pc \in {"ret-post", "ret-persist", "ret-record"}
       /\ snap[op] <= val[op] /\ (op \in sent => snap[op] # 0)

OpTakenCareOf(op) ==
  \/ opLink[op].val # 0 \/ opQueue[op].status # "absent" \/ op \in forgotten
  \/ op \in opUnlinked

RetTakenCareOf(op) ==
  \/ retLink[op] # "none" \/ retQueue[op].status # "absent" \/ op \in unseen
  \/ opLink[op].deleted \/ op \in retUnlinked

\* What the answers of orden_pago are worth until they are written down.
OpAnswersKnown ==
  \A op \in sent :
    /\ pc \in {"op-post", "op-persist", "op-record"} => opLink[op].val <= snap[op]
    /\ pc = "op-persist" =>
         /\ out[op] \in Recordable \cup {"untracked"}
         /\ out[op] = "ok" => snap[op] <= egreso[op]
    /\ pc \in {"op-persist", "op-record"} /\ out[op] = "gone" => opLink[op].val # 0
    /\ pc = "op-record" =>
         /\ out[op] \in Recordable \cup {"untracked", "recorded"}
         /\ out[op] = "ok" => opLink[op].val # 0 \/ op \in opUnlinked
         /\ out[op] = "recorded" => OpTakenCareOf(op)

\* And those of retenciones.
RetAnswersKnown ==
  \A op \in sent :
    /\ pc \in {"ret-post", "ret-persist", "ret-record"} =>
         op \in deducted /\ opLink[op].val # 0 /\ mapped[op] # "none"
    /\ pc \in {"ret-persist", "ret-record"} =>
         /\ out[op] \notin {"none", "gone"}
         /\ out[op] \in {"notfound", "queued", "marked"} => egreso[op] = Gone
    /\ pc = "ret-persist" =>
         /\ out[op] \notin {"queued", "marked", "recorded"}
         /\ out[op] = "ok" => applied[op] # "none" \/ egreso[op] = Gone
    /\ pc = "ret-record" =>
         /\ out[op] = "ok" => retLink[op] # "none" \/ op \in retUnlinked
         /\ out[op] = "queued" => retQueue[op].status # "absent"
         /\ out[op] = "marked" => opLink[op].deleted
         /\ out[op] = "recorded" => RetTakenCareOf(op)

\* An order a good batch has taken, or this one does not send, is linked, queued,
\* forgotten or unlinked.
PaymentsKept ==
  \A op \in Confirmed :
    \/ OpTakenCareOf(op) \/ opSel[op] = "unread"
    \/ opSel[op] = "reading" /\ op \in sent

RetentionsKept ==
  \A op \in Confirmed \cap deducted :
    \/ RetTakenCareOf(op) \/ retSel[op] = "unread"
    \/ retSel[op] = "reading" /\ op \in sent

\* Deductions and selections come with the confirmation.
ConfirmedFirst ==
  \A op \in Ops :
    val[op] = 0 => op \notin deducted /\ op \notin annulled
                     /\ opLink[op].val = 0 /\ egreso[op] = 0

\* What entity_links says was sent, Paxapos took: a link remembers no version
\* later than that of the Egreso, and retentions are on record for a payment
\* only.
LinksAreTrue ==
  \A op \in Ops :
    /\ opLink[op].val <= egreso[op] /\ opLink[op].val <= val[op]
    /\ retLink[op] # "none" => opLink[op].val # 0 /\ (applied[op] # "none" \/ egreso[op] = Gone)
    /\ opLink[op].deleted => egreso[op] = Gone /\ opLink[op].val # 0

\* What could not be linked is in Paxapos.
UnlinkedAreTaken ==
  /\ \A op \in opUnlinked : egreso[op] # 0
  /\ \A op \in retUnlinked : opLink[op].val # 0 /\ (applied[op] # "none" \/ egreso[op] = Gone)

\* The inductive invariant of the proofs.
IInv ==
  /\ TypeOK /\ BatchKnown /\ OpAnswersKnown /\ RetAnswersKnown /\ PaymentsKept
  /\ RetentionsKept /\ ConfirmedFirst /\ LinksAreTrue /\ UnlinkedAreTaken

\* A confirmed order that has no link is still selected by its date or is on
\* record in the queue, whichever stage it waits for and wherever a run died,
\* unless the failure of the queue was swallowed.  Where the link store failed,
\* Paxapos has the payment.  orden_pago.py:74-128, exporter.py:632-646.
PaymentsOwedComeBack ==
  \A op \in Confirmed \ forgotten :
    \/ opLink[op].val # 0 \/ opSel[op] # "no" \/ opQueue[op].status # "absent"
    \/ op \in opUnlinked /\ egreso[op] # 0

\* The same for the deductions of an order, the order's own stage included: its
\* retentions are waited for until it has been migrated.  Those the catalogue lacks
\* are not: one deduction sent is enough.  retenciones.py:116-197, exporter.py:982.
RetentionsOwedComeBack ==
  \A op \in (Confirmed \cap deducted) \ unseen :
    \/ retLink[op] # "none" \/ retSel[op] # "no" \/ retQueue[op].status # "absent"
    \/ opLink[op].deleted
    \/ op \in retUnlinked /\ (applied[op] # "none" \/ egreso[op] = Gone)

\* What keeps an order from being sent: it was annulled, the queue lost it or gave it
\* up, nobody asks for the supplier of its purchase order, or it has none and those
\* are not sent.
Stuck(op) ==
  \/ op \in annulled \/ op \in forgotten \/ opQueue[op].status = "permanent"
  \/ IF op \in backed THEN supplier[op] = "stale" ELSE ~SinOC

\* An order confirmed reaches Paxapos, unless it is stuck.  A direct expense does
\* though its supplier has long been behind the watermark of its own stage.
\* orden_pago.py:108-128, 572-587.
PaymentsArrive ==
  \A op \in Ops : op \in Confirmed ~> egreso[op] # 0 \/ Stuck(op)

\* Sent in part, and nothing selects the order for the rest, or the fingerprint on
\* record is that of all of them, which were there once.
LeftInPart(op) ==
  /\ applied[op] = "part" /\ retQueue[op].status = "absent"
  /\ retSel[op] = "no" \/ retLink[op] = "all"

\* Its payment has no link and nothing selects it: the retentions wait for ever.
LeftUnlinked(op) == op \in opUnlinked /\ opSel[op] = "no" /\ opQueue[op].status = "absent"

\* And its retentions after it, all of them, unless some are left behind.
\* retenciones.py:116-197.
RetentionsArrive ==
  \A op \in Ops : op \in Confirmed \cap deducted ~>
    applied[op] = "all" \/ egreso[op] = Gone \/ Stuck(op) \/ op \in unseen
      \/ retQueue[op].status = "permanent" \/ LeftInPart(op) \/ LeftUnlinked(op)
=============================================================================
