----------------------------- MODULE SyncEntity -----------------------------
(***************************************************************************)
(* The incremental sync of one entity: main.py::_sync_entity with the      *)
(* SyncEngine watermark, the retry queue, the entity links and the hash    *)
(* skip, as they work together for `proveedores`, the entity that uses all *)
(* of them.                                                                *)
(*                                                                         *)
(* RAFAM (an Oracle table the program only reads) is srcTs and srcVal;     *)
(* Paxapos (an HTTP service) is remote.  Three local SQLite tables survive *)
(* a crash: sync_checkpoints (cpTs, cpStatus), retry_queue (queue) and     *)
(* entity_links (link).  Each is committed on its own, row by row.  All    *)
(* the rest is the memory of the running process and is lost in a crash.   *)
(*                                                                         *)
(* A row's content is a version number: what the mapper hashes and sends.  *)
(* A timestamp is FECHA_ULT_COMP, 0 standing for NULL.                     *)
(***************************************************************************)
EXTENDS Naturals, FiniteSets, RetryStore

CONSTANTS
  Keys,            \* COD_PROV values, ordered as the primary key orders them
  MaxTs,           \* bound: last timestamp RAFAM hands out
  MaxVal,          \* bound: last version of a row
  MaxFaults,       \* bound: crashes, failures and manual interventions
  BatchSize,       \* --batch-size
  InfraAbortAfter, \* RAFAM_INFRA_ABORT_AFTER
  RequeueMax,      \* SourceRepository._RETRY_REQUEUE_MAX
  NullRows,        \* rows that exist at the start and never had a purchase
  Invalid,         \* rows map_proveedor_migrator_row cannot map
  Excluded,        \* rows on the COD_PROV blocklist
  Reverts,         \* may an edit bring back an earlier content?
  ResetExclusive   \* does the operator reset only while no run is going on?

ASSUME KeysAssumption == Keys \subseteq Nat /\ IsFiniteSet(Keys)

ASSUME BoundsAssumption ==
  /\ MaxTs \in Nat /\ MaxFaults \in Nat /\ RequeueMax \in Nat
  /\ MaxVal \in Nat \ {0} /\ BatchSize \in Nat \ {0} /\ InfraAbortAfter \in Nat \ {0}

ASSUME RowsAssumption ==
  /\ NullRows \subseteq Keys /\ Invalid \subseteq Keys /\ Excluded \subseteq Keys
  /\ Reverts \in BOOLEAN /\ ResetExclusive \in BOOLEAN

VARIABLES
  srcTs, srcVal,   \* RAFAM: timestamp and content of each row, content 0 = no row
  now,             \* RAFAM: the latest timestamp used
  remote,          \* Paxapos: content held, 0 = never created, Gone = deleted by hand
  cpTs, cpStatus,  \* sync_checkpoints: the watermark (0 = none) and the status
  queue,           \* retry_queue
  link,            \* entity_links: content acknowledged last, 0 = no link
  pc,              \* the run: idle, loop, post, persist, record
  snapTs, snapVal, \* the run: what the source query read
  rest,            \* the run: selected rows not fetched yet
  batch, sent,     \* the run: rows of the batch, rows of its payload
  out, todo,       \* the run: outcome of each row sent, rows still to be written
  verdict,         \* the run: how write_batch ends, ok, fail or infra
  failed,          \* the run: rows of failed batches, kept until the next run
  infra,           \* the run: infra_streak
  errored,         \* the run: something else makes the entity end in error
  lastTs,          \* the run: last_ts, the greatest timestamp fetched
  resetStep,       \* cmd_reset: what it clears next
  waived,          \* rows whose retry the operator dismissed
  faults           \* how many faults have happened

source == <<srcTs, srcVal, now>>
cp     == <<cpTs, cpStatus>>
inRun  == <<snapTs, snapVal, rest, batch, sent, out, todo, verdict, failed, infra,
            errored, lastTs>>
vars   == <<source, remote, cp, queue, link, pc, inRun, resetStep, waived, faults>>

Gone == MaxVal + 1

Unmapped == Invalid \cup Excluded
Tracked  == Keys \ Unmapped

RowOutcomes == {"ok", "gone", "rejected", "dependency", "systemic", "untracked"}

\* A variant that takes a deferred row for a migrated one.
DeferredIsSuccess == {"ok", "gone", "dependency"}

Successes == {"ok", "gone"}

\* classify_backend_error: the reason a failed row is queued for.
ReasonOf(outcome) ==
  CASE outcome = "dependency" -> "dependency_missing"
    [] outcome = "systemic"   -> "backend_unavailable"
    [] OTHER                  -> "backend_rejected"

Larger(a, b) == IF a > b THEN a ELSE b

(***************************************************************************)
(* What the source query selects and in which order it is read.            *)
(***************************************************************************)

\* _proveedores_retry_filter: all the pending keys, or the lowest RequeueMax.
Reinjected(pending) ==
  {k \in pending : Cardinality({j \in pending : j < k}) < RequeueMax}

\* A variant that compares with > where the source compares with >=.
SelectedAfter(reinjected) ==
  {k \in Keys : srcVal[k] # 0 /\ (cpTs = 0 \/ srcTs[k] > cpTs \/ k \in reinjected)}

\* _apply_incremental_filters: with no watermark the whole table, otherwise
\* the rows at or after the watermark plus the reinjected ones.  A row whose
\* timestamp is NULL never satisfies the comparison.
Selected(reinjected) ==
  {k \in Keys : /\ srcVal[k] # 0
                /\ \/ cpTs = 0
                   \/ srcTs[k] # 0 /\ srcTs[k] >= cpTs
                   \/ k \in reinjected}

\* A variant that reads in the order of the primary key alone.
BeforeByKey(a, b) == a < b

\* ORDER BY ts, pk with NULLs last.
Before(a, b) ==
  \/ snapTs[a] # 0 /\ snapTs[b] = 0
  \/ snapTs[a] # 0 /\ snapTs[a] < snapTs[b]
  \/ snapTs[a] = snapTs[b] /\ a < b

\* fetchmany(batch_size).
IsNextBatch(b) ==
  /\ b # {}
  /\ b \subseteq rest
  /\ Cardinality(b) <= BatchSize
  /\ b # rest => Cardinality(b) = BatchSize
  /\ \A a \in b, c \in rest \ b : Before(a, c)

\* extract_cursor_values: the greatest non-NULL timestamp, none if all are NULL.
IsLatest(j, b) == j \in b /\ \A k \in b : snapTs[k] <= snapTs[j]

(***************************************************************************)
(* RAFAM, Paxapos and the operator.                                        *)
(***************************************************************************)

\* A purchase from a supplier, which may come with new data on it, or a new row.
\* The timestamp may repeat the latest one.
Touch(k) ==
  /\ now' \in {now, now + 1} /\ now' \in 1..MaxTs
  /\ srcTs' = [srcTs EXCEPT ![k] = now']
  /\ \E v \in 1..MaxVal :
       /\ v \in {srcVal[k], srcVal[k] + 1} \/ Reverts
       /\ srcVal' = [srcVal EXCEPT ![k] = v]
       /\ <<now', v>> # <<srcTs[k], srcVal[k]>>
  /\ waived' = waived \ {k}
  /\ UNCHANGED <<remote, cp, queue, link, pc, inRun, resetStep, faults>>

Fault == faults < MaxFaults /\ faults' = faults + 1

\* Somebody deletes the supplier in the Paxapos UI.
RemoteDelete(k) ==
  /\ Fault
  /\ remote[k] \notin {0, Gone}
  /\ remote' = [remote EXCEPT ![k] = Gone]
  /\ UNCHANGED <<source, cp, queue, link, pc, inRun, resetStep, waived>>

\* The orden_pago stage of the pipeline meets an OP whose supplier has no link
\* and asks for that supplier (_enqueue_missing_proveedores).
OpNeedsProvider(k) ==
  /\ pc = "idle" /\ (ResetExclusive => resetStep = "none")
  /\ srcVal[k] # 0 /\ k \notin Excluded
  /\ link[k] = 0
  /\ queue' = [queue EXCEPT ![k] = Enqueued(@, "dependency_missing")]
  /\ UNCHANGED <<source, remote, cp, link, pc, inRun, resetStep, waived, faults>>

\* retry-queue --requeue, of every permanent row or of the one given.  No lock.
Requeue(keys) ==
  /\ keys # {}
  /\ queue' = [k \in Keys |-> IF k \in keys THEN Requeued(queue[k]) ELSE queue[k]]
  /\ UNCHANGED <<source, remote, cp, link, pc, inRun, resetStep, waived, faults>>

RequeueAll    == Requeue(PermanentKeys(queue))
RequeueOne(k) == queue[k].status = "permanent" /\ Requeue({k})

\* retry-queue --dismiss.  No lock.
Dismiss(k) ==
  /\ Fault
  /\ queue[k].status # "absent"
  /\ queue' = [queue EXCEPT ![k] = Removed(@)]
  /\ waived' = waived \cup {k}
  /\ UNCHANGED <<source, remote, cp, link, pc, inRun, resetStep>>

\* cmd_reset takes no lock and commits three deletes, one after the other.
ResetCheckpoint ==
  /\ Fault
  /\ resetStep = "none" /\ (ResetExclusive => pc = "idle")
  /\ cpTs' = 0 /\ cpStatus' = "ok"
  /\ resetStep' = "links"
  /\ waived' = {}
  /\ UNCHANGED <<source, remote, queue, link, pc, inRun>>

ResetLinks ==
  /\ resetStep = "links"
  /\ link' = [k \in Keys |-> 0]
  /\ resetStep' = "queue"
  /\ UNCHANGED <<source, remote, cp, queue, pc, inRun, waived, faults>>

ResetQueue ==
  /\ resetStep = "queue"
  /\ queue' = [k \in Keys |-> Removed(queue[k])]
  /\ resetStep' = "none"
  /\ UNCHANGED <<source, remote, cp, link, pc, inRun, waived, faults>>

ResetCrash ==
  /\ Fault
  /\ resetStep # "none"
  /\ resetStep' = "none"
  /\ UNCHANGED <<source, remote, cp, queue, link, pc, inRun, waived>>

(***************************************************************************)
(* The run: _sync_entity up to the first batch.                            *)
(***************************************************************************)

Zero == [k \in Keys |-> 0]
Unsent == [k \in Keys |-> "none"]

\* The lock file keeps every other run out while pc is not idle.
Fetch(reinjected, blind) ==
  /\ pc = "idle" /\ (ResetExclusive => resetStep = "none")
  /\ snapTs' = srcTs /\ snapVal' = srcVal
  /\ rest' = Selected(reinjected)
  /\ failed' = {} /\ infra' = 0 /\ errored' = blind /\ lastTs' = 0
  /\ pc' = "loop"
  /\ UNCHANGED <<source, remote, cp, queue, link, batch, sent, out, todo, verdict,
                 resetStep, waived>>

StartRun == Fetch(Reinjected(PendingKeys(queue)), FALSE) /\ UNCHANGED faults

\* The retry queue cannot be read: nothing is reinjected, the entity ends in error.
StartRunBlind == Fetch({}, TRUE) /\ Fault

\* The source query fails before any batch.
FetchFails ==
  /\ Fault
  /\ pc = "idle" /\ (ResetExclusive => resetStep = "none")
  /\ cpStatus' = "error" /\ failed' = {}
  /\ UNCHANGED <<source, remote, cpTs, queue, link, pc, snapTs, snapVal, rest, batch,
                 sent, out, todo, verdict, infra, errored, lastTs, resetStep, waived>>

(***************************************************************************)
(* One batch: process_batch and, under it, the exporter's write_batch.     *)
(***************************************************************************)

\* The mapper drops what it cannot map and what has not changed since it was
\* acknowledged, unless the row is pending in the queue.
ToSend(b) ==
  {k \in b \ Unmapped : link[k] # snapVal[k] \/ queue[k].status = "pending"}

\* An empty payload is not posted, and the batch counts as good.
TakeBatch(b) ==
  /\ pc = "loop" /\ infra < InfraAbortAfter
  /\ IsNextBatch(b)
  /\ rest' = rest \ b /\ batch' = b /\ sent' = ToSend(b)
  /\ errored' = (errored \/ b \cap (Invalid \ Excluded) # {})
  /\ \E j \in b : IsLatest(j, b) /\ lastTs' = Larger(lastTs, snapTs[j])
  /\ pc' = IF ToSend(b) = {} THEN "record" ELSE "post"
  /\ verdict' = "ok"
  /\ UNCHANGED <<source, remote, cp, queue, link, snapTs, snapVal, out, todo, failed,
                 infra, resetStep, waived, faults>>

\* A row with a link carries the Paxapos id, and Paxapos does not recreate it.
DeletedThere(k) == remote[k] = Gone /\ link[k] # 0

\* A variant that links the rows of the answer without looking at `success`.
LinkWhateverAnswered(outcome) == sent

\* persist_links: the rows the answer reports as taken.
ToLink(outcome) == {k \in sent : outcome[k] = "ok"}

\* An answer with an outcome for every row sent.  Paxapos has taken the rows
\* it reports as ok.  Rows rejected for their data are not a fault of the
\* environment; the other failures are.
Respond ==
  /\ pc = "post"
  /\ \E o \in [sent -> RowOutcomes] :
       /\ \A k \in sent : /\ o[k] = "ok" => ~DeletedThere(k)
                          /\ o[k] = "gone" => DeletedThere(k)
       /\ IF \E k \in sent : o[k] \in {"dependency", "systemic", "untracked"}
            THEN Fault ELSE UNCHANGED faults
       /\ out' = [k \in Keys |-> IF k \in sent THEN o[k] ELSE "none"]
  /\ remote' = [k \in Keys |-> IF out'[k] = "ok" THEN snapVal[k] ELSE remote[k]]
  /\ verdict' = IF \E k \in sent : out'[k] = "systemic" THEN "infra"
                ELSE IF \E k \in sent : out'[k] = "untracked" THEN "fail" ELSE "ok"
  /\ errored' = (errored \/ \E k \in sent : out'[k] \notin Successes \cup {"dependency"})
  /\ todo' = ToLink(out')
  /\ pc' = "persist"
  /\ UNCHANGED <<source, cp, queue, link, snapTs, snapVal, rest, batch, sent, failed,
                 infra, lastTs, resetStep, waived>>

\* No usable answer: the circuit is open, every attempt failed, or the reply was
\* lost.  Paxapos may have taken any part of the payload.  Nothing is recorded.
PostFails ==
  /\ Fault
  /\ pc = "post"
  /\ \E taken \in SUBSET {k \in sent : ~DeletedThere(k)} :
       remote' = [k \in Keys |-> IF k \in taken THEN snapVal[k] ELSE remote[k]]
  /\ verdict' = "fail" /\ todo' = {} /\ pc' = "record"
  /\ UNCHANGED <<source, cp, queue, link, snapTs, snapVal, rest, batch, sent, out,
                 failed, infra, errored, lastTs, resetStep, waived>>

\* persist_links, one committed row at a time.
PersistLink(k) ==
  /\ pc = "persist" /\ k \in todo
  /\ link' = [link EXCEPT ![k] = snapVal[k]]
  /\ todo' = todo \ {k}
  /\ UNCHANGED <<source, remote, cp, queue, pc, snapTs, snapVal, rest, batch, sent, out,
                 verdict, failed, infra, errored, lastTs, resetStep, waived, faults>>

\* _record_batch_outcomes runs in a finally, over every row with a usable key.
ToRecord == {k \in sent : out[k] # "untracked"}

PersistDone ==
  /\ pc = "persist" /\ todo = {}
  /\ todo' = ToRecord /\ pc' = "record"
  /\ UNCHANGED <<source, remote, cp, queue, link, snapTs, snapVal, rest, batch, sent, out,
                 verdict, failed, infra, errored, lastTs, resetStep, waived, faults>>

\* The link store raises: the rows not written yet keep their old link.
PersistFails ==
  /\ Fault
  /\ pc = "persist" /\ todo # {}
  /\ todo' = ToRecord /\ pc' = "record" /\ verdict' = "fail"
  /\ UNCHANGED <<source, remote, cp, queue, link, snapTs, snapVal, rest, batch, sent, out,
                 failed, infra, errored, lastTs, resetStep, waived>>

\* First the results of the answer, then its errors.
RecordSuccess(k) ==
  /\ pc = "record" /\ k \in todo /\ out[k] \in Successes
  /\ queue' = [queue EXCEPT ![k] = Removed(@)]
  /\ todo' = todo \ {k}
  /\ UNCHANGED <<source, remote, cp, link, pc, snapTs, snapVal, rest, batch, sent, out,
                 verdict, failed, infra, errored, lastTs, resetStep, waived, faults>>

RecordError(k) ==
  /\ pc = "record" /\ k \in todo
  /\ \A j \in todo : out[j] \notin Successes
  /\ queue' = [queue EXCEPT ![k] = Enqueued(@, ReasonOf(out[k]))]
  /\ todo' = todo \ {k}
  /\ UNCHANGED <<source, remote, cp, link, pc, snapTs, snapVal, rest, batch, sent, out,
                 verdict, failed, infra, errored, lastTs, resetStep, waived, faults>>

\* The retry store raises, which replaces whatever write_batch was raising.
RecordFails ==
  /\ Fault
  /\ pc = "record" /\ todo # {}
  /\ todo' = {} /\ verdict' = "fail"
  /\ UNCHANGED <<source, remote, cp, queue, link, pc, snapTs, snapVal, rest, batch, sent,
                 out, failed, infra, errored, lastTs, resetStep, waived>>

BatchOver ==
  /\ pc = "record" /\ todo = {}
  /\ pc' = "loop" /\ batch' = {} /\ sent' = {} /\ out' = Unsent /\ verdict' = "ok"
  /\ UNCHANGED <<source, remote, queue, link, snapTs, snapVal, rest, todo, errored, lastTs, resetStep, waived>>

\* A variant that only logs the failure of a batch.
BatchFailedUncounted ==
  /\ BatchOver
  /\ verdict # "ok"
  /\ failed' = failed
  /\ infra' = IF verdict = "infra" THEN infra + 1 ELSE 0
  /\ UNCHANGED <<cp, faults>>

\* A failed batch freezes the watermark for the rest of the run.
BatchFailed ==
  /\ BatchOver
  /\ verdict # "ok"
  /\ failed' = failed \cup batch
  /\ infra' = IF verdict = "infra" THEN infra + 1 ELSE 0
  /\ UNCHANGED <<cp, faults>>

\* A variant that puts the watermark after the last row instead of on it.
AdvanceBeyond(ts) ==
  /\ cpTs' = Larger(cpTs, ts + 1)
  /\ cpStatus' = "running"

\* A variant without the monotonicity guard.
AdvanceUnguarded(ts) ==
  /\ cpTs' = ts
  /\ cpStatus' = "running"

\* advance_partial, when no batch failed and the batch has a cursor at all.
AdvanceTo(ts) ==
  /\ cpTs' = Larger(cpTs, ts)
  /\ cpStatus' = "running"

\* A variant that keeps advancing after a batch failed.
AdvancePastFailures ==
  /\ BatchOver
  /\ verdict = "ok"
  /\ infra' = 0
  /\ \E j \in batch :
       /\ IsLatest(j, batch)
       /\ IF snapTs[j] # 0 THEN AdvanceTo(snapTs[j]) ELSE UNCHANGED cp
  /\ UNCHANGED <<failed, faults>>

BatchGood ==
  /\ BatchOver
  /\ verdict = "ok"
  /\ infra' = 0
  /\ \E j \in batch :
       /\ IsLatest(j, batch)
       /\ IF failed = {} /\ snapTs[j] # 0 THEN AdvanceTo(snapTs[j]) ELSE UNCHANGED cp
  /\ UNCHANGED <<failed, faults>>

\* advance_partial fails, which is logged and forgotten.
BatchGoodUnsaved ==
  /\ BatchOver
  /\ Fault
  /\ verdict = "ok" /\ failed = {} /\ \E k \in batch : snapTs[k] # 0
  /\ infra' = 0
  /\ UNCHANGED <<cp, failed>>

(***************************************************************************)
(* The end of the run.                                                     *)
(***************************************************************************)

RunOver ==
  /\ pc = "loop" /\ (rest = {} \/ infra >= InfraAbortAfter)
  /\ pc' = "idle"
  /\ snapTs' = Zero /\ snapVal' = Zero /\ rest' = {}
  /\ failed' = failed \cup rest      \* what an abort left unread is owed too
  /\ infra' = 0 /\ errored' = FALSE /\ lastTs' = 0
  /\ UNCHANGED <<source, remote, queue, link, batch, sent, out, todo, verdict, resetStep,
                 waived, faults>>

\* mark_error keeps the cursor.
EndInError ==
  /\ RunOver
  /\ failed # {} \/ errored
  /\ cpStatus' = "error"
  /\ UNCHANGED cpTs

\* mark_success.
EndOk ==
  /\ RunOver
  /\ failed = {} /\ ~errored
  /\ cpStatus' = "ok"
  /\ cpTs' = Larger(cpTs, lastTs)

Abandon ==
  /\ Fault
  /\ pc' = "idle"
  /\ snapTs' = Zero /\ snapVal' = Zero /\ rest' = {} /\ batch' = {} /\ sent' = {}
  /\ out' = Unsent /\ todo' = {} /\ verdict' = "ok"
  /\ infra' = 0 /\ errored' = FALSE /\ lastTs' = 0
  /\ UNCHANGED <<source, remote, cpTs, queue, link, resetStep, waived>>

\* fetchmany raises: the outer handler marks the error.
SourceLost ==
  /\ pc = "loop"
  /\ Abandon
  /\ cpStatus' = "error"
  /\ failed' = failed \cup rest

\* The process dies: what is committed stays, the lock is released.
Crash ==
  /\ pc # "idle"
  /\ Abandon
  /\ failed' = {}
  /\ UNCHANGED cpStatus

(***************************************************************************)
(* The specification.                                                      *)
(***************************************************************************)

Init ==
  /\ srcVal = [k \in Keys |-> IF k \in NullRows THEN 1 ELSE 0]
  /\ srcTs = Zero /\ now = 0
  /\ remote = Zero
  /\ cpTs = 0 /\ cpStatus = "ok"
  /\ queue = [k \in Keys |-> NoEntry]
  /\ link = Zero
  /\ pc = "idle"
  /\ snapTs = Zero /\ snapVal = Zero
  /\ rest = {} /\ batch = {} /\ sent = {} /\ out = Unsent /\ todo = {}
  /\ verdict = "ok" /\ failed = {} /\ infra = 0 /\ errored = FALSE /\ lastTs = 0
  /\ resetStep = "none" /\ waived = {} /\ faults = 0

Environment ==
  \/ \E k \in Keys : Touch(k) \/ RemoteDelete(k)

Operator ==
  \/ RequeueAll
  \/ \E k \in Keys : RequeueOne(k) \/ Dismiss(k)
  \/ ResetCheckpoint \/ ResetCrash

ResetRest == ResetLinks \/ ResetQueue

BatchStep ==
  \/ \E b \in SUBSET rest : TakeBatch(b)
  \/ Respond
  \/ \E k \in Keys : PersistLink(k) \/ RecordSuccess(k) \/ RecordError(k)
  \/ PersistDone \/ BatchGood \/ BatchFailed

BatchFault ==
  \/ PostFails \/ PersistFails \/ RecordFails \/ BatchGoodUnsaved

RunStep == StartRun \/ BatchStep \/ EndInError \/ EndOk

RunFault == StartRunBlind \/ FetchFails \/ BatchFault \/ SourceLost \/ Crash

Next ==
  \/ Environment
  \/ \E k \in Keys : OpNeedsProvider(k)
  \/ Operator \/ ResetRest
  \/ RunStep \/ RunFault

Spec == Init /\ [][Next]_vars

\* cron starts the run again and again and a run in progress goes on; a reset
\* that has begun goes on too.  Faults are finitely many (MaxFaults), so what
\* is asked of the backend is only that it answers in the end.
LiveSpec == Spec /\ WF_vars(RunStep) /\ WF_vars(ResetRest)

(***************************************************************************)
(* Properties.                                                             *)
(***************************************************************************)

\* Each variable has its type, and the bounds hold.
TypeOK ==
  /\ now \in 0..MaxTs
  /\ srcTs \in [Keys -> 0..MaxTs] /\ srcVal \in [Keys -> 0..MaxVal]
  /\ remote \in [Keys -> 0..Gone]
  /\ cpTs \in 0..MaxTs /\ cpStatus \in {"ok", "running", "error"}
  /\ queue \in [Keys -> Entry]
  /\ link \in [Keys -> 0..MaxVal]
  /\ pc \in {"idle", "loop", "post", "persist", "record"}
  /\ snapTs \in [Keys -> 0..MaxTs] /\ snapVal \in [Keys -> 0..MaxVal]
  /\ rest \subseteq Keys /\ batch \subseteq Keys /\ failed \subseteq Keys
  /\ sent \subseteq Keys /\ todo \subseteq Keys
  /\ out \in [Keys -> RowOutcomes \cup {"none"}]
  /\ verdict \in {"ok", "fail", "infra"}
  /\ infra \in Nat
  /\ errored \in BOOLEAN
  /\ lastTs \in 0..MaxTs
  /\ resetStep \in {"none", "links", "queue"}
  /\ waived \subseteq Keys
  /\ faults \in 0..MaxFaults

\* Paxapos has what RAFAM has, or somebody deleted the row there by hand.
Delivered(k) == remote[k] \in {srcVal[k], Gone}

\* Delivered, on record in the queue, or given up by the operator.
Settled(k) == Delivered(k) \/ queue[k].status # "absent" \/ k \in waived

\* The checkpoint invariant of the README: the watermark never moves past a row
\* that is neither confirmed by Paxapos nor registered in the retry queue.
\* Rows nobody can map are left out: the watermark passes them.
NoRowLost ==
  \A k \in Tracked : 0 < srcTs[k] /\ srcTs[k] < cpTs => Settled(k)

\* A row left out of the payload as unchanged is one whose content Paxapos holds:
\* the local hash never claims more than was acknowledged.
SkipIsSafe ==
  \A k \in (batch \cap Tracked) \ sent : remote[k] \in {snapVal[k], Gone}

\* The row is settled already or the next run selects it.
ComesBack(k) == Settled(k) \/ k \in Selected(Reinjected(PendingKeys(queue)))

\* Rows of failed batches, and rows an abort left unread, come back: cutting a run
\* short loses nothing, as main.py::_infra_abort_after says.  Here for the rows
\* that have a timestamp.
OwedRowsComeBack ==
  pc = "idle" => \A k \in failed \cap Tracked : srcTs[k] # 0 => ComesBack(k)

\* A run that ends ok leaves no row of its snapshot unsettled: what it did not
\* select it did not owe, and what it selected it delivered or queued.
OkMeansComplete ==
  [][EndOk => \A k \in Tracked :
                srcTs[k] # 0 /\ srcTs[k] = snapTs[k] /\ srcVal[k] = snapVal[k]
                  => Settled(k)]_vars

\* Only a reset takes the watermark back: an old row reinjected from the queue
\* never rewinds it (SyncEngine.mark_success, advance_partial).
WatermarkMonotone ==
  [][cpTs' < cpTs => ResetCheckpoint]_vars

\* A row leaves the queue when Paxapos has the content that was sent, when it is
\* gone from Paxapos, when the operator dismisses it or when a reset clears all.
QueueDrainsHonestly ==
  [][\A k \in Keys :
       queue[k].status # "absent" /\ queue'[k].status = "absent" =>
         \/ remote[k] \in {snapVal[k], Gone}
         \/ Dismiss(k)
         \/ ResetQueue]_vars

\* Every purchase reaches Paxapos, or ends where an operator can see it.
EverythingSettles ==
  \A k \in Tracked :
    srcTs[k] # 0 ~> Delivered(k) \/ queue[k].status = "permanent" \/ k \in waived

(***************************************************************************)
(* The abstract specification.  A row nobody can map is promised nothing.  *)
(***************************************************************************)

Acknowledged == {k \in Keys : link[k] # 0}
Safe == {k \in Keys : k \in Unmapped \/ Settled(k)}

D == INSTANCE Delivery WITH
       stamp <- srcTs, content <- srcVal, held <- remote,
       known <- Acknowledged, mark <- cpTs, safe <- Safe

\* The sync of an entity, with its batches, failures, crashes, resets and retries,
\* is a Delivery: the copy in Paxapos only moves forward, a supplier deleted there
\* by hand is not created again while its link lasts, nothing is acknowledged that
\* Paxapos does not have, and the watermark never leaves an unaccounted row behind.
IsDelivery == D!Spec

(***************************************************************************)
(* The inductive invariant behind NoRowLost, for an operator who resets    *)
(* with no run going on and contents that never come back.                 *)
(***************************************************************************)

\* The row is as the query of the run read it.
AsRead(k) == srcTs[k] = snapTs[k] /\ srcVal[k] = snapVal[k]

\* No timestamp is ahead of the clock of RAFAM.
ClockInv ==
  /\ \A k \in Keys : srcTs[k] <= now /\ snapTs[k] <= now
  /\ cpTs <= now /\ lastTs <= now

\* The phases of a run: what is empty when.
PhaseInv ==
  /\ sent \subseteq batch \ Unmapped /\ todo \subseteq sent
  /\ pc \in {"idle", "loop"} => batch = {}
  /\ pc \in {"idle", "loop", "post"} => todo = {} /\ \A k \in Keys : out[k] = "none"
  /\ \A k \in Keys \ sent : out[k] = "none"
  /\ pc = "idle" => rest = {} /\ lastTs = 0
  /\ pc = "persist" => /\ \A k \in todo : out[k] = "ok"
                       /\ verdict = "ok" => \A k \in sent : out[k] # "untracked"
  /\ \A k \in batch : k \notin rest

\* A reset leaves no watermark behind and no run starts before it is over.
ResetInv == resetStep # "none" => pc = "idle" /\ cpTs = 0

\* What changed after the query is not behind anything the run may save.
SnapshotInv ==
  pc # "idle" =>
    \A k \in Keys :
      /\ snapVal[k] <= srcVal[k] /\ snapTs[k] <= srcTs[k]
      /\ ~AsRead(k) => /\ cpTs <= srcTs[k] /\ lastTs <= srcTs[k]
                       /\ \A j \in Keys : snapTs[j] <= srcTs[k]

\* The link never claims more than Paxapos took, nor Paxapos more than was read.
CopyInv ==
  \A k \in Keys :
    /\ link[k] <= remote[k]
    /\ remote[k] # Gone => /\ remote[k] <= srcVal[k]
                           /\ pc # "idle" => remote[k] <= snapVal[k]

\* The batch comes before everything not fetched yet.
OrderInv == \A a \in batch, b \in rest : Before(a, b)

\* Until a batch fails, the rows done with are settled, unless they changed since.
DoneInv ==
  pc # "idle" /\ failed = {} =>
    \A k \in Tracked \ (rest \cup batch) : AsRead(k) /\ snapTs[k] # 0 => Settled(k)

\* So are the rows of a good batch, once they are recorded.
BatchInv ==
  \A k \in batch \cap Tracked :
    /\ k \notin sent \/ out[k] \in Successes => remote[k] \in {snapVal[k], Gone}
    /\ pc = "record" /\ verdict = "ok" /\ k \in sent \ todo =>
         out[k] \in Successes \/ ~AsRead(k) \/ Settled(k)

\* A streak of infrastructure failures leaves failed rows behind, so a run that
\* is cut short never ends ok.
AbortInv ==
  /\ pc \in {"post", "persist", "record"} => batch # {}
  /\ pc = "idle" => infra = 0
  /\ infra # 0 => failed # {}

\* The parts that speak of more than one phase of the run.
StepInv ==
  /\ ClockInv /\ PhaseInv /\ ResetInv /\ SnapshotInv /\ CopyInv
  /\ OrderInv /\ DoneInv /\ BatchInv /\ NoRowLost

IInv == TypeOK /\ AbortInv /\ StepInv
=============================================================================
