# RAFAM → Paxapos sync: formal models

TLA+ models, TLC checks and TLAPS proofs for the incremental migrator of this
repository, which copies suppliers, purchase orders, expenses, payment orders and
withholdings from RAFAM (a municipal Oracle database it only reads) to Paxapos (a
web service it posts JSON to). The question behind all of it is the one the
repository's `README.md` calls the *checkpoint invariant*: nothing that RAFAM has may
fall between the watermark, the retry queue and Paxapos, and nothing Paxapos was told
may be wrong.

Paths below are relative to the repository; `main.py` is at its root, the package in
`src/`.

## 1. Inventory

| Component | State it keeps | Operations | Talks to |
|---|---|---|---|
| Sync of one entity (`main.py::_sync_entity`) | memory of the run: `failed_batches`, `infra_streak`, `last_ts` | query, batches, advance, end | all below |
| Sync engine, checkpoint store (`sync_engine.py`, `checkpoint_store.py`) | table `sync_checkpoints`: watermark and status per entity | `advance_partial`, `mark_success`, `mark_error`, `reset` | the run; `reset` |
| Retry queue (`retry_store.py`) | table `retry_queue`: status and attempts per row | `enqueue`, `mark_permanent`, `resolve`, `requeue`, `dismiss`, `clear_*` | exporter, mappers, source query, operator |
| Entity links (`entity_link_store.py`) | table `entity_links`: Paxapos id, payload hash, state, `deleted_at`, `has_op` | `save_link`, `get_link`, `mark_deleted`, `mark_oc_has_op`, `clear_*` | mappers, change sync, integrity check, `reset` |
| Source queries (`source_repository.py`) | none | one statement per entity: boundary, watermark, window, joins, reinjection, order | Oracle, retry queue |
| Exporter, writer (`exporter.py`, `entity_writer.py`, `backend_errors.py`) | last answer | map, post, persist links, raise, record outcomes | Paxapos, links, queue |
| Mappers (`mappers/*.py`, `gateway_mapper.py`) | none, but they write the queue and the links | rows to payload, skip, hold, request a dependency, pair with the portal | links, queue, Paxapos |
| Batch grouping (`batch_grouping.py`) | the group being read | batches that keep a business key together | the run |
| HTTP transport, auth circuit (`http_client.py`, `auth_circuit_breaker.py`) | the circuit file | post with retries, open, check, close | Paxapos, every process |
| Pipeline (`main.py::_cmd_run_locked`) | the lock file | the entities in foreign-key order, one process at a time | cron |
| Manual operations (`main.py`) | none | `reset`, `retry-queue`, `backfill-gastos` | the tables, mostly with no lock |
| Change sync, integrity check, reconcile (`change_sync.py`, `scripts/check_integrity.py`, `reconcile.py`) | none | re-hash and resend what changed, propagate deletions, count | links, exporter |
| Run history, daily report (`run_history.py`, `notifier.py`) | `run_history.jsonl` | append, load a day, mail, purge | the pipeline, cron |

What makes it hard, and hard to test:

- **Several commits per row.** Paxapos takes a row; then its link, its queue entry and
  finally the watermark are committed one by one. A crash, a lost answer or a failing
  store can come between any two.
- **Partial answers.** A batch of 500 rows may come back with some rows taken, some
  rejected, some deferred, some impossible to identify, each needing its own treatment
  while the watermark is one number for all.
- **A moving source.** The run works on what its query read while RAFAM goes on, with
  dates that are not always today's.
- **The rows come back by several routes** (watermark, window, queue) and are skipped by
  another mechanism, the hash of what was acknowledged.
- **Four stages, four watermarks.** A payment order waits for three other entities, each
  of which moves past its own rows.
- **Several writers.** The pipeline, `sync-changes`, `check_integrity`, operators, the
  suppliers' portal and people in the Paxapos UI touch the same rows; not all take the lock.

What makes each part correct:

- *sync of one entity*: no row behind the watermark is unaccounted for; rows of a failed
  or cut run come back; `ok` means complete; everything arrives in the end;
- *watermark*: monotone but for a reset;
- *retry queue*: a row leaves it only delivered, given up or reset;
- *links*: a skip by hash or by deletion mark is never wrong; nobody forgets a remote id;
- *queries*: a confirmation is selected however it is dated, and so is what it needs;
- *grouping*: batches split no key and stay within the size;
- *pipeline*: an order held for a dependency is on record and gets its turn;
- *gastos*: a portal gasto is completed with one invoice and stays with it;
- *deletions*: what is annulled goes, what is alive stays;
- *transport*: an open circuit costs each process one request, and it closes again;
- *run history*: only what was reported is purged.

`PROJECT.json` lists the hazards one by one, each at its line, with the property that
would catch it or the reason no property does.

## 2. Modules

| Module | Models |
|---|---|
| `RetryStore` | one entry of `retry_queue` and every statement of the store on it, as operators |
| `SyncEntity` | the sync of `proveedores`: run, watermark, queue, links, source, Paxapos, operator |
| `Delivery` | the abstract promise of that sync: a copy that moves forward behind a mark |
| `BatchGrouping` | `iter_grouped_batches`, row by row |
| `SourceQueries` | the queries of `orden_pago`, `retenciones` and `oc_items` over a changing RAFAM; extends `BatchGrouping`, whose batches move its watermark |
| `OrdenCompra` | one purchase order between the `oc_items` stage, `sync-changes` and `check_integrity` |
| `PaymentChain` | a payment order and its retentions through the four stages |
| `OrdenPago` | the pairing of invoices with the gastos of the portal, in `solic_gastos` and `orden_pago` |
| `Transport` | requests with retries and the shared circuit file |
| `RunHistory` | the history file and the daily report |
| `MC...` | the small instances of the runs |
| `...Proofs` | the theorems of a module |

`RetryStore` is used by `SyncEntity`, `OrdenCompra`, `PaymentChain` and `OrdenPago`. The
four look at the pipeline from different sides: `SyncEntity` at batches, watermark and
commits; `SourceQueries` at what is read; `PaymentChain` takes both as given (rows go on
being selected until a good batch has taken them) and looks at the stages; `OrdenCompra` and
`OrdenPago` look at what one stage does to Paxapos beside its other writers.

The definitions that come just before another one with "A variant that ..." are slips the
properties are tried against: replacing the definition by its variant must make TLC find
the property violated. They take no part in the specification.

### `SyncEntity` and `Delivery`

| Model | Code |
|---|---|
| `srcTs`, `srcVal`, `now` | `FECHA_ULT_COMP` (0 = NULL) and the content of each `PROVEEDORES` row, as a version number |
| `remote` | what Paxapos holds for the row: nothing, a version, or deleted by hand (`Gone`) |
| `cpTs`, `cpStatus` | the row of `sync_checkpoints` |
| `queue`, `link` | the rows of `retry_queue` and `entity_links`; a link is the version whose hash was stored |
| `snapTs`, `snapVal`, `rest` | the open cursor of the query: what it read, and what has not been fetched |
| `batch`, `sent`, `out`, `todo`, `verdict` | one `process_batch`: its rows, its payload, the answer, the writes still to do, how `write_batch` ends |
| `failed` | the rows behind `failed_batches`; the code keeps the count, the model the rows (and, after the run, the ones an abort left unread), which the properties need |
| `infra`, `errored`, `lastTs` | `infra_streak`; the other causes of ending in error; `last_ts` |
| `waived` | rows an operator dismissed: kept for the properties only |
| `resetStep` | how far `cmd_reset` has got |

One step of the model is one committed write or one decision. A run is `StartRun`, then
for each batch `TakeBatch` (the mapper's choice included), `Respond` or `PostFails`,
`PersistLink` for each row in the answer, `PersistDone`, `RecordSuccess` / `RecordError`
for each row, `BatchGood` or `BatchFailed`, and `EndOk` or `EndInError`. Between any two of
these come `Touch` (RAFAM), `RemoteDelete` (Paxapos), `RequeueAll`, `RequeueOne`, `Dismiss`
and the three commits of a reset. Whatever can fail does: `StartRunBlind` (the queue cannot
be read), `FetchFails`, `SourceLost`, `PersistFails`, `RecordFails`, `BatchGoodUnsaved` (the
watermark cannot be written) and `Crash`, each at most as often as `MaxFaults` allows. The
order of writes follows the answer, which Paxapos chooses, results before errors.

`Delivery` knows nothing of this: rows change (`Purchase`), copies move forward to a content
the row has or had (`Deliver`), acknowledgements, debts and the mark are written down
(`Account`), somebody deletes a copy or starts over. `SyncEntity` implements it with
`mark <- cpTs`, `held <- remote`, `known <-` the rows with a link and `safe <-` the rows
delivered, queued, dismissed or not mappable (`IsDelivery`).

### `BatchGrouping` and `SourceQueries`

The three lists of the generator (`pending`, `current_group`, what has not been read) are
stretches of one result, so its state is three positions. `SourceQueries` puts an actual
result there: `OpQuery` is the statement of `orden_pago` (`OpRows`: the selection with its
left join to the receipts; `Before`: its order, a row's place being the number of rows up to
it, `UpTo`), `OcsRead` that of `oc_items`. `Confirm`, `TakeBack`, `Impute` and
`Purchase` change RAFAM while a run goes from `Query` through `ReadOn` (each batch good or
bad) to `EndRun` or `Stop`. Days stand for dates; `Skew` is the difference between UTC and
local dates, `Late` and `Ahead` how far off today a confirmation may be dated, and `Gap` how
many days may pass between two runs without a failed batch. `WindowAssumption` says the
window is wide enough for them.

### `OrdenCompra`

`est`, `val`, `cc`, `prov` are the order in RAFAM (its `ESTADO_OC`, its content as a version,
whether it has a receipt, whether its supplier is linked); `pax` the Pedido; `link` the row of
`link_orden_compra` field by field. The locked process goes `StartStage` (pipeline) or
`StartChanges` (sync-changes) → `TakeBatch` → `Respond` or `PostFails` → `Persist` →
`Record` → `EndJob`; `Backfill` is `--backfill-only`. `check_integrity` is a process of its
own, interleaved with it: `CheckStarts`, `CheckOne`, `Propagate`, `Mark`. The content hash is
the pair of version and state, for the state is a shadow field of the hashed payload.
`backfilled` is kept for the properties: `--backfill-only` declares a content up to date
that was never sent.

### `PaymentChain`

`opSel` and `retSel` say whether the date of an order (watermark or window) selects it in the
query of the two stages: a batch that goes well turns `reading` into `read`, after which it
may age out (`OpAges`, `RetAges`); one that fails puts it back. An order is `backed` by a
purchase order or is a direct expense. `supplier` is the state of its supplier in the stage of
its own: linked, new, asked for, or behind that watermark (`stale`).

`TakeOps` is `build_payload` of `orden_pago`, with its conditions in the order of the code: an
order whose purchase order is not linked waits for it (`NoOrder`) and nobody looks at its supplier;
only the others, most of them direct expenses, get to the supplier (`NoSupplier`), which is then
asked for (`Asked`). `TakeRets` is the one of `retenciones`: the catalogue maps all the
deductions of an order, some or none, and what it maps is what is sent (`mapped`), applied
(`applied`) and remembered (`retLink`).

After the answer each commit is a step: `PersistOps`, then `RecordOp` for each order, then
`EndOps`; `PersistRets`, `RecordRet`, `EndRets`. For an Egreso that is gone `QueueLost`, `MarkLost`
and `GiveUpLost` are the three commits of `_on_backend_dependency_missing`, and a crash may come
between any two. What can fail does: the POST (`PostOpsFails`, `PostRetsFails`), the link store
after some of the links (`PersistOpsFails`, `PersistRetsFails`: the batch is a bad one and the
`finally` of `write_batch` records the answers nevertheless), the query or the retry store
(`OpsStageFails`, `TakeRetsFails`), the deductions (`TakeRetsBlind`), the process (`Crash`).

Four variables name the orders the code loses sight of: `forgotten` (a failure of the queue in
`_enqueue_op`, swallowed), `unseen` (deductions that cannot be read), `opUnlinked` and
`retUnlinked` (taken by Paxapos, and the link store failed where there was no link yet).

### `OrdenPago`

`gasto` is the list of gastos in Paxapos: the number that was read off the picture, the amount,
the purchase order, the invoice on the picture (`doc`) and whether RAFAM has created or
completed it. `Elegido` is `elegir_gasto_portal`, `Resolved` the resolution of
`solic_gastos`. `Solicit` is a batch of that stage, over the requests an incremental run read
(`TakeSolicitudes`: any part of them) or over all of them (`BackfillGastos`); `OpKey` and
`SgKeys` are the keys under which each saves the link. `TakeBatch` sorts the orders as `build_payload` does, `Pair` pairs one invoice at a time, `Hold` takes out
the orders with an invoice that has no data yet, `Post` lands the blocks; `PersistOps`,
`PersistGastos` and `Record` write down the answer. Each of the three can fail half-way, and so
can `PersistSolicitudes`. `forgotten` and `unlinked` are as in `PaymentChain`, and an order leaves
them when it is queued or linked after all.

### `Transport`

A process checks the circuit (`Check`), tries, and on a 401 or 403 reads the file, counts and
replaces it in two steps (`Load`, `Save`); on a success it removes it (`Close`). Nothing is
locked. `left` is the time until `opened_until`. `Transient` is an attempt that is repeated,
`Lost` a write that fails or a process that dies.

### Abstracted throughout

What a row contains (a version number stands for the payload and its hash), the wording and
detail of an error (an outcome per row stands for its classification), metrics, logs, pauses.
A timestamp is a number. The attempts of a queue entry are counted up to the maximum.

### Assumed of what is outside the repository

- For `proveedores`, RAFAM shows a purchase with a timestamp no older than those already
  shown; an edit that leaves `FECHA_ULT_COMP` alone is the business of `sync-changes`.
- Paxapos answers for every row of the payload, takes exactly the rows it reports as taken,
  and takes a row sent twice as the same row. A gasto block with an id edits that gasto, one
  with the number of a gasto lands on it, the others create one (as the comments of
  `orden_pago.py` say).
- An annulled purchase order stays annulled, a purged one gone.
- Two payment orders that pay one invoice pay it for one purchase order, and a supplier uploads
  an invoice once.
- In `PaymentChain`, `OrdenPago` and `OrdenCompra` no operator resets an entity, so a link, once
  written, stays; `SyncEntity` has the resets.

## 3. What is checked

| Run | Instance | Distinct states | Shows |
|---|---|---|---|
| `SyncEntity_watermark` | 2 rows, one with NULL timestamp; 2 timestamps, 2 contents; batches of 1; 1 fault | 1.7 M | safety, action properties, refinement |
| `SyncEntity_batches` | 3 rows, one unmappable, one NULL; 2 timestamps; batches of 2; 1 fault | 2.0 M | the inductive invariant with mixed batches; failed rows come back |
| `SyncEntity_live` | 2 rows, 2 timestamps, 2 faults, batches of 1, fairness | 0.7 M | everything settles |
| `SourceQueries_orders` | 2 orders, one of the ejercicio before; 2 receipts, 1 purchase order; 5 days; batches of 2 | 7.0 M | nothing confirmed slips through; batches |
| `OrdenCompra_writers` | 1 order, 3 versions, the second without items; 1 fault | 0.8 M | skips, deletions, arrival with three writers |
| `PaymentChain_stages` | 1 order, of a purchase order or direct; 2 versions, 3 faults, deductions that may be unreadable or map in part | 0.9 M | the stages lose nothing but what is named, and get there |
| `OrdenPago_gastos` | 2 orders sharing an invoice, 2 invoices of one amount and one request; 3 gastos, of which nothing, the amount or all was read; 1 fault | 3.7 M | pairing and holding |
| `Transport_breaker` | 2 processes, 3 attempts, cooldown 1 to 3, 3 faults | 9 k | circuit |

| Property | Says |
|---|---|
| `IInv` | of `SyncEntity`, `SourceQueries`, `OrdenCompra`, `PaymentChain` and `OrdenPago`: the inductive invariant of the proofs, the types included (section 4) |
| `NoRowLost` | behind the watermark every mappable row is delivered, queued or dismissed |
| `SkipIsSafe` | a row left out as unchanged is one whose content Paxapos holds |
| `OwedRowsComeBack` | rows of failed batches, and those an abort left unread, are settled or selected next time |
| `OkMeansComplete` | a run that ends `ok` leaves nothing of its snapshot unsettled |
| `WatermarkMonotone` | only a reset takes the watermark back |
| `QueueDrainsHonestly` | an entry goes only with the row delivered, gone, dismissed or reset |
| `IsDelivery` | `SyncEntity` implements `Delivery` |
| `EverythingSettles` | every purchase is delivered in the end, or permanent, or dismissed |
| `GroupsStayWhole`, `BatchesAreBounded` | no batch parts a key; none is too large unless it is one group |
| `NoConfirmationMissed` | a confirmed order no batch has taken is one the next query selects |
| `OcScopeCoversOps` | the purchase orders of the orders in scope are read, across the ejercicio boundary |
| `HashIsAcknowledged` | the hash that leaves an order out was acknowledged, in that version or a later one |
| `SkippedIsDeleted` | an annulled order is passed over only when its Pedido is deleted |
| `LinksOnlyGrow` | nobody loses a remote id or `has_op` |
| `NoLiveOrderDeleted` | no program step deletes the Pedido of an order that is alive |
| `AnnulledAreDeleted` | an annulled order Paxapos knows is deleted there in the end |
| `ConfirmedArrive` | an order that stays confirmed gets there with its last content, or permanent |
| `PaymentsOwedComeBack`, `RetentionsOwedComeBack` | an order (a retention) without a link is selected or queued, or the queue's failure was swallowed (its deductions could not be read), or Paxapos has it and the link store failed |
| `PaymentsArrive`, `RetentionsArrive` | and gets there, or is annulled, permanent, or left behind in one of the ways listed below (`Stuck`, `LeftInPart`, `LeftUnlinked`) |
| `OneEditPerGasto` | one gasto is completed with one invoice per payload |
| `NoGastoMadeUp` | no order goes with an invoice without data while a portal gasto may be it |
| `TakenAreKept` | an order a good batch has taken is linked, queued or out of scope, or lost in the two ways above |
| `LinkedGastosStay` | a gasto linked to an invoice under its number stays that invoice's |
| `RefusedOnceWhileOpen` | an open circuit costs a process one refusal at most |
| `Recovers` | with a good key the circuit closes for good |

**Bounds.** `MaxAttempts = 2` (and `InfraAbortAfter = 2`): both limits are reached within a run
or two. In `SyncEntity` two timestamps give rows before, on and after the watermark, and two
rows on the same one across a batch boundary; two contents give an edit and a stale hash;
batches of one over two rows give a batch that fails before one that succeeds and an abort
with and without rows left; batches of two over three rows give mixed outcomes and a last,
short batch. In `SourceQueries` five days hold a window of three with its skew, a confirmation
one day late and one a day ahead, on both sides of the new year; an order with two receipts
makes a group, and an old order one that must be read at the boundary. Purchase orders meet
only in a batch, so one order with all its writers shows what they do to each other; three
versions let it lose its items and get them back; the proofs cover any number of orders. In
`PaymentChain` three faults let a failure of one stage meet the recovery from another. It
has one order because orders meet only in the verdict of a batch, and an order whose batch fails
for another's sake is one whose batch fails; the proofs cover any number. In
`OrdenPago` two invoices of one amount, with one picture more than invoices, are the least on
which a pairing can go wrong, and two orders sharing one the least that holds one for the
other. One fault at any point is what each promise is about; the proofs remove the bounds for
safety.

**Deadlock** is checked in `SourceQueries`, `PaymentChain` and `Transport`. In the others RAFAM
and the faults are bounded, so that the bounded model may come to rest.

**Fairness.** Cron starts the pipeline every ten minutes and nothing in a run waits for the
operator, so a run that can take a step takes it: `WF_vars(RunStep)` in `SyncEntity` and
`PaymentChain`, `WF_vars(BatchStep)` in `OrdenCompra`. There `StartStage` is strongly fair,
because `sync-changes` takes the same lock and could be there whenever the pipeline is about
to start; cron tries again and again and the lock is free between the two. A reset that has
begun goes on unless it dies (`WF_vars(ResetRest)`). In `Transport` time passes (`Tick`) and
each process goes on. The answers are never fair: Paxapos may reject a row every time, which
is why the row may end permanent. Nothing is asked of RAFAM, the operator, the portal or
`check_integrity`. That faults stop is the bound `MaxFaults`.

### Where the code does something else than it says

Each of these runs checks one statement of the repository and TLC shows a behaviour of the
model against it. `PROJECT.json` quotes the statements.

| Run | What happens |
|---|---|
| `RunHistory_purge` | a run that ends after the report of its day has been read is purged by a later step, unmailed |
| `OrdenCompra_blind` | the query of `fetch_estado_by_key` fails, which looks like a purged order, and `check_integrity --apply` deletes the Pedido of one that is alive |
| `OrdenCompra_paid` | an annulled order is deleted in Paxapos though `has_op` is set |
| `OrdenPago_second` | an invoice paired already is paired again when a second order pays it, with the gasto of another invoice |

`RunHistory` is checked only for this statement.

Other behaviours of the code that the models have and the properties leave out (each is a
hazard with its line):

- a row the mapper cannot map is dropped from a batch that counts as good (`Tracked` leaves
  it out);
- a first load that is cut before its last batches never reads the rows without a timestamp
  again (`OwedRowsComeBack` is about rows that have one);
- above the cap on reinjection the lowest keys go first, each time, so entries that never leave
  the queue starve the rest (the instances keep the table within the cap);
- an order that asks for its supplier revives the supplier's permanent entry;
- a reset in the middle of a run loses rows (assumption (A) below);
- a queue failure in `_enqueue_op`, and deductions that cannot be read, leave an order to the
  window alone (`forgotten`, `unseen`);
- when `save_link` raises, the `finally` of `write_batch` still takes the orders answered ok out of
  the queue. One that only the queue brought back is then in Paxapos with no link, no entry and no
  selection (`opUnlinked`, `retUnlinked`; `unlinked` in `OrdenPago`), and its retentions wait for
  ever (`LeftUnlinked`);
- an order whose purchase order has no link because the supplier has none, and is behind the
  watermark of `proveedores`, waits for ever: `orden_pago.py:558-570` and `oc_items.py:81-87` go on to
  the next row before anybody asks for the supplier (`Stuck`). Only direct expenses get it asked for;
- deductions the catalogue lacks are left out with a log line if others of the order map, and go
  only if something selects the order again; and if all of them were sent once, then some, and the
  answer to that was lost, the fingerprint on record is still that of all (`LeftInPart`);
- a crash after the link of a lost Egreso is marked leaves the retention's entry pending, and every
  run passes it over (`retenciones.py:136-140`).

## 4. What is proved

Everything for every value of the constants; `SyncEntity` for every table, bound, batch size, cap,
and choice of `NullRows`, `Invalid` and `Excluded`.

| Theorem | Establishes | Assumes |
|---|---|---|
| `SyncEntityProofs!TypeCorrect` | `Spec => []TypeOK` | - |
| `WatermarkNeverRewinds` | `Spec => WatermarkMonotone` | - |
| `InductiveInvariant` | `Spec => []IInv` | (A), (B) |
| `WatermarkSound`, `OwedSound`, `SkipSound`, `OkSound`, `QueueSound` | `NoRowLost`, `OwedRowsComeBack`, `SkipIsSafe`, `OkMeansComplete`, `QueueDrainsHonestly` | (A), (B) |
| `DeliveryProofs!ImplementsDelivery` | `Spec => D!Spec` | (A), (B) |
| `SourceQueriesProofs!GroupsWhole`, `BatchesBounded` | of `BgSpec`: `GroupsStayWhole`, `BatchesAreBounded` | contiguous keys |
| `SourceQueriesProofs!InductiveInvariant`, `Typing`, `NoneMissed`, `ScopeCovers` | `IInv`, `TypeOK`, `NoConfirmationMissed`, `OcScopeCoversOps` | (D) |
| `SourceQueriesProofs!OrdersStayWhole`, `OrderBatchesBounded` | of `Spec`: `GroupsStayWhole`, `BatchesAreBounded` | (D) |
| `OrdenCompraProofs!InductiveInvariant`, `HashSound`, `SkipSound`, `LinksGrow` | `IInv`, `HashIsAcknowledged`, `SkippedIsDeleted`, `LinksOnlyGrow` | - |
| `OrdenCompraProofs!NoLiveDeletion` | `NoLiveOrderDeleted` | (C) |
| `PaymentChainProofs!InductiveInvariant`, `PaymentsOwed`, `RetentionsOwed` | `IInv`, `PaymentsOwedComeBack`, `RetentionsOwedComeBack` | - |
| `OrdenPagoProofs!InductiveInvariant`, `Typing`, `OneEdit`, `NoneMadeUp`, `TakenKept` | `IInv`, `TypeOK`, `OneEditPerGasto`, `NoGastoMadeUp`, `TakenAreKept` | - |
| `OrdenPagoProofs!LinkedStay` | `LinkedGastosStay` | - |
| `TransportProofs!Typing`, `RefusedOnce` | `TypeOK`, `RefusedOnceWhileOpen` | - |

(A) `ResetExclusive`: no reset while a run is going on, and no run while a reset is: `cmd_reset`
takes no lock, and a run then writes its watermark back over deleted queue entries. (B)
`~Reverts`: a row never returns to an earlier content. If the answer to an edit is lost and
RAFAM then takes the edit back, the stored hash equals the current one, the row is skipped, and
Paxapos keeps the edit. (C) `~OracleFails`; `OrdenCompra_blind` shows it is needed. (D) what
`SourceQueries` says of its constants: `WindowAssumption`, the window of
`pending_reprocess_days` is no shorter than the delays of a confirmation, of a run and of UTC
together; and `TablesAssumption`, the tables are finite and `NRO_OP` is a number. A "-" means no
more than the types of the constants; in `OrdenPago` also that the mark of a number that was
not read is not an invoice.

**`SyncEntity`.** `NoRowLost` is not inductive: it says nothing of a run half-way. The
invariant `IInv` adds what a run may rely on.

- `SnapshotInv`: a row that has changed since the query is not behind anything the run may
  save, so its old reading can be forgotten. This is where `>=` and the clock of RAFAM
  (`ClockInv`) come in.
- `CopyInv`: the link never claims more than Paxapos took, nor Paxapos more than was read;
  hence a skip is safe. Without (B) version order says nothing.
- `OrderInv`: the batch precedes all that has not been fetched, so the greatest timestamp of
  a batch is no greater than theirs.
- `DoneInv`: as long as no batch has failed, the rows done with are settled. With `OrderInv`
  it gives `NoRowLost` after an advance: behind the new watermark are only rows done with.
- `BatchInv`: the same for the rows of the batch, from the answer to the last recording;
  a good verdict and an empty `todo` make it `DoneInv` for them.
- `PhaseInv`, `ResetInv`, `AbortInv`: what is empty in which phase; a reset leaves no
  watermark; an infrastructure streak leaves failed rows, so a run that is cut never ends
  `ok`.

`TypeOK` is inductive by itself and proved first. Then each action has a lemma or a step,
and under it one step for each part of the invariant it can disturb. The action properties
follow from the invariant before the step. `OwedRowsComeBack` follows from `NoRowLost` and
`StampInv` (a row with a timestamp is a row of RAFAM): an owed row is behind the watermark and
settled, or at or after it and selected, so whatever key the cap on reinjections leaves out, the
queue is never its only way back. The refinement is one step of `Delivery`, or a
stutter, for each action: `NoRowLost` after it gives `Accounted'`, and `CopyInv` that a copy
only moves forward.

**`OrdenCompra`.** Contents and annulments only go forward, so no reading and no answer is ever
ahead of what is there (`NeverAhead`); the payload holds what its rows say and an accepted
answer what Paxapos did (`PayloadKnown`); a link in state A with a Pedido carries the mark
(`AnnulledIsMarked`). With these a link written late by any of the three writers is still
true, which is what the two skips need.

**`PaymentChain`.** `PaymentsKept` and `RetentionsKept` strengthen the promises to the middle of
a run: an order is linked, queued, lost in one of the named ways, or not yet read, or in the batch
and in its payload. `BatchKnown`, `OpAnswersKnown` and `RetAnswersKnown` say what an answer is
worth until it is written down: once links have been written, an order answered ok has one or is on record as
unlinked, so that taking it out of the queue, commit by commit, forgets nobody else.
`LinksAreTrue` and `UnlinkedAreTaken` say that Paxapos has what a link says, and what a failure of
the link store left without one.

**`SourceQueries`.** Both ends of the pending rows part no group and the open group is one key
(`BgInv`); with contiguous keys a cut there is a cut everywhere. That the result of `OpQuery` is
contiguous is proved: `BeforeOrders` says that `Before` is a strict total order of the orders,
`RanksAreAll` that the rows up to a row, counted, number the result from 1 to its length without
a gap, `QueryResult` that the rows come in that order. `NoConfirmationMissed` says nothing of a
run half-way; the invariant adds:

- `CalendarInv`: the query of a run is of today or before, and of the last query read to its end
  or after; no more than `Gap` days have passed since that one.
- `ResultInv`: the rows come by date, those without one last, so what `advance_partial` saves
  after a batch is no greater than the date of any row still to come.
- `AheadInv`: until a batch fails, a missed order is either still to be handed over with the
  date it was read with, or was confirmed since the query. With `ResultInv` it says what an
  advance of the watermark may leave behind (`AdvanceIsSafe`).
- `BehindInv`: so an order behind the watermark was confirmed since the last query read to its
  end, less `Late` days. `CalendarInv` and `WindowAssumption` put it in the window.

**`OrdenPago`.** `Elegido` and `Resolved` choose by cardinality; `ElegidoIsOffered` and
`ResolvedIsUntraced` say that what they choose is one of the gastos offered, and `AppliedGasto`
that a POST writes a gasto for an invoice that landed on it. The invariant is about what lies
between the query for the gastos and the last link.

- `EditsInv`: a gasto offered or edited exists; none vanishes (`GastosRemain`), so the edit by id
  finds it whatever the supplier uploads meanwhile.
- `PairInv`: the gastos offered are not linked and those paired are not offered any more. This
  is `OneEditPerGasto` one invoice later, and why a linked gasto is reached by its number alone,
  which gives `LinkedGastosStay`.
- `WaitInv`: an order that is not held has each of its invoices still to be paired, or with a
  block, or no gasto left for it; with nothing left to pair it is `NoGastoMadeUp`.
- `AnswerInv`: the orders of the payload are confirmed and each is answered, so an order that
  leaves the queue has a link, or the link store failed and it is in `unlinked`: `TakenAreKept`.

**`Transport`.** A process that was refused in this opening is not in `try` any more, for it
would have to pass `Check`. `Typing` needs that a cooldown of `Base * 2^(n - 1)`, cut off at
`Cap`, is at least 1; the prover knows no exponents, so `PowerOfTwo` counts the subsets of
`1..n`.

**Only model-checked:** liveness (`EverythingSettles`, `AnnulledAreDeleted`, `ConfirmedArrive`,
`PaymentsArrive`, `RetentionsArrive`, `Recovers`), which is beyond the prover. Every invariant and
every action property of a passing run is the subject of a theorem. The four statements of the
table of divergences are false of the models, and `RunHistory` has no other.

The library's induction takes an operator as a parameter, which the provers cannot instantiate.
Where a proof needs it, it takes the least element of a set of naturals instead (`LeastExists`,
from the well-foundedness of `<`).

## 5. Not modelled, and why

- The `proveedores` half of `sync-changes` and `check_integrity`: another unlocked writer that
  posts a supplier again from its own reading. Its late post can overwrite a newer content whose
  hash is on record; a module like `OrdenCompra` for suppliers would show it.
- `clasificaciones`: a catalogue sent whole in each run. A code that occurs twice with different
  names keeps the first one within a batch only.
- `enqueue` as two statements (SELECT, then UPDATE) against an unlocked `requeue` or `dismiss`.
- Of `orden_pago` in `PaymentChain`: several purchase orders, no receipt and the like, which
  `OrdenPago` has and which wait in the same queue for the same reason. A failure swallowed in
  `_resolve_op` or `_resolve_retry` of `retenciones` leaves an entry behind that the next run removes:
  `OpQueued` has the first, the second is left out.
- The retry filter of `solic_gastos`, which parses keys of several forms: an entry it cannot parse
  stays pending.
- `--limit`, `--dry-run`, `RAFAM_STRICT_PARTIAL_ERRORS`: trials and repairs.
- Field-level mapping, normalisation of values, amounts, the text of mails, start-up validation,
  `reconcile` (it only counts) and the scripts that explore or export RAFAM: no state of the sync.

## 6. Running

    tlc -workers 2 -config SyncEntity_watermark.cfg MCSyncEntity.tla
    tlapm SyncEntityProofs.tla

A run's module is `MC` followed by the part of its name before the underscore. Each takes under
five minutes; the runs of the table of divergences are expected to end with a violation.
