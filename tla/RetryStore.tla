----------------------------- MODULE RetryStore -----------------------------
(***************************************************************************)
(* The retry queue of src/retry_store.py: what one row of retry_queue goes *)
(* through.  An entry is the value of the row kept for one external_id of  *)
(* one entity; a queue is a function from keys to entries.  Every operator *)
(* is one committed SQL statement of the store, so whoever owns the queue  *)
(* as a variable performs one of these per step.                           *)
(***************************************************************************)
EXTENDS Naturals

CONSTANT MaxAttempts      \* DEFAULT_MAX_ATTEMPTS, 10 unless configured

ASSUME MaxAttemptsAssumption == MaxAttempts \in Nat \ {0}

Statuses == {"absent", "pending", "permanent"}

\* Attempts are counted up to MaxAttempts: past it only the comparison with
\* max_attempts matters, and it comes out the same.
Entry == [status : Statuses, attempts : 0..MaxAttempts]

\* No row for this key.
NoEntry == [status |-> "absent", attempts |-> 0]

\* The reasons a row is queued for.  The first two do not count an attempt:
\* waiting for a dependency, or for the backend to come back, is no failure.
NoCountReasons == {"dependency_missing", "backend_unavailable"}

Reasons == NoCountReasons \cup {"backend_rejected"}

(***************************************************************************)
(* enqueue: a new row starts pending with one attempt.  An existing row    *)
(* counts one attempt more and turns permanent when they run out, unless   *)
(* the reason counts no attempts: then it is set pending, whatever it was. *)
(***************************************************************************)
Enqueued(entry, reason) ==
  IF entry.status = "absent" THEN [status |-> "pending", attempts |-> 1]
  ELSE IF reason \in NoCountReasons THEN [entry EXCEPT !.status = "pending"]
  ELSE IF entry.attempts + 1 >= MaxAttempts
         THEN [status |-> "permanent", attempts |-> MaxAttempts]
         ELSE [status |-> "pending", attempts |-> entry.attempts + 1]

\* mark_permanent: a terminal rejection, with at least one attempt on record.
MarkedPermanent(entry) ==
  [status   |-> "permanent",
   attempts |-> IF entry.attempts > 1 THEN entry.attempts ELSE 1]

\* resolve, dismiss, clear_entity and clear_all all delete the row.
Removed(entry) == NoEntry

\* requeue: only a permanent row goes back, with its attempts at zero.
Requeued(entry) ==
  IF entry.status = "permanent" THEN [status |-> "pending", attempts |-> 0] ELSE entry

PendingKeys(queue)   == {k \in DOMAIN queue : queue[k].status = "pending"}
PermanentKeys(queue) == {k \in DOMAIN queue : queue[k].status = "permanent"}
=============================================================================
