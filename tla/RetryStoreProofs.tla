-------------------------- MODULE RetryStoreProofs --------------------------
(***************************************************************************)
(* What the operations of the retry queue return, for whoever owns one.    *)
(***************************************************************************)
EXTENDS RetryStore, TLAPS

\* Every store operation yields an entry of the table.
LEMMA EntryTypes ==
  ASSUME NEW e \in Entry, NEW r
  PROVE  /\ NoEntry \in Entry /\ Removed(e) \in Entry /\ Requeued(e) \in Entry
         /\ Enqueued(e, r) \in Entry /\ MarkedPermanent(e) \in Entry
  BY MaxAttemptsAssumption
     DEF Entry, Statuses, NoEntry, Removed, Requeued, Enqueued, MarkedPermanent

\* enqueue leaves the row in the queue, whatever was there.
LEMMA EnqueuedIsQueued ==
  ASSUME NEW e \in Entry, NEW r
  PROVE  Enqueued(e, r).status # "absent"
  BY DEF Entry, Statuses, Enqueued

\* requeue neither adds rows to the queue nor takes them out.
LEMMA RequeuedKeepsRow ==
  ASSUME NEW e \in Entry
  PROVE  Requeued(e).status = "absent" <=> e.status = "absent"
  BY DEF Entry, Statuses, Requeued

\* A terminal rejection leaves the row in the queue, too.
LEMMA PermanentIsQueued ==
  ASSUME NEW e \in Entry
  PROVE  MarkedPermanent(e).status # "absent"
  BY DEF MarkedPermanent
=============================================================================
