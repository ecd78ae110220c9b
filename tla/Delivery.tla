------------------------------ MODULE Delivery ------------------------------
(***************************************************************************)
(* What the incremental sync of an entity promises, without saying how: a  *)
(* copy of the rows of RAFAM kept in Paxapos, and a mark in time before    *)
(* which no row is left unaccounted for.                                   *)
(*                                                                         *)
(* There are no batches here, no payloads, queue, hashes, runs or crashes: *)
(* SyncEntity has them, and implements this.                               *)
(***************************************************************************)
EXTENDS Naturals

CONSTANTS
  Keys,  \* the rows
  Gone   \* the content of a copy somebody deleted in Paxapos

VARIABLES
  stamp, content,  \* RAFAM: when each row last changed, 0 = never, and what it says
  held,            \* Paxapos: what its copy says, 0 = there is none
  known,           \* rows whose copy has been acknowledged
  mark,            \* rows that changed before this are accounted for
  safe             \* rows delivered, on record as owed, or not promised at all

deliveryVars == <<stamp, content, held, known, mark, safe>>

SameBut(k, f) == \A j \in Keys \ {k} : f[j]' = f[j]

\* Every row that changed before the mark is safe.
Accounted == \A k \in Keys : 0 < stamp[k] /\ stamp[k] < mark => k \in safe

\* A row changes in RAFAM, never behind the mark and never to an older content.
Purchase(k) ==
  /\ SameBut(k, stamp) /\ SameBut(k, content)
  /\ stamp[k] <= stamp'[k] /\ mark <= stamp'[k]
  /\ content[k] <= content'[k]
  /\ safe' \ {k} = safe \ {k}
  /\ UNCHANGED <<held, known, mark>>

\* The copy moves forward to a content the row has or had.  What somebody deleted
\* comes back only if nobody knows it any more.
Forward(k) ==
  /\ held'[k] <= content[k]
  /\ IF held[k] = Gone THEN k \notin known ELSE held[k] <= held'[k]

Deliver ==
  /\ \A k \in Keys : held'[k] = held[k] \/ Forward(k)
  /\ Accounted'
  /\ UNCHANGED <<stamp, content, known, mark>>

\* Somebody deletes a copy in Paxapos.
Delete(k) ==
  /\ held[k] # 0 /\ held'[k] = Gone /\ SameBut(k, held)
  /\ safe \subseteq safe'
  /\ UNCHANGED <<stamp, content, known, mark>>

\* Acknowledgements, debts and the mark are written down.  Only what Paxapos has is
\* acknowledged, and the mark never goes back.
Account ==
  /\ mark <= mark'
  /\ Accounted'
  /\ \A k \in known' \ known : held[k] # 0
  /\ known \subseteq known'
  /\ UNCHANGED <<stamp, content, held>>

\* The operator starts over: the mark goes first, what is known and owed after it.
StartOver ==
  /\ mark' = 0
  /\ known' \in {known, {}}
  /\ UNCHANGED <<stamp, content, held>>

Init ==
  /\ \A k \in Keys : stamp[k] = 0 /\ held[k] = 0
  /\ known = {} /\ mark = 0

Next ==
  \/ \E k \in Keys : Purchase(k) \/ Delete(k)
  \/ Deliver \/ Account \/ StartOver

Spec == Init /\ [][Next]_deliveryVars
=============================================================================
