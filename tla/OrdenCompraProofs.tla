-------------------------- MODULE OrdenCompraProofs --------------------------
(***************************************************************************)
(* Theorems about OrdenCompra, for any orders, versions, batches, faults   *)
(* and interleavings of the three writers.                                 *)
(***************************************************************************)
EXTENDS OrdenCompra, RetryStoreProofs

\* A hash is made of a content and a state.
LEMMA HashTypes ==
  /\ NoHash \in Hashes /\ NoHash[1] = 0 /\ NoHash[2] = "none"
  /\ \A row \in Row : /\ HashOf(row) \in Hashes
                      /\ HashOf(row)[1] = row.val /\ HashOf(row)[2] = row.est
  BY OrderBoundsAssumption DEF NoHash, HashOf, Hashes, Row, States

\* The content of a hash on record is a number.
LEMMA HashNumbers == TypeOK => \A k \in Orders : link[k].hash[1] \in Nat
<1> SUFFICES ASSUME TypeOK, NEW k \in Orders PROVE link[k].hash[1] \in Nat
  OBVIOUS
<1>1. link[k].hash \in (0..MaxVal) \X States
  BY DEF TypeOK, Link, Hashes
<1> QED
  BY <1>1, OrderBoundsAssumption

\* What the writers put in a link is a link.
LEMMA LinkTypes ==
  ASSUME TypeOK, NEW k \in Orders
  PROVE  RowOf(k) \in Row /\ Registered(k) \in Link /\ Persisted(k) \in Link
<1>1. RowOf(k) \in Row
  BY DEF TypeOK, RowOf, Row
<1>2. snap[k] \in Row /\ snap[k].est \in States /\ link[k] \in Link
  BY DEF TypeOK, Row
<1>3. NoHash \in Hashes /\ HashOf(snap[k]) \in Hashes
  BY <1>2, HashTypes
<1>4. Registered(k) \in Link
  BY <1>2, <1>3 DEF Registered, Link
<1>5. Persisted(k) \in Link
  <2>1. CASE k \in anular
    BY <1>2, <1>3, <2>1 DEF Persisted, Link
  <2>2. CASE k \notin anular
    <3>1. (k \in anular) = FALSE
      BY <2>2
    <3>2. Persisted(k) = [link[k] EXCEPT !.estado = snap[k].est, !.remote = TRUE,
                                         !.deleted = FALSE, !.hash = HashOf(snap[k])]
      BY <2>2, <3>1, Zenon DEF Persisted
    <3> QED
      BY <1>2, <1>3, <3>2 DEF Link
  <2> QED
    BY <2>1, <2>2
<1> QED
  BY <1>1, <1>4, <1>5

\* What build_payload writes into the links of the orders it does not send.
LEMMA Registering ==
  ASSUME TypeOK, NEW b \in SUBSET rest, TakeBatch(b), NEW k \in Orders
  PROVE  \/ link'[k] = link[k]
         \/ /\ link'[k].estado = snap[k].est /\ link'[k].remote = link[k].remote
            /\ link'[k].deleted = link[k].deleted /\ link'[k].hasOp = link[k].hasOp
            /\ link'[k].hash = IF snap[k].est = "A" THEN NoHash ELSE HashOf(snap[k])
            /\ \/ snap[k].est = "A" /\ ~link[k].remote
               \/ /\ snap[k].est # "A"
                  /\ snap[k].est = "R" => link[k].estado = "R" /\ link[k].hash = HashOf(snap[k])
<1>1. link[k] \in Link
  BY DEF TypeOK
<1>2. link'[k] = IF k \in ToRegister(b) THEN Registered(k) ELSE link[k]
  BY DEF TakeBatch
<1>3. k \in ToRegister(b) =>
        \/ snap[k].est = "A" /\ ~link[k].remote
        \/ /\ snap[k].est # "A"
           /\ snap[k].est = "R" => link[k].estado = "R" /\ link[k].hash = HashOf(snap[k])
  BY DEF ToRegister, Live, ToCreate, SameState
<1> QED
  BY <1>1, <1>2, <1>3 DEF Registered, Link

\* What persist_links writes into the links of the orders accepted.
LEMMA Persisting ==
  ASSUME TypeOK, Persist, NEW k \in Orders
  PROVE  IF k \in Accepted
           THEN /\ link'[k].estado = snap[k].est /\ link'[k].remote
                /\ link'[k].deleted <=> k \in anular
                /\ link'[k].hasOp = link[k].hasOp
                /\ link'[k].hash = IF k \in anular THEN NoHash ELSE HashOf(snap[k])
           ELSE link'[k] = link[k]
<1>1. link[k] \in Link
  BY DEF TypeOK
<1>2. link'[k] = IF k \in Accepted THEN Persisted(k) ELSE link[k]
  BY DEF Persist
<1>3. CASE k \in anular
  BY <1>1, <1>2, <1>3 DEF Persisted, Link
<1>4. CASE k \notin anular
  BY <1>1, <1>2, <1>4 DEF Persisted, Link
<1> QED
  BY <1>3, <1>4

\* Every step keeps the types.
LEMMA TypeStep ==
  ASSUME TypeOK, Next
  PROVE  TypeOK'
<1> USE OrderBoundsAssumption DEF rafam, job, cron
<1>1. CASE \E k \in Orders : Edit(k)
  <2>0. PICK k \in Orders : Edit(k)
    BY <1>1
  <2>1. est' \in [Orders -> States]
    BY <2>0 DEF TypeOK, Edit
  <2>2. val' \in [Orders -> 0..MaxVal]
    BY <2>0 DEF TypeOK, Edit
  <2>3. cc' \in [Orders -> BOOLEAN]
    BY <2>0 DEF TypeOK, Edit
  <2> QED
    BY <2>0, <2>1, <2>2, <2>3 DEF TypeOK, Edit
<1>2. CASE \E k \in Orders : Purge(k)
  BY <1>2 DEF TypeOK, States, Purge, Fault
<1>3. CASE \E k \in Orders : SupplierLinked(k)
  BY <1>3 DEF TypeOK, SupplierLinked
<1>4. CASE \E k \in Orders : OpMarks(k)
  <2>0. PICK k \in Orders : OpMarks(k)
    BY <1>4
  <2>1. link' \in [Orders -> Link]
    BY <2>0 DEF TypeOK, Link, OpMarks
  <2> QED
    BY <2>0, <2>1 DEF TypeOK, OpMarks
<1>5. CASE \E k \in Orders : RemoteDelete(k)
  <2>0. PICK k \in Orders : RemoteDelete(k)
    BY <1>5
  <2>1. pax' \in [Orders -> [val : 0..MaxVal, deleted : BOOLEAN]]
    BY <2>0 DEF TypeOK, RemoteDelete
  <2>2. faults' \in 0..MaxFaults
    BY <2>0 DEF TypeOK, RemoteDelete, Fault
  <2> QED
    BY <2>0, <2>1, <2>2 DEF TypeOK, RemoteDelete
<1>6. CASE \E k \in Orders : CheckOne(k)
  BY <1>6 DEF TypeOK, CheckOne, Answers
<1>7. CASE \E k \in Orders : Propagate(k)
  <2>0. PICK k \in Orders : Propagate(k)
    BY <1>7
  <2>1. pax' \in [Orders -> [val : 0..MaxVal, deleted : BOOLEAN]]
    BY <2>0 DEF TypeOK, Propagate
  <2> QED
    BY <2>0, <2>1 DEF TypeOK, Propagate
<1>8. CASE \E k \in Orders : PropagateFails(k)
  <2>0. PICK k \in Orders : PropagateFails(k)
    BY <1>8
  <2>1. pax' \in [Orders -> [val : 0..MaxVal, deleted : BOOLEAN]]
    <3>1. PICK d \in {pax[k].deleted, TRUE} : pax' = [pax EXCEPT ![k].deleted = d]
      BY <2>0 DEF PropagateFails
    <3>2. d \in BOOLEAN
      BY <3>1 DEF TypeOK
    <3> QED
      BY <3>1, <3>2 DEF TypeOK
  <2>2. faults' \in 0..MaxFaults
    BY <2>0 DEF TypeOK, PropagateFails, Fault
  <2> QED
    BY <2>0, <2>1, <2>2 DEF TypeOK, PropagateFails
<1>9. CASE \E k \in Orders : Mark(k)
  <2>0. PICK k \in Orders : Mark(k)
    BY <1>9
  <2>1. link' \in [Orders -> Link]
    BY <2>0 DEF TypeOK, Link, Mark
  <2> QED
    BY <2>0, <2>1 DEF TypeOK, Mark
<1>10. CASE \E b \in SUBSET rest : TakeBatch(b)
  BY <1>10, EntryTypes, LinkTypes, HashTypes
     DEF TypeOK, TakeBatch, ToCreate, ToDelete, ToRegister, Live, Grouped
<1>11. CASE StartStage
  BY <1>11, EntryTypes, LinkTypes, HashTypes DEF TypeOK, StartStage, RowOf
<1>12. CASE StartChanges
  BY <1>12, EntryTypes, LinkTypes, HashTypes
     DEF TypeOK, StartChanges, FetchedByKeys, RowOf, Differing
<1>13. CASE Backfill
  <2>1. link' \in [Orders -> Link]
    <3>1. \A k \in Orders : HashOf(RowOf(k)) \in Hashes
      BY LinkTypes, HashTypes
    <3>2. \A k \in Orders : [link[k] EXCEPT !.hash = HashOf(RowOf(k))] \in Link
      BY <3>1 DEF TypeOK, Link
    <3> QED
      BY <1>13, <3>2 DEF TypeOK, Backfill
  <2>2. backfilled' \subseteq Orders
    BY <1>13 DEF TypeOK, Backfill, Differing
  <2> QED
    BY <1>13, <2>1, <2>2 DEF TypeOK, Backfill
<1>14. CASE Respond
  <2>1. \A k \in Orders : Taken(k) \in [val : 0..MaxVal, deleted : BOOLEAN]
    BY <1>14 DEF TypeOK, Taken, Row
  <2>2. pax' \in [Orders -> [val : 0..MaxVal, deleted : BOOLEAN]]
    BY <1>14, <2>1 DEF TypeOK, Respond
  <2>3. faults' \in 0..MaxFaults
    BY <1>14 DEF TypeOK, Respond, Fault
  <2>4. out' \in [Orders -> {"none", "ok", "rejected", "dependency"}]
    BY <1>14 DEF Respond, Unanswered
  <2> QED
    BY <1>14, <2>1, <2>2, <2>3, <2>4 DEF TypeOK, Respond
<1>15. CASE Persist
  BY <1>15, EntryTypes, LinkTypes, HashTypes DEF TypeOK, Persist, Accepted, Payload
<1>16. CASE Record
  BY <1>16, EntryTypes, LinkTypes, HashTypes
     DEF TypeOK, Record, Payload, ReasonOf, Unanswered
<1>17. CASE EndJob
  <2>1. snap' \in [Orders -> Row]
    BY <1>17 DEF EndJob, Over, Nothing, Row, States
  <2>2. out' \in [Orders -> {"none", "ok", "rejected", "dependency"}]
    BY <1>17 DEF EndJob, Over, Unanswered
  <2> QED
    BY <1>17, <2>1, <2>2 DEF TypeOK, EndJob, Over
<1>18. CASE PostFails
  <2>1. \A k \in Orders : Taken(k) \in [val : 0..MaxVal, deleted : BOOLEAN]
    BY <1>18 DEF TypeOK, Taken, Row
  <2>2. pax' \in [Orders -> [val : 0..MaxVal, deleted : BOOLEAN]]
    BY <1>18, <2>1 DEF TypeOK, PostFails
  <2>3. faults' \in 0..MaxFaults
    BY <1>18 DEF TypeOK, PostFails, Fault
  <2> QED
    BY <1>18, <2>1, <2>2, <2>3 DEF TypeOK, PostFails
<1>19. CASE Crash
  <2>1. snap' \in [Orders -> Row]
    BY <1>19 DEF Crash, Over, Nothing, Row, States
  <2>2. out' \in [Orders -> {"none", "ok", "rejected", "dependency"}]
    BY <1>19 DEF Crash, Over, Unanswered
  <2>3. faults' \in 0..MaxFaults
    BY <1>19 DEF TypeOK, Crash, Fault
  <2> QED
    BY <1>19, <2>1, <2>2, <2>3 DEF TypeOK, Crash, Over
<1>20. CASE CheckStarts
  BY <1>20, EntryTypes, LinkTypes, HashTypes DEF TypeOK, CheckStarts
<1>21. CASE CheckEnds
  BY <1>21, EntryTypes, LinkTypes, HashTypes DEF TypeOK, CheckEnds
<1>22. CASE CheckCrash
  BY <1>22, EntryTypes, LinkTypes, HashTypes DEF TypeOK, CheckCrash, Fault
<1> QED
  BY <1>1, <1>2, <1>3, <1>4, <1>5, <1>6, <1>7, <1>8, <1>9, <1>10, <1>11, <1>12, <1>13,
     <1>14, <1>15, <1>16, <1>17, <1>18, <1>19, <1>20, <1>21, <1>22
     DEF Next, Environment, BatchStep, JobStep, CheckStep

\* What was read or answered is never ahead of RAFAM.
LEMMA AheadStep ==
  ASSUME IInv, TypeOK', Next
  PROVE  NeverAhead'
<1> USE OrderBoundsAssumption DEF rafam, job, cron
<1>1. CASE \E k \in Orders : Edit(k)
  BY <1>1 DEF IInv, TypeOK, NeverAhead, PayloadKnown, Row, Link, States, Edit
<1>2. CASE \E k \in Orders : Purge(k)
  BY <1>2 DEF IInv, TypeOK, NeverAhead, PayloadKnown, Row, Link, States, Purge, Fault
<1>3. CASE \E k \in Orders : SupplierLinked(k)
  BY <1>3 DEF IInv, TypeOK, NeverAhead, PayloadKnown, Row, Link, States, SupplierLinked
<1>4. CASE \E k \in Orders : OpMarks(k)
  BY <1>4 DEF IInv, TypeOK, NeverAhead, PayloadKnown, Row, Link, States, OpMarks
<1>5. CASE \E k \in Orders : RemoteDelete(k)
  BY <1>5
     DEF IInv, TypeOK, NeverAhead, PayloadKnown, Row, Link, States, RemoteDelete, Fault
<1>6. CASE \E k \in Orders : CheckOne(k)
  BY <1>6 DEF IInv, TypeOK, NeverAhead, PayloadKnown, Row, Link, States, CheckOne, Answers
<1>7. CASE \E k \in Orders : Propagate(k)
  BY <1>7 DEF IInv, TypeOK, NeverAhead, PayloadKnown, Row, Link, States, Propagate
<1>8. CASE \E k \in Orders : PropagateFails(k)
  BY <1>8
     DEF IInv, TypeOK, NeverAhead, PayloadKnown, Row, Link, States, PropagateFails,
         Fault
<1>9. CASE \E k \in Orders : Mark(k)
  BY <1>9 DEF IInv, TypeOK, NeverAhead, PayloadKnown, Row, Link, States, Mark
<1>10. CASE \E b \in SUBSET rest : TakeBatch(b)
  <2>1. PICK b \in SUBSET rest : TakeBatch(b)
    BY <1>10
  <2>2. \A k \in Orders : link'[k] = link[k] \/ (link'[k].estado = snap[k].est /\ link'[k].remote = link[k].remote)
    BY <2>1, Registering DEF IInv
  <2>3. UNCHANGED <<est, val, cc, pax, snap>> /\ pc = "loop"
    BY <2>1 DEF TakeBatch
  <2> QED
    BY <2>2, <2>3 DEF IInv, NeverAhead
<1>11. CASE StartStage
  BY <1>11
     DEF IInv, TypeOK, NeverAhead, PayloadKnown, Row, Link, States, StartStage, RowOf
<1>12. CASE StartChanges
  BY <1>12
     DEF IInv, TypeOK, NeverAhead, PayloadKnown, Row, Link, States, StartChanges,
         FetchedByKeys, RowOf,
         Differing
<1>13. CASE Backfill
  BY <1>13
     DEF IInv, TypeOK, NeverAhead, PayloadKnown, Row, Link, States, Backfill, Differing,
         RowOf
<1>14. CASE Respond
  BY <1>14
     DEF IInv, TypeOK, NeverAhead, PayloadKnown, Row, Link, States, Respond, Fault,
         Payload, Taken, Unanswered
<1>15. CASE Persist
  BY <1>15, Persisting, HashTypes
     DEF IInv, TypeOK, NeverAhead, PayloadKnown, Row, Link, States, Persist, Accepted,
         Payload
<1>16. CASE Record
  BY <1>16
     DEF IInv, TypeOK, NeverAhead, PayloadKnown, Row, Link, States, Record, Payload,
         ReasonOf, Unanswered
<1>17. CASE EndJob
  BY <1>17
     DEF IInv, TypeOK, NeverAhead, PayloadKnown, Row, Link, States, EndJob, Over,
         Nothing, Unanswered
<1>18. CASE PostFails
  BY <1>18
     DEF IInv, TypeOK, NeverAhead, PayloadKnown, Row, Link, States, PostFails, Fault,
         Payload, Taken
<1>19. CASE Crash
  BY <1>19
     DEF IInv, TypeOK, NeverAhead, PayloadKnown, Row, Link, States, Crash, Fault, Over,
         Nothing, Unanswered
<1>20. CASE CheckStarts
  BY <1>20 DEF IInv, TypeOK, NeverAhead, PayloadKnown, Row, Link, States, CheckStarts
<1>21. CASE CheckEnds
  BY <1>21 DEF IInv, TypeOK, NeverAhead, PayloadKnown, Row, Link, States, CheckEnds
<1>22. CASE CheckCrash
  BY <1>22
     DEF IInv, TypeOK, NeverAhead, PayloadKnown, Row, Link, States, CheckCrash, Fault
<1> QED
  BY <1>1, <1>2, <1>3, <1>4, <1>5, <1>6, <1>7, <1>8, <1>9, <1>10, <1>11, <1>12, <1>13,
     <1>14, <1>15, <1>16, <1>17, <1>18, <1>19, <1>20, <1>21, <1>22
     DEF Next, Environment, BatchStep, JobStep, CheckStep

\* What the process knows of its payload stays true.
LEMMA PayloadStep ==
  ASSUME IInv, TypeOK', Next
  PROVE  PayloadKnown'
<1> USE OrderBoundsAssumption DEF rafam, job, cron
<1>1. CASE \E k \in Orders : Edit(k)
  BY <1>1 DEF IInv, TypeOK, NeverAhead, PayloadKnown, Payload, Accepted, Row, Edit
<1>2. CASE \E k \in Orders : Purge(k)
  BY <1>2 DEF IInv, TypeOK, NeverAhead, PayloadKnown, Payload, Accepted, Row, Purge, Fault
<1>3. CASE \E k \in Orders : SupplierLinked(k)
  BY <1>3
     DEF IInv, TypeOK, NeverAhead, PayloadKnown, Payload, Accepted, Row, SupplierLinked
<1>4. CASE \E k \in Orders : OpMarks(k)
  BY <1>4 DEF IInv, TypeOK, NeverAhead, PayloadKnown, Payload, Accepted, Row, OpMarks
<1>5. CASE \E k \in Orders : RemoteDelete(k)
  BY <1>5
     DEF IInv, TypeOK, NeverAhead, PayloadKnown, Payload, Accepted, Row, RemoteDelete,
         Fault
<1>6. CASE \E k \in Orders : CheckOne(k)
  BY <1>6
     DEF IInv, TypeOK, NeverAhead, PayloadKnown, Payload, Accepted, Row, CheckOne,
         Answers
<1>7. CASE \E k \in Orders : Propagate(k)
  BY <1>7 DEF IInv, TypeOK, NeverAhead, PayloadKnown, Payload, Accepted, Row, Propagate
<1>8. CASE \E k \in Orders : PropagateFails(k)
  <2>0. PICK k \in Orders : PropagateFails(k)
    BY <1>8
  <2>1. PICK d \in {pax[k].deleted, TRUE} : pax' = [pax EXCEPT ![k].deleted = d]
    BY <2>0 DEF PropagateFails
  <2>2. \A j \in Orders : pax'[j].val = pax[j].val /\ (pax[j].deleted => pax'[j].deleted)
    BY <2>1 DEF IInv, TypeOK
  <2> QED
    BY <2>0, <2>2 DEF PropagateFails, IInv, PayloadKnown, Payload, Accepted
<1>9. CASE \E k \in Orders : Mark(k)
  BY <1>9 DEF IInv, TypeOK, NeverAhead, PayloadKnown, Payload, Accepted, Row, Mark
<1>10. CASE \E b \in SUBSET rest : TakeBatch(b)
  BY <1>10, Registering, HashTypes
     DEF IInv, TypeOK, NeverAhead, PayloadKnown, Payload, Accepted, Row, TakeBatch,
         ToCreate, ToDelete, ToRegister, Live, Grouped
<1>11. CASE StartStage
  BY <1>11
     DEF IInv, TypeOK, NeverAhead, PayloadKnown, Payload, Accepted, Row, StartStage,
         RowOf
<1>12. CASE StartChanges
  BY <1>12
     DEF IInv, TypeOK, NeverAhead, PayloadKnown, Payload, Accepted, Row, StartChanges,
         FetchedByKeys, RowOf, Differing
<1>13. CASE Backfill
  BY <1>13
     DEF IInv, TypeOK, NeverAhead, PayloadKnown, Payload, Accepted, Row, Backfill,
         Differing, RowOf
<1>14. CASE Respond
  BY <1>14
     DEF IInv, TypeOK, NeverAhead, PayloadKnown, Payload, Accepted, Row, Respond, Fault,
         Payload, Taken, Unanswered
<1>15. CASE Persist
  BY <1>15, Persisting, HashTypes
     DEF IInv, TypeOK, NeverAhead, PayloadKnown, Payload, Accepted, Row, Persist,
         Accepted, Payload
<1>16. CASE Record
  BY <1>16
     DEF IInv, TypeOK, NeverAhead, PayloadKnown, Payload, Accepted, Row, Record,
         Payload, ReasonOf, Unanswered
<1>17. CASE EndJob
  BY <1>17
     DEF IInv, TypeOK, NeverAhead, PayloadKnown, Payload, Accepted, Row, EndJob, Over,
         Nothing, Unanswered
<1>18. CASE PostFails
  BY <1>18
     DEF IInv, TypeOK, NeverAhead, PayloadKnown, Payload, Accepted, Row, PostFails,
         Fault, Payload, Taken
<1>19. CASE Crash
  BY <1>19
     DEF IInv, TypeOK, NeverAhead, PayloadKnown, Payload, Accepted, Row, Crash, Fault,
         Over, Nothing, Unanswered
<1>20. CASE CheckStarts
  BY <1>20 DEF IInv, TypeOK, NeverAhead, PayloadKnown, Payload, Accepted, Row, CheckStarts
<1>21. CASE CheckEnds
  BY <1>21 DEF IInv, TypeOK, NeverAhead, PayloadKnown, Payload, Accepted, Row, CheckEnds
<1>22. CASE CheckCrash
  BY <1>22
     DEF IInv, TypeOK, NeverAhead, PayloadKnown, Payload, Accepted, Row, CheckCrash,
         Fault
<1> QED
  BY <1>1, <1>2, <1>3, <1>4, <1>5, <1>6, <1>7, <1>8, <1>9, <1>10, <1>11, <1>12, <1>13,
     <1>14, <1>15, <1>16, <1>17, <1>18, <1>19, <1>20, <1>21, <1>22
     DEF Next, Environment, BatchStep, JobStep, CheckStep

\* So does what check_integrity knows of its links.
LEMMA SuspectsStep ==
  ASSUME IInv, TypeOK', Next
  PROVE  SuspectsKnown'
<1> USE OrderBoundsAssumption DEF rafam, job, cron
<1>1. CASE \E k \in Orders : Edit(k)
  BY <1>1 DEF IInv, TypeOK, NeverAhead, SuspectsKnown, Edit
<1>2. CASE \E k \in Orders : Purge(k)
  BY <1>2 DEF IInv, TypeOK, NeverAhead, SuspectsKnown, Purge, Fault
<1>3. CASE \E k \in Orders : SupplierLinked(k)
  BY <1>3 DEF IInv, TypeOK, NeverAhead, SuspectsKnown, SupplierLinked
<1>4. CASE \E k \in Orders : OpMarks(k)
  BY <1>4 DEF IInv, TypeOK, NeverAhead, SuspectsKnown, OpMarks
<1>5. CASE \E k \in Orders : RemoteDelete(k)
  BY <1>5 DEF IInv, TypeOK, NeverAhead, SuspectsKnown, RemoteDelete, Fault
<1>6. CASE \E k \in Orders : CheckOne(k)
  BY <1>6 DEF IInv, TypeOK, NeverAhead, SuspectsKnown, CheckOne, Answers
<1>7. CASE \E k \in Orders : Propagate(k)
  BY <1>7 DEF IInv, TypeOK, NeverAhead, SuspectsKnown, Propagate
<1>8. CASE \E k \in Orders : PropagateFails(k)
  BY <1>8 DEF IInv, TypeOK, NeverAhead, SuspectsKnown, PropagateFails, Fault
<1>9. CASE \E k \in Orders : Mark(k)
  BY <1>9 DEF IInv, TypeOK, NeverAhead, SuspectsKnown, Mark
<1>10. CASE \E b \in SUBSET rest : TakeBatch(b)
  BY <1>10, Registering, HashTypes
     DEF IInv, TypeOK, NeverAhead, SuspectsKnown, TakeBatch, ToCreate, ToDelete,
         ToRegister, Live, Grouped
<1>11. CASE StartStage
  BY <1>11 DEF IInv, TypeOK, NeverAhead, SuspectsKnown, StartStage, RowOf
<1>12. CASE StartChanges
  BY <1>12
     DEF IInv, TypeOK, NeverAhead, SuspectsKnown, StartChanges, FetchedByKeys, RowOf,
         Differing
<1>13. CASE Backfill
  BY <1>13 DEF IInv, TypeOK, NeverAhead, SuspectsKnown, Backfill, Differing, RowOf
<1>14. CASE Respond
  BY <1>14
     DEF IInv, TypeOK, NeverAhead, SuspectsKnown, Respond, Fault, Payload, Taken,
         Unanswered
<1>15. CASE Persist
  BY <1>15, Persisting, HashTypes
     DEF IInv, TypeOK, NeverAhead, SuspectsKnown, Persist, Accepted, Payload
<1>16. CASE Record
  BY <1>16
     DEF IInv, TypeOK, NeverAhead, SuspectsKnown, Record, Payload, ReasonOf, Unanswered
<1>17. CASE EndJob
  BY <1>17 DEF IInv, TypeOK, NeverAhead, SuspectsKnown, EndJob, Over, Nothing, Unanswered
<1>18. CASE PostFails
  BY <1>18 DEF IInv, TypeOK, NeverAhead, SuspectsKnown, PostFails, Fault, Payload, Taken
<1>19. CASE Crash
  BY <1>19
     DEF IInv, TypeOK, NeverAhead, SuspectsKnown, Crash, Fault, Over, Nothing,
         Unanswered
<1>20. CASE CheckStarts
  BY <1>20 DEF IInv, TypeOK, NeverAhead, SuspectsKnown, CheckStarts
<1>21. CASE CheckEnds
  BY <1>21 DEF IInv, TypeOK, NeverAhead, SuspectsKnown, CheckEnds
<1>22. CASE CheckCrash
  BY <1>22 DEF IInv, TypeOK, NeverAhead, SuspectsKnown, CheckCrash, Fault
<1> QED
  BY <1>1, <1>2, <1>3, <1>4, <1>5, <1>6, <1>7, <1>8, <1>9, <1>10, <1>11, <1>12, <1>13,
     <1>14, <1>15, <1>16, <1>17, <1>18, <1>19, <1>20, <1>21, <1>22
     DEF Next, Environment, BatchStep, JobStep, CheckStep

\* An annulled link keeps its mark.
LEMMA MarkedStep ==
  ASSUME IInv, TypeOK', Next
  PROVE  AnnulledIsMarked'
<1> USE OrderBoundsAssumption DEF rafam, job, cron
<1>1. CASE \E k \in Orders : Edit(k)
  BY <1>1 DEF IInv, TypeOK, NeverAhead, PayloadKnown, AnnulledIsMarked, Link, Edit
<1>2. CASE \E k \in Orders : Purge(k)
  BY <1>2 DEF IInv, TypeOK, NeverAhead, PayloadKnown, AnnulledIsMarked, Link, Purge, Fault
<1>3. CASE \E k \in Orders : SupplierLinked(k)
  BY <1>3
     DEF IInv, TypeOK, NeverAhead, PayloadKnown, AnnulledIsMarked, Link, SupplierLinked
<1>4. CASE \E k \in Orders : OpMarks(k)
  BY <1>4 DEF IInv, TypeOK, NeverAhead, PayloadKnown, AnnulledIsMarked, Link, OpMarks
<1>5. CASE \E k \in Orders : RemoteDelete(k)
  BY <1>5
     DEF IInv, TypeOK, NeverAhead, PayloadKnown, AnnulledIsMarked, Link, RemoteDelete,
         Fault
<1>6. CASE \E k \in Orders : CheckOne(k)
  BY <1>6
     DEF IInv, TypeOK, NeverAhead, PayloadKnown, AnnulledIsMarked, Link, CheckOne,
         Answers
<1>7. CASE \E k \in Orders : Propagate(k)
  BY <1>7 DEF IInv, TypeOK, NeverAhead, PayloadKnown, AnnulledIsMarked, Link, Propagate
<1>8. CASE \E k \in Orders : PropagateFails(k)
  BY <1>8
     DEF IInv, TypeOK, NeverAhead, PayloadKnown, AnnulledIsMarked, Link, PropagateFails,
         Fault
<1>9. CASE \E k \in Orders : Mark(k)
  BY <1>9 DEF IInv, TypeOK, NeverAhead, PayloadKnown, AnnulledIsMarked, Link, Mark
<1>10. CASE \E b \in SUBSET rest : TakeBatch(b)
  <2>1. PICK b \in SUBSET rest : TakeBatch(b)
    BY <1>10
  <2>2. \A k \in Orders :
          link'[k].estado = "A" /\ link'[k].remote => link'[k] = link[k]
    BY <2>1, Registering DEF IInv
  <2> QED
    BY <2>2 DEF IInv, AnnulledIsMarked
<1>11. CASE StartStage
  BY <1>11
     DEF IInv, TypeOK, NeverAhead, PayloadKnown, AnnulledIsMarked, Link, StartStage,
         RowOf
<1>12. CASE StartChanges
  BY <1>12
     DEF IInv, TypeOK, NeverAhead, PayloadKnown, AnnulledIsMarked, Link, StartChanges,
         FetchedByKeys, RowOf, Differing
<1>13. CASE Backfill
  BY <1>13
     DEF IInv, TypeOK, NeverAhead, PayloadKnown, AnnulledIsMarked, Link, Backfill,
         Differing, RowOf
<1>14. CASE Respond
  BY <1>14
     DEF IInv, TypeOK, NeverAhead, PayloadKnown, AnnulledIsMarked, Link, Respond, Fault,
         Payload, Taken, Unanswered
<1>15. CASE Persist
  BY <1>15, Persisting, HashTypes
     DEF IInv, TypeOK, NeverAhead, PayloadKnown, AnnulledIsMarked, Link, Persist,
         Accepted, Payload
<1>16. CASE Record
  BY <1>16
     DEF IInv, TypeOK, NeverAhead, PayloadKnown, AnnulledIsMarked, Link, Record,
         Payload, ReasonOf, Unanswered
<1>17. CASE EndJob
  BY <1>17
     DEF IInv, TypeOK, NeverAhead, PayloadKnown, AnnulledIsMarked, Link, EndJob, Over,
         Nothing, Unanswered
<1>18. CASE PostFails
  BY <1>18
     DEF IInv, TypeOK, NeverAhead, PayloadKnown, AnnulledIsMarked, Link, PostFails,
         Fault, Payload, Taken
<1>19. CASE Crash
  BY <1>19
     DEF IInv, TypeOK, NeverAhead, PayloadKnown, AnnulledIsMarked, Link, Crash, Fault,
         Over, Nothing, Unanswered
<1>20. CASE CheckStarts
  BY <1>20 DEF IInv, TypeOK, NeverAhead, PayloadKnown, AnnulledIsMarked, Link, CheckStarts
<1>21. CASE CheckEnds
  BY <1>21 DEF IInv, TypeOK, NeverAhead, PayloadKnown, AnnulledIsMarked, Link, CheckEnds
<1>22. CASE CheckCrash
  BY <1>22
     DEF IInv, TypeOK, NeverAhead, PayloadKnown, AnnulledIsMarked, Link, CheckCrash,
         Fault
<1> QED
  BY <1>1, <1>2, <1>3, <1>4, <1>5, <1>6, <1>7, <1>8, <1>9, <1>10, <1>11, <1>12, <1>13,
     <1>14, <1>15, <1>16, <1>17, <1>18, <1>19, <1>20, <1>21, <1>22
     DEF Next, Environment, BatchStep, JobStep, CheckStep

\* No hash is written down that was not acknowledged.
LEMMA HashStep ==
  ASSUME IInv, TypeOK', Next
  PROVE  HashIsAcknowledged'
<1> USE OrderBoundsAssumption DEF rafam, job, cron
<1>1. CASE \E k \in Orders : Edit(k)
  BY <1>1 DEF IInv, TypeOK, NeverAhead, PayloadKnown, HashIsAcknowledged, Link, Row, Edit
<1>2. CASE \E k \in Orders : Purge(k)
  BY <1>2
     DEF IInv, TypeOK, NeverAhead, PayloadKnown, HashIsAcknowledged, Link, Row, Purge,
         Fault
<1>3. CASE \E k \in Orders : SupplierLinked(k)
  BY <1>3
     DEF IInv, TypeOK, NeverAhead, PayloadKnown, HashIsAcknowledged, Link, Row,
         SupplierLinked
<1>4. CASE \E k \in Orders : OpMarks(k)
  BY <1>4
     DEF IInv, TypeOK, NeverAhead, PayloadKnown, HashIsAcknowledged, Link, Row, OpMarks
<1>5. CASE \E k \in Orders : RemoteDelete(k)
  BY <1>5
     DEF IInv, TypeOK, NeverAhead, PayloadKnown, HashIsAcknowledged, Link, Row,
         RemoteDelete, Fault
<1>6. CASE \E k \in Orders : CheckOne(k)
  BY <1>6
     DEF IInv, TypeOK, NeverAhead, PayloadKnown, HashIsAcknowledged, Link, Row,
         CheckOne, Answers
<1>7. CASE \E k \in Orders : Propagate(k)
  BY <1>7
     DEF IInv, TypeOK, NeverAhead, PayloadKnown, HashIsAcknowledged, Link, Row,
         Propagate
<1>8. CASE \E k \in Orders : PropagateFails(k)
  BY <1>8
     DEF IInv, TypeOK, NeverAhead, PayloadKnown, HashIsAcknowledged, Link, Row,
         PropagateFails, Fault
<1>9. CASE \E k \in Orders : Mark(k)
  BY <1>9 DEF IInv, TypeOK, NeverAhead, PayloadKnown, HashIsAcknowledged, Link, Row, Mark
<1>10. CASE \E b \in SUBSET rest : TakeBatch(b)
  <2>1. PICK b \in SUBSET rest : TakeBatch(b)
    BY <1>10
  <2>2. SUFFICES ASSUME NEW k \in Orders \ backfilled, link'[k].estado = "R", link'[k].hash[2] = "R"
                 PROVE  pax[k].val >= link'[k].hash[1]
    BY <2>1 DEF TakeBatch, HashIsAcknowledged
  <2>3. CASE link'[k] = link[k]
    BY <2>2, <2>3 DEF IInv, HashIsAcknowledged
  <2>4. CASE link'[k] # link[k]
    <3>1. /\ link'[k].estado = snap[k].est /\ link'[k].hash = HashOf(snap[k])
          /\ snap[k].est = "R" => link[k].estado = "R" /\ link[k].hash = HashOf(snap[k])
      BY <2>1, <2>2, <2>4, Registering DEF IInv
    <3> QED
      BY <2>2, <3>1 DEF IInv, HashIsAcknowledged
  <2> QED
    BY <2>3, <2>4
<1>11. CASE StartStage
  BY <1>11
     DEF IInv, TypeOK, NeverAhead, PayloadKnown, HashIsAcknowledged, Link, Row,
         StartStage, RowOf
<1>12. CASE StartChanges
  BY <1>12
     DEF IInv, TypeOK, NeverAhead, PayloadKnown, HashIsAcknowledged, Link, Row,
         StartChanges, FetchedByKeys, RowOf, Differing
<1>13. CASE Backfill
  BY <1>13
     DEF IInv, TypeOK, NeverAhead, PayloadKnown, HashIsAcknowledged, Link, Row,
         Backfill, Differing, RowOf
<1>14. CASE Respond
  <2>1. UNCHANGED <<link, backfilled>>
    BY <1>14 DEF Respond
  <2>2. \A k \in Orders : pax[k].val <= pax'[k].val
    BY <1>14 DEF IInv, TypeOK, Row, NeverAhead, Respond, Payload, Taken
  <2>3. \A k \in Orders : link[k].hash[1] \in Nat
    BY HashNumbers DEF IInv
  <2> QED
    BY <2>1, <2>2, <2>3 DEF IInv, TypeOK, HashIsAcknowledged
<1>15. CASE Persist
  <2>1. SUFFICES ASSUME NEW k \in Orders \ backfilled', link'[k].estado = "R", link'[k].hash[2] = "R"
                 PROVE  pax[k].val >= link'[k].hash[1]
    BY <1>15 DEF Persist, HashIsAcknowledged
  <2>2. CASE k \notin Accepted
    BY <1>15, <2>1, <2>2, Persisting DEF Persist, IInv, HashIsAcknowledged
  <2>3. CASE k \in Accepted
    <3>1. link'[k].estado = snap[k].est
      BY <1>15, <2>3, Persisting DEF IInv
    <3>2. k \notin anular
      BY <1>15, <2>1, <3>1 DEF Persist, IInv, PayloadKnown
    <3>3. link'[k].hash = HashOf(snap[k]) /\ pax[k].val >= snap[k].val
      BY <1>15, <2>3, <3>2, Persisting DEF IInv, PayloadKnown, Persist
    <3> QED
      BY <3>3, HashTypes DEF IInv, TypeOK
  <2> QED
    BY <2>2, <2>3
<1>16. CASE Record
  BY <1>16
     DEF IInv, TypeOK, NeverAhead, PayloadKnown, HashIsAcknowledged, Link, Row, Record,
         Payload, ReasonOf, Unanswered
<1>17. CASE EndJob
  BY <1>17
     DEF IInv, TypeOK, NeverAhead, PayloadKnown, HashIsAcknowledged, Link, Row, EndJob,
         Over, Nothing, Unanswered
<1>18. CASE PostFails
  <2>1. UNCHANGED <<link, backfilled>>
    BY <1>18 DEF PostFails
  <2>2. \A k \in Orders : pax[k].val <= pax'[k].val
    BY <1>18 DEF IInv, TypeOK, Row, NeverAhead, PostFails, Payload, Taken
  <2>3. \A k \in Orders : link[k].hash[1] \in Nat
    BY HashNumbers DEF IInv
  <2> QED
    BY <2>1, <2>2, <2>3 DEF IInv, TypeOK, HashIsAcknowledged
<1>19. CASE Crash
  BY <1>19
     DEF IInv, TypeOK, NeverAhead, PayloadKnown, HashIsAcknowledged, Link, Row, Crash,
         Fault, Over, Nothing, Unanswered
<1>20. CASE CheckStarts
  BY <1>20
     DEF IInv, TypeOK, NeverAhead, PayloadKnown, HashIsAcknowledged, Link, Row,
         CheckStarts
<1>21. CASE CheckEnds
  BY <1>21
     DEF IInv, TypeOK, NeverAhead, PayloadKnown, HashIsAcknowledged, Link, Row,
         CheckEnds
<1>22. CASE CheckCrash
  BY <1>22
     DEF IInv, TypeOK, NeverAhead, PayloadKnown, HashIsAcknowledged, Link, Row,
         CheckCrash, Fault
<1> QED
  BY <1>1, <1>2, <1>3, <1>4, <1>5, <1>6, <1>7, <1>8, <1>9, <1>10, <1>11, <1>12, <1>13,
     <1>14, <1>15, <1>16, <1>17, <1>18, <1>19, <1>20, <1>21, <1>22
     DEF Next, Environment, BatchStep, JobStep, CheckStep

\* No deletion is on record that did not happen.
LEMMA SkippedStep ==
  ASSUME IInv, TypeOK', Next
  PROVE  SkippedIsDeleted'
<1> USE OrderBoundsAssumption DEF rafam, job, cron
<1>1. CASE \E k \in Orders : Edit(k)
  BY <1>1
     DEF IInv, TypeOK, NeverAhead, PayloadKnown, AnnulledIsMarked, SkippedIsDeleted,
         Link, Edit
<1>2. CASE \E k \in Orders : Purge(k)
  BY <1>2
     DEF IInv, TypeOK, NeverAhead, PayloadKnown, AnnulledIsMarked, SkippedIsDeleted,
         Link, Purge, Fault
<1>3. CASE \E k \in Orders : SupplierLinked(k)
  BY <1>3
     DEF IInv, TypeOK, NeverAhead, PayloadKnown, AnnulledIsMarked, SkippedIsDeleted,
         Link, SupplierLinked
<1>4. CASE \E k \in Orders : OpMarks(k)
  BY <1>4
     DEF IInv, TypeOK, NeverAhead, PayloadKnown, AnnulledIsMarked, SkippedIsDeleted,
         Link, OpMarks
<1>5. CASE \E k \in Orders : RemoteDelete(k)
  BY <1>5
     DEF IInv, TypeOK, NeverAhead, PayloadKnown, AnnulledIsMarked, SkippedIsDeleted,
         Link, RemoteDelete, Fault
<1>6. CASE \E k \in Orders : CheckOne(k)
  BY <1>6
     DEF IInv, TypeOK, NeverAhead, PayloadKnown, AnnulledIsMarked, SkippedIsDeleted,
         Link, CheckOne, Answers
<1>7. CASE \E k \in Orders : Propagate(k)
  BY <1>7
     DEF IInv, TypeOK, NeverAhead, PayloadKnown, AnnulledIsMarked, SkippedIsDeleted,
         Link, Propagate
<1>8. CASE \E k \in Orders : PropagateFails(k)
  <2>0. PICK k \in Orders : PropagateFails(k)
    BY <1>8
  <2>1. PICK d \in {pax[k].deleted, TRUE} : pax' = [pax EXCEPT ![k].deleted = d]
    BY <2>0 DEF PropagateFails
  <2>2. \A j \in Orders : pax[j].deleted => pax'[j].deleted
    BY <2>1 DEF IInv, TypeOK
  <2> QED
    BY <2>0, <2>2 DEF PropagateFails, IInv, SkippedIsDeleted
<1>9. CASE \E k \in Orders : Mark(k)
  BY <1>9
     DEF IInv, TypeOK, NeverAhead, PayloadKnown, AnnulledIsMarked, SkippedIsDeleted,
         Link, Mark
<1>10. CASE \E b \in SUBSET rest : TakeBatch(b)
  <2>1. PICK b \in SUBSET rest : TakeBatch(b)
    BY <1>10
  <2>2. \A k \in Orders :
          link'[k].estado = "A" /\ link'[k].remote => link'[k] = link[k]
    BY <2>1, Registering DEF IInv
  <2> QED
    BY <2>1, <2>2 DEF TakeBatch, IInv, SkippedIsDeleted
<1>11. CASE StartStage
  BY <1>11
     DEF IInv, TypeOK, NeverAhead, PayloadKnown, AnnulledIsMarked, SkippedIsDeleted,
         Link, StartStage, RowOf
<1>12. CASE StartChanges
  BY <1>12
     DEF IInv, TypeOK, NeverAhead, PayloadKnown, AnnulledIsMarked, SkippedIsDeleted,
         Link, StartChanges, FetchedByKeys, RowOf, Differing
<1>13. CASE Backfill
  BY <1>13
     DEF IInv, TypeOK, NeverAhead, PayloadKnown, AnnulledIsMarked, SkippedIsDeleted,
         Link, Backfill, Differing, RowOf
<1>14. CASE Respond
  <2>1. link' = link
    BY <1>14 DEF Respond
  <2>2. SUFFICES ASSUME NEW k \in Orders, link[k].estado = "A", pax[k].deleted
                 PROVE  pax'[k].deleted
    BY <2>1 DEF IInv, SkippedIsDeleted
  <2>3. k \notin create
    BY <1>14, <2>2 DEF Respond, IInv, NeverAhead, PayloadKnown
  <2> QED
    BY <1>14, <2>2, <2>3 DEF Respond, Payload, Taken, IInv, TypeOK
<1>15. CASE Persist
  BY <1>15, Persisting, HashTypes
     DEF IInv, TypeOK, NeverAhead, PayloadKnown, AnnulledIsMarked, SkippedIsDeleted,
         Link, Persist, Accepted, Payload
<1>16. CASE Record
  BY <1>16
     DEF IInv, TypeOK, NeverAhead, PayloadKnown, AnnulledIsMarked, SkippedIsDeleted,
         Link, Record, Payload, ReasonOf, Unanswered
<1>17. CASE EndJob
  BY <1>17
     DEF IInv, TypeOK, NeverAhead, PayloadKnown, AnnulledIsMarked, SkippedIsDeleted,
         Link, EndJob, Over, Nothing, Unanswered
<1>18. CASE PostFails
  BY <1>18
     DEF IInv, TypeOK, NeverAhead, PayloadKnown, AnnulledIsMarked, SkippedIsDeleted,
         Link, PostFails, Fault, Payload, Taken
<1>19. CASE Crash
  BY <1>19
     DEF IInv, TypeOK, NeverAhead, PayloadKnown, AnnulledIsMarked, SkippedIsDeleted,
         Link, Crash, Fault, Over, Nothing, Unanswered
<1>20. CASE CheckStarts
  BY <1>20
     DEF IInv, TypeOK, NeverAhead, PayloadKnown, AnnulledIsMarked, SkippedIsDeleted,
         Link, CheckStarts
<1>21. CASE CheckEnds
  BY <1>21
     DEF IInv, TypeOK, NeverAhead, PayloadKnown, AnnulledIsMarked, SkippedIsDeleted,
         Link, CheckEnds
<1>22. CASE CheckCrash
  BY <1>22
     DEF IInv, TypeOK, NeverAhead, PayloadKnown, AnnulledIsMarked, SkippedIsDeleted,
         Link, CheckCrash, Fault
<1> QED
  BY <1>1, <1>2, <1>3, <1>4, <1>5, <1>6, <1>7, <1>8, <1>9, <1>10, <1>11, <1>12, <1>13,
     <1>14, <1>15, <1>16, <1>17, <1>18, <1>19, <1>20, <1>21, <1>22
     DEF Next, Environment, BatchStep, JobStep, CheckStep

\* IInv holds at the start, when there is no order.
LEMMA InitInv == Init => IInv
<1> SUFFICES ASSUME Init PROVE IInv
  OBVIOUS
<1>1. NoEntry \in Entry
  BY MaxAttemptsAssumption DEF NoEntry, Entry, Statuses
<1>2. NoLink \in Link
  BY HashTypes DEF NoLink, Link, States
<1>3. snap \in [Orders -> Row]
  BY OrderBoundsAssumption DEF Init, Nothing, Row, States
<1>4. link \in [Orders -> Link] /\ queue \in [Orders -> Entry]
  BY <1>1, <1>2 DEF Init
<1>5. TypeOK
  BY <1>3, <1>4, OrderBoundsAssumption DEF Init, TypeOK, States, Unanswered
<1>6. \A k \in Orders : link[k].estado = "none" /\ ~link[k].remote /\ ~link[k].deleted
  BY DEF Init, NoLink
<1> QED
  BY <1>5, <1>6
     DEF Init, IInv, NeverAhead, PayloadKnown, SuspectsKnown, AnnulledIsMarked,
         HashIsAcknowledged, SkippedIsDeleted, Payload, Nothing

\* Every step keeps it.
LEMMA InvStep == IInv /\ [Next]_vars => IInv'
<1> SUFFICES ASSUME IInv, [Next]_vars PROVE IInv'
  OBVIOUS
<1>1. CASE Next
  <2>1. TypeOK'
    BY <1>1, TypeStep DEF IInv
  <2> QED
    BY <1>1, <2>1, AheadStep, PayloadStep, SuspectsStep, MarkedStep, HashStep, SkippedStep
       DEF IInv
<1>2. CASE UNCHANGED vars
  BY <1>2
     DEF IInv, TypeOK, NeverAhead, PayloadKnown, SuspectsKnown, AnnulledIsMarked,
         HashIsAcknowledged, SkippedIsDeleted, Payload, Accepted, vars, rafam, job, cron
<1> QED
  BY <1>1, <1>2

\* What the three writers know of the orders, whatever order their steps come in,
\* and whatever fails.
THEOREM InductiveInvariant == Spec => []IInv
  BY InitInv, InvStep, PTL DEF Spec

\* The hash that makes the oc_items stage leave an order out is one Paxapos has
\* acknowledged (oc_items.py:207-230).
THEOREM HashSound == Spec => []HashIsAcknowledged
  BY InductiveInvariant, PTL DEF IInv

\* The mark that makes it leave an annulled order out is that of a deletion that
\* happened (oc_items.py:185-192).
THEOREM SkipSound == Spec => []SkippedIsDeleted
  BY InductiveInvariant, PTL DEF IInv

\* A step that deletes a Pedido has an annulled order, or one that is gone.
LEMMA DeletionStep ==
  ASSUME ~OracleFails, IInv, Next, NEW k \in Orders, pax'[k].deleted, ~pax[k].deleted,
         <<job, cron>>' # <<job, cron>>
  PROVE  est[k] \in {"A", "none"}
<1>1. pax' # pax
  OBVIOUS
<1>2. CASE \E j \in Orders : RemoteDelete(j)
  BY <1>2 DEF RemoteDelete
<1>3. CASE Respond
  BY <1>3 DEF IInv, TypeOK, NeverAhead, PayloadKnown, Respond, Taken, Payload
<1>4. CASE PostFails
  BY <1>4 DEF IInv, TypeOK, NeverAhead, PayloadKnown, PostFails, Taken, Payload
<1>5. CASE \E j \in Orders : Propagate(j) \/ PropagateFails(j)
  <2>1. PICK j \in Orders : Propagate(j) \/ PropagateFails(j)
    BY <1>5
  <2>2. j = k
    BY <2>1 DEF Propagate, PropagateFails, IInv, TypeOK
  <2> QED
    BY <2>1, <2>2 DEF Propagate, PropagateFails, IInv, SuspectsKnown
<1> QED
  BY <1>1, <1>2, <1>3, <1>4, <1>5
     DEF Next, Environment, JobStep, BatchStep, CheckStep, Edit, Purge, SupplierLinked,
         OpMarks, StartStage, StartChanges, Backfill, TakeBatch, Persist, Record, EndJob,
         Crash, Over, CheckStarts, CheckOne, Mark, CheckEnds, CheckCrash

\* While RAFAM answers the query of fetch_estado_by_key, none of the three writers
\* deletes the Pedido of an order that is alive.
THEOREM NoLiveDeletion ==
  ASSUME ~OracleFails
  PROVE  Spec => NoLiveOrderDeleted
<1>1. IInv /\ [Next]_vars =>
        [\A k \in Orders :
           /\ pax'[k].deleted /\ ~pax[k].deleted
           /\ <<job, cron>>' # <<job, cron>>
           => est[k] \in {"A", "none"}]_vars
  BY DeletionStep
<1> QED
  BY <1>1, InductiveInvariant, PTL DEF Spec, NoLiveOrderDeleted

\* A step that writes a link keeps the remote id and the mark of payment.
LEMMA LinkStep ==
  ASSUME IInv, Next, NEW k \in Orders
  PROVE  (link[k].remote => link'[k].remote) /\ (link[k].hasOp => link'[k].hasOp)
<1>1. link[k] \in Link
  BY DEF IInv, TypeOK
<1>2. CASE \E b \in SUBSET rest : TakeBatch(b)
  BY <1>2, Registering DEF IInv
<1>3. CASE Persist
  BY <1>3, Persisting DEF IInv
<1>4. CASE Backfill
  BY <1>1, <1>4 DEF Backfill, Link
<1>5. CASE \E j \in Orders : OpMarks(j) \/ Mark(j)
  <2>1. PICK j \in Orders : OpMarks(j) \/ Mark(j)
    BY <1>5
  <2>2. CASE j = k
    <3>1. CASE OpMarks(k)
      BY <1>1, <3>1 DEF OpMarks, Link, IInv, TypeOK
    <3>2. CASE Mark(k)
      BY <1>1, <3>2 DEF Mark, Link, IInv, TypeOK
    <3> QED
      BY <2>1, <2>2, <3>1, <3>2
  <2>3. CASE j # k
    BY <2>1, <2>3 DEF OpMarks, Mark, IInv, TypeOK
  <2> QED
    BY <2>2, <2>3
<1> QED
  BY <1>2, <1>3, <1>4, <1>5
     DEF Next, Environment, JobStep, BatchStep, CheckStep, Edit, Purge, SupplierLinked,
         RemoteDelete, StartStage, StartChanges, Respond, PostFails, Record, EndJob,
         Crash, Over, CheckStarts, CheckOne, Propagate, PropagateFails, CheckEnds, CheckCrash

\* No writer loses the remote id of an order or the mark that it was paid
\* (entity_link_store.py:118-143).
THEOREM LinksGrow == Spec => LinksOnlyGrow
<1>1. IInv /\ [Next]_vars =>
        [\A k \in Orders : /\ link[k].remote => link'[k].remote
                           /\ link[k].hasOp => link'[k].hasOp]_vars
  BY LinkStep
<1> QED
  BY <1>1, InductiveInvariant, PTL DEF Spec, LinksOnlyGrow
=============================================================================
