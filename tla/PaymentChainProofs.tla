------------------------- MODULE PaymentChainProofs -------------------------
(***************************************************************************)
(* That an order and its retentions are never forgotten between the four   *)
(* stages, for any orders, versions and faults.                            *)
(***************************************************************************)
EXTENDS PaymentChain, RetryStoreProofs

USE ChainBoundsAssumption DEF rafam, deps, pax, local, batch, missed, unlinked

(***************************************************************************)
(* What the operators return.                                              *)
(***************************************************************************)

\* What an answer makes of an entry is an entry.
LEMMA RecordedTypes ==
  ASSUME NEW e \in Entry, NEW a
  PROVE  Recorded(e, a) \in Entry
  BY EntryTypes DEF Recorded

\* An answer that is no success leaves the entry in the queue.
LEMMA RecordedIsQueued ==
  ASSUME NEW e \in Entry, NEW a \in Recordable
  PROVE  \/ a \in {"ok", "gone"}
         \/ Recorded(e, a).status # "absent"
  BY EnqueuedIsQueued DEF Recorded, Recordable

\* The rows a batch leaves are as those it found, but for their mark.
LEMMA MarkedTypes ==
  ASSUME NEW sel \in [Ops -> Selections], NEW from, NEW to \in Selections
  PROVE  /\ Marked(sel, from, to) \in [Ops -> Selections]
         /\ \A op \in Ops : Marked(sel, from, to)[op] = IF sel[op] = from THEN to ELSE sel[op]
  BY DEF Marked

\* With the batch over nothing of it is left.
LEMMA OverTypes ==
  ASSUME BatchOver
  PROVE  /\ snap' \in [Ops -> 0..MaxVal] /\ sent' = {} /\ out' \in [Ops -> Answers]
         /\ mapped' \in [Ops -> Extents] /\ out' = Unanswered
         /\ \A op \in Ops : snap'[op] = 0 /\ out'[op] = "none"
  BY DEF BatchOver, Unanswered, Nothing, Answers, Extents

\* A fault is counted within its bound.
LEMMA FaultTypes ==
  ASSUME TypeOK, Fault
  PROVE  faults' \in 0..MaxFaults
  BY DEF TypeOK, Fault

\* The rows each stage looks at are orders, confirmed at least once.
LEMMA RowsAreConfirmed ==
  /\ ToWait \subseteq Ops /\ OpUnchanged \subseteq Ops /\ NoSupplier \subseteq Ops
  /\ OpEligible \subseteq Ops /\ \A op \in OpEligible : val[op] # 0
  /\ RetMapped \subseteq Ops /\ RetEligible \subseteq Ops
  /\ \A op \in RetEligible : val[op] # 0
  BY DEF ToWait, OpUnchanged, NoSupplier, NoOrder, OpEligible, OpRows, RetMapped, RetEligible,
         RetRows

\* The links a batch writes are of versions RAFAM has had.
LEMMA LinkTypes ==
  ASSUME TypeOK, NEW ops
  PROVE  /\ OpLinked(ops) \in [Ops -> [val : 0..MaxVal, deleted : BOOLEAN]]
         /\ RetLinked(ops) \in [Ops -> Extents] /\ Carried(ops) \in [Ops -> Extents]
         /\ \A op \in Ops :
              /\ OpLinked(ops)[op].val = IF op \in ops THEN snap[op] ELSE opLink[op].val
              /\ OpLinked(ops)[op].deleted = opLink[op].deleted
              /\ RetLinked(ops)[op] = IF op \in ops THEN mapped[op] ELSE retLink[op]
              /\ Carried(ops)[op] = IF op \in ops THEN mapped[op] ELSE applied[op]
  <1>1. \A op \in Ops : opLink[op] \in [val : 0..MaxVal, deleted : BOOLEAN] /\ snap[op] \in 0..MaxVal
    BY DEF TypeOK
  <1>2. \A op \in Ops : [opLink[op] EXCEPT !.val = snap[op]] \in [val : 0..MaxVal, deleted : BOOLEAN]
    BY <1>1
  <1>3. \A op \in Ops : /\ [opLink[op] EXCEPT !.val = snap[op]].val = snap[op]
                        /\ [opLink[op] EXCEPT !.val = snap[op]].deleted = opLink[op].deleted
    BY <1>1
  <1>4. OpLinked(ops) \in [Ops -> [val : 0..MaxVal, deleted : BOOLEAN]]
    BY <1>1, <1>2 DEF OpLinked
  <1>5. \A op \in Ops :
          /\ OpLinked(ops)[op].val = IF op \in ops THEN snap[op] ELSE opLink[op].val
          /\ OpLinked(ops)[op].deleted = opLink[op].deleted
    BY <1>3 DEF OpLinked
  <1> QED BY <1>4, <1>5 DEF RetLinked, Carried, TypeOK

(***************************************************************************)
(* The types.                                                              *)
(***************************************************************************)

\* Every step keeps the types.
LEMMA TypeStep ==
  ASSUME TypeOK, Next
  PROVE  TypeOK'
<1>1. CASE \E op \in Ops : Confirm(op) \/ Edit(op) \/ Annul(op)
  BY <1>1 DEF TypeOK, Confirm, Edit, Annul, Confirmed, Gone, Selections
<1>2. CASE \E op \in Ops : OpAges(op) \/ RetAges(op)
  BY <1>2 DEF TypeOK, OpAges, RetAges, Selections
<1>3. CASE \E op \in Ops : RemoteDelete(op)
  BY <1>3, FaultTypes DEF TypeOK, RemoteDelete, Gone, Extents
<1>4. CASE RequeuePermanent
  <2>1. opQueue' \in [Ops -> Entry] /\ retQueue' \in [Ops -> Entry]
    BY <1>4, EntryTypes DEF TypeOK, RequeuePermanent
  <2> QED BY <1>4, <2>1, FaultTypes DEF TypeOK, RequeuePermanent
<1>5. CASE StartRun
  BY <1>5 DEF TypeOK, StartRun
<1>6. CASE SuppliersStage
  BY <1>6, FaultTypes DEF TypeOK, SuppliersStage
<1>7. CASE OrdersStage
  BY <1>7, FaultTypes DEF TypeOK, OrdersStage
<1>8. CASE TakeOps
  <2>1. \A op \in Ops : \A f : OpQueued(op, f) \in Entry
    BY EntryTypes DEF TypeOK, OpQueued
  <2>2. opQueue' \in [Ops -> Entry]
    BY <1>8, <2>1 DEF TypeOK, TakeOps
  <2>3. supplier' \in [Ops -> {"linked", "asked", "fresh", "stale"}]
    BY <1>8 DEF TypeOK, TakeOps, Asked
  <2>4. sent' \subseteq Ops /\ forgotten' \subseteq Ops /\ faults' \in 0..MaxFaults
    BY <1>8, RowsAreConfirmed, FaultTypes DEF TypeOK, TakeOps
  <2>5. opSel' \in [Ops -> Selections] /\ pc' \in {"retenciones", "op-post"}
    BY <1>8, MarkedTypes DEF TypeOK, TakeOps, Selections
  <2>6. snap' \in [Ops -> 0..MaxVal] /\ out' \in [Ops -> Answers] /\ mapped' \in [Ops -> Extents]
    BY <1>8 DEF TypeOK, TakeOps, Unanswered, Nothing, Answers, Extents
  <2> QED BY <1>8, <2>2, <2>3, <2>4, <2>5, <2>6 DEF TypeOK, TakeOps
<1>9. CASE AnswerOps
  <2>1. \A op \in Ops : OpTaken(op) \in 0..Gone
    BY DEF TypeOK, OpTaken, Gone
  <2>2. egreso' \in [Ops -> 0..Gone] /\ out' \in [Ops -> Answers]
    BY <1>9, <2>1 DEF TypeOK, AnswerOps, Answers
  <2> QED BY <1>9, <2>2, FaultTypes DEF TypeOK, AnswerOps
<1>10. CASE PostOpsFails
  <2>1. \A op \in Ops : OpTaken(op) \in 0..Gone
    BY DEF TypeOK, OpTaken, Gone
  <2>2. egreso' \in [Ops -> 0..Gone] /\ opSel' \in [Ops -> Selections]
    BY <1>10, <2>1, MarkedTypes DEF TypeOK, PostOpsFails, Selections
  <2> QED BY <1>10, <2>2, FaultTypes, OverTypes DEF TypeOK, PostOpsFails
<1>11. CASE PersistOps
  BY <1>11, LinkTypes DEF TypeOK, PersistOps
<1>12. CASE PersistOpsFails
  <2>1. opSel' \in [Ops -> Selections]
    BY <1>12, MarkedTypes DEF TypeOK, PersistOpsFails, Selections
  <2>2. opUnlinked' \subseteq Ops
    BY <1>12 DEF TypeOK, PersistOpsFails, Answered
  <2> QED BY <1>12, <2>1, <2>2, LinkTypes, FaultTypes DEF TypeOK, PersistOpsFails
<1>13. ASSUME NEW op \in Ops, RecordOp(op) PROVE TypeOK'
  <2>1. opQueue' \in [Ops -> Entry]
    BY <1>13, RecordedTypes DEF TypeOK, RecordOp
  <2> QED BY <1>13, <2>1 DEF TypeOK, RecordOp, Answers
<1>14. CASE EndOps
  <2>1. opSel' \in [Ops -> Selections]
    BY <1>14, MarkedTypes DEF TypeOK, EndOps, Selections
  <2> QED BY <1>14, <2>1, OverTypes DEF TypeOK, EndOps
<1>15. CASE TakeRets
  <2>1. PICK m \in [RetMapped -> Extents] :
          /\ IF \A op \in RetMapped : m[op] = "all" THEN UNCHANGED faults ELSE Fault
          /\ retQueue' = [op \in Ops |-> RetQueued(op, m)]
          /\ sent' = RetSent(m)
          /\ mapped' = [op \in Ops |-> IF op \in RetSent(m) THEN m[op] ELSE "none"]
    BY <1>15 DEF TakeRets
  <2>2. \A op \in Ops : RetQueued(op, m) \in Entry
    BY EntryTypes DEF TypeOK, RetQueued
  <2>3. RetSent(m) \subseteq RetMapped
    BY DEF RetSent
  <2>4. retQueue' \in [Ops -> Entry] /\ sent' \subseteq Ops /\ mapped' \in [Ops -> Extents]
    BY <2>1, <2>2, <2>3, RowsAreConfirmed DEF Extents
  <2>5. retSel' \in [Ops -> Selections] /\ pc' \in {"idle", "ret-post"}
    BY <1>15, MarkedTypes DEF TypeOK, TakeRets, Selections
  <2>6. faults' \in 0..MaxFaults /\ snap' \in [Ops -> 0..MaxVal] /\ out' \in [Ops -> Answers]
    BY <1>15, <2>1, FaultTypes DEF TypeOK, TakeRets, Unanswered, Answers
  <2> QED BY <1>15, <2>4, <2>5, <2>6 DEF TypeOK, TakeRets
<1>16. CASE TakeRetsBlind
  <2>1. retSel' \in [Ops -> Selections] /\ unseen' \subseteq Ops
    BY <1>16, MarkedTypes DEF TypeOK, TakeRetsBlind, Selections, RetRows
  <2> QED BY <1>16, <2>1, FaultTypes DEF TypeOK, TakeRetsBlind
<1>17. CASE AnswerRets
  <2>1. out' \in [Ops -> Answers]
    BY <1>17 DEF TypeOK, AnswerRets, Answers
  <2> QED BY <1>17, <2>1, LinkTypes, FaultTypes DEF TypeOK, AnswerRets
<1>18. CASE PostRetsFails
  <2>1. retSel' \in [Ops -> Selections]
    BY <1>18, MarkedTypes DEF TypeOK, PostRetsFails, Selections
  <2> QED BY <1>18, <2>1, LinkTypes, FaultTypes, OverTypes DEF TypeOK, PostRetsFails
<1>19. CASE PersistRets
  BY <1>19, LinkTypes DEF TypeOK, PersistRets
<1>20. CASE PersistRetsFails
  <2>1. retSel' \in [Ops -> Selections]
    BY <1>20, MarkedTypes DEF TypeOK, PersistRetsFails, Selections
  <2>2. retUnlinked' \subseteq Ops
    BY <1>20 DEF TypeOK, PersistRetsFails, Answered
  <2> QED BY <1>20, <2>1, <2>2, LinkTypes, FaultTypes DEF TypeOK, PersistRetsFails
<1>21. ASSUME NEW op \in Ops, RecordRet(op) \/ QueueLost(op) \/ GiveUpLost(op) PROVE TypeOK'
  <2>1. PICK e \in Entry : retQueue' = [retQueue EXCEPT ![op] = e]
    <3>1. retQueue[op] \in Entry
      BY DEF TypeOK
    <3>2. CASE RecordRet(op)
      BY <3>1, <3>2, RecordedTypes DEF TypeOK, RecordRet
    <3>3. CASE QueueLost(op)
      BY <3>1, <3>3, EntryTypes DEF TypeOK, QueueLost
    <3>4. CASE GiveUpLost(op)
      BY <3>1, <3>4, EntryTypes DEF TypeOK, GiveUpLost
    <3> QED BY <1>21, <3>2, <3>3, <3>4
  <2> QED BY <1>21, <2>1 DEF TypeOK, RecordRet, QueueLost, GiveUpLost, Answers
<1>22. ASSUME NEW op \in Ops, MarkLost(op) PROVE TypeOK'
  <2>1. opLink' \in [Ops -> [val : 0..MaxVal, deleted : BOOLEAN]]
    BY <1>22 DEF TypeOK, MarkLost
  <2> QED BY <1>22, <2>1 DEF TypeOK, MarkLost, Answers
<1>23. CASE EndRets
  <2>1. retSel' \in [Ops -> Selections]
    BY <1>23, MarkedTypes DEF TypeOK, EndRets, Selections
  <2> QED BY <1>23, <2>1, OverTypes DEF TypeOK, EndRets
<1>24. CASE Crash
  <2>1. opSel' \in [Ops -> Selections] /\ retSel' \in [Ops -> Selections]
    BY <1>24, MarkedTypes DEF TypeOK, Crash, Selections
  <2> QED BY <1>24, <2>1, FaultTypes, OverTypes DEF TypeOK, Crash
<1>25. CASE OpsStageFails
  <2>1. opSel' \in [Ops -> Selections]
    BY <1>25, MarkedTypes DEF TypeOK, OpsStageFails, Selections
  <2> QED BY <1>25, <2>1, FaultTypes, OverTypes DEF TypeOK, OpsStageFails
<1>26. CASE TakeRetsFails
  <2>1. \A op \in Ops : \A m : RetQueued(op, m) \in Entry
    BY EntryTypes DEF TypeOK, RetQueued
  <2>2. retQueue' \in [Ops -> Entry]
    BY <1>26, <2>1 DEF TypeOK, TakeRetsFails
  <2> QED BY <1>26, <2>2, FaultTypes DEF TypeOK, TakeRetsFails
<1> QED
  BY <1>1, <1>2, <1>3, <1>4, <1>5, <1>6, <1>7, <1>8, <1>9, <1>10, <1>11, <1>12, <1>13,
     <1>14, <1>15, <1>16, <1>17, <1>18, <1>19, <1>20, <1>21, <1>22, <1>23, <1>24, <1>25, <1>26
     DEF Next, Environment, RunStep, RunFault

(***************************************************************************)
(* The parts of the inductive invariant, step by step.                     *)
(***************************************************************************)

\* What is known of the batch stays known.
LEMMA BatchStep ==
  ASSUME IInv, TypeOK', Next
  PROVE  BatchKnown'
<1> USE DEF IInv
<1>1. CASE UNCHANGED <<pc, sent, out, opSel, retSel, snap, val>>
  BY <1>1 DEF BatchKnown, Unanswered
<1>2. CASE \E op \in Ops : Confirm(op) \/ Edit(op)
  BY <1>2 DEF TypeOK, BatchKnown, Confirm, Edit, Unanswered
<1>3. CASE \E op \in Ops : OpAges(op) \/ RetAges(op)
  BY <1>3 DEF TypeOK, BatchKnown, OpAges, RetAges, Unanswered
<1>4. CASE StartRun \/ SuppliersStage \/ OrdersStage
  BY <1>4 DEF BatchKnown, StartRun, SuppliersStage, OrdersStage, Unanswered
<1>5. CASE TakeOps
  <2>1. /\ out' = Unanswered /\ snap' = val /\ UNCHANGED <<val, retSel>>
        /\ pc' \in {"op-post", "retenciones"} /\ (pc' = "retenciones" => sent' = {})
    BY <1>5 DEF TakeOps
  <2>2. sent' \subseteq OpEligible
    BY <1>5 DEF TakeOps
  <2>3. \A op \in Ops : retSel[op] # "reading" /\ opSel[op] # "reading"
    BY <1>5 DEF BatchKnown, TakeOps
  <2>4. \A op \in Ops : opSel'[op] = "reading" => pc' = "op-post"
    BY <1>5, <2>3 DEF TakeOps, Marked
  <2>5. \A op \in Ops : out'[op] = "none" /\ val[op] \in 0..MaxVal
    BY <2>1 DEF Unanswered, TypeOK
  <2> QED BY <2>1, <2>2, <2>3, <2>4, <2>5, RowsAreConfirmed DEF BatchKnown, Unanswered
<1>6. CASE AnswerOps \/ AnswerRets
  BY <1>6 DEF BatchKnown, AnswerOps, AnswerRets, Unanswered
<1>7. CASE PersistOps \/ PersistRets
  BY <1>7 DEF BatchKnown, PersistOps, PersistRets, Unanswered
<1>8. CASE PersistOpsFails \/ PersistRetsFails
  BY <1>8 DEF BatchKnown, PersistOpsFails, PersistRetsFails, Unanswered, Marked
<1>9. ASSUME NEW op \in Ops,
             RecordOp(op) \/ RecordRet(op) \/ QueueLost(op) \/ MarkLost(op) \/ GiveUpLost(op)
      PROVE  BatchKnown'
  <2>1. /\ pc \in {"op-record", "ret-record"} /\ out[op] # "none"
        /\ \A o \in Ops : out'[o] # "none" => out[o] # "none"
        /\ UNCHANGED <<pc, sent, opSel, retSel, snap, val>>
    BY <1>9 DEF RecordOp, RecordRet, QueueLost, MarkLost, GiveUpLost, Recordable, TypeOK
  <2> QED BY <2>1 DEF BatchKnown
<1>10. CASE PostOpsFails \/ OpsStageFails \/ EndOps \/ PostRetsFails \/ EndRets \/ Crash
  <2>1. BatchOver /\ val' = val /\ pc' \in {"retenciones", "idle"}
    BY <1>10 DEF PostOpsFails, OpsStageFails, EndOps, PostRetsFails, EndRets, Crash
  <2>2. \A op \in Ops : opSel'[op] # "reading" /\ retSel'[op] # "reading"
    BY <1>10, MarkedTypes
       DEF PostOpsFails, OpsStageFails, EndOps, PostRetsFails, EndRets, Crash, BatchKnown, TypeOK,
           Marked
  <2>3. \A op \in Ops : val[op] \in 0..MaxVal
    BY DEF TypeOK
  <2> QED BY <2>1, <2>2, <2>3, OverTypes DEF BatchKnown
<1>11. CASE TakeRets
  <2>1. /\ out' = Unanswered /\ snap' = val /\ UNCHANGED <<val, opSel>>
        /\ pc' \in {"ret-post", "idle"} /\ (pc' = "idle" => sent' = {})
    BY <1>11 DEF TakeRets
  <2>2. sent' \subseteq RetEligible
    BY <1>11 DEF TakeRets, RetSent, RetMapped
  <2>3. \A op \in Ops : retSel[op] # "reading" /\ opSel[op] # "reading"
    BY <1>11 DEF BatchKnown, TakeRets
  <2>4. \A op \in Ops : retSel'[op] = "reading" => pc' = "ret-post"
    BY <1>11, <2>3 DEF TakeRets, Marked
  <2>5. \A op \in Ops : out'[op] = "none" /\ val[op] \in 0..MaxVal
    BY <2>1 DEF Unanswered, TypeOK
  <2> QED BY <2>1, <2>2, <2>3, <2>4, <2>5, RowsAreConfirmed DEF BatchKnown, Unanswered
<1>12. CASE TakeRetsBlind \/ TakeRetsFails
  BY <1>12 DEF BatchKnown, TakeRetsBlind, TakeRetsFails, Marked, Unanswered
<1> QED
  BY <1>1, <1>2, <1>3, <1>4, <1>5, <1>6, <1>7, <1>8, <1>9, <1>10, <1>11, <1>12
     DEF Next, Environment, RunStep, RunFault, Annul, RemoteDelete, RequeuePermanent

\* So does what the answers of orden_pago are worth.
LEMMA OpAnswersStep ==
  ASSUME IInv, TypeOK', Next
  PROVE  OpAnswersKnown'
<1> USE DEF IInv
<1>1. CASE pc' \notin {"op-post", "op-persist", "op-record"}
  BY <1>1 DEF OpAnswersKnown
<1>2. CASE UNCHANGED <<sent, pc, opLink, snap, out, egreso, opQueue, forgotten, opUnlinked>>
  BY <1>2 DEF OpAnswersKnown, OpTakenCareOf
<1>3. CASE \E op \in Ops : RemoteDelete(op)
  <2>1. \A op \in Ops : egreso'[op] \in {egreso[op], Gone} /\ snap[op] <= Gone
    BY <1>3 DEF RemoteDelete, TypeOK, Gone
  <2> QED BY <1>3, <2>1 DEF OpAnswersKnown, OpTakenCareOf, RemoteDelete, TypeOK
<1>4. CASE RequeuePermanent
  <2>1. \A op \in Ops : opQueue'[op].status = "absent" <=> opQueue[op].status = "absent"
    BY <1>4, RequeuedKeepsRow DEF RequeuePermanent, TypeOK
  <2> QED BY <1>4, <2>1 DEF OpAnswersKnown, OpTakenCareOf, RequeuePermanent, TypeOK
<1>5. CASE TakeOps
  <2>1. opLink' = opLink /\ snap' = val /\ pc' \in {"op-post", "retenciones"}
    BY <1>5 DEF TakeOps
  <2>2. \A op \in sent' : op \in Ops /\ opLink[op].val <= val[op]
    BY DEF LinksAreTrue, TypeOK
  <2> QED BY <2>1, <2>2 DEF OpAnswersKnown
<1>6. CASE AnswerOps
  <2>1. pc = "op-post" /\ pc' = "op-persist" /\ UNCHANGED <<sent, snap, opLink>>
    BY <1>6 DEF AnswerOps
  <2>2. ASSUME NEW op \in sent
        PROVE  /\ out'[op] \in Recordable \cup {"untracked"}
               /\ out'[op] = "ok" => egreso'[op] = snap[op]
               /\ out'[op] = "gone" => opLink[op].val # 0
    <3>1. PICK o \in [sent -> {"ok", "rejected", "dependency", "untracked"}] :
            /\ out' = [p \in Ops |-> IF p \notin sent THEN "none"
                                     ELSE IF o[p] = "ok" /\ OpTaken(p) = Gone THEN "gone" ELSE o[p]]
            /\ egreso' = [p \in Ops |-> IF p \in sent /\ o[p] = "ok" THEN OpTaken(p) ELSE egreso[p]]
      BY <1>6 DEF AnswerOps
    <3>2. op \in Ops /\ snap[op] # Gone
      BY DEF TypeOK, Gone
    <3>3. OpTaken(op) = Gone => opLink[op].val # 0
      BY <3>2 DEF OpTaken
    <3>4. OpTaken(op) # Gone => OpTaken(op) = snap[op]
      BY DEF OpTaken
    <3>5. out'[op] = IF o[op] = "ok" /\ OpTaken(op) = Gone THEN "gone" ELSE o[op]
      BY <3>1, <3>2
    <3>6. o[op] = "ok" => egreso'[op] = OpTaken(op)
      BY <3>1, <3>2
    <3>7. o[op] \in {"ok", "rejected", "dependency", "untracked"}
      OBVIOUS
    <3> QED BY <3>3, <3>4, <3>5, <3>6, <3>7 DEF Recordable
  <2>3. \A op \in sent : snap[op] \in Nat
    BY DEF TypeOK
  <2> QED BY <2>1, <2>2, <2>3 DEF OpAnswersKnown
<1>7. ASSUME NEW kept \in SUBSET Answered("ok"), pc = "op-persist", opLink' = OpLinked(kept),
             opUnlinked \ kept \subseteq opUnlinked',
             \A op \in Answered("ok") \ kept : opLink[op].val # 0 \/ op \in opUnlinked',
             pc' = "op-record", UNCHANGED <<sent, snap, out>>
      PROVE  OpAnswersKnown'
  <2>1. ASSUME NEW op \in sent
        PROVE  /\ opLink'[op].val <= snap[op]
               /\ out[op] \in Recordable \cup {"untracked"}
               /\ out[op] = "gone" => opLink'[op].val # 0
               /\ out[op] = "ok" => opLink'[op].val # 0 \/ op \in opUnlinked'
    <3>1. /\ op \in Ops /\ snap[op] \in Nat /\ snap[op] # 0 /\ opLink[op].val <= snap[op]
          /\ out[op] \in Recordable \cup {"untracked"}
          /\ out[op] = "gone" => opLink[op].val # 0
      BY <1>7, <2>1 DEF OpAnswersKnown, BatchKnown, TypeOK
    <3>2. opLink'[op].val = IF op \in kept THEN snap[op] ELSE opLink[op].val
      BY <1>7, <3>1, LinkTypes
    <3>3. out[op] = "ok" <=> op \in Answered("ok")
      BY <3>1 DEF Answered
    <3> QED BY <1>7, <3>1, <3>2, <3>3
  <2>2. \A op \in sent : out[op] # "recorded"
    BY <1>7 DEF OpAnswersKnown, Recordable
  <2> QED BY <1>7, <2>1, <2>2 DEF OpAnswersKnown
<1>8. CASE PersistOps
  BY <1>7, <1>8 DEF PersistOps
<1>9. CASE PersistOpsFails
  BY <1>7, <1>9 DEF PersistOpsFails, Answered
<1>10. ASSUME NEW op \in Ops, RecordOp(op) PROVE OpAnswersKnown'
  <2>1. /\ pc = "op-record" /\ out[op] \in Recordable
        /\ opQueue' = [opQueue EXCEPT ![op] = Recorded(opQueue[op], out[op])]
        /\ out' = [out EXCEPT ![op] = "recorded"]
        /\ UNCHANGED <<pc, sent, snap, opLink, egreso, forgotten, opUnlinked>>
    BY <1>10 DEF RecordOp
  <2>2. ASSUME NEW o \in sent, o # op
        PROVE  out'[o] = out[o] /\ (OpTakenCareOf(o) => OpTakenCareOf(o)')
    BY <2>1, <2>2 DEF TypeOK, OpTakenCareOf
  <2>3. out'[op] = "recorded"
    BY <2>1 DEF TypeOK
  <2>4. op \in sent => OpTakenCareOf(op)'
    <3>1. CASE op \in sent /\ out[op] \in {"ok", "gone"}
      BY <2>1, <3>1 DEF OpAnswersKnown, OpTakenCareOf
    <3>2. CASE out[op] \notin {"ok", "gone"}
      <4>1. opQueue'[op] = Recorded(opQueue[op], out[op])
        BY <2>1 DEF TypeOK
      <4>2. opQueue'[op].status # "absent"
        BY <2>1, <3>2, <4>1, RecordedIsQueued DEF TypeOK
      <4> QED BY <4>2 DEF OpTakenCareOf
    <3> QED BY <3>1, <3>2
  <2> QED BY <2>1, <2>2, <2>3, <2>4 DEF OpAnswersKnown, Recordable
<1> QED
  BY <1>1, <1>2, <1>3, <1>4, <1>5, <1>6, <1>8, <1>9, <1>10
     DEF Next, Environment, RunStep, RunFault, Confirm, Edit, Annul, OpAges, RetAges, StartRun,
         SuppliersStage, OrdersStage, PostOpsFails, OpsStageFails, EndOps, TakeRets, TakeRetsFails,
         TakeRetsBlind, AnswerRets, PostRetsFails, PersistRets, PersistRetsFails, RecordRet, QueueLost, MarkLost, GiveUpLost,
         EndRets, Crash

\* And those of retenciones.
LEMMA RetAnswersStep ==
  ASSUME IInv, TypeOK', Next
  PROVE  RetAnswersKnown'
<1> USE DEF IInv
<1>1. CASE pc' \notin {"ret-post", "ret-persist", "ret-record"}
  BY <1>1 DEF RetAnswersKnown
<1>2. CASE /\ UNCHANGED <<sent, pc, opLink, mapped, out, egreso, applied, retLink, retQueue,
                          unseen, retUnlinked>>
           /\ deducted \subseteq deducted'
  BY <1>2 DEF RetAnswersKnown, RetTakenCareOf
<1>3. ASSUME NEW gone \in Ops, RemoteDelete(gone) PROVE RetAnswersKnown'
  <2>1. \A op \in Ops : \/ egreso'[op] = egreso[op] /\ applied'[op] = applied[op]
                        \/ egreso'[op] = Gone
    BY <1>3 DEF RemoteDelete, TypeOK
  <2>2. \A op \in Ops : egreso[op] = Gone => egreso'[op] = Gone
    BY <2>1
  <2>3. UNCHANGED <<sent, pc, deducted, opLink, mapped, out, retLink, retQueue, unseen, retUnlinked>>
    BY <1>3 DEF RemoteDelete
  <2> QED BY <2>1, <2>2, <2>3 DEF RetAnswersKnown, RetTakenCareOf, TypeOK
<1>4. CASE RequeuePermanent
  <2>1. \A op \in Ops : retQueue'[op].status = "absent" <=> retQueue[op].status = "absent"
    BY <1>4, RequeuedKeepsRow DEF RequeuePermanent, TypeOK
  <2> QED BY <1>4, <2>1 DEF RetAnswersKnown, RetTakenCareOf, RequeuePermanent, TypeOK
<1>5. CASE TakeRets
  <2>1. PICK m \in [RetMapped -> Extents] :
          /\ sent' = RetSent(m)
          /\ mapped' = [op \in Ops |-> IF op \in RetSent(m) THEN m[op] ELSE "none"]
    BY <1>5 DEF TakeRets
  <2>2. UNCHANGED <<deducted, opLink>> /\ pc' \in {"ret-post", "idle"}
    BY <1>5 DEF TakeRets
  <2>3. ASSUME NEW op \in sent'
        PROVE  op \in deducted /\ opLink[op].val # 0 /\ mapped'[op] # "none"
    <3>1. op \in RetMapped /\ m[op] # "none" /\ op \in Ops
      BY <2>1, <2>3, RowsAreConfirmed DEF RetSent, RetUnmapped
    <3> QED BY <2>1, <2>3, <3>1 DEF RetMapped, Payment
  <2> QED BY <2>2, <2>3 DEF RetAnswersKnown
<1>6. CASE AnswerRets
  <2>1. PICK o \in [sent -> {"ok", "rejected", "dependency", "untracked"}] :
          /\ out' = [op \in Ops |-> IF op \notin sent THEN "none"
                                    ELSE IF egreso[op] = Gone THEN "notfound" ELSE o[op]]
          /\ applied' = Carried({op \in sent : o[op] = "ok" /\ egreso[op] # Gone})
    BY <1>6 DEF AnswerRets
  <2>2. /\ pc = "ret-post" /\ pc' = "ret-persist"
        /\ UNCHANGED <<sent, deducted, opLink, mapped, egreso>>
    BY <1>6 DEF AnswerRets
  <2>3. ASSUME NEW op \in sent
        PROVE  /\ out'[op] \in {"ok", "rejected", "dependency", "untracked", "notfound"}
               /\ out'[op] = "notfound" => egreso[op] = Gone
               /\ out'[op] = "ok" => applied'[op] # "none"
    <3>1. op \in Ops /\ mapped[op] # "none"
      BY <2>2 DEF TypeOK, RetAnswersKnown
    <3>2. out'[op] = IF egreso[op] = Gone THEN "notfound" ELSE o[op]
      BY <2>1, <3>1
    <3>3. o[op] = "ok" /\ egreso[op] # Gone => applied'[op] = mapped[op]
      BY <2>1, <3>1, LinkTypes
    <3> QED BY <3>1, <3>2, <3>3
  <2> QED BY <2>2, <2>3 DEF RetAnswersKnown
<1>7. ASSUME NEW kept \in SUBSET Answered("ok"), pc = "ret-persist", retLink' = RetLinked(kept),
             retUnlinked \ kept \subseteq retUnlinked',
             \A op \in Answered("ok") \ kept : retLink[op] # "none" \/ op \in retUnlinked',
             pc' = "ret-record",
             UNCHANGED <<sent, deducted, opLink, mapped, out, egreso>>
      PROVE  RetAnswersKnown'
  <2>1. ASSUME NEW op \in sent, out[op] = "ok"
        PROVE  retLink'[op] # "none" \/ op \in retUnlinked'
    <3>1. op \in Answered("ok") /\ op \in Ops /\ mapped[op] # "none"
      BY <1>7, <2>1 DEF Answered, TypeOK, RetAnswersKnown
    <3>2. retLink'[op] = IF op \in kept THEN mapped[op] ELSE retLink[op]
      BY <1>7, <3>1, LinkTypes
    <3> QED BY <1>7, <3>1, <3>2
  <2> QED BY <1>7, <2>1 DEF RetAnswersKnown
<1>8. CASE PersistRets
  BY <1>7, <1>8 DEF PersistRets
<1>9. CASE PersistRetsFails
  BY <1>7, <1>9 DEF PersistRetsFails, Answered
<1>10. ASSUME NEW op \in Ops, NEW e \in Entry, NEW a, a \notin {"none", "gone", "ok"},
              pc = "ret-record", op \in sent, out[op] # "none",
              retQueue' = [retQueue EXCEPT ![op] = e],
              out' = [out EXCEPT ![op] = a],
              a \in {"notfound", "queued", "marked"} => egreso[op] = Gone,
              a = "queued" => e.status # "absent", a # "marked",
              a = "recorded" => \/ e.status # "absent" \/ retLink[op] # "none"
                                \/ op \in retUnlinked \/ opLink[op].deleted,
              UNCHANGED <<pc, sent, deducted, opLink, mapped, egreso, applied, retLink,
                          unseen, retUnlinked>>
       PROVE  RetAnswersKnown'
  <2>1. ASSUME NEW o \in sent, o # op
        PROVE  out'[o] = out[o] /\ retQueue'[o] = retQueue[o]
    BY <1>10, <2>1 DEF TypeOK
  <2>2. out'[op] = a /\ retQueue'[op] = e
    BY <1>10 DEF TypeOK
  <2> QED BY <1>10, <2>1, <2>2 DEF RetAnswersKnown, RetTakenCareOf
<1>11. ASSUME NEW op \in Ops, RecordRet(op) PROVE RetAnswersKnown'
  <2>1. op \in sent /\ out[op] \in Recordable /\ pc = "ret-record" /\ retQueue[op] \in Entry
    BY <1>11 DEF RecordRet, BatchKnown, Recordable, TypeOK
  <2>2. out[op] = "ok" => retLink[op] # "none" \/ op \in retUnlinked
    BY <2>1 DEF RetAnswersKnown
  <2>3. out[op] # "gone"
    BY <2>1 DEF RetAnswersKnown
  <2>4. out[op] # "ok" => Recorded(retQueue[op], out[op]).status # "absent"
    BY <2>1, <2>3, RecordedIsQueued
  <2>5. Recorded(retQueue[op], out[op]) \in Entry
    BY <2>1, RecordedTypes
  <2> QED BY <1>10, <1>11, <2>1, <2>2, <2>4, <2>5 DEF RecordRet, Recordable
<1>12. ASSUME NEW op \in Ops, QueueLost(op) PROVE RetAnswersKnown'
  <2>1. op \in sent /\ out[op] = "notfound" /\ pc = "ret-record" /\ retQueue[op] \in Entry
    BY <1>12 DEF QueueLost, BatchKnown, TypeOK
  <2>2. egreso[op] = Gone
    BY <2>1 DEF RetAnswersKnown
  <2> QED BY <1>10, <1>12, <2>1, <2>2, EntryTypes, EnqueuedIsQueued DEF QueueLost
<1>13. ASSUME NEW op \in Ops, GiveUpLost(op) PROVE RetAnswersKnown'
  <2>1. op \in sent /\ out[op] = "marked" /\ pc = "ret-record" /\ retQueue[op] \in Entry
    BY <1>13 DEF GiveUpLost, BatchKnown, TypeOK
  <2> QED BY <1>10, <1>13, <2>1, EntryTypes, PermanentIsQueued DEF GiveUpLost
<1>14. ASSUME NEW op \in Ops, MarkLost(op) PROVE RetAnswersKnown'
  <2>1. /\ op \in sent /\ out[op] = "queued" /\ pc = "ret-record" /\ opLink[op].val # 0
        /\ egreso[op] = Gone
    BY <1>14 DEF MarkLost, BatchKnown, RetAnswersKnown
  <2>2. /\ opLink' = [opLink EXCEPT ![op].deleted = TRUE] /\ out' = [out EXCEPT ![op] = "marked"]
        /\ UNCHANGED <<pc, sent, deducted, mapped, egreso, applied, retLink, retQueue, unseen,
                       retUnlinked>>
    BY <1>14 DEF MarkLost
  <2>3. ASSUME NEW o \in sent, o # op
        PROVE  out'[o] = out[o] /\ opLink'[o] = opLink[o]
    BY <2>2, <2>3 DEF TypeOK
  <2>4. out'[op] = "marked" /\ opLink'[op].deleted /\ opLink'[op].val = opLink[op].val
    BY <2>2 DEF TypeOK
  <2> QED BY <2>1, <2>2, <2>3, <2>4 DEF RetAnswersKnown, RetTakenCareOf
<1> QED
  BY <1>1, <1>2, <1>3, <1>4, <1>5, <1>6, <1>8, <1>9, <1>11, <1>12, <1>13, <1>14
     DEF Next, Environment, RunStep, RunFault, Confirm, Edit, Annul, OpAges, RetAges, StartRun,
         SuppliersStage, OrdersStage, TakeOps, AnswerOps, PostOpsFails, PersistOps,
         PersistOpsFails, OpsStageFails, RecordOp, EndOps, TakeRetsFails, TakeRetsBlind,
         PostRetsFails, EndRets, Crash

\* No step drops a confirmed order that is owed.
LEMMA PaymentsStep ==
  ASSUME IInv, TypeOK', Next
  PROVE  PaymentsKept'
<1> USE DEF IInv
<1>1. CASE /\ UNCHANGED <<val, opLink, opQueue, forgotten, opUnlinked, opSel>>
           /\ annulled \subseteq annulled'
           /\ sent' = sent \/ pc \notin {"op-post", "op-persist", "op-record"}
  BY <1>1 DEF PaymentsKept, OpTakenCareOf, Confirmed, BatchKnown
<1>2. ASSUME NEW op \in Ops, Confirm(op) PROVE PaymentsKept'
  <2>1. \A o \in Ops : IF o = op THEN opSel'[o] = "unread" ELSE opSel'[o] = opSel[o] /\ val'[o] = val[o]
    BY <1>2 DEF Confirm, TypeOK
  <2> QED BY <1>2, <2>1 DEF PaymentsKept, OpTakenCareOf, Confirmed, Confirm
<1>3. ASSUME NEW op \in Ops, Edit(op) PROVE PaymentsKept'
  <2>1. \A o \in Ops : o # op => val'[o] = val[o]
    BY <1>3 DEF Edit, TypeOK
  <2> QED BY <1>3, <2>1 DEF PaymentsKept, OpTakenCareOf, Confirmed, Edit
<1>4. ASSUME NEW op \in Ops, OpAges(op) PROVE PaymentsKept'
  <2>1. opSel[op] = "read" /\ \A o \in Ops : o # op => opSel'[o] = opSel[o]
    BY <1>4 DEF OpAges, TypeOK
  <2> QED BY <1>4, <2>1 DEF PaymentsKept, OpTakenCareOf, Confirmed, OpAges
<1>5. CASE RequeuePermanent
  <2>1. \A op \in Ops : opQueue'[op].status = "absent" <=> opQueue[op].status = "absent"
    BY <1>5, RequeuedKeepsRow DEF RequeuePermanent, TypeOK
  <2> QED BY <1>5, <2>1 DEF PaymentsKept, OpTakenCareOf, Confirmed, RequeuePermanent
<1>6. CASE TakeOps
  <2>1. SUFFICES ASSUME NEW op \in Confirmed
                 PROVE  OpTakenCareOf(op)' \/ opSel'[op] = "unread"
                          \/ (opSel'[op] = "reading" /\ op \in sent')
    BY <1>6 DEF TakeOps, PaymentsKept, Confirmed
  <2>2. op \in Ops /\ val[op] # 0
    BY DEF Confirmed
  <2>3. PICK f \in SUBSET (OpUnchanged \cup ToWait) :
          /\ opQueue' = [o \in Ops |-> OpQueued(o, f)]
          /\ forgotten' = forgotten \cup {o \in f \cap ToWait : opQueue[o].status = "absent"}
    BY <1>6 DEF TakeOps
  <2>4. opLink' = opLink /\ opUnlinked' = opUnlinked
    BY <1>6 DEF TakeOps
  <2>5. CASE OpTakenCareOf(op) /\ op \notin OpUnchanged
    BY <2>2, <2>3, <2>4, <2>5, EnqueuedIsQueued DEF TypeOK, OpTakenCareOf, OpQueued
  <2>6. CASE op \in OpUnchanged
    BY <2>2, <2>4, <2>6 DEF OpTakenCareOf, OpUnchanged
  <2>7. CASE ~OpTakenCareOf(op) /\ op \in ToWait
    BY <2>2, <2>3, <2>6, <2>7, EnqueuedIsQueued DEF TypeOK, OpTakenCareOf, OpQueued
  <2>8. CASE ~OpTakenCareOf(op) /\ op \notin OpUnchanged \cup ToWait
    <3>1. opSel[op] = "unread"
      BY <1>6, <2>8 DEF PaymentsKept, BatchKnown, TakeOps
    <3>2. op \in sent'
      BY <1>6, <2>2, <2>8, <3>1 DEF TakeOps, OpEligible, OpRows, PermanentKeys, OpTakenCareOf
    <3> QED BY <1>6, <2>2, <3>1, <3>2 DEF TakeOps, Marked, TypeOK
  <2> QED BY <2>5, <2>6, <2>7, <2>8
<1>7. ASSUME UNCHANGED <<val, annulled, opLink, opQueue, forgotten, opUnlinked>>,
             \A op \in Ops : opSel'[op] = IF opSel[op] = "reading" THEN "unread" ELSE opSel[op]
      PROVE  PaymentsKept'
  BY <1>7 DEF PaymentsKept, OpTakenCareOf, Confirmed
<1>8. CASE PostOpsFails \/ OpsStageFails \/ Crash
  <2>1. opSel' = Marked(opSel, "reading", "unread")
    BY <1>8 DEF PostOpsFails, OpsStageFails, Crash
  <2>2. \A op \in Ops : opSel'[op] = IF opSel[op] = "reading" THEN "unread" ELSE opSel[op]
    BY <2>1 DEF Marked
  <2> QED BY <1>7, <1>8, <2>2 DEF PostOpsFails, OpsStageFails, Crash
<1>9. ASSUME NEW kept \in SUBSET Answered("ok"), pc = "op-persist", opLink' = OpLinked(kept),
             opUnlinked \ kept \subseteq opUnlinked',
             UNCHANGED <<val, annulled, opQueue, forgotten, sent>>,
             \A op \in Ops : opSel'[op] = opSel[op] \/ opSel'[op] = "unread"
      PROVE  PaymentsKept'
  <2>1. ASSUME NEW op \in Ops, OpTakenCareOf(op) PROVE OpTakenCareOf(op)'
    <3>1. opLink'[op].val = IF op \in kept THEN snap[op] ELSE opLink[op].val
      BY <1>9, LinkTypes
    <3>2. op \in kept => snap[op] # 0
      BY <1>9 DEF Answered, BatchKnown
    <3> QED BY <1>9, <2>1, <3>1, <3>2 DEF OpTakenCareOf
  <2> QED BY <1>9, <2>1 DEF PaymentsKept, Confirmed
<1>10. CASE PersistOps
  BY <1>9, <1>10 DEF PersistOps
<1>11. CASE PersistOpsFails
  <2>1. \A op \in Ops : opSel'[op] = opSel[op] \/ opSel'[op] = "unread"
    BY <1>11 DEF PersistOpsFails, Marked
  <2> QED BY <1>9, <1>11, <2>1 DEF PersistOpsFails
<1>12. ASSUME NEW op \in Ops, RecordOp(op) PROVE PaymentsKept'
  <2>1. op \in sent /\ op \in sent'
    BY <1>12 DEF RecordOp, BatchKnown, Recordable
  <2>2. OpTakenCareOf(op)'
    <3>1. OpAnswersKnown' /\ pc' = "op-record" /\ out'[op] = "recorded"
      BY <1>12, OpAnswersStep DEF RecordOp, TypeOK
    <3> QED BY <2>1, <3>1 DEF OpAnswersKnown
  <2>3. \A o \in Ops : o # op => opQueue'[o] = opQueue[o]
    BY <1>12 DEF RecordOp, TypeOK
  <2> QED BY <1>12, <2>2, <2>3 DEF PaymentsKept, OpTakenCareOf, Confirmed, RecordOp
<1>13. CASE EndOps
  <2>1. SUFFICES ASSUME NEW op \in Confirmed
                 PROVE  OpTakenCareOf(op) \/ opSel'[op] = "unread"
    BY <1>13 DEF EndOps, PaymentsKept, OpTakenCareOf, Confirmed
  <2>2. /\ op \in Ops /\ pc = "op-record" /\ out[op] \in {"none", "untracked", "recorded"}
        /\ opSel'[op] = IF opSel[op] = "reading" THEN IF AllRecorded THEN "read" ELSE "unread"
                        ELSE opSel[op]
    BY <1>13 DEF EndOps, Marked, AllWritten, Confirmed
  <2>3. CASE opSel[op] = "reading" /\ op \in sent /\ AllRecorded
    BY <2>2, <2>3 DEF AllRecorded, OpAnswersKnown, Recordable
  <2> QED BY <2>2, <2>3 DEF PaymentsKept
<1>14. CASE \/ PostRetsFails \/ EndRets \/ TakeRets
  <2>1. pc \in {"ret-post", "ret-record", "retenciones"}
    BY <1>14 DEF PostRetsFails, EndRets, TakeRets
  <2> QED BY <1>1, <1>14, <2>1 DEF PostRetsFails, EndRets, TakeRets
<1>15. ASSUME NEW op \in Ops, MarkLost(op) PROVE PaymentsKept'
  <2>1. \A o \in Ops : opLink'[o].val = opLink[o].val
    BY <1>15 DEF MarkLost, TypeOK
  <2> QED BY <1>15, <2>1 DEF PaymentsKept, OpTakenCareOf, Confirmed, MarkLost
<1> QED
  BY <1>1, <1>2, <1>3, <1>4, <1>5, <1>6, <1>8, <1>10, <1>11, <1>12, <1>13, <1>14, <1>15
     DEF Next, Environment, RunStep, RunFault, Annul, RetAges, RemoteDelete, StartRun,
         SuppliersStage, OrdersStage, AnswerOps, TakeRetsFails, TakeRetsBlind, AnswerRets, PersistRets,
         PersistRetsFails, RecordRet, QueueLost, GiveUpLost

\* Nor the retentions of one.
LEMMA RetentionsStep ==
  ASSUME IInv, TypeOK', Next
  PROVE  RetentionsKept'
<1> USE DEF IInv
<1>1. CASE /\ UNCHANGED <<val, deducted, retLink, retQueue, unseen, retUnlinked, retSel>>
           /\ \A op \in Ops : opLink[op].deleted => opLink'[op].deleted
           /\ annulled \subseteq annulled'
           /\ sent' = sent \/ pc \notin {"ret-post", "ret-persist", "ret-record"}
  BY <1>1 DEF RetentionsKept, RetTakenCareOf, Confirmed, BatchKnown
<1>2. ASSUME NEW op \in Ops, Confirm(op) PROVE RetentionsKept'
  <2>1. \A o \in Ops : IF o = op THEN retSel'[o] = "unread"
                       ELSE retSel'[o] = retSel[o] /\ val'[o] = val[o] /\ (o \in deducted' => o \in deducted)
    BY <1>2 DEF Confirm, TypeOK
  <2> QED BY <1>2, <2>1 DEF RetentionsKept, RetTakenCareOf, Confirmed, Confirm
<1>3. ASSUME NEW op \in Ops, Edit(op) PROVE RetentionsKept'
  <2>1. \A o \in Ops : o # op => val'[o] = val[o]
    BY <1>3 DEF Edit, TypeOK
  <2> QED BY <1>3, <2>1 DEF RetentionsKept, RetTakenCareOf, Confirmed, Edit
<1>4. ASSUME NEW op \in Ops, RetAges(op) PROVE RetentionsKept'
  <2>1. retSel[op] = "read" /\ \A o \in Ops : o # op => retSel'[o] = retSel[o]
    BY <1>4 DEF RetAges, TypeOK
  <2> QED BY <1>4, <2>1 DEF RetentionsKept, RetTakenCareOf, Confirmed, RetAges
<1>5. CASE RequeuePermanent
  <2>1. \A op \in Ops : retQueue'[op].status = "absent" <=> retQueue[op].status = "absent"
    BY <1>5, RequeuedKeepsRow DEF RequeuePermanent, TypeOK
  <2> QED BY <1>5, <2>1 DEF RetentionsKept, RetTakenCareOf, Confirmed, RequeuePermanent
<1>6. CASE TakeRets
  <2>1. SUFFICES ASSUME NEW op \in Confirmed \cap deducted
                 PROVE  RetTakenCareOf(op)' \/ retSel'[op] = "unread"
                          \/ (retSel'[op] = "reading" /\ op \in sent')
    BY <1>6 DEF TakeRets, RetentionsKept, Confirmed
  <2>2. op \in Ops /\ val[op] # 0 /\ op \notin annulled
    BY DEF Confirmed
  <2>3. PICK m \in [RetMapped -> Extents] :
          /\ retQueue' = [o \in Ops |-> RetQueued(o, m)]
          /\ sent' = RetSent(m)
    BY <1>6 DEF TakeRets
  <2>4. /\ retQueue'[op] = RetQueued(op, m)
        /\ UNCHANGED <<opLink, retLink, unseen, retUnlinked>>
    BY <1>6, <2>2, <2>3 DEF TakeRets
  <2>5. CASE op \in RetWaits \cup RetUnmapped(m)
    BY <2>2, <2>4, <2>5, EnqueuedIsQueued DEF TypeOK, RetQueued, RetTakenCareOf
  <2>6. CASE op \in RetDone(m) /\ op \notin RetUnmapped(m)
    BY <2>4, <2>6 DEF RetDone, RetUnmapped, RetTakenCareOf
  <2>7. CASE op \notin RetDone(m) \cup RetWaits \cup RetUnmapped(m) /\ RetTakenCareOf(op)
    BY <2>4, <2>7 DEF RetQueued, RetTakenCareOf
  <2>8. CASE op \notin RetDone(m) \cup RetWaits \cup RetUnmapped(m) /\ ~RetTakenCareOf(op)
    <3>1. retSel[op] = "unread"
      BY <1>6, <2>8 DEF RetentionsKept, BatchKnown, TakeRets
    <3>2. op \in RetMapped /\ op \notin RetUnmapped(m)
      BY <2>2, <2>8, <3>1
         DEF RetMapped, RetWaits, RetEligible, RetRows, PermanentKeys, RetTakenCareOf
    <3>3. op \in sent'
      BY <2>3, <2>8, <3>2 DEF RetSent, RetDone
    <3> QED BY <1>6, <2>2, <3>1, <3>3 DEF TakeRets, Marked, TypeOK
  <2> QED BY <2>5, <2>6, <2>7, <2>8
<1>7. CASE TakeRetsBlind
  <2>1. SUFFICES ASSUME NEW op \in Confirmed \cap deducted
                 PROVE  RetTakenCareOf(op)'
    BY <1>7 DEF TakeRetsBlind, RetentionsKept, Confirmed
  <2>2. op \in Ops /\ val[op] # 0 /\ op \notin annulled
    BY DEF Confirmed
  <2>3. op \in RetRows \/ retSel[op] # "unread"
    BY <2>2 DEF RetRows
  <2> QED BY <1>7, <2>2, <2>3 DEF TakeRetsBlind, RetentionsKept, RetTakenCareOf, BatchKnown
<1>8. ASSUME UNCHANGED <<val, annulled, deducted, opLink, retLink, retQueue, unseen, retUnlinked>>,
             \A op \in Ops : retSel'[op] = IF retSel[op] = "reading" THEN "unread" ELSE retSel[op]
      PROVE  RetentionsKept'
  BY <1>8 DEF RetentionsKept, RetTakenCareOf, Confirmed
<1>9. CASE PostRetsFails \/ Crash
  <2>1. retSel' = Marked(retSel, "reading", "unread")
    BY <1>9 DEF PostRetsFails, Crash
  <2>2. \A op \in Ops : retSel'[op] = IF retSel[op] = "reading" THEN "unread" ELSE retSel[op]
    BY <2>1 DEF Marked
  <2> QED BY <1>8, <1>9, <2>2 DEF PostRetsFails, Crash
<1>10. ASSUME NEW kept \in SUBSET Answered("ok"), pc = "ret-persist", retLink' = RetLinked(kept),
              retUnlinked \ kept \subseteq retUnlinked',
              UNCHANGED <<val, annulled, deducted, opLink, retQueue, unseen, sent>>,
              \A op \in Ops : retSel'[op] = retSel[op] \/ retSel'[op] = "unread"
       PROVE  RetentionsKept'
  <2>1. ASSUME NEW op \in Ops, RetTakenCareOf(op) PROVE RetTakenCareOf(op)'
    <3>1. retLink'[op] = IF op \in kept THEN mapped[op] ELSE retLink[op]
      BY <1>10, LinkTypes
    <3>2. op \in kept => mapped[op] # "none"
      BY <1>10 DEF Answered, BatchKnown, RetAnswersKnown
    <3> QED BY <1>10, <2>1, <3>1, <3>2 DEF RetTakenCareOf
  <2> QED BY <1>10, <2>1 DEF RetentionsKept, Confirmed
<1>11. CASE PersistRets
  BY <1>10, <1>11 DEF PersistRets
<1>12. CASE PersistRetsFails
  <2>1. \A op \in Ops : retSel'[op] = retSel[op] \/ retSel'[op] = "unread"
    BY <1>12 DEF PersistRetsFails, Marked
  <2> QED BY <1>10, <1>12, <2>1 DEF PersistRetsFails
<1>13. ASSUME NEW op \in Ops, RecordRet(op) \/ QueueLost(op) \/ GiveUpLost(op)
       PROVE  RetentionsKept'
  <2>1. /\ op \in sent /\ pc' = "ret-record" /\ RetAnswersKnown'
        /\ UNCHANGED <<val, annulled, deducted, opLink, retLink, unseen, retUnlinked, retSel, sent>>
    BY <1>13, RetAnswersStep DEF RecordRet, QueueLost, GiveUpLost, BatchKnown, Recordable
  <2>2. out'[op] \in {"queued", "recorded"}
    BY <1>13 DEF RecordRet, QueueLost, GiveUpLost, TypeOK
  <2>3. RetTakenCareOf(op)'
    BY <2>1, <2>2 DEF RetAnswersKnown, RetTakenCareOf
  <2>4. \A o \in Ops : o # op => retQueue'[o] = retQueue[o]
    BY <1>13 DEF RecordRet, QueueLost, GiveUpLost, TypeOK
  <2> QED BY <2>1, <2>3, <2>4 DEF RetentionsKept, RetTakenCareOf, Confirmed
<1>14. CASE EndRets
  <2>1. SUFFICES ASSUME NEW op \in Confirmed \cap deducted
                 PROVE  RetTakenCareOf(op) \/ retSel'[op] = "unread"
    BY <1>14 DEF EndRets, RetentionsKept, RetTakenCareOf, Confirmed
  <2>2. /\ op \in Ops /\ pc = "ret-record" /\ out[op] \in {"none", "untracked", "recorded"}
        /\ retSel'[op] = IF retSel[op] = "reading" THEN IF AllRecorded THEN "read" ELSE "unread"
                         ELSE retSel[op]
    BY <1>14 DEF EndRets, Marked, AllWritten, Confirmed
  <2>3. CASE retSel[op] = "reading" /\ op \in sent /\ AllRecorded
    BY <2>2, <2>3 DEF AllRecorded, RetAnswersKnown
  <2> QED BY <2>2, <2>3 DEF RetentionsKept
<1>15. CASE PostOpsFails \/ OpsStageFails \/ EndOps \/ TakeOps
  <2>1. pc \in {"op-post", "op-record", "orden_pago"}
    BY <1>15 DEF PostOpsFails, OpsStageFails, EndOps, TakeOps
  <2> QED BY <1>1, <1>15, <2>1 DEF PostOpsFails, OpsStageFails, EndOps, TakeOps
<1>16. ASSUME NEW op \in Ops, MarkLost(op) PROVE RetentionsKept'
  <2>1. \A o \in Ops : opLink[o].deleted => opLink'[o].deleted
    BY <1>16 DEF MarkLost, TypeOK
  <2> QED BY <1>1, <1>16, <2>1 DEF MarkLost
<1>17. CASE PersistOps \/ PersistOpsFails
  <2>1. \A o \in Ops : opLink'[o].deleted = opLink[o].deleted
    BY <1>17, LinkTypes DEF PersistOps, PersistOpsFails
  <2> QED BY <1>1, <1>17, <2>1 DEF PersistOps, PersistOpsFails
<1>18. CASE TakeRetsFails
  <2>1. PICK m \in [RetMapped -> Extents], done \in SUBSET RetEligible :
          retQueue' = [op \in Ops |-> IF op \in done THEN RetQueued(op, m) ELSE retQueue[op]]
    BY <1>18 DEF TakeRetsFails
  <2>2. UNCHANGED <<val, annulled, deducted, opLink, retLink, unseen, retUnlinked, retSel, sent>>
    BY <1>18 DEF TakeRetsFails
  <2>3. ASSUME NEW op \in Ops, op \in deducted, RetTakenCareOf(op) PROVE RetTakenCareOf(op)'
    <3>1. retQueue'[op] = IF op \in done THEN RetQueued(op, m) ELSE retQueue[op]
      BY <2>1
    <3>2. CASE op \in RetWaits \cup RetUnmapped(m)
      BY <2>2, <2>3, <3>1, <3>2, EnqueuedIsQueued DEF TypeOK, RetQueued, RetTakenCareOf
    <3>3. CASE op \in RetDone(m) /\ op \notin RetUnmapped(m)
      BY <2>2, <2>3, <3>3 DEF RetDone, RetUnmapped, RetTakenCareOf
    <3>4. CASE op \notin RetDone(m) \cup RetWaits \cup RetUnmapped(m)
      BY <2>2, <2>3, <3>1, <3>4 DEF RetQueued, RetTakenCareOf
    <3> QED BY <3>2, <3>3, <3>4
  <2> QED BY <2>2, <2>3 DEF RetentionsKept, Confirmed
<1> QED
  BY <1>1, <1>2, <1>3, <1>4, <1>5, <1>6, <1>7, <1>9, <1>11, <1>12, <1>13, <1>14, <1>15,
     <1>16, <1>17, <1>18
     DEF Next, Environment, RunStep, RunFault, Annul, OpAges, RemoteDelete, StartRun,
         SuppliersStage, OrdersStage, AnswerOps, RecordOp, AnswerRets

\* Nothing is known of an order before it is confirmed.
LEMMA ConfirmedStep ==
  ASSUME IInv, TypeOK', Next
  PROVE  ConfirmedFirst'
<1> USE DEF IInv
<1>1. CASE UNCHANGED <<val, deducted, annulled, opLink, egreso>>
  BY <1>1 DEF ConfirmedFirst
<1>2. CASE \E op \in Ops : Confirm(op) \/ Edit(op) \/ Annul(op)
  BY <1>2 DEF TypeOK, ConfirmedFirst, Confirm, Edit, Annul, Confirmed
<1>3. CASE \E op \in Ops : RemoteDelete(op)
  BY <1>3 DEF TypeOK, ConfirmedFirst, RemoteDelete
<1>4. \A op \in sent : op \in Ops /\ val[op] # 0
  BY DEF BatchKnown, TypeOK
<1>5. CASE AnswerOps \/ PostOpsFails
  <2>1. \A op \in Ops : op \notin sent => egreso'[op] = egreso[op]
    BY <1>5 DEF AnswerOps, PostOpsFails
  <2> QED BY <1>4, <1>5, <2>1 DEF ConfirmedFirst, AnswerOps, PostOpsFails
<1>6. CASE PersistOps \/ PersistOpsFails
  <2>1. \A op \in Ops : op \notin sent => opLink'[op] = opLink[op]
    BY <1>6 DEF PersistOps, PersistOpsFails, OpLinked, Answered, BatchKnown
  <2> QED BY <1>4, <1>6, <2>1 DEF ConfirmedFirst, PersistOps, PersistOpsFails
<1>7. ASSUME NEW op \in Ops, MarkLost(op) PROVE ConfirmedFirst'
  <2>1. \A o \in Ops : opLink'[o].val = opLink[o].val
    BY <1>7 DEF MarkLost, TypeOK
  <2> QED BY <1>7, <2>1 DEF ConfirmedFirst, MarkLost
<1> QED
  BY <1>1, <1>2, <1>3, <1>5, <1>6, <1>7
     DEF Next, Environment, RunStep, RunFault, OpAges, RetAges, RequeuePermanent, StartRun,
         SuppliersStage, OrdersStage, TakeOps, RecordOp, OpsStageFails, EndOps, TakeRets,
         TakeRetsFails, TakeRetsBlind, AnswerRets, PostRetsFails, PersistRets, PersistRetsFails, RecordRet, QueueLost,
         GiveUpLost, EndRets, Crash

\* What Paxapos makes of an order sent: the version sent, or nothing if the Egreso of
\* its link is gone.
LEMMA TakenEgreso ==
  ASSUME IInv, pc = "op-post", NEW op \in sent
  PROVE  /\ op \in Ops /\ OpTaken(op) \in 0..Gone /\ OpTaken(op) # 0
         /\ opLink[op].val <= OpTaken(op)
         /\ egreso[op] = Gone /\ opLink[op].val # 0 => OpTaken(op) = Gone
  BY DEF IInv, TypeOK, OpTaken, OpAnswersKnown, BatchKnown, Gone

\* What is linked was taken, and so was what could not be linked.
LEMMA LinksStep ==
  ASSUME IInv, TypeOK', Next
  PROVE  LinksAreTrue' /\ UnlinkedAreTaken'
<1> USE DEF IInv
<1>1. CASE UNCHANGED <<opLink, egreso, val, retLink, applied, opUnlinked, retUnlinked>>
  BY <1>1 DEF LinksAreTrue, UnlinkedAreTaken
<1>2. CASE \E op \in Ops : Confirm(op) \/ Edit(op)
  <2>1. \A o \in Ops : val[o] <= val'[o] /\ val[o] \in Nat /\ val'[o] \in Nat
    BY <1>2 DEF Confirm, Edit, TypeOK
  <2>2. \A o \in Ops : opLink[o].val \in Nat
    BY DEF TypeOK
  <2> QED BY <1>2, <2>1, <2>2 DEF LinksAreTrue, UnlinkedAreTaken, Confirm, Edit
<1>3. ASSUME NEW gone \in Ops, RemoteDelete(gone) PROVE LinksAreTrue' /\ UnlinkedAreTaken'
  <2>1. \A op \in Ops : \/ egreso'[op] = egreso[op] /\ applied'[op] = applied[op]
                        \/ egreso'[op] = Gone
    BY <1>3 DEF RemoteDelete, TypeOK
  <2>2. \A op \in Ops : opLink[op].val <= Gone /\ Gone # 0
    BY DEF TypeOK, Gone
  <2>3. \A op \in Ops : egreso[op] = Gone => egreso'[op] = Gone
    BY <2>1
  <2>4. LinksAreTrue'
    BY <1>3, <2>1, <2>2, <2>3 DEF LinksAreTrue, RemoteDelete
  <2> QED BY <1>3, <2>1, <2>2, <2>3, <2>4 DEF UnlinkedAreTaken, RemoteDelete, TypeOK
<1>4. CASE AnswerOps \/ PostOpsFails
  <2>1. PICK ops \in SUBSET sent :
          egreso' = [op \in Ops |-> IF op \in ops THEN OpTaken(op) ELSE egreso[op]]
    <3>1. CASE AnswerOps
      <4>1. PICK o \in [sent -> {"ok", "rejected", "dependency", "untracked"}] :
              egreso' = [op \in Ops |-> IF op \in sent /\ o[op] = "ok" THEN OpTaken(op) ELSE egreso[op]]
        BY <3>1 DEF AnswerOps
      <4> WITNESS {op \in sent : o[op] = "ok"} \in SUBSET sent
      <4> QED BY <4>1
    <3>2. CASE PostOpsFails
      BY <3>2 DEF PostOpsFails
    <3> QED BY <1>4, <3>1, <3>2
  <2>2. pc = "op-post" /\ UNCHANGED <<opLink, val, retLink, applied, opUnlinked, retUnlinked>>
    BY <1>4 DEF AnswerOps, PostOpsFails
  <2>3. ASSUME NEW op \in Ops
        PROVE  /\ opLink[op].val <= egreso'[op]
               /\ egreso[op] # 0 => egreso'[op] # 0
               /\ egreso[op] = Gone /\ opLink[op].val # 0 => egreso'[op] = Gone
    <3>1. CASE op \in ops
      <4>1. egreso'[op] = OpTaken(op)
        BY <2>1, <3>1
      <4> QED BY <2>2, <3>1, <4>1, TakenEgreso
    <3>2. CASE op \notin ops
      BY <2>1, <3>2 DEF LinksAreTrue
    <3> QED BY <3>1, <3>2
  <2>4. LinksAreTrue'
    BY <2>2, <2>3 DEF LinksAreTrue
  <2> QED BY <2>2, <2>3, <2>4 DEF UnlinkedAreTaken, TypeOK
<1>5. ASSUME NEW kept \in SUBSET Answered("ok"), pc = "op-persist", opLink' = OpLinked(kept),
             opUnlinked' \subseteq opUnlinked \cup Answered("ok"),
             UNCHANGED <<egreso, val, retLink, applied, retUnlinked>>
      PROVE  LinksAreTrue' /\ UnlinkedAreTaken'
  <2>1. ASSUME NEW op \in Answered("ok")
        PROVE  /\ snap[op] <= egreso[op] /\ snap[op] <= val[op] /\ snap[op] # 0
               /\ snap[op] \in Nat /\ egreso[op] \in Nat
    BY <1>5, <2>1 DEF Answered, BatchKnown, OpAnswersKnown, TypeOK, Gone
  <2>2. \A op \in Ops : /\ opLink'[op].val = IF op \in kept THEN snap[op] ELSE opLink[op].val
                        /\ opLink'[op].deleted = opLink[op].deleted
    BY <1>5, LinkTypes
  <2>3. LinksAreTrue'
    BY <1>5, <2>1, <2>2 DEF LinksAreTrue
  <2>4. \A op \in opUnlinked' : egreso[op] # 0
    BY <1>5, <2>1 DEF UnlinkedAreTaken
  <2>5. \A op \in retUnlinked : op \in Ops /\ opLink'[op].val # 0
    BY <2>1, <2>2 DEF UnlinkedAreTaken, TypeOK
  <2> QED BY <1>5, <2>3, <2>4, <2>5 DEF UnlinkedAreTaken
<1>6. CASE PersistOps
  BY <1>5, <1>6 DEF PersistOps
<1>7. CASE PersistOpsFails
  BY <1>5, <1>7 DEF PersistOpsFails
<1>8. CASE AnswerRets \/ PostRetsFails
  <2>1. PICK ops \in SUBSET sent : applied' = Carried(ops)
    <3>1. CASE AnswerRets
      BY <3>1 DEF AnswerRets
    <3>2. CASE PostRetsFails
      BY <3>2 DEF PostRetsFails
    <3> QED BY <1>8, <3>1, <3>2
  <2>2. pc = "ret-post" /\ UNCHANGED <<opLink, egreso, val, retLink, opUnlinked, retUnlinked>>
    BY <1>8 DEF AnswerRets, PostRetsFails
  <2>3. \A op \in Ops : applied[op] # "none" => applied'[op] # "none"
    BY <2>1, <2>2, LinkTypes DEF RetAnswersKnown
  <2> QED BY <2>2, <2>3 DEF LinksAreTrue, UnlinkedAreTaken, TypeOK
<1>9. ASSUME NEW kept \in SUBSET Answered("ok"), pc = "ret-persist", retLink' = RetLinked(kept),
             retUnlinked' \subseteq retUnlinked \cup Answered("ok"),
             UNCHANGED <<opLink, egreso, val, applied, opUnlinked>>
      PROVE  LinksAreTrue' /\ UnlinkedAreTaken'
  <2>1. \A op \in Answered("ok") :
          opLink[op].val # 0 /\ (applied[op] # "none" \/ egreso[op] = Gone)
    BY <1>9 DEF Answered, BatchKnown, RetAnswersKnown
  <2>2. \A op \in Ops : retLink'[op] = IF op \in kept THEN mapped[op] ELSE retLink[op]
    BY <1>9, LinkTypes
  <2>3. LinksAreTrue'
    BY <1>9, <2>1, <2>2 DEF LinksAreTrue
  <2> QED BY <1>9, <2>1, <2>3 DEF UnlinkedAreTaken
<1>10. CASE PersistRets
  BY <1>9, <1>10 DEF PersistRets
<1>11. CASE PersistRetsFails
  BY <1>9, <1>11 DEF PersistRetsFails
<1>12. ASSUME NEW op \in Ops, MarkLost(op) PROVE LinksAreTrue' /\ UnlinkedAreTaken'
  <2>1. op \in sent /\ egreso[op] = Gone /\ opLink[op].val # 0
    BY <1>12 DEF MarkLost, BatchKnown, RetAnswersKnown
  <2>2. \A o \in Ops : /\ opLink'[o].val = opLink[o].val
                       /\ opLink'[o].deleted => opLink[o].deleted \/ o = op
    BY <1>12 DEF MarkLost, TypeOK
  <2>3. UNCHANGED <<egreso, val, retLink, applied, opUnlinked, retUnlinked>>
    BY <1>12 DEF MarkLost
  <2>4. LinksAreTrue'
    BY <2>1, <2>2, <2>3 DEF LinksAreTrue
  <2> QED BY <2>2, <2>3, <2>4 DEF UnlinkedAreTaken, TypeOK
<1> QED
  BY <1>1, <1>2, <1>3, <1>4, <1>6, <1>7, <1>8, <1>10, <1>11, <1>12
     DEF Next, Environment, RunStep, RunFault, Annul, OpAges, RetAges, RequeuePermanent,
         StartRun, SuppliersStage, OrdersStage, TakeOps, RecordOp, OpsStageFails, EndOps, TakeRets,
         TakeRetsFails, TakeRetsBlind, RecordRet, QueueLost, GiveUpLost, EndRets, Crash

(***************************************************************************)
(* The theorems.                                                           *)
(***************************************************************************)

\* IInv holds at the start, when nothing is confirmed and no stage runs.
LEMMA InitInv == Init => IInv
<1> SUFFICES ASSUME Init PROVE IInv
  OBVIOUS
<1> USE DEF Init
<1>1. NoEntry \in Entry
  BY MaxAttemptsAssumption DEF NoEntry, Entry, Statuses
<1>2. TypeOK
  BY <1>1 DEF TypeOK, Gone, NoLink, Unanswered, Nothing, Selections, Answers, Extents
<1>3. BatchKnown /\ OpAnswersKnown /\ RetAnswersKnown
  BY DEF BatchKnown, OpAnswersKnown, RetAnswersKnown, Unanswered
<1>4. PaymentsKept /\ RetentionsKept /\ ConfirmedFirst
  BY DEF PaymentsKept, RetentionsKept, ConfirmedFirst, Confirmed, NoLink
<1>5. LinksAreTrue /\ UnlinkedAreTaken
  BY DEF LinksAreTrue, UnlinkedAreTaken, NoLink, Nothing
<1> QED BY <1>2, <1>3, <1>4, <1>5 DEF IInv

\* A step that changes nothing keeps it, and so does every other one.
LEMMA InvStep == IInv /\ [Next]_vars => IInv'
<1> SUFFICES ASSUME IInv, [Next]_vars PROVE IInv'
  OBVIOUS
<1>1. CASE Next
  <2>1. TypeOK'
    BY <1>1, TypeStep DEF IInv
  <2> QED
    BY <1>1, <2>1, BatchStep, OpAnswersStep, RetAnswersStep, PaymentsStep, RetentionsStep,
       ConfirmedStep, LinksStep
       DEF IInv
<1>2. CASE UNCHANGED vars
  BY <1>2
     DEF IInv, TypeOK, BatchKnown, OpAnswersKnown, RetAnswersKnown, PaymentsKept, RetentionsKept,
         ConfirmedFirst, LinksAreTrue, UnlinkedAreTaken, OpTakenCareOf, RetTakenCareOf,
         Confirmed, vars
<1> QED
  BY <1>1, <1>2

\* What the four stages know of an order, its answers and its links, through every
\* failure, the link store's included, every crash, annulment and requeue.
THEOREM InductiveInvariant == Spec => []IInv
  BY InitInv, InvStep, PTL DEF Spec

\* No confirmed order is lost between the stages: it is linked, selected or in the
\* queue, unless the failure of the queue was swallowed (orden_pago.py:97); and where
\* the link store failed and the queue forgot it (exporter.py:638-646), Paxapos has it.
THEOREM PaymentsOwed == Spec => []PaymentsOwedComeBack
<1>1. IInv => PaymentsOwedComeBack
  BY DEF IInv, PaymentsKept, OpTakenCareOf, UnlinkedAreTaken, PaymentsOwedComeBack, Confirmed,
         TypeOK
<1> QED
  BY <1>1, InductiveInvariant, PTL

\* Nor are its retentions, all or a part of them, unless a batch could not read them
\* (retenciones.py:77); where their link could not be written Paxapos has them, or the
\* Egreso they were for is gone.
THEOREM RetentionsOwed == Spec => []RetentionsOwedComeBack
<1>1. IInv => RetentionsOwedComeBack
  BY DEF IInv, RetentionsKept, RetTakenCareOf, UnlinkedAreTaken, RetentionsOwedComeBack,
         Confirmed, TypeOK
<1> QED
  BY <1>1, InductiveInvariant, PTL
=============================================================================
