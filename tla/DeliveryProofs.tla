--------------------------- MODULE DeliveryProofs ---------------------------
(***************************************************************************)
(* SyncEntity implements Delivery, for every table, every bound and every  *)
(* number of faults.                                                       *)
(***************************************************************************)
EXTENDS SyncEntityProofs

USE DEF source, cp, inRun, Fault

\* What a run has read exists in RAFAM.
ReadInv == \A k \in rest \cup batch : snapVal[k] # 0

\* The invariant the refinement needs.
FInv == IInv /\ ReadInv

\* ReadInv is kept by every step.
LEMMA ReadIsReal ==
  ASSUME IInv, ReadInv, [Next]_vars
  PROVE  ReadInv'
<1> USE DEF ReadInv
<1>1. ASSUME UNCHANGED <<snapVal, rest, batch>> PROVE ReadInv'
  BY <1>1
<1>2. ASSUME NEW r, NEW blind, Fetch(r, blind) PROVE ReadInv'
  <2>1. batch' = {}
    BY <1>2 DEF Fetch, IInv, StepInv, PhaseInv
  <2> QED
    BY <1>2, <2>1 DEF Fetch, Selected
<1>3. ASSUME NEW b, TakeBatch(b) PROVE ReadInv'
  BY <1>3 DEF TakeBatch, IsNextBatch
<1>4. ASSUME BatchOver \/ Abandon PROVE ReadInv'
  BY <1>4 DEF BatchOver, Abandon
<1>5. ASSUME RunOver PROVE ReadInv'
  BY <1>5 DEF RunOver, IInv, StepInv, PhaseInv
<1>6. CASE Environment \/ Operator \/ ResetRest \/ \E k \in Keys : OpNeedsProvider(k)
  BY <1>1, <1>6 DEF Environment, Touch, RemoteDelete, OpNeedsProvider, Operator, RequeueAll,
                    RequeueOne, Requeue, Dismiss, ResetCheckpoint, ResetCrash, ResetRest,
                    ResetLinks, ResetQueue
<1>7. CASE RunStep
  <2>1. CASE BatchStep
    BY <1>1, <1>3, <1>4, <2>1 DEF BatchStep, Respond, PersistLink, RecordSuccess, RecordError,
                                  PersistDone, BatchGood, BatchFailed
  <2> QED
    BY <1>2, <1>5, <1>7, <2>1 DEF RunStep, StartRun, EndInError, EndOk
<1>8. CASE RunFault
  BY <1>1, <1>2, <1>4, <1>8 DEF RunFault, StartRunBlind, FetchFails, BatchFault, PostFails,
                    PersistFails, RecordFails, BatchGoodUnsaved, SourceLost, Crash
<1>9. CASE UNCHANGED vars
  BY <1>1, <1>9 DEF vars
<1> QED
  BY <1>6, <1>7, <1>8, <1>9 DEF Next

\* The invariant behind the watermark is what Delivery calls accounted.
LEMMA AccountedFor ==
  ASSUME TypeOK, NoRowLost
  PROVE  D!Accounted
BY DEF D!Accounted, NoRowLost, Safe, Tracked, TypeOK

\* The content a run delivers is one Delivery may deliver.
LEMMA AnswerIsDeliver ==
  ASSUME FInv, IInv', Respond \/ PostFails
  PROVE  D!Deliver
<1>1. PICK T \in SUBSET {k \in sent : ~DeletedThere(k)} :
        remote' = [k \in Keys |-> IF k \in T THEN snapVal[k] ELSE remote[k]]
  <2>1. CASE PostFails
    BY <2>1 DEF PostFails
  <2>2. CASE Respond
    <3> DEFINE T == {k \in sent : out'[k] = "ok"}
    <3>1. sent \subseteq Keys
      BY DEF FInv, IInv, TypeOK
    <3>2. PICK o \in [sent -> RowOutcomes] :
            /\ \A k \in sent : o[k] = "ok" => ~DeletedThere(k)
            /\ out' = [k \in Keys |-> IF k \in sent THEN o[k] ELSE "none"]
      BY <2>2 DEF Respond
    <3>3. \A k \in Keys : out'[k] = "ok" <=> k \in T
      BY <3>1, <3>2
    <3>4. remote' = [k \in Keys |-> IF out'[k] = "ok" THEN snapVal[k] ELSE remote[k]]
      BY <2>2 DEF Respond
    <3>5. T \in SUBSET {k \in sent : ~DeletedThere(k)}
      BY <3>1, <3>2
    <3>6. remote' = [k \in Keys |-> IF k \in T THEN snapVal[k] ELSE remote[k]]
      BY <3>3, <3>4
    <3> QED
      BY <3>5, <3>6
  <2> QED
    BY <2>1, <2>2
<1>2. UNCHANGED <<srcTs, srcVal, link, cpTs>> /\ pc # "idle"
  BY DEF Respond, PostFails
<1>3. ASSUME NEW k \in Keys PROVE remote'[k] = remote[k] \/ D!Forward(k)
  <2> SUFFICES ASSUME k \in T PROVE D!Forward(k)
    BY <1>1 DEF FInv, IInv, TypeOK
  <2>1. remote'[k] = snapVal[k] /\ ~DeletedThere(k)
    BY <1>1 DEF FInv, IInv, TypeOK
  <2>2. snapVal[k] <= srcVal[k]
    BY <1>2 DEF FInv, IInv, StepInv, SnapshotInv
  <2>3. remote[k] # Gone => remote[k] <= snapVal[k]
    BY <1>2 DEF FInv, IInv, StepInv, CopyInv
  <2>4. remote[k] = Gone => k \notin Acknowledged
    BY <2>1 DEF DeletedThere, Acknowledged
  <2> QED
    BY <2>1, <2>2, <2>3, <2>4 DEF D!Forward
<1>4. D!Accounted'
  <2>1. TypeOK' /\ NoRowLost'
    BY DEF IInv, StepInv
  <2> QED
    BY <2>1, AccountedFor, PTL
<1>5. Acknowledged' = Acknowledged
  BY <1>2 DEF Acknowledged
<1> QED
  BY <1>2, <1>3, <1>4, <1>5 DEF D!Deliver

\* A link is written for a content, and only of rows Paxapos took.
LEMMA LinksStay ==
  ASSUME FInv, IInv', [Next]_vars, ~ResetLinks, NEW k \in Keys, link[k] # 0
  PROVE  link'[k] # 0
<1>1. CASE link' = link
  BY <1>1
<1>2. CASE \E j \in Keys : PersistLink(j)
  <2>1. PICK j \in Keys : PersistLink(j)
    BY <1>2
  <2>2. snapVal[j] # 0
    BY <2>1 DEF PersistLink, FInv, IInv, StepInv, PhaseInv, ReadInv
  <2> QED
    BY <2>1, <2>2 DEF PersistLink, FInv, IInv, TypeOK
<1>3. link' = link \/ \E j \in Keys : PersistLink(j)
  <2>1. Environment \/ Operator \/ ResetRest \/ (\E j \in Keys : OpNeedsProvider(j))
          => link' = link
    BY DEF Environment, Touch, RemoteDelete, OpNeedsProvider, Operator, RequeueAll,
           RequeueOne, Requeue, Dismiss, ResetCheckpoint, ResetCrash, ResetRest, ResetQueue
  <2>2. BatchStep => link' = link \/ \E j \in Keys : PersistLink(j)
    BY DEF BatchStep, TakeBatch, Respond, RecordSuccess, RecordError, PersistDone,
           BatchGood, BatchFailed, BatchOver
  <2>3. RunStep => BatchStep \/ link' = link
    BY DEF RunStep, StartRun, Fetch, EndInError, EndOk, RunOver
  <2>4. RunFault => link' = link
    BY DEF RunFault, StartRunBlind, Fetch, FetchFails, BatchFault, PostFails, PersistFails,
           RecordFails, BatchGoodUnsaved, BatchOver, SourceLost, Crash, Abandon
  <2>5. UNCHANGED vars => link' = link
    BY DEF vars
  <2> QED
    BY <2>1, <2>2, <2>3, <2>4, <2>5 DEF Next
<1> QED
  BY <1>1, <1>2, <1>3

\* A step that leaves both tables alone keeps accounts, unless it is a reset.
LEMMA QuietIsAccount ==
  ASSUME FInv, IInv', [Next]_vars, UNCHANGED <<srcTs, srcVal, remote>>,
         ~ResetCheckpoint, ~ResetLinks
  PROVE  D!Account
<1>1. cpTs <= cpTs'
  <2>1. CASE Next
    BY <2>1, RewindIsReset DEF FInv, IInv, TypeOK
  <2>2. CASE UNCHANGED vars
    BY <2>2 DEF vars, FInv, IInv, TypeOK
  <2> QED
    BY <2>1, <2>2
<1>2. D!Accounted'
  <2>1. TypeOK' /\ NoRowLost'
    BY DEF IInv, StepInv
  <2> QED
    BY <2>1, AccountedFor, PTL
<1>3. Acknowledged \subseteq Acknowledged'
  BY LinksStay DEF Acknowledged
<1>4. \A k \in Acknowledged' : remote[k] # 0
  BY DEF IInv, TypeOK, StepInv, CopyInv, Acknowledged
<1> QED
  BY <1>1, <1>2, <1>3, <1>4 DEF D!Account

\* A purchase in RAFAM is a Purchase of Delivery: later than the mark, and of a
\* newer content.
LEMMA TouchIsPurchase ==
  ASSUME ~Reverts, FInv, NEW k \in Keys, Touch(k)
  PROVE  D!Purchase(k)
<1>1. /\ srcTs[k] <= srcTs'[k] /\ cpTs <= srcTs'[k] /\ srcVal[k] <= srcVal'[k]
      /\ \A j \in Keys \ {k} : srcTs'[j] = srcTs[j] /\ srcVal'[j] = srcVal[j]
  BY DEF Touch, FInv, IInv, TypeOK, StepInv, ClockInv
<1>2. UNCHANGED <<remote, cpTs, link, queue>> /\ waived' = waived \ {k}
  BY DEF Touch
<1>3. Safe' \ {k} = Safe \ {k}
  BY <1>1, <1>2 DEF Safe, Settled, Delivered
<1>4. Acknowledged' = Acknowledged
  BY <1>2 DEF Acknowledged
<1> QED
  BY <1>1, <1>2, <1>3, <1>4 DEF D!Purchase, D!SameBut

\* A deletion in the Paxapos UI is a Delete, and leaves safe what was safe.
LEMMA RemoteDeleteIsDelete ==
  ASSUME FInv, NEW k \in Keys, RemoteDelete(k)
  PROVE  D!Delete(k)
<1>1. UNCHANGED <<srcTs, srcVal, cpTs, link, queue, waived>>
  BY DEF RemoteDelete
<1>2. remote[k] # 0 /\ remote'[k] = Gone /\ \A j \in Keys \ {k} : remote'[j] = remote[j]
  BY DEF RemoteDelete, FInv, IInv, TypeOK
<1>3. Safe \subseteq Safe'
  BY <1>1, <1>2 DEF Safe, Settled, Delivered
<1>4. Acknowledged' = Acknowledged
  BY <1>1 DEF Acknowledged
<1> QED
  BY <1>1, <1>2, <1>3, <1>4 DEF D!Delete, D!SameBut

\* Each commit of a reset is a StartOver.
LEMMA ResetIsStartOver ==
  ASSUME FInv, ResetCheckpoint \/ ResetLinks
  PROVE  D!StartOver
<1>1. UNCHANGED <<srcTs, srcVal, remote>> /\ cpTs' = 0
  BY DEF ResetCheckpoint, ResetLinks, FInv, IInv, StepInv, ResetInv
<1>2. Acknowledged' \in {Acknowledged, {}}
  BY DEF ResetCheckpoint, ResetLinks, Acknowledged
<1> QED
  BY <1>1, <1>2 DEF D!StartOver

\* Every step of the sync is a step of Delivery, or changes nothing it sees.
LEMMA StepIsDelivery ==
  ASSUME ~Reverts, FInv, IInv', [Next]_vars
  PROVE  [D!Next]_(D!deliveryVars)
<1>1. CASE \E k \in Keys : Touch(k)
  BY <1>1, TouchIsPurchase DEF D!Next
<1>2. CASE \E k \in Keys : RemoteDelete(k)
  BY <1>2, RemoteDeleteIsDelete DEF D!Next
<1>3. CASE Respond \/ PostFails
  BY <1>3, AnswerIsDeliver DEF D!Next
<1>4. CASE ResetCheckpoint \/ ResetLinks
  BY <1>4, ResetIsStartOver DEF D!Next
<1>5. CASE UNCHANGED <<srcTs, srcVal, remote>>
  BY <1>4, <1>5, QuietIsAccount DEF D!Next
<1>6. CASE Next /\ ~UNCHANGED <<srcTs, srcVal, remote>>
  <2>1. ~Operator /\ ~ResetRest /\ ~\E k \in Keys : OpNeedsProvider(k)
    BY <1>6 DEF OpNeedsProvider, Operator, RequeueAll, RequeueOne, Requeue, Dismiss,
                ResetCheckpoint, ResetCrash, ResetRest, ResetLinks, ResetQueue
  <2>2. BatchStep => Respond
    BY <1>6 DEF BatchStep, TakeBatch, PersistLink, RecordSuccess, RecordError, PersistDone,
                BatchGood, BatchFailed, BatchOver
  <2>3. RunStep => BatchStep
    BY <1>6 DEF RunStep, StartRun, Fetch, EndInError, EndOk, RunOver
  <2>4. RunFault => PostFails
    BY <1>6 DEF RunFault, StartRunBlind, Fetch, FetchFails, BatchFault, PersistFails,
                RecordFails, BatchGoodUnsaved, BatchOver, SourceLost, Crash, Abandon
  <2> QED
    BY <1>1, <1>2, <1>3, <1>6, <2>1, <2>2, <2>3, <2>4 DEF Next, Environment
<1>7. CASE UNCHANGED vars
  BY <1>5, <1>7 DEF vars
<1> QED
  BY <1>5, <1>6, <1>7

\* The incremental sync implements Delivery when contents do not come back and resets
\* are exclusive.
THEOREM ImplementsDelivery ==
  ASSUME ~Reverts, ResetExclusive
  PROVE  Spec => IsDelivery
<1>1. Init => D!Init
  BY BoundsAssumption DEF Init, D!Init, Zero, Acknowledged
<1>2. Init => ReadInv
  BY DEF Init, ReadInv
<1>3. IInv /\ ReadInv /\ [Next]_vars => ReadInv'
  BY ReadIsReal
<1>4. IInv /\ ReadInv /\ IInv' /\ [Next]_vars => [D!Next]_(D!deliveryVars)
  BY StepIsDelivery DEF FInv
<1>5. Spec => []IInv
  BY InductiveInvariant
<1> QED
  BY <1>1, <1>2, <1>3, <1>4, <1>5, PTL DEF Spec, IsDelivery, D!Spec
=============================================================================
