-------------------------- MODULE SyncEntityProofs --------------------------
(***************************************************************************)
(* Theorems about SyncEntity, for every table, every bound and every       *)
(* number of faults.                                                       *)
(***************************************************************************)
EXTENDS SyncEntity, RetryStoreProofs

(***************************************************************************)
(* Type correctness.                                                       *)
(***************************************************************************)

\* What the volatile variables are cleared to has their types.
LEMMA ClearedTypes ==
  /\ Zero \in [Keys -> 0..MaxTs] /\ Zero \in [Keys -> 0..MaxVal]
  /\ Zero \in [Keys -> 0..Gone]
  /\ Unsent \in [Keys -> RowOutcomes \cup {"none"}]
<1>1. 0 \in 0..MaxTs /\ 0 \in 0..MaxVal /\ 0 \in 0..Gone
  BY BoundsAssumption DEF Gone
<1> QED
  BY <1>1 DEF Zero, Unsent

\* The initial state is well typed.
LEMMA InitType == Init => TypeOK
<1>1. NoEntry \in Entry
  BY MaxAttemptsAssumption DEF NoEntry, Entry, Statuses
<1>2. 0 \in 0..MaxTs /\ 0 \in 0..MaxVal /\ 1 \in 0..MaxVal /\ 0 \in 0..Gone /\ 0 \in 0..MaxFaults
  BY BoundsAssumption DEF Gone
<1> SUFFICES ASSUME Init PROVE TypeOK
  OBVIOUS
<1>3. srcVal \in [Keys -> 0..MaxVal]
  BY <1>2 DEF Init
<1>4. queue \in [Keys -> Entry]
  BY <1>1 DEF Init
<1> QED
  BY <1>2, <1>3, <1>4, ClearedTypes DEF Init, TypeOK

USE DEF source, cp, inRun, Fault

\* Every step keeps the types: what the environment and the operator do, ...
LEMMA EnvironmentType ==
  ASSUME TypeOK,
         Environment \/ Operator \/ ResetRest \/ \E k \in Keys : OpNeedsProvider(k)
  PROVE  TypeOK'
<1> USE BoundsAssumption, MaxAttemptsAssumption DEF TypeOK, Gone
<1>1. ASSUME NEW k \in Keys, Touch(k) PROVE TypeOK'
  BY <1>1 DEF Touch
<1>2. ASSUME NEW k \in Keys, RemoteDelete(k) PROVE TypeOK'
  BY <1>2 DEF RemoteDelete
<1>3. ASSUME NEW k \in Keys, OpNeedsProvider(k) PROVE TypeOK'
  BY <1>3, EntryTypes DEF OpNeedsProvider
<1>4. ASSUME NEW ks, Requeue(ks) PROVE TypeOK'
  BY <1>4, EntryTypes DEF Requeue
<1>5. ASSUME NEW k \in Keys, Dismiss(k) PROVE TypeOK'
  BY <1>5, EntryTypes DEF Dismiss
<1>6. CASE ResetCheckpoint
  BY <1>6 DEF ResetCheckpoint
<1>7. CASE ResetCrash
  BY <1>7 DEF ResetCrash
<1>8. CASE ResetLinks
  BY <1>8 DEF ResetLinks
<1>9. CASE ResetQueue
  BY <1>9, EntryTypes DEF ResetQueue
<1> QED
  BY <1>1, <1>2, <1>3, <1>4, <1>5, <1>6, <1>7, <1>8, <1>9
     DEF Environment, Operator, ResetRest, RequeueAll, RequeueOne

\* ... what the run does in a batch, ...
LEMMA BatchType ==
  ASSUME TypeOK, BatchStep \/ BatchFault
  PROVE  TypeOK'
<1> USE BoundsAssumption, MaxAttemptsAssumption DEF TypeOK, Gone
<1>1. ASSUME NEW b, TakeBatch(b) PROVE TypeOK'
  <2>1. errored' \in BOOLEAN
    BY <1>1, Zenon DEF TakeBatch
  <2>2. b \subseteq rest /\ ToSend(b) \subseteq b
    BY <1>1 DEF TakeBatch, IsNextBatch, ToSend
  <2>3. lastTs' \in 0..MaxTs
    BY <1>1, <2>2 DEF TakeBatch, IsLatest, Larger
  <2> QED
    BY <1>1, <2>1, <2>2, <2>3 DEF TakeBatch
<1>2. CASE Respond
  BY <1>2 DEF Respond, ToLink
<1>3. CASE PostFails
  BY <1>3 DEF PostFails
<1>4. ASSUME NEW k \in Keys, PersistLink(k) PROVE TypeOK'
  BY <1>4 DEF PersistLink
<1>5. CASE PersistDone \/ PersistFails
  BY <1>5 DEF PersistDone, PersistFails, ToRecord
<1>6. ASSUME NEW k \in Keys, RecordSuccess(k) PROVE TypeOK'
  BY <1>6, EntryTypes DEF RecordSuccess
<1>7. ASSUME NEW k \in Keys, RecordError(k) PROVE TypeOK'
  BY <1>7, EntryTypes DEF RecordError
<1>8. CASE RecordFails
  BY <1>8 DEF RecordFails
<1>9. CASE BatchFailed
  BY <1>9, ClearedTypes DEF BatchFailed, BatchOver
<1>10. CASE BatchGood
  BY <1>10, ClearedTypes DEF BatchGood, BatchOver, IsLatest, AdvanceTo, Larger
<1>11. CASE BatchGoodUnsaved
  BY <1>11, ClearedTypes DEF BatchGoodUnsaved, BatchOver
<1> QED
  BY <1>1, <1>2, <1>3, <1>4, <1>5, <1>6, <1>7, <1>8, <1>9, <1>10, <1>11
     DEF BatchStep, BatchFault

\* ... and how a run starts and ends.
LEMMA RunType ==
  ASSUME TypeOK, RunStep \/ RunFault
  PROVE  TypeOK'
<1> USE BoundsAssumption DEF TypeOK, Gone
<1>1. CASE StartRun \/ StartRunBlind
  <2>1. \A r : Selected(r) \subseteq Keys
    BY DEF Selected
  <2>2. errored' \in BOOLEAN
    BY <1>1, Zenon DEF StartRun, StartRunBlind, Fetch
  <2> QED
    BY <1>1, <2>1, <2>2 DEF StartRun, StartRunBlind, Fetch
<1>2. CASE FetchFails
  BY <1>2 DEF FetchFails
<1>3. CASE EndInError
  <2>1. errored' \in BOOLEAN
    BY <1>3, Zenon DEF EndInError, RunOver
  <2> QED
    BY <1>3, <2>1, ClearedTypes DEF EndInError, RunOver
<1>4. CASE EndOk
  <2>1. errored' \in BOOLEAN
    BY <1>4, Zenon DEF EndOk, RunOver
  <2> QED
    BY <1>4, <2>1, ClearedTypes DEF EndOk, RunOver, Larger
<1>5. CASE SourceLost \/ Crash
  <2>1. errored' \in BOOLEAN
    BY <1>5, Zenon DEF SourceLost, Crash, Abandon
  <2> QED
    BY <1>5, <2>1, ClearedTypes DEF SourceLost, Crash, Abandon
<1> QED
  BY <1>1, <1>2, <1>3, <1>4, <1>5, BatchType DEF RunStep, RunFault

\* Every step keeps the types.
LEMMA NextType ==
  ASSUME TypeOK, [Next]_vars
  PROVE  TypeOK'
<1>1. CASE Next
  BY <1>1, EnvironmentType, RunType DEF Next
<1>2. CASE UNCHANGED vars
  BY <1>2 DEF TypeOK, vars
<1> QED
  BY <1>1, <1>2

\* Each variable of SyncEntity keeps its type in every behaviour.
THEOREM TypeCorrect == Spec => []TypeOK
<1>1. TypeOK /\ [Next]_vars => TypeOK'
  BY NextType
<1> QED
  BY <1>1, InitType, PTL DEF Spec

(***************************************************************************)
(* The watermark: IInv, one lemma per group of actions.                    *)
(***************************************************************************)

\* A run that infrastructure failures cut short has failed rows.
LEMMA AbortStepInv ==
  ASSUME TypeOK, AbortInv, [Next]_vars
  PROVE  AbortInv'
<1> USE DEF AbortInv
<1>1. CASE Environment \/ Operator \/ ResetRest \/ \E k \in Keys : OpNeedsProvider(k)
  BY <1>1 DEF Environment, Touch, RemoteDelete, Operator, RequeueAll, RequeueOne, Requeue,
              Dismiss, ResetCheckpoint, ResetCrash, ResetRest, ResetLinks, ResetQueue,
              OpNeedsProvider, inRun
<1>2. CASE StartRun \/ StartRunBlind \/ FetchFails
  BY <1>2 DEF StartRun, StartRunBlind, Fetch, FetchFails
<1>3. CASE BatchGood \/ BatchGoodUnsaved
  BY <1>3 DEF BatchGood, BatchGoodUnsaved, BatchOver
<1>4. CASE BatchFailed
  <2>1. batch # {}
    BY <1>4 DEF BatchFailed, BatchOver
  <2> QED
    BY <1>4, <2>1 DEF BatchFailed, BatchOver
<1>5. CASE \E b \in SUBSET rest : TakeBatch(b)
  BY <1>5 DEF TakeBatch, IsNextBatch
<1>6. CASE Respond \/ PostFails \/ PersistDone \/ PersistFails \/ RecordFails
  BY <1>6 DEF Respond, PostFails, PersistDone, PersistFails, RecordFails
<1>7. CASE \E k \in Keys : PersistLink(k) \/ RecordSuccess(k) \/ RecordError(k)
  BY <1>7 DEF PersistLink, RecordSuccess, RecordError
<1>8. CASE EndInError \/ EndOk \/ SourceLost \/ Crash
  BY <1>8 DEF EndInError, EndOk, RunOver, SourceLost, Crash, Abandon
<1>9. CASE UNCHANGED vars
  BY <1>9 DEF vars, inRun
<1> QED
  BY <1>1, <1>2, <1>3, <1>4, <1>5, <1>6, <1>7, <1>8, <1>9
     DEF Next, RunStep, RunFault, BatchStep, BatchFault

\* The invariant holds at the start: nothing has a timestamp and nothing runs.
LEMMA InitStepInv == Init => StepInv
<1> SUFFICES ASSUME Init PROVE StepInv
  OBVIOUS
<1>1. ClockInv /\ NoRowLost
  BY DEF Init, Zero, ClockInv, NoRowLost, Tracked
<1>2. PhaseInv /\ ResetInv /\ SnapshotInv /\ OrderInv /\ DoneInv /\ BatchInv
  BY DEF Init, Unsent, PhaseInv, ResetInv, SnapshotInv, OrderInv, DoneInv, BatchInv
<1>3. CopyInv
  BY BoundsAssumption DEF Init, Zero, CopyInv, Gone
<1> QED
  BY <1>1, <1>2, <1>3 DEF StepInv

\* A purchase lands at or after everything the run has read or may save.
LEMMA TouchInv ==
  ASSUME ~Reverts, TypeOK, StepInv, NEW k \in Keys, Touch(k)
  PROVE  StepInv'
<1> USE DEF TypeOK, StepInv, Touch
<1>1. PICK v \in 1..MaxVal : /\ v \in {srcVal[k], srcVal[k] + 1}
                             /\ srcVal' = [srcVal EXCEPT ![k] = v]
                             /\ <<now', v>> # <<srcTs[k], srcVal[k]>>
  OBVIOUS
<1>2. now <= now' /\ srcTs[k] <= srcTs'[k] /\ srcVal[k] <= srcVal'[k]
  BY <1>1, BoundsAssumption DEF ClockInv
<1>3. ClockInv'
  BY <1>2, BoundsAssumption DEF ClockInv
<1>4. PhaseInv' /\ ResetInv' /\ OrderInv'
  BY DEF PhaseInv, ResetInv, OrderInv, Before
<1>5. SnapshotInv'
  BY <1>1, <1>2, <1>3 DEF SnapshotInv, ClockInv, AsRead
<1>6. CopyInv'
  BY <1>1, <1>2, BoundsAssumption DEF CopyInv, Gone
<1>7. pc # "idle" => ~AsRead(k)'
  BY <1>1, <1>2 DEF SnapshotInv, AsRead
<1>8. DoneInv'
  BY <1>1, <1>7 DEF DoneInv, AsRead, Settled, Delivered
<1>9. BatchInv'
  BY <1>1, <1>7 DEF BatchInv, AsRead, Settled, Delivered, PhaseInv
<1>10. NoRowLost'
  BY <1>1, <1>3 DEF NoRowLost, ClockInv, Settled, Delivered
<1> QED
  BY <1>3, <1>4, <1>5, <1>6, <1>8, <1>9, <1>10

\* Deleting a row in Paxapos settles it.
LEMMA RemoteDeleteInv ==
  ASSUME TypeOK, StepInv, NEW k \in Keys, RemoteDelete(k)
  PROVE  StepInv'
<1> USE DEF TypeOK, StepInv, RemoteDelete
<1>1. ClockInv' /\ PhaseInv' /\ ResetInv' /\ SnapshotInv' /\ OrderInv'
  BY DEF ClockInv, PhaseInv, ResetInv, SnapshotInv, OrderInv, Before, AsRead
<1>2. CopyInv'
  BY BoundsAssumption DEF CopyInv, Gone
<1>3. DoneInv' /\ BatchInv' /\ NoRowLost'
  BY DEF DoneInv, BatchInv, NoRowLost, Tracked, AsRead, Settled, Delivered
<1> QED
  BY <1>1, <1>2, <1>3

\* No operation on the queue but a deletion unsettles a row: the queue may only
\* be written by keeping, or adding, the rows it had.
LEMMA QueueGrowsInv ==
  ASSUME StepInv,
         \A k \in Keys : queue[k].status # "absent" =>
                           queue'[k].status # "absent" \/ k \in waived',
         waived \subseteq waived',
         UNCHANGED <<source, remote, cp, link, pc, inRun, resetStep>>
  PROVE  StepInv'
<1> USE DEF StepInv
<1>1. ClockInv' /\ PhaseInv' /\ ResetInv' /\ SnapshotInv' /\ OrderInv' /\ CopyInv'
  BY DEF ClockInv, PhaseInv, ResetInv, SnapshotInv, OrderInv, CopyInv, Before, AsRead
<1>2. DoneInv' /\ BatchInv' /\ NoRowLost'
  BY DEF DoneInv, BatchInv, NoRowLost, Tracked, AsRead, Settled, Delivered
<1> QED
  BY <1>1, <1>2

\* What the operator and orden_pago do to the queue.
LEMMA QueueInv ==
  ASSUME TypeOK, StepInv,
         \/ \E k \in Keys : OpNeedsProvider(k) \/ Dismiss(k)
         \/ \E keys \in SUBSET Keys : Requeue(keys)
  PROVE  StepInv'
<1> USE DEF TypeOK
<1>1. ASSUME NEW k \in Keys, OpNeedsProvider(k) PROVE StepInv'
  BY <1>1, EnqueuedIsQueued, QueueGrowsInv DEF OpNeedsProvider
<1>2. ASSUME NEW k \in Keys, Dismiss(k) PROVE StepInv'
  BY <1>2, QueueGrowsInv DEF Dismiss
<1>3. ASSUME NEW keys \in SUBSET Keys, Requeue(keys) PROVE StepInv'
  BY <1>3, RequeuedKeepsRow, QueueGrowsInv DEF Requeue
<1> QED
  BY <1>1, <1>2, <1>3

\* A reset forgets the watermark first: from there nothing is behind it.
LEMMA ResettingInv ==
  ASSUME ResetExclusive, TypeOK, StepInv, ResetCheckpoint \/ ResetCrash \/ ResetRest
  PROVE  StepInv'
<1> USE DEF TypeOK, StepInv
<1>1. pc = "idle" \/ resetStep # "none" => pc = "idle"
  BY DEF ResetInv
<1>2. CASE ResetCheckpoint
  <2>1. pc = "idle" /\ pc' = "idle" /\ cpTs' = 0
    BY <1>2 DEF ResetCheckpoint
  <2>2. ClockInv' /\ PhaseInv' /\ ResetInv' /\ SnapshotInv' /\ CopyInv' /\ OrderInv'
    BY <1>2, <2>1 DEF ResetCheckpoint, ClockInv, PhaseInv, ResetInv, SnapshotInv, CopyInv,
                      OrderInv, Before
  <2>3. DoneInv' /\ BatchInv' /\ NoRowLost'
    BY <1>2, <2>1 DEF ResetCheckpoint, DoneInv, BatchInv, NoRowLost, Tracked, PhaseInv
  <2> QED
    BY <2>2, <2>3
<1>3. CASE ResetCrash \/ ResetRest
  <2>1. pc = "idle" /\ pc' = "idle" /\ cpTs = 0 /\ cpTs' = 0
    BY <1>3 DEF ResetCrash, ResetRest, ResetLinks, ResetQueue, ResetInv
  <2>2. ClockInv' /\ PhaseInv' /\ ResetInv' /\ SnapshotInv' /\ OrderInv'
    BY <1>3, <2>1 DEF ResetCrash, ResetRest, ResetLinks, ResetQueue, ClockInv, PhaseInv,
                      ResetInv, SnapshotInv, OrderInv, Before
  <2>3. CopyInv'
    BY <1>3, <2>1, BoundsAssumption
       DEF ResetCrash, ResetRest, ResetLinks, ResetQueue, CopyInv, Gone
  <2>4. DoneInv' /\ BatchInv' /\ NoRowLost'
    BY <1>3, <2>1 DEF ResetCrash, ResetRest, ResetLinks, ResetQueue, DoneInv, BatchInv,
                      NoRowLost, Tracked, PhaseInv
  <2> QED
    BY <2>2, <2>3, <2>4
<1> QED
  BY <1>2, <1>3

\* A run begins with the rows it does not select settled.
LEMMA FetchInv ==
  ASSUME ResetExclusive, TypeOK, StepInv, NEW r, NEW blind, Fetch(r, blind)
  PROVE  StepInv'
<1> USE DEF TypeOK, StepInv, Fetch
<1>1. ClockInv' /\ ResetInv'
  BY DEF ClockInv, ResetInv
<1>2. PhaseInv' /\ OrderInv' /\ BatchInv'
  BY DEF PhaseInv, OrderInv, BatchInv
<1>3. \A k \in Keys : AsRead(k)'
  BY DEF AsRead
<1>4. SnapshotInv'
  BY <1>3 DEF SnapshotInv
<1>5. CopyInv'
  BY DEF CopyInv
<1>6. NoRowLost'
  BY DEF NoRowLost, Tracked, Settled, Delivered
<1>7. DoneInv'
  <2> SUFFICES ASSUME NEW k \in Tracked \ rest', snapTs'[k] # 0
               PROVE  Settled(k)'
    BY DEF DoneInv
  <2>1. k \in Keys /\ srcTs[k] # 0
    BY DEF Tracked
  <2>2. srcVal[k] = 0 \/ srcTs[k] < cpTs
    BY <2>1 DEF Selected
  <2>3. ASSUME srcVal[k] = 0 PROVE Delivered(k)
    BY <2>1, <2>3 DEF CopyInv, Delivered
  <2>4. ASSUME srcTs[k] < cpTs PROVE Settled(k)
    BY <2>1, <2>4 DEF NoRowLost
  <2> QED
    BY <2>2, <2>3, <2>4 DEF Settled, Delivered
<1> QED
  BY <1>1, <1>2, <1>4, <1>5, <1>6, <1>7

\* Taking a batch: what is skipped is what Paxapos holds already.
LEMMA TakeBatchInv ==
  ASSUME TypeOK, StepInv, NEW b, TakeBatch(b)
  PROVE  StepInv'
<1> USE DEF TypeOK, StepInv, TakeBatch
<1>1. pc = "loop" /\ batch = {} /\ todo = {} /\ b \subseteq rest /\ ToSend(b) \subseteq b \ Unmapped
  BY DEF PhaseInv, IsNextBatch, ToSend
<1>2. PICK j \in b : lastTs' = Larger(lastTs, snapTs[j])
  BY DEF IsLatest
<1>3. j \in Keys /\ lastTs' \in {lastTs, snapTs[j]}
  BY <1>1, <1>2 DEF Larger
<1>4. ClockInv' /\ ResetInv' /\ CopyInv' /\ NoRowLost'
  BY <1>1, <1>3 DEF ClockInv, ResetInv, CopyInv, NoRowLost, Tracked, Settled, Delivered
<1>5. PhaseInv'
  BY <1>1 DEF PhaseInv
<1>6. SnapshotInv'
  BY <1>1, <1>3 DEF SnapshotInv, AsRead
<1>7. OrderInv'
  BY <1>1 DEF OrderInv, IsNextBatch, Before
<1>8. DoneInv'
  BY <1>1 DEF DoneInv, Tracked, AsRead, Settled, Delivered
<1>9. BatchInv'
  <2> SUFFICES ASSUME NEW k \in b \cap Tracked
               PROVE  /\ k \notin ToSend(b) => remote[k] \in {snapVal[k], Gone}
                      /\ out[k] = "none"
                      /\ pc' = "record" => ToSend(b) = {}
    BY <1>1 DEF BatchInv, Successes
  <2>1. k \in Keys /\ out[k] = "none" /\ (pc' = "record" => ToSend(b) = {})
    BY <1>1 DEF Tracked, PhaseInv
  <2>2. ASSUME k \notin ToSend(b) PROVE link[k] = snapVal[k]
    BY <2>2, <1>1 DEF ToSend, Tracked
  <2> QED
    BY <1>1, <2>1, <2>2 DEF CopyInv, SnapshotInv
<1> QED
  BY <1>4, <1>5, <1>6, <1>7, <1>8, <1>9

\* An answer, whole or lost: Paxapos takes the rows of the payload as they were
\* read, and no row whose link says that it was deleted there.
LEMMA AnswerInv ==
  ASSUME TypeOK, StepInv, Respond \/ PostFails
  PROVE  StepInv'
<1> USE DEF TypeOK, StepInv
<1>1. PICK taken \in SUBSET sent :
        /\ \A k \in taken : ~DeletedThere(k)
        /\ remote' = [k \in Keys |-> IF k \in taken THEN snapVal[k] ELSE remote[k]]
  <2>1. CASE Respond
    <3> DEFINE T == {k \in sent : out'[k] = "ok"}
    <3>1. \A k \in T : ~DeletedThere(k)
      BY <2>1 DEF Respond
    <3>2. remote' = [k \in Keys |-> IF k \in T THEN snapVal[k] ELSE remote[k]]
      BY <2>1 DEF Respond
    <3> QED
      BY <3>1, <3>2
  <2>2. CASE PostFails
    BY <2>2 DEF PostFails
  <2> QED
    BY <2>1, <2>2
<1>2. /\ pc = "post" /\ pc' \in {"persist", "record"}
      /\ UNCHANGED <<source, cp, queue, link, snapTs, snapVal, rest, batch, sent, failed,
                     lastTs, resetStep, waived>>
  BY DEF Respond, PostFails
<1>3. ClockInv' /\ ResetInv' /\ SnapshotInv' /\ OrderInv'
  BY <1>2 DEF ClockInv, ResetInv, SnapshotInv, OrderInv, Before, AsRead
<1>4. PhaseInv'
  BY <1>2 DEF PhaseInv, Respond, PostFails, ToLink
<1>5. CopyInv'
  BY <1>1, <1>2, BoundsAssumption DEF CopyInv, SnapshotInv, DeletedThere, Gone, PhaseInv
<1>6. \A k \in Keys : AsRead(k)' = AsRead(k)
  BY <1>2 DEF AsRead
<1>7. DoneInv'
  BY <1>1, <1>2, <1>6 DEF DoneInv, Tracked, Settled, Delivered, PhaseInv
<1>8. NoRowLost'
  <2> SUFFICES ASSUME NEW k \in Tracked, 0 < srcTs[k], srcTs[k] < cpTs
               PROVE  Settled(k)'
    BY <1>2 DEF NoRowLost
  <2>1. AsRead(k)
    BY <1>2 DEF SnapshotInv, Tracked
  <2> QED
    BY <1>1, <1>2, <2>1 DEF NoRowLost, Tracked, Settled, Delivered, AsRead
<1>9. BatchInv'
  <2> SUFFICES ASSUME NEW k \in batch \cap Tracked
               PROVE  /\ k \notin sent \/ out'[k] \in Successes =>
                           remote'[k] \in {snapVal[k], Gone}
                      /\ pc' = "record" => verdict' # "ok"
    BY <1>2 DEF BatchInv
  <2>1. k \in Keys /\ (k \notin sent => remote[k] \in {snapVal[k], Gone})
    BY <1>2 DEF BatchInv, Tracked
  <2>2. CASE Respond
    BY <2>1, <2>2 DEF Respond, Successes, DeletedThere
  <2>3. CASE PostFails
    BY <1>1, <2>1, <2>3 DEF PostFails, PhaseInv, Successes
  <2> QED
    BY <2>2, <2>3
<1> QED
  BY <1>3, <1>4, <1>5, <1>7, <1>8, <1>9

\* A link is saved for a row Paxapos took, with the content it was sent.
LEMMA PersistInv ==
  ASSUME TypeOK, StepInv,
         (\E k \in Keys : PersistLink(k)) \/ PersistDone \/ PersistFails
  PROVE  StepInv'
<1> USE DEF TypeOK, StepInv
<1>1. /\ pc = "persist"
      /\ UNCHANGED <<source, remote, cp, queue, snapTs, snapVal, rest, batch, sent, out,
                     failed, lastTs, resetStep, waived>>
  BY DEF PersistLink, PersistDone, PersistFails
<1>2. pc' # "idle" /\ (pc' = "persist" => pc' = pc /\ verdict' = verdict)
  BY DEF PersistLink, PersistDone, PersistFails
<1>3. ClockInv' /\ ResetInv' /\ SnapshotInv' /\ OrderInv'
  BY <1>1, <1>2 DEF ClockInv, ResetInv, SnapshotInv, OrderInv, Before, AsRead
<1>4. DoneInv' /\ NoRowLost'
  BY <1>1, <1>2 DEF DoneInv, NoRowLost, Tracked, AsRead, Settled, Delivered
<1>5. CASE PersistDone \/ PersistFails
  <2>1. /\ pc' = "record" /\ link' = link /\ todo' = {k \in sent : out[k] # "untracked"}
        /\ verdict' = "ok" => verdict = "ok"
    BY <1>5 DEF PersistDone, PersistFails, ToRecord
  <2>2. PhaseInv' /\ CopyInv'
    BY <1>1, <2>1 DEF PhaseInv, CopyInv
  <2>3. BatchInv'
    BY <1>1, <2>1 DEF BatchInv, Tracked, PhaseInv
  <2> QED
    BY <1>3, <1>4, <2>2, <2>3
<1>6. ASSUME NEW k \in Keys, PersistLink(k) PROVE StepInv'
  <2>1. /\ pc' = "persist" /\ verdict' = verdict /\ k \in todo /\ todo' = todo \ {k}
        /\ link' = [link EXCEPT ![k] = snapVal[k]]
    BY <1>1, <1>6 DEF PersistLink
  <2>2. PhaseInv' /\ BatchInv'
    BY <1>1, <2>1 DEF PhaseInv, BatchInv, Tracked, AsRead, Settled, Delivered
  <2>3. remote[k] \in {snapVal[k], Gone}
    BY <1>1, <2>1 DEF PhaseInv, BatchInv, Tracked, Successes
  <2>4. CopyInv'
    BY <1>1, <2>1, <2>3, BoundsAssumption DEF CopyInv, Gone
  <2> QED
    BY <1>3, <1>4, <2>2, <2>4
<1> QED
  BY <1>5, <1>6

\* Recording the outcomes: a row leaves the queue only when it is delivered, or
\* when it changed since and is therefore ahead of the watermark.
LEMMA RecordInv ==
  ASSUME TypeOK, StepInv,
         (\E k \in Keys : RecordSuccess(k) \/ RecordError(k)) \/ RecordFails
  PROVE  StepInv'
<1> USE DEF TypeOK, StepInv
<1>1. /\ pc = "record" /\ pc' = "record" /\ todo' \subseteq todo
      /\ UNCHANGED <<source, remote, cp, link, snapTs, snapVal, rest, batch, sent, out,
                     failed, lastTs, resetStep, waived>>
  BY DEF RecordSuccess, RecordError, RecordFails
<1>2. ClockInv' /\ PhaseInv' /\ ResetInv' /\ SnapshotInv' /\ CopyInv' /\ OrderInv'
  BY <1>1 DEF ClockInv, PhaseInv, ResetInv, SnapshotInv, CopyInv, OrderInv, Before, AsRead
<1>3. ASSUME NEW k \in Keys, RecordSuccess(k) PROVE StepInv'
  <2>1. /\ k \in todo /\ out[k] \in Successes /\ todo' = todo \ {k} /\ verdict' = verdict
        /\ queue' = [queue EXCEPT ![k] = Removed(@)]
    BY <1>3 DEF RecordSuccess
  <2>2. k \in batch \cap Tracked
    BY <2>1 DEF PhaseInv, Tracked
  <2>3. remote[k] \in {snapVal[k], Gone}
    BY <2>1, <2>2 DEF BatchInv
  <2>4. DoneInv'
    BY <1>1, <2>1, <2>2 DEF DoneInv, Tracked, AsRead, Settled, Delivered
  <2>5. BatchInv'
    BY <1>1, <2>1, <2>3 DEF BatchInv, Tracked, AsRead, Settled, Delivered
  <2>6. AsRead(k) \/ cpTs <= srcTs[k]
    BY <1>1 DEF SnapshotInv
  <2>7. NoRowLost'
    BY <1>1, <2>1, <2>3, <2>6 DEF NoRowLost, Tracked, AsRead, Settled, Delivered
  <2> QED
    BY <1>2, <2>4, <2>5, <2>7
<1>4. ASSUME NEW k \in Keys, RecordError(k) PROVE StepInv'
  <2>1. /\ todo' = todo \ {k} /\ verdict' = verdict
        /\ queue' = [queue EXCEPT ![k] = Enqueued(@, ReasonOf(out[k]))]
    BY <1>4 DEF RecordError
  <2>2. \A j \in Keys : queue'[j].status # "absent" \/ (j # k /\ queue'[j] = queue[j])
    BY <2>1, EnqueuedIsQueued
  <2>3. DoneInv' /\ NoRowLost'
    BY <1>1, <2>2 DEF DoneInv, NoRowLost, Tracked, AsRead, Settled, Delivered
  <2>4. BatchInv'
    BY <1>1, <2>1, <2>2 DEF BatchInv, Tracked, AsRead, Settled, Delivered
  <2> QED
    BY <1>2, <2>3, <2>4
<1>5. CASE RecordFails
  <2>1. queue' = queue /\ verdict' # "ok"
    BY <1>5 DEF RecordFails
  <2>2. DoneInv' /\ NoRowLost' /\ BatchInv'
    BY <1>1, <2>1 DEF DoneInv, NoRowLost, BatchInv, Tracked, AsRead, Settled, Delivered
  <2> QED
    BY <1>2, <2>2
<1> QED
  BY <1>3, <1>4, <1>5

\* Between two batches nothing but the watermark may have moved, and only over
\* settled rows.
LEMMA BatchOverInv ==
  ASSUME TypeOK, StepInv, BatchFailed \/ BatchGood \/ BatchGoodUnsaved
  PROVE  StepInv'
<1> USE DEF TypeOK, StepInv
<1>1. /\ pc = "record" /\ pc' = "loop" /\ todo = {} /\ todo' = {} /\ batch' = {}
      /\ sent' = {} /\ out' = Unsent
      /\ UNCHANGED <<source, remote, queue, link, snapTs, snapVal, rest, lastTs,
                     resetStep, waived>>
  BY DEF BatchFailed, BatchGood, BatchGoodUnsaved, BatchOver
<1>2. PhaseInv' /\ OrderInv' /\ BatchInv'
  BY <1>1 DEF PhaseInv, OrderInv, BatchInv, Unsent
<1>3. ResetInv' /\ CopyInv'
  BY <1>1 DEF ResetInv, CopyInv
<1>4. \A k \in Keys : AsRead(k)' = AsRead(k) /\ Settled(k)' = Settled(k)
  BY <1>1 DEF AsRead, Settled, Delivered
<1>5. \A k \in Tracked : k \in batch /\ verdict = "ok" /\ AsRead(k) => Settled(k)
  <2> SUFFICES ASSUME NEW k \in Tracked, k \in batch, verdict = "ok", AsRead(k)
               PROVE  Settled(k)
    OBVIOUS
  <2>1. CASE k \notin sent \/ out[k] \in Successes
    BY <2>1 DEF BatchInv, AsRead, Settled, Delivered
  <2>2. CASE k \in sent /\ out[k] \notin Successes
    BY <1>1, <2>2 DEF BatchInv
  <2> QED
    BY <2>1, <2>2
<1>6. DoneInv'
  <2>1. CASE verdict = "ok" /\ failed' = failed
    BY <1>1, <1>4, <1>5, <2>1 DEF DoneInv, Tracked
  <2>2. CASE failed' = failed \cup batch /\ batch # {}
    BY <2>2 DEF DoneInv
  <2>3. CASE failed' = failed \cup batch /\ batch = {}
    BY <1>1, <1>4, <2>3 DEF DoneInv, Tracked
  <2> QED
    BY <2>1, <2>2, <2>3 DEF BatchFailed, BatchGood, BatchGoodUnsaved
<1>7. CASE cpTs' = cpTs
  BY <1>1, <1>2, <1>3, <1>4, <1>6, <1>7
     DEF ClockInv, SnapshotInv, NoRowLost, Tracked
<1>8. ASSUME NEW j \in batch, IsLatest(j, batch), failed = {}, verdict = "ok",
             cpTs' = Larger(cpTs, snapTs[j]), snapTs[j] # 0
      PROVE  StepInv'
  <2>1. j \in Keys /\ cpTs' \in {cpTs, snapTs[j]} /\ cpTs <= cpTs'
    BY <1>8 DEF Larger
  <2>2. ClockInv' /\ SnapshotInv'
    BY <1>1, <1>4, <2>1 DEF ClockInv, SnapshotInv
  <2>3. NoRowLost'
    <3> SUFFICES ASSUME NEW k \in Tracked, 0 < srcTs[k], srcTs[k] < cpTs'
                 PROVE  Settled(k)
      BY <1>1, <1>4 DEF NoRowLost, Tracked
    <3>1. k \in Keys
      BY DEF Tracked
    <3>2. CASE srcTs[k] < cpTs
      BY <3>2 DEF NoRowLost
    <3>3. CASE cpTs' = snapTs[j]
      <4>1. AsRead(k)
        BY <1>1, <2>1, <3>1, <3>3 DEF SnapshotInv
      <4>2. snapTs[k] # 0 /\ snapTs[k] < snapTs[j]
        BY <3>1, <3>3, <4>1 DEF AsRead
      <4>3. k \notin rest
        BY <1>8, <2>1, <3>1, <4>2 DEF OrderInv, Before
      <4> QED
        BY <1>1, <1>5, <1>8, <4>1, <4>2, <4>3 DEF DoneInv
    <3> QED
      BY <2>1, <3>2, <3>3
  <2> QED
    BY <1>2, <1>3, <1>6, <2>2, <2>3
<1> QED
  BY <1>7, <1>8 DEF BatchFailed, BatchGood, BatchGoodUnsaved, AdvanceTo

\* The run ends: mark_error keeps the watermark, mark_success moves it over what
\* the whole run settled, and a crash forgets all but what was committed.
LEMMA RunOverInv ==
  ASSUME TypeOK, AbortInv, StepInv, EndInError \/ EndOk \/ SourceLost \/ Crash \/ FetchFails
  PROVE  StepInv'
<1> USE DEF TypeOK, StepInv
<1>1. CASE FetchFails
  <2>1. ClockInv' /\ PhaseInv' /\ ResetInv' /\ SnapshotInv' /\ CopyInv' /\ OrderInv'
    BY <1>1 DEF FetchFails, ClockInv, PhaseInv, ResetInv, SnapshotInv, CopyInv, OrderInv,
                Before
  <2>2. DoneInv' /\ BatchInv' /\ NoRowLost'
    BY <1>1 DEF FetchFails, DoneInv, BatchInv, NoRowLost, PhaseInv, Tracked, Settled,
                Delivered
  <2> QED
    BY <2>1, <2>2
<1>2. CASE EndInError \/ EndOk \/ SourceLost \/ Crash
  <2>1. /\ pc' = "idle" /\ pc # "idle" /\ batch' = {} /\ sent' = {} /\ todo' = {}
        /\ rest' = {} /\ lastTs' = 0 /\ out' = Unsent /\ snapTs' = Zero /\ snapVal' = Zero
        /\ UNCHANGED <<source, remote, queue, link, resetStep, waived>>
    <3>1. pc = "loop" => out = Unsent /\ batch = {} /\ sent = {} /\ todo = {}
      BY DEF PhaseInv, Unsent
    <3> QED
      BY <1>2, <3>1 DEF EndInError, EndOk, RunOver, SourceLost, Crash, Abandon
  <2>2. PhaseInv' /\ SnapshotInv' /\ OrderInv' /\ DoneInv' /\ BatchInv'
    BY <2>1 DEF PhaseInv, SnapshotInv, OrderInv, DoneInv, BatchInv, Unsent
  <2>3. CopyInv' /\ ResetInv'
    BY <2>1 DEF CopyInv, ResetInv
  <2>4. CASE cpTs' = cpTs
    <3>1. ClockInv'
      BY <2>1, <2>4 DEF ClockInv, Zero
    <3>2. NoRowLost'
      BY <2>1, <2>4 DEF NoRowLost, Tracked, Settled, Delivered
    <3> QED
      BY <2>2, <2>3, <3>1, <3>2
  <2>5. CASE EndOk /\ cpTs' = lastTs /\ cpTs < lastTs
    <3>1. ClockInv'
      BY <2>1, <2>5 DEF ClockInv, Zero
    <3>2. rest = {} /\ batch = {} /\ failed = {}
      BY <2>5, BoundsAssumption DEF EndOk, RunOver, PhaseInv, AbortInv
    <3>3. NoRowLost'
      <4> SUFFICES ASSUME NEW k \in Tracked, 0 < srcTs[k], srcTs[k] < lastTs
                   PROVE  Settled(k)
        BY <2>1, <2>5 DEF NoRowLost, Tracked, Settled, Delivered
      <4>1. k \in Keys
        BY DEF Tracked
      <4>2. AsRead(k)
        BY <2>1, <4>1 DEF SnapshotInv
      <4> QED
        BY <2>1, <3>2, <4>1, <4>2 DEF DoneInv, AsRead
    <3> QED
      BY <2>2, <2>3, <3>1, <3>3
  <2> QED
    BY <1>2, <2>4, <2>5 DEF EndInError, EndOk, SourceLost, Crash, Abandon, Larger
<1> QED
  BY <1>1, <1>2

\* Every step keeps the invariant.
LEMMA NextInv ==
  ASSUME ~Reverts, ResetExclusive, TypeOK, AbortInv, StepInv, [Next]_vars
  PROVE  StepInv'
<1>1. CASE Environment
  BY <1>1, TouchInv, RemoteDeleteInv DEF Environment
<1>2. CASE Operator \/ ResetRest \/ \E k \in Keys : OpNeedsProvider(k)
  <2>1. \A k \in Keys : {k} \in SUBSET Keys
    OBVIOUS
  <2>2. PermanentKeys(queue) \in SUBSET Keys
    BY DEF PermanentKeys, TypeOK
  <2> QED
    BY <1>2, <2>1, <2>2, QueueInv, ResettingInv DEF Operator, RequeueAll, RequeueOne
<1>3. CASE RunStep \/ RunFault
  BY <1>3, FetchInv, TakeBatchInv, AnswerInv, PersistInv, RecordInv, BatchOverInv, RunOverInv
     DEF RunStep, RunFault, BatchStep, BatchFault, StartRun, StartRunBlind
<1>4. CASE UNCHANGED vars
  <2>1. ClockInv' /\ PhaseInv' /\ ResetInv' /\ SnapshotInv' /\ CopyInv' /\ OrderInv'
    BY <1>4 DEF vars, StepInv, ClockInv, PhaseInv, ResetInv, SnapshotInv, CopyInv, OrderInv,
                Before, AsRead
  <2>2. DoneInv' /\ BatchInv' /\ NoRowLost'
    BY <1>4 DEF vars, StepInv, DoneInv, BatchInv, NoRowLost, AsRead, Settled, Delivered
  <2> QED
    BY <2>1, <2>2 DEF StepInv
<1> QED
  BY <1>1, <1>2, <1>3, <1>4 DEF Next

\* IInv is an invariant when contents do not come back and resets are exclusive.
THEOREM InductiveInvariant ==
  ASSUME ~Reverts, ResetExclusive
  PROVE  Spec => []IInv
<1>1. Init => IInv
  BY InitType, InitStepInv DEF IInv, AbortInv, Init
<1>2. IInv /\ [Next]_vars => IInv'
  BY NextType, AbortStepInv, NextInv DEF IInv
<1> QED
  BY <1>1, <1>2, PTL DEF Spec

\* The watermark never passes a row that can be mapped and is neither confirmed
\* by Paxapos, nor in the retry queue, nor dismissed by the operator.
THEOREM WatermarkSound ==
  ASSUME ~Reverts, ResetExclusive
  PROVE  Spec => []NoRowLost
<1>1. IInv => NoRowLost
  BY DEF IInv, StepInv
<1> QED
  BY <1>1, InductiveInvariant, PTL

\* A row is skipped as unchanged only when Paxapos holds what the row says.
THEOREM SkipSound ==
  ASSUME ~Reverts, ResetExclusive
  PROVE  Spec => []SkipIsSafe
<1>1. IInv => SkipIsSafe
  BY DEF IInv, StepInv, BatchInv, SkipIsSafe
<1> QED
  BY <1>1, InductiveInvariant, PTL

\* A row with a timestamp is a row of RAFAM.
StampInv == \A k \in Keys : srcTs[k] # 0 => srcVal[k] # 0

\* Only a purchase changes either.
LEMMA StampStep ==
  ASSUME TypeOK, StampInv, [Next]_vars
  PROVE  StampInv'
<1> USE DEF source
<1>1. ASSUME UNCHANGED source PROVE StampInv'
  BY <1>1 DEF StampInv
<1>2. ASSUME NEW k \in Keys, Touch(k) PROVE StampInv'
  BY <1>2 DEF Touch, StampInv, TypeOK
<1>3. CASE Operator \/ ResetRest \/ \E k \in Keys : OpNeedsProvider(k) \/ RemoteDelete(k)
  BY <1>1, <1>3 DEF RemoteDelete, OpNeedsProvider, Operator, RequeueAll, RequeueOne, Requeue,
                    Dismiss, ResetCheckpoint, ResetCrash, ResetRest, ResetLinks, ResetQueue
<1>4. CASE RunStep
  BY <1>1, <1>4 DEF RunStep, StartRun, Fetch, BatchStep, TakeBatch, Respond, PersistLink,
                    RecordSuccess, RecordError, PersistDone, BatchGood, BatchFailed,
                    BatchOver, EndInError, EndOk, RunOver
<1>5. CASE RunFault
  BY <1>1, <1>5 DEF RunFault, StartRunBlind, Fetch, FetchFails, BatchFault, PostFails,
                    PersistFails, RecordFails, BatchGoodUnsaved, BatchOver, SourceLost,
                    Crash, Abandon
<1>6. CASE UNCHANGED vars
  BY <1>1, <1>6 DEF vars
<1> QED
  BY <1>2, <1>3, <1>4, <1>5, <1>6 DEF Next, Environment

\* What a run leaves behind comes back, whichever batch failed and wherever the run was
\* cut: at or after the watermark the query selects it, before the watermark it is
\* settled.  The keys the cap leaves out of the query are never the only way back.
THEOREM OwedSound ==
  ASSUME ~Reverts, ResetExclusive
  PROVE  Spec => []OwedRowsComeBack
<1>1. IInv /\ StampInv => OwedRowsComeBack
  <2> SUFFICES ASSUME IInv, StampInv, NEW k \in failed \cap Tracked, srcTs[k] # 0,
                      ~Settled(k)
               PROVE  k \in Selected(Reinjected(PendingKeys(queue)))
    BY DEF OwedRowsComeBack, ComesBack
  <2>1. k \in Keys /\ srcVal[k] # 0
    BY DEF StampInv, Tracked
  <2>2. ~(srcTs[k] < cpTs)
    BY DEF IInv, StepInv, NoRowLost, TypeOK, Tracked
  <2>3. srcTs[k] \in Nat /\ cpTs \in Nat
    BY <2>1 DEF IInv, TypeOK
  <2> QED
    BY <2>1, <2>2, <2>3 DEF Selected
<1>2. Init => StampInv
  BY DEF Init, StampInv, Zero
<1>3. Spec => []StampInv
  BY <1>2, StampStep, TypeCorrect, PTL DEF Spec
<1> QED
  BY <1>1, <1>3, InductiveInvariant, PTL

\* A step that takes the watermark back is a reset.
LEMMA RewindIsReset ==
  ASSUME TypeOK, Next, cpTs' < cpTs
  PROVE  ResetCheckpoint
<1>1. ~(cpTs' = cpTs)
  BY DEF TypeOK
<1>2. \A ts \in 0..MaxTs : cpTs' # Larger(cpTs, ts)
  BY DEF TypeOK, Larger
<1>3. ~Environment /\ ~ResetRest /\ ~\E k \in Keys : OpNeedsProvider(k)
  BY <1>1 DEF Environment, Touch, RemoteDelete, ResetRest, ResetLinks, ResetQueue,
              OpNeedsProvider
<1>4. ~RunStep
  <2>1. ~StartRun /\ ~EndInError
    BY <1>1 DEF StartRun, Fetch, EndInError
  <2>2. ~EndOk
    BY <1>2 DEF EndOk, TypeOK
  <2>3. ~BatchGood
    BY <1>1, <1>2 DEF BatchGood, IsLatest, AdvanceTo, TypeOK
  <2>4. ~BatchStep
    BY <1>1, <2>3 DEF BatchStep, TakeBatch, Respond, PersistLink, RecordSuccess,
                      RecordError, PersistDone, BatchFailed
  <2> QED
    BY <2>1, <2>2, <2>4 DEF RunStep
<1>5. ~RunFault
  BY <1>1 DEF RunFault, StartRunBlind, Fetch, FetchFails, BatchFault, PostFails,
              PersistFails, RecordFails, BatchGoodUnsaved, SourceLost, Crash, Abandon
<1>6. Operator => ResetCheckpoint
  BY <1>1 DEF Operator, RequeueAll, RequeueOne, Requeue, Dismiss, ResetCrash
<1> QED
  BY <1>3, <1>4, <1>5, <1>6 DEF Next

\* Only a reset takes the watermark back.
THEOREM WatermarkNeverRewinds == Spec => WatermarkMonotone
<1>1. TypeOK /\ [Next]_vars => [cpTs' < cpTs => ResetCheckpoint]_vars
  BY RewindIsReset
<1> QED
  BY <1>1, TypeCorrect, PTL DEF Spec, WatermarkMonotone

\* A run that ends ok leaves every row it read settled, if it has not changed.
THEOREM OkSound ==
  ASSUME ~Reverts, ResetExclusive
  PROVE  Spec => OkMeansComplete
<1>1. IInv =>
        [EndOk => \A k \in Tracked :
                    srcTs[k] # 0 /\ srcTs[k] = snapTs[k] /\ srcVal[k] = snapVal[k]
                      => Settled(k)]_vars
  <2> SUFFICES ASSUME IInv, EndOk, NEW k \in Tracked, AsRead(k), srcTs[k] # 0
               PROVE  Settled(k)
    BY DEF AsRead
  <2>1. rest = {} /\ batch = {} /\ failed = {}
    BY BoundsAssumption DEF EndOk, RunOver, IInv, TypeOK, AbortInv, StepInv, PhaseInv
  <2>2. pc # "idle"
    BY DEF EndOk, RunOver
  <2> QED
    BY <2>1, <2>2 DEF IInv, StepInv, DoneInv, AsRead
<1> QED
  BY <1>1, InductiveInvariant, PTL DEF OkMeansComplete

\* A row leaves the queue for one of the reasons a row may leave it.
THEOREM QueueSound ==
  ASSUME ~Reverts, ResetExclusive
  PROVE  Spec => QueueDrainsHonestly
<1> DEFINE Honest(k) == queue[k].status # "absent" /\ queue'[k].status = "absent" =>
                          \/ remote[k] \in {snapVal[k], Gone}
                          \/ Dismiss(k)
                          \/ ResetQueue
<1>1. IInv /\ [Next]_vars => [\A k \in Keys : Honest(k)]_vars
  <2> SUFFICES ASSUME TypeOK, StepInv, Next, NEW k \in Keys,
                      queue[k].status # "absent", queue'[k].status = "absent"
               PROVE  remote[k] \in {snapVal[k], Gone} \/ Dismiss(k) \/ ResetQueue
    BY DEF IInv
  <2>1. queue' # queue
    OBVIOUS
  <2>2. \A j \in Keys : queue[j] \in Entry
    BY DEF TypeOK
  <2>3. ~(\E j \in Keys : OpNeedsProvider(j) \/ RecordError(j))
    BY <2>2, EnqueuedIsQueued DEF OpNeedsProvider, RecordError, TypeOK
  <2>4. ~RequeueAll /\ ~\E j \in Keys : RequeueOne(j)
    BY <2>2, RequeuedKeepsRow DEF RequeueAll, RequeueOne, Requeue, TypeOK
  <2>5. ASSUME NEW j \in Keys, RecordSuccess(j) PROVE remote[k] \in {snapVal[k], Gone}
    <3>1. j = k /\ out[k] \in Successes /\ k \in todo
      BY <2>5 DEF RecordSuccess, TypeOK
    <3> QED
      BY <3>1 DEF StepInv, PhaseInv, BatchInv, Tracked, TypeOK
  <2>6. ASSUME NEW j \in Keys, Dismiss(j) PROVE Dismiss(k)
    BY <2>6 DEF Dismiss, TypeOK
  <2>7. ~Environment /\ ~ResetCheckpoint /\ ~ResetCrash /\ ~ResetLinks
    BY <2>1 DEF Environment, Touch, RemoteDelete, ResetCheckpoint, ResetCrash, ResetLinks
  <2>8. ~RunFault /\ ~StartRun /\ ~EndInError /\ ~EndOk
    BY <2>1 DEF RunFault, StartRun, StartRunBlind, Fetch, FetchFails, BatchFault, PostFails,
                PersistFails, RecordFails, BatchGoodUnsaved, BatchOver, SourceLost, Crash,
                Abandon, EndInError, EndOk, RunOver
  <2>9. BatchStep => \E j \in Keys : RecordSuccess(j)
    BY <2>1, <2>3 DEF BatchStep, TakeBatch, Respond, PersistLink, PersistDone, BatchFailed,
                      BatchGood, BatchOver
  <2> QED
    BY <2>3, <2>4, <2>5, <2>6, <2>7, <2>8, <2>9
       DEF Next, Operator, ResetRest, RunStep
<1> QED
  BY <1>1, InductiveInvariant, PTL DEF Spec, QueueDrainsHonestly
=============================================================================
