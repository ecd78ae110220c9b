---------------------------- MODULE BatchGrouping ----------------------------
(***************************************************************************)
(* batch_grouping.py::iter_grouped_batches: the rows of a query are handed *)
(* over in batches that never part the rows of one business key.           *)
(*                                                                         *)
(* Of a row only its key matters, and the three lists of the generator are *)
(* stretches of the result: rows before `start` have been handed over,     *)
(* start..group-1 are `pending`, group..next-1 are `current_group`, and    *)
(* next.. are still to be read.                                            *)
(***************************************************************************)
EXTENDS Naturals, Sequences

CONSTANTS
  Key,         \* business keys, the values of group_fields
  BatchSize    \* batch_size

ASSUME BatchSizeAssumption == BatchSize \in Nat \ {0}

VARIABLES result, start, group, next

bgVars == <<result, start, group, next>>

Rows == 1..Len(result)

\* The rows of a key come one after the other: the ORDER BY of the query.
Contiguous(rows) ==
  \A i, k \in 1..Len(rows) : rows[i] = rows[k] => \A j \in i..k : rows[j] = rows[i]

Opened(rows) == result' = rows /\ start' = 1 /\ group' = 1 /\ next' = 1

\* A variant that weighs the pending rows without the group that joins them.
TooMuchPending == group - start > BatchSize

\* The pending rows and the group would not fit in one batch together.
TooMuch == start < group /\ next - start > BatchSize

\* A variant that takes every row for the end of its group.
GroupEndsAlways == group < next

\* The row read next begins another group.
GroupEnds == group < next /\ next \in Rows /\ result[next] # result[next - 1]

\* The group that has ended joins the pending rows, which are handed over first
\* if there are too many.  A batch is what `start` leaves behind.
CloseGroup ==
  /\ start' = IF TooMuch THEN group ELSE start
  /\ group' = next

ReadRow ==
  /\ next \in Rows
  /\ IF GroupEnds THEN CloseGroup ELSE UNCHANGED <<start, group>>
  /\ next' = next + 1
  /\ UNCHANGED result

\* After the last row: the last group is closed, then the rest is handed over.
LastGroup ==
  /\ next = Len(result) + 1 /\ group < next
  /\ CloseGroup
  /\ UNCHANGED <<result, next>>

LastBatch ==
  /\ next = Len(result) + 1 /\ group = next /\ start < group
  /\ start' = group
  /\ UNCHANGED <<result, group, next>>

BgInit ==
  /\ result \in Seq(Key) /\ Contiguous(result)
  /\ start = 1 /\ group = 1 /\ next = 1

BgNext == ReadRow \/ LastGroup \/ LastBatch

BgSpec == BgInit /\ [][BgNext]_bgVars

BgTypeOK ==
  /\ result \in Seq(Key) /\ Contiguous(result)
  /\ start \in Nat /\ group \in Nat /\ next \in Nat
  /\ 1 <= start /\ start <= group /\ group <= next /\ next <= Len(result) + 1

IsCut(i) == \A j \in 1..(i - 1), k \in i..Len(result) : result[j] # result[k]

\* The two ends of the pending rows part no group, and the current group is one.
BgInv ==
  /\ BgTypeOK
  /\ IsCut(start) /\ IsCut(group)
  /\ \A i, j \in group..(next - 1) : result[i] = result[j]
  /\ group = next => next \in {1, Len(result) + 1}
  /\ group - start <= BatchSize
       \/ \A i, j \in start..(group - 1) : result[i] = result[j]

\* No batch parts the rows of a key: what is handed over is made of whole groups,
\* however the rows fall into fetches.  batch_grouping.py:72-97.
GroupsStayWhole == IsCut(start)

\* A batch is no larger than --batch-size, unless it is one group that is larger
\* on its own.  batch_grouping.py:84-87,92-95.
BatchesAreBounded ==
  [][start' # start /\ result' = result =>
       \/ start' - start <= BatchSize
       \/ \A i, j \in start..(start' - 1) : result[i] = result[j]]_bgVars
=============================================================================
