------------------------- MODULE SourceQueriesProofs -------------------------
(***************************************************************************)
(* iter_grouped_batches, for every result and every batch size; and on top *)
(* of it the query of the payment orders, for every table, every calendar  *)
(* and every window that meets WindowAssumption.                           *)
(***************************************************************************)
EXTENDS SourceQueries, FiniteSetTheorems, TLAPS

(***************************************************************************)
(* Batch grouping.                                                         *)
(***************************************************************************)

\* The generator starts with nothing in hand.
LEMMA BgInitInv == BgInit => BgInv
BY BatchSizeAssumption DEF BgInit, BgInv, BgTypeOK, IsCut, Rows, Contiguous

\* In an ordered result two neighbours with different keys are the border between
\* groups.
LEMMA BorderIsCut ==
  ASSUME BgTypeOK, NEW i \in Rows, i - 1 \in Rows, result[i] # result[i - 1]
  PROVE  IsCut(i)
BY DEF BgTypeOK, IsCut, Rows, Contiguous

\* The end of the current group closes it: the pending rows and what is handed over
\* still part nothing.
LEMMA CloseKeeps ==
  ASSUME BgInv, CloseGroup, UNCHANGED result, IsCut(next), next' \in {next, next + 1},
         next' <= Len(result) + 1, group < next,
         next' = next => next = Len(result) + 1
  PROVE  BgInv'
<1> USE BatchSizeAssumption
<1>1. BgTypeOK'
  BY DEF BgInv, BgTypeOK, CloseGroup
<1>2. IsCut(start)' /\ IsCut(group)'
  BY DEF BgInv, IsCut, CloseGroup, Rows
<1>3. (\A i, j \in group..(next - 1) : result[i] = result[j])'
  <2> SUFFICES ASSUME NEW i \in group'..(next' - 1), NEW j \in group'..(next' - 1)
               PROVE  i = j
    OBVIOUS
  <2>1. next \in Nat /\ group' = next
    BY DEF BgInv, BgTypeOK, CloseGroup
  <2>2. CASE next' = next
    BY <2>1, <2>2
  <2>3. CASE next' = next + 1
    BY <2>1, <2>3
  <2> QED
    BY <2>2, <2>3
<1>4. (group = next => next \in {1, Len(result) + 1})'
  <2>1. next \in Nat
    BY DEF BgInv, BgTypeOK
  <2> QED
    BY <2>1 DEF CloseGroup
<1>5. (group - start <= BatchSize \/ \A i, j \in start..(group - 1) : result[i] = result[j])'
  BY DEF BgInv, BgTypeOK, CloseGroup, TooMuch
<1> QED
  BY <1>1, <1>2, <1>3, <1>4, <1>5 DEF BgInv

\* Every step keeps the invariant.
LEMMA BgStepInv ==
  ASSUME BgInv, [BgNext]_bgVars
  PROVE  BgInv'
<1>1. CASE ReadRow /\ GroupEnds
  <2>1. IsCut(next)
    BY <1>1, BorderIsCut DEF GroupEnds, BgInv, BgTypeOK, Rows
  <2> QED
    BY <1>1, <2>1, CloseKeeps DEF ReadRow, GroupEnds, BgInv, BgTypeOK, Rows
<1>2. CASE ReadRow /\ ~GroupEnds
  <2>1. BgTypeOK'
    BY <1>2 DEF ReadRow, BgInv, BgTypeOK, Rows
  <2>2. (\A i, j \in group..(next - 1) : result[i] = result[j])'
    BY <1>2 DEF ReadRow, GroupEnds, BgInv, BgTypeOK, Rows
  <2> QED
    BY <1>2, <2>1, <2>2 DEF ReadRow, BgInv, BgTypeOK, IsCut, Rows
<1>3. CASE LastGroup
  <2>1. IsCut(next)
    BY <1>3 DEF LastGroup, IsCut, BgInv, BgTypeOK, Rows
  <2> QED
    BY <1>3, <2>1, CloseKeeps DEF LastGroup, BgInv, BgTypeOK
<1>4. CASE LastBatch
  BY <1>4, BatchSizeAssumption DEF LastBatch, BgInv, BgTypeOK, IsCut, Rows
<1>5. CASE UNCHANGED bgVars
  BY <1>5 DEF bgVars, BgInv, BgTypeOK, IsCut, Rows
<1> QED
  BY <1>1, <1>2, <1>3, <1>4, <1>5 DEF BgNext

\* BgInv is an invariant.
THEOREM BatchInvariant == BgSpec => []BgInv
BY BgInitInv, BgStepInv, PTL DEF BgSpec

\* No batch parts the rows of a key.
THEOREM GroupsWhole == BgSpec => []GroupsStayWhole
<1>1. BgInv => GroupsStayWhole
  BY DEF BgInv, GroupsStayWhole
<1> QED
  BY <1>1, BatchInvariant, PTL

\* A batch is bounded by the batch size, or is one large group.
THEOREM BatchesBounded == BgSpec => BatchesAreBounded
<1>1. BgInv /\ [BgNext]_bgVars =>
        [start' # start /\ result' = result =>
           \/ start' - start <= BatchSize
           \/ \A i, j \in start..(start' - 1) : result[i] = result[j]]_bgVars
  <2> SUFFICES ASSUME BgInv, BgNext, start' # start
               PROVE  \/ start' - start <= BatchSize
                      \/ \A i, j \in start..(start' - 1) : result[i] = result[j]
    OBVIOUS
  <2>1. start' = group
    BY DEF BgNext, ReadRow, LastGroup, LastBatch, CloseGroup
  <2> QED
    BY <2>1 DEF BgInv
<1> QED
  BY <1>1, BatchInvariant, PTL DEF BgSpec, BatchesAreBounded

(***************************************************************************)
(* Naturals and finite sets.                                               *)
(***************************************************************************)

\* A set of naturals has a least element.
LEMMA LeastExists ==
  ASSUME NEW T \in SUBSET Nat, T # {}
  PROVE  \E m \in T : \A k \in T : m <= k
<1> DEFINE R == {ss \in Nat \X Nat : ss[1] < ss[2]}
<1>1. IsWellFoundedOn(R, Nat)
  BY NatLessThanWellFounded DEF OpToRel
<1>2. \A m, k \in Nat : <<k, m>> \in R <=> k < m
  OBVIOUS
<1> HIDE DEF R
<1>3. PICK m \in T : \A k \in T : <<k, m>> \notin R
  BY <1>1, WFMin
<1>4. \A k \in T : ~(k < m)
  BY <1>2, <1>3
<1> QED
  BY <1>3, <1>4

\* A bounded set of naturals has a greatest one.
LEMMA MaxIsMax ==
  ASSUME NEW S \in SUBSET Nat, S # {}, NEW n \in Nat, \A k \in S : k <= n
  PROVE  Max(S) \in S /\ \A k \in S : k <= Max(S)
<1> DEFINE Bounds == {b \in Nat : \A k \in S : k <= b}
<1>1. PICK m \in Bounds : \A b \in Bounds : m <= b
  <2> Bounds # {} /\ Bounds \in SUBSET Nat
    OBVIOUS
  <2> HIDE DEF Bounds
  <2> QED
    BY LeastExists
<1>2. m \in S
  <2> SUFFICES ASSUME m \notin S PROVE FALSE
    OBVIOUS
  <2>1. \A k \in S : k < m
    BY <1>1
  <2>2. m \in Nat /\ m # 0
    <3>1. PICK k \in S : TRUE
      OBVIOUS
    <3>2. k \in Nat /\ m \in Nat
      BY <1>1
    <3> QED
      BY <2>1, <3>1, <3>2
  <2>3. m - 1 \in Nat /\ \A k \in S : k <= m - 1
    BY <2>1, <2>2
  <2> QED
    BY <1>1, <2>2, <2>3
<1>3. m \in S /\ \A k \in S : m >= k
  BY <1>1, <1>2
<1>4. Max(S) = CHOOSE k \in S : \A l \in S : k >= l
  BY DEF Max
<1>5. Max(S) \in S /\ \A k \in S : Max(S) >= k
  BY <1>3, <1>4
<1> QED
  BY <1>5

\* In a finite order every number up to that of its elements is the rank of one of
\* them, and the ranks keep the order.
LEMMA RanksAreAll ==
  ASSUME NEW R, IsFiniteSet(R), NEW up \in [R -> SUBSET R],
         \A r \in R : r \in up[r],
         \A r, s \in R : r \in up[s] \/ s \in up[r],
         \A r, s \in R : r \in up[s] => up[r] \subseteq up[s],
         \A r, s \in R : r \in up[s] /\ s \in up[r] => r = s
  PROVE  /\ \A r \in R : Cardinality(up[r]) \in 1..Cardinality(R)
         /\ \A i \in 1..Cardinality(R) : \E r \in R : Cardinality(up[r]) = i
         /\ \A r, s \in R : Cardinality(up[r]) <= Cardinality(up[s]) => r \in up[s]
<1> DEFINE N == Cardinality(R)
           rank == [r \in R |-> Cardinality(up[r])]
<1>1. \A r \in R : IsFiniteSet(up[r]) /\ Cardinality(up[r]) \in Nat /\ Cardinality(up[r]) <= N
  BY FS_Subset, FS_CardinalityType
<1>2. N \in Nat
  BY FS_CardinalityType
<1>3. \A r \in R : Cardinality(up[r]) # 0
  BY <1>1, FS_EmptySet
<1>4. \A r \in R : Cardinality(up[r]) \in 1..N
  BY <1>1, <1>2, <1>3
<1>5. ASSUME NEW r \in R, NEW s \in R, Cardinality(up[r]) <= Cardinality(up[s])
      PROVE  r \in up[s]
  <2> SUFFICES ASSUME r \notin up[s] PROVE FALSE
    OBVIOUS
  <2>1. up[s] \subseteq up[r] /\ r \in up[r]
    OBVIOUS
  <2>2. Cardinality(up[s]) <= Cardinality(up[r])
    BY <1>1, <2>1, FS_Subset
  <2>3. Cardinality(up[s]) = Cardinality(up[r])
    BY <1>1, <1>5, <2>2
  <2>4. up[r] = up[s]
    BY <1>1, <2>1, <2>3, FS_Subset
  <2> QED
    BY <2>1, <2>4
<1>6. \A r, s \in R : rank[r] = rank[s] => r = s
  <2> TAKE r, s \in R
  <2> HAVE rank[r] = rank[s]
  <2>1. Cardinality(up[r]) <= Cardinality(up[s]) /\ Cardinality(up[s]) <= Cardinality(up[r])
    BY <1>1
  <2> QED
    BY <1>5, <2>1
<1>7. rank \in Injection(R, 1..N)
  <2>1. rank \in [R -> 1..N]
    BY <1>4
  <2> QED
    BY <1>6, <2>1 DEF Injection, IsInjective
<1>8. IsFiniteSet(1..N) /\ Cardinality(1..N) = N
  BY <1>2, FS_Interval
<1>9. rank \in Surjection(R, 1..N)
  <2> HIDE DEF rank
  <2> QED
    BY <1>7, <1>8, FS_Injection
<1>10. \A i \in 1..N : \E r \in R : Cardinality(up[r]) = i
  BY <1>9 DEF Surjection
<1> QED
  BY <1>4, <1>5, <1>10

(***************************************************************************)
(* The query of the payment orders.                                        *)
(***************************************************************************)

\* An order has at least one row in the result, and finitely many.
LEMMA RowsOfOrder ==
  ASSUME TypeOK, NEW op \in Ops
  PROVE  RowCount(op) \in 1..(Cardinality(Imputable) + 1)
<1> DEFINE D == {i \in imput : i.op = op}
           f == [i \in D |-> [comprob |-> i.comprob, oc |-> regComp[i.rc]]]
<1>1. D \in SUBSET Imputable
  BY DEF TypeOK
<1>2. IsFiniteSet(D) /\ Cardinality(D) <= Cardinality(Imputable)
  BY <1>1, FS_Subset, TablesAssumption
<1>3. f \in Surjection(D, ImputRows(op))
  BY DEF Surjection, ImputRows
<1> HIDE DEF D, f
<1>4. IsFiniteSet(ImputRows(op)) /\ Cardinality(ImputRows(op)) <= Cardinality(D)
  BY <1>2, <1>3, FS_Surjection
<1>5. ImputRows(op) # {} => Cardinality(ImputRows(op)) # 0
  BY <1>4, FS_EmptySet
<1>6. /\ Cardinality(ImputRows(op)) \in Nat /\ Cardinality(D) \in Nat
      /\ Cardinality(Imputable) \in Nat
  BY <1>2, <1>4, FS_CardinalityType, TablesAssumption
<1> QED
  BY <1>2, <1>4, <1>5, <1>6 DEF RowCount

\* The rows of the result are those of the orders selected, and there is no end to them
\* only if there is none to the tables.
LEMMA RowsOfResult ==
  ASSUME TypeOK
  PROVE  /\ IsFiniteSet(OpRows)
         /\ \A r \in OpRows : /\ r[1] \in Ops /\ OpSelected(r[1])
                              /\ r[2] \in Nat /\ r = <<r[1], r[2]>>
         /\ \A op \in Ops : OpSelected(op) => <<op, 1>> \in OpRows
<1> DEFINE K == Cardinality(Imputable) + 1
<1>1. K \in Nat
  BY FS_CardinalityType, TablesAssumption
<1>2. ASSUME NEW r \in OpRows
      PROVE  r \in Ops \X (1..K) /\ OpSelected(r[1])
  <2>1. PICK op \in Ops : OpSelected(op) /\ r \in {op} \X (1..RowCount(op))
    BY <1>2 DEF OpRows
  <2>2. RowCount(op) \in 1..K
    BY RowsOfOrder
  <2> QED
    BY <1>1, <2>1, <2>2
<1>3. IsFiniteSet(1..K)
  BY <1>1, FS_Interval
<1>4. IsFiniteSet(Ops \X (1..K))
  BY <1>3, FS_Product, TablesAssumption
<1>5. OpRows \in SUBSET (Ops \X (1..K))
  BY <1>2
<1>6. IsFiniteSet(OpRows)
  BY <1>4, <1>5, FS_Subset
<1>7. ASSUME NEW op \in Ops, OpSelected(op) PROVE <<op, 1>> \in OpRows
  <2>1. RowCount(op) \in 1..K
    BY RowsOfOrder
  <2>2. 1 \in 1..RowCount(op)
    BY <1>1, <2>1
  <2> QED
    BY <1>7, <2>2 DEF OpRows
<1>8. \A r \in OpRows : r[1] \in Ops /\ r[2] \in Nat /\ r = <<r[1], r[2]>>
  BY <1>1, <1>2
<1> QED
  BY <1>2, <1>6, <1>7, <1>8

\* ORDER BY orders the orders.
LEMMA BeforeOrders ==
  ASSUME TypeOK
  PROVE  /\ \A a, b \in Ops : a = b \/ Before(a, b) \/ Before(b, a)
         /\ \A a, b \in Ops : ~(Before(a, b) /\ (a = b \/ Before(b, a)))
         /\ \A a, b, c \in Ops : Before(a, b) /\ Before(b, c) => Before(a, c)
         /\ \A a, b \in Ops : (a = b \/ Before(a, b)) /\ ordenPago[b].fc # 0 =>
              0 < ordenPago[a].fc /\ ordenPago[a].fc <= ordenPago[b].fc
<1>1. \A a \in Ops : a \in Nat /\ Ejercicio[a] \in Nat /\ ordenPago[a].fc \in Nat
  BY CalendarAssumption, TablesAssumption DEF TypeOK
<1> QED
  BY <1>1 DEF Before

\* The result holds every order selected, by date, with its rows together.
LEMMA QueryResult ==
  ASSUME TypeOK
  PROVE  /\ OpQuery \in Seq(Key) /\ Contiguous(OpQuery)
         /\ \A op \in Ops : OpSelected(op) => \E i \in 1..Len(OpQuery) : OpQuery[i] = op
         /\ \A i, j \in 1..Len(OpQuery) :
              i <= j /\ ordenPago[OpQuery[j]].fc # 0 =>
                /\ 0 < ordenPago[OpQuery[i]].fc
                /\ ordenPago[OpQuery[i]].fc <= ordenPago[OpQuery[j]].fc
<1> DEFINE N == Cardinality(OpRows)
           up == [r \in OpRows |-> UpTo(r)]
           row(i) == CHOOSE r \in OpRows : Cardinality(UpTo(r)) = i
<1>1. /\ IsFiniteSet(OpRows)
      /\ \A r \in OpRows : r[1] \in Ops /\ r[2] \in Nat /\ r = <<r[1], r[2]>>
      /\ \A op \in Ops : OpSelected(op) => <<op, 1>> \in OpRows
  BY RowsOfResult
<1>2. N \in Nat
  BY <1>1, FS_CardinalityType
<1>3. up \in [OpRows -> SUBSET OpRows] /\ \A r \in OpRows : up[r] = UpTo(r)
  BY DEF UpTo
<1>4. /\ \A r \in OpRows : r \in up[r]
      /\ \A r, s \in OpRows : r \in up[s] \/ s \in up[r]
      /\ \A r, s \in OpRows : r \in up[s] => up[r] \subseteq up[s]
      /\ \A r, s \in OpRows : r \in up[s] /\ s \in up[r] => r = s
  <2>1. \A r \in OpRows : r \in UpTo(r)
    BY <1>1 DEF UpTo
  <2>2. \A r, s \in OpRows : r \in UpTo(s) \/ s \in UpTo(r)
    BY <1>1, BeforeOrders DEF UpTo
  <2>3. \A r, s, t \in OpRows : r \in UpTo(s) /\ t \in UpTo(r) => t \in UpTo(s)
    BY <1>1, BeforeOrders DEF UpTo
  <2>4. \A r, s \in OpRows : r \in UpTo(s) /\ s \in UpTo(r) => r = s
    BY <1>1, BeforeOrders DEF UpTo
  <2> HIDE DEF up
  <2> QED
    BY <1>3, <2>1, <2>2, <2>3, <2>4
<1> HIDE DEF up
<1>5. /\ \A r \in OpRows : Cardinality(UpTo(r)) \in 1..N
      /\ \A i \in 1..N : \E r \in OpRows : Cardinality(UpTo(r)) = i
      /\ \A r, s \in OpRows : Cardinality(UpTo(r)) <= Cardinality(UpTo(s)) => r \in UpTo(s)
  BY <1>1, <1>3, <1>4, RanksAreAll
<1>6. \A i \in 1..N : row(i) \in OpRows /\ Cardinality(UpTo(row(i))) = i
  BY <1>5
<1>7. OpQuery = [i \in 1..N |-> row(i)[1]]
  BY DEF OpQuery
<1> HIDE DEF row
<1>8. OpQuery \in Seq(Ops) /\ Len(OpQuery) = N
  BY <1>1, <1>2, <1>6, <1>7
<1>9. ASSUME NEW i \in 1..N, NEW j \in 1..N, i <= j
      PROVE  OpQuery[i] = OpQuery[j] \/ Before(OpQuery[i], OpQuery[j])
  <2>1. row(i) \in UpTo(row(j))
    BY <1>5, <1>6, <1>9
  <2> QED
    BY <1>7, <2>1 DEF UpTo
<1>10. \A i \in 1..N : OpQuery[i] \in Ops
  BY <1>8
<1>11. Contiguous(OpQuery)
  <2> SUFFICES ASSUME NEW i \in 1..N, NEW j \in 1..N, NEW k \in 1..N, i <= j, j <= k,
                      OpQuery[i] = OpQuery[k]
               PROVE  OpQuery[j] = OpQuery[i]
    BY <1>8 DEF Contiguous
  <2>1. OpQuery[i] = OpQuery[j] \/ Before(OpQuery[i], OpQuery[j])
    BY <1>9
  <2>2. OpQuery[j] = OpQuery[i] \/ Before(OpQuery[j], OpQuery[i])
    BY <1>9
  <2> QED
    BY <1>10, <2>1, <2>2, BeforeOrders
<1>12. ASSUME NEW op \in Ops, OpSelected(op)
       PROVE  \E i \in 1..N : OpQuery[i] = op
  <2> DEFINE r == <<op, 1>>
             i == Cardinality(UpTo(r))
  <2>1. r \in OpRows
    BY <1>1, <1>12
  <2>2. i \in 1..N
    BY <1>5, <2>1
  <2>3. row(i) \in OpRows /\ Cardinality(UpTo(row(i))) = i
    BY <1>6, <2>2
  <2>4. row(i) \in UpTo(r) /\ r \in UpTo(row(i))
    <3>1. Cardinality(UpTo(row(i))) <= i /\ i <= Cardinality(UpTo(row(i)))
      BY <1>2, <2>2, <2>3
    <3> QED
      BY <1>5, <2>1, <2>3, <3>1
  <2>5. row(i) = r
    BY <1>3, <1>4, <2>1, <2>3, <2>4
  <2> HIDE DEF i
  <2> QED
    BY <1>7, <2>2, <2>5
<1> QED
  BY <1>8, <1>9, <1>10, <1>11, <1>12, BeforeOrders, TablesAssumption

(***************************************************************************)
(* The invariant.                                                          *)
(***************************************************************************)

USE DEF rafam, run

\* A result that has just come is one the batches may start on.
LEMMA OpenedInv ==
  ASSUME NEW rows \in Seq(Key), Contiguous(rows), Opened(rows)
  PROVE  BgInv'
<1>1. BgTypeOK'
  BY DEF Opened, BgTypeOK, Contiguous
<1> QED
  BY <1>1, BatchSizeAssumption DEF Opened, BgInv, BgTypeOK, IsCut, Rows

\* An empty result is one.
LEMMA NothingOpened ==
  ASSUME Opened(<<>>)
  PROVE  BgInv'
<1>1. <<>> \in Seq(Key) /\ Contiguous(<<>>)
  BY DEF Contiguous
<1> QED
  BY <1>1, OpenedInv

\* The orders a step hands over, if it hands any over.
HandedOver == {result[i] : i \in start..(start' - 1)}

\* A batch is a stretch of the result, and what a good one makes of the watermark is a
\* date of the batch, or nothing.
LEMMA BatchTaken ==
  ASSUME TypeOK, BgNext, BatchGood(HandedOver)
  PROVE  /\ result' = result /\ start <= start' /\ start' \in Nat
         /\ HandedOver \subseteq Ops
         /\ \A i \in start..(start' - 1) : i \in Rows
         /\ cp' \in 0..MaxDay
         /\ cp' = cp \/ (~failed /\ \E op \in HandedOver : date[op] # 0 /\ cp' = date[op])
<1> DEFINE dates == {date[op] : op \in HandedOver} \ {0}
<1>1. BgInv /\ BgInv'
  BY BgStepInv DEF TypeOK
<1>2. result' = result /\ start <= start' /\ start' \in Nat /\ start \in Nat
  BY <1>1 DEF BgInv, BgTypeOK, BgNext, ReadRow, CloseGroup, LastGroup, LastBatch
<1>3. \A i \in start..(start' - 1) : i \in Rows
  <2>1. Len(result) \in Nat /\ 1 <= start
    BY <1>1 DEF BgInv, BgTypeOK
  <2>2. start' <= Len(result) + 1
    BY <1>1, <1>2, <2>1 DEF BgInv, BgTypeOK
  <2>3. \A s, t, l \in Nat : 1 <= s /\ t <= l + 1 => \A i \in s..(t - 1) : i \in 1..l
    OBVIOUS
  <2> QED
    BY <1>2, <2>1, <2>2, <2>3 DEF Rows
<1>4. \A i \in Rows : result[i] \in Ops
  BY TablesAssumption DEF TypeOK, BgInv, BgTypeOK, Rows
<1>5. HandedOver \subseteq Ops
  BY <1>3, <1>4 DEF HandedOver
<1>6. cp' = IF failed \/ dates = {} THEN cp ELSE Advanced(Max(dates))
  BY DEF BatchGood
<1>7. dates \subseteq 1..MaxDay /\ MaxDay \in Nat /\ 1..MaxDay \subseteq 0..MaxDay
  BY <1>5, CalendarAssumption DEF TypeOK
<1>8. dates # {} => Max(dates) \in dates
  <2>1. dates \in SUBSET Nat /\ \A d \in dates : d <= MaxDay
    BY <1>7
  <2> HIDE DEF dates
  <2> QED
    BY <1>7, <2>1, MaxIsMax
<1>9. cp' = cp \/ (~failed /\ cp' \in dates)
  <2> HIDE DEF dates
  <2> QED
    BY <1>6, <1>8 DEF Advanced
<1>10. cp' \in 0..MaxDay
  <2>1. cp \in 0..MaxDay
    BY DEF TypeOK
  <2> HIDE DEF dates
  <2> QED
    BY <1>7, <1>9, <2>1, Zenon
<1> QED
  BY <1>2, <1>3, <1>5, <1>9, <1>10

\* Every step keeps the types, and the batches whole.
LEMMA TypeStep ==
  ASSUME TypeOK, CalendarInv, [Next]_vars
  PROVE  TypeOK'
<1> USE CalendarAssumption, TablesAssumption DEF TypeOK, Days
<1>1. ASSUME UNCHANGED bgVars PROVE BgInv'
  <2>1. result' = result /\ start' = start /\ group' = group /\ next' = next
    BY <1>1 DEF bgVars
  <2>2. BgTypeOK'
    BY <2>1 DEF BgInv, BgTypeOK
  <2>3. IsCut(start)' /\ IsCut(group)'
    <3>1. IsCut(start) /\ IsCut(group)
      BY DEF BgInv
    <3> QED
      BY <2>1, <3>1 DEF IsCut
  <2>4. (\A i, j \in group..(next - 1) : result[i] = result[j])'
    BY <2>1, Zenon DEF BgInv
  <2>5. (group - start <= BatchSize \/ \A i, j \in start..(group - 1) : result[i] = result[j])'
    BY <2>1, Zenon DEF BgInv
  <2>6. (group = next => next \in {1, Len(result) + 1})'
    BY <2>1, Zenon DEF BgInv
  <2> QED
    BY <2>2, <2>3, <2>4, <2>5, <2>6 DEF BgInv
<1>2. CASE Tick
  BY <1>1, <1>2 DEF Tick
<1>3. ASSUME NEW op \in Ops, Confirm(op) PROVE TypeOK'
  BY <1>1, <1>3 DEF Confirm
<1>4. ASSUME NEW op \in Ops, TakeBack(op) PROVE TypeOK'
  <2>1. PICK e \in {"N", "A"} :
          ordenPago' = [ordenPago EXCEPT ![op] =
                         [estado |-> e, fc |-> IF e = "N" THEN 0 ELSE ordenPago[op].fc]]
    BY <1>4 DEF TakeBack
  <2>2. ordenPago' \in [Ops -> [estado : {"none", "N", "C", "A"}, fc : 0..MaxDay]]
    BY <2>1
  <2> QED
    BY <1>1, <1>4, <2>2 DEF TakeBack
<1>5. ASSUME NEW op \in Ops, Impute(op) PROVE TypeOK'
  BY <1>1, <1>5 DEF Impute
<1>6. ASSUME NEW oc \in Ocs, Purchase(oc) PROVE TypeOK'
  BY <1>1, <1>6 DEF Purchase
<1>7. CASE Query
  <2>1. BgInv'
    BY <1>7, QueryResult, OpenedInv DEF Query
  <2>2. asked' \in 0..MaxDay /\ date' \in [Ops -> 0..MaxDay]
    BY <1>7 DEF Query
  <2>3. failed' \in BOOLEAN
    BY <1>7 DEF Query
  <2> QED
    BY <1>7, <2>1, <2>2, <2>3 DEF Query
<1>8. CASE ReadOn
  <2>1. BgInv'
    BY <1>8, BgStepInv DEF ReadOn
  <2>2. CASE UNCHANGED <<cp, pending, missed, failed>>
    BY <1>8, <2>1, <2>2 DEF ReadOn
  <2>3. CASE BatchGood(HandedOver)
    <3>1. cp' \in 0..MaxDay /\ HandedOver \subseteq Ops
      BY <1>8, <2>3, BatchTaken DEF ReadOn
    <3> QED
      BY <1>8, <2>1, <2>3, <3>1 DEF ReadOn, BatchGood
  <2>4. CASE BatchBad
    BY <1>8, <2>1, <2>4 DEF ReadOn, BatchBad
  <2> QED
    BY <1>8, <2>2, <2>3, <2>4 DEF ReadOn, HandedOver
<1>9. CASE EndRun \/ Stop
  <2>1. BgInv'
    BY <1>9, NothingOpened DEF EndRun, Stop, Over
  <2>2. lastRead' \in Days
    BY <1>9 DEF EndRun, Stop
  <2>3. asked' \in 0..MaxDay /\ date' \in [Ops -> 0..MaxDay]
    BY <1>9 DEF EndRun, Stop, Over
  <2>4. failed' \in BOOLEAN
    BY <1>9 DEF EndRun, Stop, Over
  <2> QED
    BY <1>9, <2>1, <2>2, <2>3, <2>4 DEF EndRun, Stop, Over
<1>10. CASE UNCHANGED vars
  BY <1>1, <1>10 DEF vars
<1> QED
  BY <1>2, <1>3, <1>4, <1>5, <1>6, <1>7, <1>8, <1>9, <1>10 DEF Next, Rafam

\* The days pass, and a run is not a day older than Gap allows.
LEMMA CalendarStep ==
  ASSUME TypeOK, CalendarInv, [Next]_vars
  PROVE  CalendarInv'
<1> USE CalendarAssumption DEF CalendarInv, TypeOK, Days
<1>1. CASE Tick
  BY <1>1 DEF Tick
<1>2. CASE Query
  BY <1>2 DEF Query
<1>3. CASE EndRun \/ Stop
  BY <1>3 DEF EndRun, Stop, Over
<1>4. ASSUME UNCHANGED <<today, lastRead, asked>> PROVE CalendarInv'
  BY <1>4
<1>5. CASE ReadOn \/ \E op \in Ops : Confirm(op) \/ TakeBack(op) \/ Impute(op)
  BY <1>4, <1>5 DEF ReadOn, Confirm, TakeBack, Impute
<1>6. CASE (\E oc \in Ocs : Purchase(oc)) \/ UNCHANGED vars
  BY <1>4, <1>6 DEF Purchase, vars
<1> QED
  BY <1>1, <1>2, <1>3, <1>5, <1>6 DEF Next, Rafam

\* The result comes by date from the query, and nothing but a query changes it.
LEMMA ResultStep ==
  ASSUME TypeOK, ResultInv, [Next]_vars
  PROVE  ResultInv'
<1>1. ASSUME UNCHANGED <<result, date, asked>> PROVE ResultInv'
  BY <1>1 DEF ResultInv, Rows
<1>2. CASE Query
  <2>1. result' = OpQuery /\ date' = [op \in Ops |-> ordenPago[op].fc]
    BY <1>2 DEF Query, Opened
  <2>2. \A i \in 1..Len(OpQuery) : OpQuery[i] \in Ops
    BY QueryResult, TablesAssumption
  <2>3. \A i \in 1..Len(OpQuery) : date'[result'[i]] = ordenPago[OpQuery[i]].fc
    BY <2>1, <2>2
  <2>4. asked' # 0
    BY <1>2, CalendarAssumption DEF Query, TypeOK, Days
  <2> QED
    BY <2>1, <2>3, <2>4, QueryResult DEF ResultInv, Rows
<1>3. CASE EndRun \/ Stop
  BY <1>3 DEF EndRun, Stop, Over, Opened, ResultInv, Rows
<1>4. CASE ReadOn
  <2>1. UNCHANGED <<result, date, asked>>
    BY <1>4 DEF ReadOn, BgNext, ReadRow, LastGroup, LastBatch
  <2> QED
    BY <1>1, <2>1
<1>5. CASE Tick \/ \E op \in Ops : Confirm(op) \/ TakeBack(op) \/ Impute(op)
  BY <1>1, <1>5 DEF Tick, Confirm, TakeBack, Impute, bgVars
<1>6. CASE (\E oc \in Ocs : Purchase(oc)) \/ UNCHANGED vars
  BY <1>1, <1>6 DEF Purchase, vars, bgVars
<1> QED
  BY <1>2, <1>3, <1>4, <1>5, <1>6 DEF Next, Rafam

\* Of a batch that goes well, and in which every row came by date, the watermark passes
\* no order that is still to be handed over.
LEMMA AdvanceIsSafe ==
  ASSUME IInv, asked # 0, BgNext, BatchGood(HandedOver), NEW op \in missed',
         InBoundary(Ejercicio[op], ordenPago[op].fc)
  PROVE  \/ cp' = cp
         \/ ordenPago[op].fc + Late >= asked
         \/ cp' <= ordenPago[op].fc
<1> SUFFICES ASSUME cp' # cp, ~(ordenPago[op].fc + Late >= asked)
             PROVE  cp' <= ordenPago[op].fc
  OBVIOUS
<1>1. TypeOK /\ AheadInv /\ BehindInv /\ ResultInv
  BY DEF IInv
<1>2. /\ start <= start' /\ start' \in Nat /\ HandedOver \subseteq Ops
      /\ \A i \in start..(start' - 1) : i \in Rows
      /\ ~failed /\ \E o \in HandedOver : date[o] # 0 /\ cp' = date[o]
  BY <1>1, BatchTaken
<1>3. op \in missed /\ op \notin {o \in HandedOver : date[o] = ordenPago[o].fc}
  BY DEF BatchGood
<1>4. date[op] = ordenPago[op].fc /\ \E i \in Rows : start <= i /\ result[i] = op
  BY <1>1, <1>2, <1>3 DEF AheadInv
<1>5. PICK i \in Rows : start <= i /\ result[i] = op
  BY <1>4
<1>6. op \notin HandedOver
  <2>1. op \in Ops
    BY <1>1, <1>3 DEF TypeOK
  <2> QED
    BY <1>2, <1>3, <1>4, <2>1
<1>7. PICK j \in start..(start' - 1) : date[result[j]] # 0 /\ cp' = date[result[j]]
  BY <1>2 DEF HandedOver
<1>8. i \in Nat /\ start \in Nat /\ j \in Rows /\ j \in Nat
  BY <1>1, <1>2, <1>7 DEF TypeOK, BgInv, BgTypeOK, Rows
<1>9. ~(i \in start..(start' - 1))
  BY <1>5, <1>6 DEF HandedOver
<1>10. j <= i
  <2>1. \A a, b, k, l \in Nat : a <= k /\ ~(k \in a..(b - 1)) /\ l \in a..(b - 1) => l <= k
    OBVIOUS
  <2> QED
    BY <1>2, <1>5, <1>7, <1>8, <1>9, <2>1
<1>11. date[result[i]] # 0
  BY <1>1, <1>3, <1>4, <1>5 DEF BehindInv, Confirmed
<1> QED
  BY <1>1, <1>4, <1>5, <1>7, <1>8, <1>10, <1>11 DEF ResultInv

\* The watermark leaves a missed order behind only if the window still reaches it.
LEMMA BehindStep ==
  ASSUME IInv, [Next]_vars
  PROVE  BehindInv'
<1> USE CalendarAssumption DEF InBoundary, Confirmed
<1>1. TypeOK /\ BehindInv /\ AheadInv /\ CalendarInv
  BY DEF IInv
<1>2. /\ \A op \in missed : op \in Ops /\ ordenPago[op].fc \in Nat
      /\ cp \in Nat /\ lastRead \in Nat /\ asked \in Nat /\ today \in Nat
  BY <1>1 DEF TypeOK, Days
<1>3. ASSUME UNCHANGED <<ordenPago, missed, cp, lastRead>> PROVE BehindInv'
  BY <1>1, <1>3 DEF BehindInv
<1>4. ASSUME NEW op \in Ops, Confirm(op) PROVE BehindInv'
  <2>1. PICK d \in Days : /\ d + Late >= today
                          /\ ordenPago' = [ordenPago EXCEPT ![op] = [estado |-> "C", fc |-> d]]
    BY <1>4 DEF Confirm
  <2>2. d + Late >= lastRead /\ d # 0
    BY <1>1, <1>2, <2>1 DEF CalendarInv, Days
  <2>3. ordenPago'[op] = [estado |-> "C", fc |-> d] /\ \A o \in Ops \ {op} : ordenPago'[o] = ordenPago[o]
    BY <1>1, <2>1 DEF TypeOK
  <2>4. missed' = missed \cup {op} /\ UNCHANGED <<cp, lastRead>>
    BY <1>4 DEF Confirm
  <2> QED
    BY <1>1, <1>2, <2>2, <2>3, <2>4 DEF BehindInv
<1>5. ASSUME NEW op \in Ops, TakeBack(op) PROVE BehindInv'
  <2>1. /\ missed' = missed \ {op} /\ UNCHANGED <<cp, lastRead>>
        /\ \A o \in Ops \ {op} : ordenPago'[o] = ordenPago[o]
    BY <1>1, <1>5 DEF TakeBack, TypeOK
  <2> QED
    BY <1>1, <1>2, <2>1 DEF BehindInv
<1>6. CASE ReadOn
  <2>1. CASE UNCHANGED <<cp, pending, missed, failed>>
    BY <1>3, <1>6, <2>1 DEF ReadOn
  <2>2. CASE BatchGood(HandedOver)
    <3>1. UNCHANGED <<ordenPago, lastRead>> /\ missed' \subseteq missed /\ asked # 0 /\ BgNext
      BY <1>6, <2>2 DEF ReadOn, BatchGood
    <3>2. ASSUME NEW op \in missed', InBoundary(Ejercicio[op], ordenPago[op].fc)
          PROVE  cp' = cp \/ ordenPago[op].fc + Late >= lastRead \/ cp' <= ordenPago[op].fc
      <4>1. cp' = cp \/ ordenPago[op].fc + Late >= asked \/ cp' <= ordenPago[op].fc
        BY <2>2, <3>1, <3>2, AdvanceIsSafe
      <4> QED
        BY <1>1, <1>2, <3>1, <4>1 DEF CalendarInv
    <3>3. cp' \in Nat
      BY <1>1, <2>2, <3>1, BatchTaken
    <3> QED
      BY <1>1, <1>2, <3>1, <3>2, <3>3 DEF BehindInv
  <2>3. CASE BatchBad
    BY <1>3, <1>6, <2>3 DEF ReadOn, BatchBad
  <2> QED
    BY <1>6, <2>1, <2>2, <2>3 DEF ReadOn, HandedOver
<1>7. CASE EndRun
  <2>1. CASE failed
    BY <1>3, <1>7, <2>1 DEF EndRun, Over
  <2>2. CASE ~failed
    <3>1. Len(result) \in Nat /\ start = Len(result) + 1
      BY <1>1, <1>7 DEF EndRun, TypeOK, BgInv, BgTypeOK
    <3>2. \A i \in Rows : ~(start <= i)
      BY <3>1 DEF Rows
    <3>3. UNCHANGED <<ordenPago, missed, cp>> /\ lastRead' = asked /\ asked # 0
      BY <1>7, <2>2 DEF EndRun, Over
    <3> QED
      BY <1>1, <2>2, <3>2, <3>3 DEF BehindInv, AheadInv
  <2> QED
    BY <2>1, <2>2
<1>8. CASE Tick \/ Query \/ Stop \/ UNCHANGED vars
  BY <1>3, <1>8 DEF Tick, Query, Stop, Over, vars
<1>9. CASE (\E op \in Ops : Impute(op)) \/ (\E oc \in Ocs : Purchase(oc))
  BY <1>3, <1>9 DEF Impute, Purchase
<1> QED
  BY <1>4, <1>5, <1>6, <1>7, <1>8, <1>9 DEF Next, Rafam

\* A missed order of the scope is one the next query selects.
LEMMA MissedIsSelected ==
  ASSUME TypeOK, CalendarInv, BehindInv, NEW op \in missed,
         InBoundary(Ejercicio[op], ordenPago[op].fc)
  PROVE  OpSelected(op)
<1>1. op \in Ops /\ ordenPago[op].fc \in Nat /\ cp \in Nat /\ lastRead \in Nat /\ today \in Nat
  BY CalendarAssumption DEF TypeOK, Days
<1>2. Confirmed(op) /\ ordenPago[op].estado # "none"
  BY DEF BehindInv, Confirmed
<1>3. CASE cp = 0
  BY <1>2, <1>3 DEF OpSelected
<1>4. CASE ordenPago[op].fc >= cp
  BY <1>2, <1>4 DEF OpSelected, AfterWatermark
<1>5. CASE ordenPago[op].fc + Late >= lastRead
  <2>1. ordenPago[op].fc + Window >= today + Skew
    BY <1>1, <1>5, CalendarAssumption, WindowAssumption DEF CalendarInv
  <2> QED
    BY <1>2, <2>1 DEF OpSelected, InWindow
<1> QED
  BY <1>3, <1>4, <1>5 DEF BehindInv

\* What the run has not handed over stays ahead of it.
LEMMA AheadStep ==
  ASSUME IInv, [Next]_vars
  PROVE  AheadInv'
<1> USE CalendarAssumption DEF InBoundary
<1>1. TypeOK /\ BehindInv /\ AheadInv /\ CalendarInv
  BY DEF IInv
<1>2. /\ \A op \in missed : op \in Ops /\ ordenPago[op].fc \in Nat
      /\ asked \in Nat /\ today \in Nat
  BY <1>1 DEF TypeOK, Days
<1>3. ASSUME UNCHANGED <<ordenPago, missed, asked, failed, date, start, result>> PROVE AheadInv'
  BY <1>1, <1>3 DEF AheadInv, Rows
<1>4. ASSUME NEW op \in Ops, Confirm(op) PROVE AheadInv'
  <2>1. PICK d \in Days : /\ d + Late >= today
                          /\ ordenPago' = [ordenPago EXCEPT ![op] = [estado |-> "C", fc |-> d]]
    BY <1>4 DEF Confirm
  <2>2. asked # 0 => d + Late >= asked
    BY <1>1, <1>2, <2>1 DEF CalendarInv, Days
  <2>3. ordenPago'[op] = [estado |-> "C", fc |-> d] /\ \A o \in Ops \ {op} : ordenPago'[o] = ordenPago[o]
    BY <1>1, <2>1 DEF TypeOK
  <2>4. missed' = missed \cup {op} /\ UNCHANGED <<asked, failed, date, start, result>>
    BY <1>4 DEF Confirm, bgVars
  <2> QED
    BY <1>1, <1>2, <2>2, <2>3, <2>4 DEF AheadInv, Rows
<1>5. ASSUME NEW op \in Ops, TakeBack(op) PROVE AheadInv'
  <2>1. /\ missed' = missed \ {op} /\ UNCHANGED <<asked, failed, date, start, result>>
        /\ \A o \in Ops \ {op} : ordenPago'[o] = ordenPago[o]
    BY <1>1, <1>5 DEF TakeBack, TypeOK, bgVars
  <2> QED
    BY <1>1, <1>2, <2>1 DEF AheadInv, Rows
<1>6. CASE Query
  <2>1. /\ result' = OpQuery /\ start' = 1 /\ UNCHANGED <<ordenPago, missed>>
        /\ \A op \in Ops : date'[op] = ordenPago[op].fc
    BY <1>6 DEF Query, Opened
  <2>2. ASSUME NEW op \in missed, InBoundary(Ejercicio[op], ordenPago[op].fc)
        PROVE  \E i \in 1..Len(OpQuery) : 1 <= i /\ OpQuery[i] = op
    <3>1. OpSelected(op)
      BY <1>1, <2>2, MissedIsSelected
    <3> QED
      BY <1>1, <1>2, <3>1, QueryResult
  <2> QED
    BY <1>2, <2>1, <2>2 DEF AheadInv, Rows
<1>7. CASE ReadOn
  <2>1. UNCHANGED <<ordenPago, asked, date, result>>
    BY <1>7 DEF ReadOn, BgNext, ReadRow, LastGroup, LastBatch
  <2>2. CASE start' = start /\ UNCHANGED <<cp, pending, missed, failed>>
    BY <1>3, <2>1, <2>2
  <2>3. CASE BatchGood(HandedOver)
    <3>1. /\ UNCHANGED failed /\ BgNext
          /\ missed' = missed \ {op \in HandedOver : date[op] = ordenPago[op].fc}
      BY <1>7, <2>3 DEF ReadOn, BatchGood
    <3>2. start <= start' /\ start' \in Nat /\ start \in Nat /\ Len(result) \in Nat
      BY <1>1, <2>3, <3>1, BatchTaken DEF TypeOK, BgInv, BgTypeOK
    <3>3. ASSUME NEW i \in Rows, start <= i, ~(start' <= i) PROVE result[i] \in HandedOver
      <4>1. \A a, b, k \in Nat : a <= k /\ ~(b <= k) => k \in a..(b - 1)
        OBVIOUS
      <4>2. i \in Nat
        BY <3>2 DEF Rows
      <4> QED
        BY <3>2, <3>3, <4>1, <4>2 DEF HandedOver
    <3> QED
      BY <1>1, <2>1, <3>1, <3>3 DEF AheadInv, Rows
  <2>4. CASE BatchBad
    BY <2>4 DEF BatchBad, AheadInv
  <2> QED
    BY <1>7, <2>2, <2>3, <2>4 DEF ReadOn, HandedOver
<1>8. CASE EndRun \/ Stop
  BY <1>8 DEF EndRun, Stop, Over, AheadInv
<1>9. CASE Tick \/ UNCHANGED vars
  BY <1>3, <1>9 DEF Tick, vars, bgVars
<1>10. CASE (\E op \in Ops : Impute(op)) \/ (\E oc \in Ocs : Purchase(oc))
  BY <1>3, <1>10 DEF Impute, Purchase, bgVars
<1> QED
  BY <1>4, <1>5, <1>6, <1>7, <1>8, <1>9, <1>10 DEF Next, Rafam

\* RAFAM is full of orders, none of which the program has seen.
LEMMA InitIInv == Init => IInv
<1> SUFFICES ASSUME Init PROVE IInv
  OBVIOUS
<1> USE CalendarAssumption, TablesAssumption DEF Days
<1>1. PICK old \in SUBSET Ops, d \in [Ops -> 1..FirstDay] :
        /\ ordenPago = [op \in Ops |-> IF op \in old THEN [estado |-> "C", fc |-> d[op]]
                                      ELSE [estado |-> "none", fc |-> 0]]
        /\ missed = old
  BY DEF Init
<1>2. \A op \in Ops : d[op] \in 1..MaxDay
  BY <1>1
<1>3. ordenPago \in [Ops -> [estado : {"none", "N", "C", "A"}, fc : 0..MaxDay]]
  BY <1>1, <1>2
<1>4. BgInv
  BY BatchSizeAssumption DEF Init, BgInv, BgTypeOK, Contiguous, IsCut, Rows
<1>5. TypeOK
  <2>1. today \in Days /\ lastRead \in Days /\ asked \in 0..MaxDay /\ cp \in 0..MaxDay
    BY DEF Init
  <2>2. ordenCompra \in [Ocs -> 0..MaxDay] /\ date \in [Ops -> 0..MaxDay]
    BY DEF Init
  <2>3. /\ regComp \in [Rcs -> Ocs \cup {NoOc}] /\ imput = {} /\ pending = {}
        /\ missed \subseteq Ops /\ failed = FALSE
    BY <1>1 DEF Init
  <2> QED
    BY <1>3, <1>4, <2>1, <2>2, <2>3 DEF TypeOK
<1>6. CalendarInv /\ ResultInv /\ AheadInv
  BY DEF Init, CalendarInv, ResultInv, AheadInv, Rows
<1>7. BehindInv
  <2>1. ASSUME NEW op \in missed PROVE Confirmed(op)
    <3>1. op \in old /\ op \in Ops
      BY <1>1
    <3>2. ordenPago[op] = [estado |-> "C", fc |-> d[op]]
      BY <1>1, <3>1
    <3>3. d[op] # 0
      BY <1>2, <3>1
    <3> QED
      BY <3>2, <3>3 DEF Confirmed
  <2> QED
    BY <2>1 DEF Init, BehindInv
<1> QED
  BY <1>5, <1>6, <1>7 DEF IInv

\* IInv is an invariant of the queries and their runs, for every calendar in which the
\* window is as long as WindowAssumption says.
THEOREM InductiveInvariant == Spec => []IInv
<1>1. IInv /\ [Next]_vars => IInv'
  BY TypeStep, CalendarStep, ResultStep, BehindStep, AheadStep DEF IInv
<1> QED
  BY <1>1, InitIInv, PTL DEF Spec

\* Every variable keeps its type, and the batches of a run are those of the query.
THEOREM Typing == Spec => []TypeOK
<1>1. IInv => TypeOK
  BY DEF IInv
<1> QED
  BY <1>1, InductiveInvariant, PTL

\* A confirmed order of the scope that no batch has taken is one the next query selects,
\* however late it was confirmed, whichever batches failed and whenever a run died.
THEOREM NoneMissed == Spec => []NoConfirmationMissed
<1>1. IInv => NoConfirmationMissed
  BY MissedIsSelected DEF IInv, NoConfirmationMissed
<1> QED
  BY <1>1, InductiveInvariant, PTL

\* Whatever orden_pago sends of the ejercicio before, oc_items reads what it was imputed
\* to: the two filters of the scope agree.
THEOREM ScopeCovers == Spec => []OcScopeCoversOps
<1>1. TypeOK => OcScopeCoversOps
  <2> SUFFICES ASSUME TypeOK, NEW op \in Ops, OpSelected(op), Confirmed(op),
                      NEW oc \in OcsOf(op) \cap Purchases
               PROVE  oc \in OcsRead
    BY DEF OcScopeCoversOps
  <2>1. InBoundary(Ejercicio[op], ordenPago[op].fc)
    BY DEF OpSelected
  <2>2. oc \in RequiredOcs
    BY <2>1 DEF RequiredOcs, InBoundary
  <2> QED
    BY <2>2 DEF OcsRead
<1> QED
  BY <1>1, Typing, PTL

\* In a run over RAFAM, too, no batch parts the receipts of an order ...
THEOREM OrdersStayWhole == Spec => []GroupsStayWhole
<1>1. TypeOK => GroupsStayWhole
  BY DEF TypeOK, BgInv, GroupsStayWhole
<1> QED
  BY <1>1, Typing, PTL

\* ... and none is larger than --batch-size, unless it is one order.
THEOREM OrderBatchesBounded == Spec => BatchesAreBounded
<1> DEFINE Bounded == start' # start /\ result' = result =>
                        \/ start' - start <= BatchSize
                        \/ \A i, j \in start..(start' - 1) : result[i] = result[j]
<1>1. IInv /\ [Next]_vars => [Bounded]_bgVars
  <2> SUFFICES ASSUME IInv, [Next]_vars, start' # start, result' = result PROVE Bounded
    OBVIOUS
  <2>1. BgInv /\ ResultInv
    BY DEF IInv, TypeOK
  <2>2. CASE ReadOn
    <3>1. start' = group
      BY <2>2 DEF ReadOn, BgNext, ReadRow, LastGroup, LastBatch, CloseGroup
    <3> QED
      BY <2>1, <3>1 DEF BgInv
  <2>3. CASE Query \/ EndRun \/ Stop
    <3>1. start' = 1 /\ result = <<>>
      BY <2>1, <2>3 DEF Query, EndRun, Stop, Over, Opened, ResultInv
    <3>2. start = 1
      BY <2>1, <3>1 DEF BgInv, BgTypeOK
    <3> QED
      BY <3>1, <3>2
  <2>4. CASE Tick \/ \E op \in Ops : Confirm(op) \/ TakeBack(op) \/ Impute(op)
    BY <2>4 DEF Tick, Confirm, TakeBack, Impute, bgVars
  <2>5. CASE (\E oc \in Ocs : Purchase(oc)) \/ UNCHANGED vars
    BY <2>5 DEF Purchase, vars, bgVars
  <2> QED
    BY <2>2, <2>3, <2>4, <2>5 DEF Next, Rafam
<1> QED
  BY <1>1, InductiveInvariant, PTL DEF Spec, BatchesAreBounded
=============================================================================
