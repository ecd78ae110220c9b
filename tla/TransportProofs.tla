-------------------------- MODULE TransportProofs --------------------------
(***************************************************************************)
(* The circuit breaker, for every number of processes and every cooldown.  *)
(***************************************************************************)
EXTENDS Transport, FiniteSetTheorems, TLAPS

\* A refusal against the open circuit comes from a request checked before it opened,
\* and its process does not try again until the circuit has been closed or ran out.
HitsInv ==
  /\ hits \in [Procs -> {0, 1}] /\ pc \in [Procs -> PhasesOfCall]
  /\ \A p \in Procs : left = 0 \/ pc[p] = "try" => hits[p] = 0

USE DEF At, Goes, Ends, file, proc, PhasesOfCall, Fault

\* Every step keeps it.
LEMMA HitsStep ==
  ASSUME HitsInv, [Next]_vars
  PROVE  HitsInv'
<1> USE DEF HitsInv
<1>1. CASE Rotate
  BY <1>1 DEF Rotate
<1>2. CASE Tick
  BY <1>2 DEF Tick, HitsOf
<1>3. ASSUME NEW p \in Procs, Check(p) PROVE HitsInv'
  BY <1>3 DEF Check, Open
<1>4. ASSUME NEW p \in Procs, Succeeds(p) \/ Load(p) PROVE HitsInv'
  BY <1>4 DEF Succeeds, Load
<1>5. ASSUME NEW p \in Procs, Refused(p) PROVE HitsInv'
  BY <1>5 DEF Refused, Least
<1>6. ASSUME NEW p \in Procs, Transient(p) \/ Useless(p) \/ Lost(p) PROVE HitsInv'
  BY <1>6 DEF Transient, Useless, Lost
<1>7. ASSUME NEW p \in Procs, Save(p) PROVE HitsInv'
  <2>1. \A q \in Procs : hits'[q] \in {0, hits[q]} /\ (left' = 0 => hits'[q] = 0)
    BY <1>7 DEF Save, HitsOf
  <2>2. hits' \in [Procs -> {0, 1}]
    BY <1>7, <2>1 DEF Save
  <2>3. pc' = [pc EXCEPT ![p] = "idle"]
    BY <1>7 DEF Save
  <2> QED
    BY <2>1, <2>2, <2>3
<1>8. ASSUME NEW p \in Procs, Close(p) PROVE HitsInv'
  BY <1>8 DEF Close, HitsOf
<1>9. CASE UNCHANGED vars
  BY <1>9 DEF vars
<1> QED
  BY <1>1, <1>2, <1>3, <1>4, <1>5, <1>6, <1>7, <1>8, <1>9 DEF Next, Step

\* A power of two is the number of the subsets of a finite set.
LEMMA PowerOfTwo ==
  ASSUME NEW n \in Nat
  PROVE  2 ^ n \in Nat \ {0}
<1>1. IsFiniteSet(1..n) /\ Cardinality(1..n) = n
  BY FS_Interval
<1>2. IsFiniteSet(SUBSET (1..n)) /\ Cardinality(SUBSET (1..n)) = 2 ^ n
  BY <1>1, FS_SUBSET
<1>3. SUBSET (1..n) # {}
  OBVIOUS
<1> QED
  BY <1>2, <1>3, FS_EmptySet, FS_CardinalityType

\* A process counts from 1 to _MAX_TRACKED_FAILURES, whatever it has read, and the
\* cooldown stays below its maximum however large 2 ^ n is.
LEMMA CountedInRange ==
  ASSUME NEW n \in 0..MaxTracked
  PROVE  Counted(n) \in 1..MaxTracked
  BY TransportAssumption DEF Counted, Least

LEMMA CooldownInRange ==
  ASSUME NEW n \in 1..MaxTracked
  PROVE  Cooldown(n) \in 1..Cap
<1>1. n - 1 \in Nat /\ MaxTracked \in Nat
  BY TransportAssumption
<1>2. 2 ^ (n - 1) \in Nat \ {0}
  BY <1>1, PowerOfTwo
<1>3. \A k \in Nat \ {0} : Base * k \in Nat \ {0}
  BY TransportAssumption
<1> QED
  BY <1>2, <1>3, TransportAssumption DEF Cooldown, Least

\* Every step keeps the types; HitsInv bounds the refusals below the 2 of the type.
LEMMA TypeStep ==
  ASSUME TypeOK, [Next]_vars
  PROVE  TypeOK'
<1> USE TransportAssumption DEF TypeOK
<1>1. CASE Rotate
  BY <1>1 DEF Rotate
<1>2. CASE Tick
  BY <1>2 DEF Tick, HitsOf
<1>3. ASSUME NEW p \in Procs, Check(p) PROVE TypeOK'
  BY <1>3 DEF Check, Open
<1>4. ASSUME NEW p \in Procs, Succeeds(p) \/ Load(p) PROVE TypeOK'
  BY <1>4 DEF Succeeds, Load
<1>5. ASSUME NEW p \in Procs, Refused(p) PROVE TypeOK'
  BY <1>5 DEF Refused, Least
<1>6. ASSUME NEW p \in Procs, Transient(p) \/ Useless(p) \/ Lost(p) PROVE TypeOK'
  BY <1>6 DEF Transient, Useless, Lost
<1>7. ASSUME NEW p \in Procs, Save(p) PROVE TypeOK'
  <2>1. loaded[p] \in 0..MaxTracked
    OBVIOUS
  <2>2. Counted(loaded[p]) \in 1..MaxTracked
    BY <2>1, CountedInRange
  <2>3. failures' \in 0..MaxTracked /\ left' \in 0..Cap
    BY <1>7, <2>2, CooldownInRange DEF Save
  <2> QED
    BY <1>7, <2>3 DEF Save, HitsOf
<1>8. ASSUME NEW p \in Procs, Close(p) PROVE TypeOK'
  BY <1>8 DEF Close, Forgiven, HitsOf
<1>9. CASE UNCHANGED vars
  BY <1>9 DEF vars
<1> QED
  BY <1>1, <1>2, <1>3, <1>4, <1>5, <1>6, <1>7, <1>8, <1>9 DEF Next, Step

\* The circuit file keeps its shape for every cooldown and every number of processes:
\* the failures stay within _MAX_TRACKED_FAILURES and the circuit within its maximum.
THEOREM Typing == Spec => []TypeOK
<1>1. Init => TypeOK
  BY TransportAssumption DEF Init, TypeOK
<1> QED
  BY <1>1, TypeStep, PTL DEF Spec

\* However many processes share the file, none is refused twice in one opening of the
\* circuit: auth_circuit_breaker.py reads, changes and replaces it without a lock.
THEOREM RefusedOnce == Spec => []RefusedOnceWhileOpen
<1>1. Init => HitsInv
  BY DEF Init, HitsInv
<1>2. HitsInv => RefusedOnceWhileOpen
  <2> SUFFICES ASSUME HitsInv, NEW p \in Procs PROVE hits[p] <= 1
    BY DEF RefusedOnceWhileOpen
  <2>1. hits[p] \in {0, 1}
    BY DEF HitsInv
  <2> QED
    BY <2>1
<1> QED
  BY <1>1, <1>2, HitsStep, PTL DEF Spec
=============================================================================
