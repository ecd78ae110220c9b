----------------------------- MODULE Transport -----------------------------
(***************************************************************************)
(* The requests to Paxapos, of every process: http_request_with_retries,   *)
(* and around it the circuit breaker of auth_circuit_breaker.py, a file    *)
(* the processes share and nobody locks.  The pipeline, sync-changes and   *)
(* check_integrity run at the same times.                                  *)
(***************************************************************************)
EXTENDS Naturals

CONSTANTS
  Procs,
  MaxTries,    \* max_attempts of a request
  Base, Cap,   \* BASE_COOLDOWN_SECONDS and MAX_COOLDOWN_SECONDS, in ticks
  MaxTracked,  \* _MAX_TRACKED_FAILURES
  MaxFaults    \* bound: transient errors, lost writes and deaths

ASSUME TransportAssumption ==
  /\ MaxTries \in Nat \ {0} /\ MaxTracked \in Nat \ {0} /\ MaxFaults \in Nat
  /\ Base \in Nat \ {0} /\ Cap \in Nat /\ Base <= Cap

VARIABLES
  credential,  \* does Paxapos accept PAXAPOS_API_KEY?
  failures,    \* the file: consecutive_failures, 0 = no file
  left,        \* the file: ticks left until opened_until, 0 = past or none
  pc,          \* of each process: idle, try, load, save, close
  tries,       \* its attempts at the request
  loaded,      \* the consecutive_failures it has read
  hits,        \* refusals it got while the circuit was open
  faults

file == <<failures, left>>
proc == <<pc, tries, loaded>>
vars == <<credential, file, proc, hits, faults>>

Least(a, b) == IF a < b THEN a ELSE b

Fault == faults < MaxFaults /\ faults' = faults + 1

Cooldown(n) == Least(Base * 2 ^ (n - 1), Cap)

\* Somebody rotates the key, or corrects it.
Rotate ==
  /\ credential' = ~credential
  /\ UNCHANGED <<file, proc, hits, faults>>

\* What a process was refused counts until the circuit is closed or runs out.
HitsOf(p) == IF left' = 0 THEN 0 ELSE hits[p]

Tick ==
  /\ left # 0
  /\ left' = left - 1
  /\ hits' = [p \in Procs |-> HitsOf(p)]
  /\ UNCHANGED <<credential, failures, proc, faults>>

At(p, step) == pc[p] = step
Goes(p, step) == pc' = [pc EXCEPT ![p] = step]
Ends(p) == Goes(p, "idle") /\ tries' = [tries EXCEPT ![p] = 0] /\ loaded' = [loaded EXCEPT ![p] = 0]

\* A variant that opens the circuit at the second failure.
OpenAfterTwo == failures > 1 /\ left # 0

\* check: the circuit is open until opened_until.
Open == left # 0

\* A call: the circuit is looked at once, before the first attempt.
Check(p) ==
  /\ At(p, "idle") /\ ~Open
  /\ Goes(p, "try") /\ tries' = [tries EXCEPT ![p] = 1]
  /\ UNCHANGED <<credential, file, loaded, hits, faults>>

\* 2xx and JSON.
Succeeds(p) ==
  /\ At(p, "try") /\ credential
  /\ Goes(p, "close")
  /\ UNCHANGED <<credential, file, tries, loaded, hits, faults>>

\* 401 or 403, which no attempt follows.
Refused(p) ==
  /\ At(p, "try") /\ ~credential
  /\ Goes(p, "load")
  /\ hits' = [hits EXCEPT ![p] = IF left # 0 THEN Least(@ + 1, 2) ELSE @]
  /\ UNCHANGED <<credential, file, tries, loaded, faults>>

\* No connection, no answer in time, or a status of RETRYABLE_HTTP_STATUS.
Transient(p) ==
  /\ Fault
  /\ At(p, "try")
  /\ IF tries[p] < MaxTries THEN tries' = [tries EXCEPT ![p] = @ + 1] /\ UNCHANGED <<pc, loaded>>
     ELSE Ends(p)
  /\ UNCHANGED <<credential, file, hits>>

\* Any other status, or a page that is not JSON: the circuit is left alone.
Useless(p) ==
  /\ Fault
  /\ At(p, "try")
  /\ Ends(p)
  /\ UNCHANGED <<credential, file, hits>>

\* record_failure reads the file ...
Load(p) ==
  /\ At(p, "load")
  /\ Goes(p, "save") /\ loaded' = [loaded EXCEPT ![p] = failures]
  /\ UNCHANGED <<credential, file, tries, hits, faults>>

\* A variant that counts for ever.
CountedOn(n) == n + 1

Counted(n) == Least(n + 1, MaxTracked)

\* ... and replaces it whole.
Save(p) ==
  /\ At(p, "save")
  /\ failures' = Counted(loaded[p]) /\ left' = Cooldown(Counted(loaded[p]))
  /\ hits' = [q \in Procs |-> HitsOf(q)]
  /\ Ends(p)
  /\ UNCHANGED <<credential, faults>>

\* A variant that forgives one failure.
OneLess == IF failures > 1 THEN failures - 1 ELSE failures

\* The file after a success: none.
Forgiven == 0

\* record_success.
Close(p) ==
  /\ At(p, "close")
  /\ failures' = Forgiven /\ left' = 0
  /\ hits' = [q \in Procs |-> HitsOf(q)]
  /\ Ends(p)
  /\ UNCHANGED <<credential, faults>>

\* The file cannot be written or removed, which is logged and forgotten; or the
\* process dies, and the next one starts.
Lost(p) ==
  /\ Fault
  /\ pc[p] # "idle"
  /\ Ends(p)
  /\ UNCHANGED <<credential, file, hits>>

Init ==
  /\ credential \in BOOLEAN /\ failures = 0 /\ left = 0
  /\ pc = [p \in Procs |-> "idle"] /\ tries = [p \in Procs |-> 0]
  /\ loaded = [p \in Procs |-> 0] /\ hits = [p \in Procs |-> 0] /\ faults = 0

Step(p) == Check(p) \/ Succeeds(p) \/ Refused(p) \/ Load(p) \/ Save(p) \/ Close(p)

Next ==
  \/ Rotate \/ Tick
  \/ \E p \in Procs : Step(p) \/ Transient(p) \/ Useless(p) \/ Lost(p)

\* Time passes, and cron starts a process again and again.
Spec == Init /\ [][Next]_vars /\ WF_vars(Tick) /\ \A p \in Procs : WF_vars(Step(p))

PhasesOfCall == {"idle", "try", "load", "save", "close"}

TypeOK ==
  /\ credential \in BOOLEAN /\ failures \in 0..MaxTracked /\ left \in 0..Cap
  /\ pc \in [Procs -> PhasesOfCall]
  /\ tries \in [Procs -> 0..MaxTries] /\ loaded \in [Procs -> 0..MaxTracked]
  /\ hits \in [Procs -> 0..2] /\ faults \in 0..MaxFaults

\* While the circuit is open a process is refused once more at most, with the
\* request it had already checked, however the processes read and replace the
\* file.  auth_circuit_breaker.py:97-137.
RefusedOnceWhileOpen == \A p \in Procs : hits[p] <= 1

\* Once the key is right for good the circuit closes and stays closed, whatever
\* the processes had read of the file before.  auth_circuit_breaker.py:116-148.
Recovers == <>[]credential => <>[](failures = 0 /\ left = 0)
=============================================================================
