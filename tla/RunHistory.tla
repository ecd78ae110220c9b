----------------------------- MODULE RunHistory -----------------------------
(***************************************************************************)
(* state/run_history.jsonl and the daily report (src/run_history.py and    *)
(* main.py::cmd_daily_report).  A run of the pipeline appends one line     *)
(* when it ends, dated by its start.  The report, which takes no lock of   *)
(* the pipeline, reads the lines of one day, mails them and rewrites the   *)
(* file without them.                                                      *)
(***************************************************************************)
EXTENDS Naturals

CONSTANTS
  Runs,      \* bound: the runs of the pipeline that end in the behaviour
  MaxDay     \* bound: the days it lasts

VARIABLES
  today,     \* the calendar
  day,       \* the date of each recorded run, 0 = not recorded
  started,   \* the date the run in progress started, 0 = none in progress
  file,      \* the runs on file
  mailed,    \* the runs that have been in a mail
  report,    \* the report: idle, mail, read, replace
  target,    \* the report: the day it is about
  runs,      \* the report: what load_runs returned
  kept       \* the report: the lines prune_reported keeps

vars == <<today, day, started, file, mailed, report, target, runs, kept>>

Init ==
  /\ today = 1 /\ day = [r \in Runs |-> 0] /\ started = 0
  /\ file = {} /\ mailed = {}
  /\ report = "idle" /\ target = 0 /\ runs = {} /\ kept = {}

\* Midnight.
NextDay ==
  /\ today < MaxDay
  /\ today' = today + 1
  /\ UNCHANGED <<day, started, file, mailed, report, target, runs, kept>>

\* One run at a time: the lock of the pipeline.
RunStarts ==
  /\ started = 0
  /\ started' = today
  /\ UNCHANGED <<today, day, file, mailed, report, target, runs, kept>>

\* record_run: one line appended, with the start of the run as its date.
RecordRun(r) ==
  /\ started # 0
  /\ day[r] = 0
  /\ day' = [day EXCEPT ![r] = started]
  /\ file' = file \cup {r}
  /\ started' = 0
  /\ UNCHANGED <<today, mailed, report, target, runs, kept>>

\* load_runs: the runs of exactly that day; without any there is no report.
LoadRuns(d) ==
  /\ report = "idle"
  /\ runs' = {r \in file : day[r] = d}
  /\ runs' # {}
  /\ target' = d /\ report' = "mail"
  /\ UNCHANGED <<today, day, started, file, mailed, kept>>

\* notify_run_report says whether the mail went out; if not, nothing is pruned.
Send ==
  /\ report = "mail"
  /\ \/ mailed' = mailed \cup runs /\ report' = "read"
     \/ mailed' = mailed /\ report' = "idle"
  /\ UNCHANGED <<today, day, started, file, target, runs, kept>>

\* prune_reported reads the file, and keeps the later days ...
PruneRead ==
  /\ report = "read"
  /\ kept' = {r \in file : day[r] > target}
  /\ report' = "replace"
  /\ UNCHANGED <<today, day, started, file, mailed, target, runs>>

\* ... and puts what it kept in its place.
PruneReplace ==
  /\ report = "replace"
  /\ file' = kept
  /\ report' = "idle"
  /\ UNCHANGED <<today, day, started, mailed, target, runs, kept>>

\* The report dies half-way; the rewrite is atomic.
ReportDies ==
  /\ report # "idle"
  /\ report' = "idle"
  /\ UNCHANGED <<today, day, started, file, mailed, target, runs, kept>>

Next ==
  \/ NextDay \/ RunStarts
  \/ \E r \in Runs : RecordRun(r)
  \/ \E d \in 1..today : LoadRuns(d)
  \/ Send \/ PruneRead \/ PruneReplace \/ ReportDies

Spec == Init /\ [][Next]_vars

\* Only what has been reported is purged: a recorded run stays on file until it
\* has been in a mail (the module comment of run_history.py and cmd_daily_report).
OnlyReportedIsPurged ==
  \A r \in Runs : day[r] # 0 => r \in file \cup mailed
=============================================================================
