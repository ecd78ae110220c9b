---------------------------- MODULE MCRunHistory ----------------------------
(* RunHistory for a few runs over a few days.                              *)
EXTENDS RunHistory

TwoRuns == 1..2
=============================================================================
