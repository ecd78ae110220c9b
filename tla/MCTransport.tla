---------------------------- MODULE MCTransport ----------------------------
EXTENDS Transport

\* The pipeline and check_integrity.
TwoProcs == {"main", "check"}
=============================================================================
