---------------------------- MODULE MCSyncEntity ----------------------------
(***************************************************************************)
(* SyncEntity on small tables.  The .cfg files choose the table and the    *)
(* bounds; what they cannot write is here.                                 *)
(***************************************************************************)
EXTENDS SyncEntity

\* One supplier after another, in primary-key order.
TwoKeys   == 1..2
ThreeKeys == 1..3
=============================================================================
