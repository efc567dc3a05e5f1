---------------------------- MODULE MCBulkStock ----------------------------
(***************************************************************************)
(* Instances of BulkStock for TLC.  The windows are two that meet, which   *)
(* do not overlap, and one that overlaps both.                             *)
(***************************************************************************)
EXTENDS BulkStock, TLC

MCWindows == {[from |-> 0, to |-> 1], [from |-> 1, to |-> 2], [from |-> 0, to |-> 2]}
StockSymmetry == Permutations(Locations) \cup Permutations(Reservations)
=============================================================================
