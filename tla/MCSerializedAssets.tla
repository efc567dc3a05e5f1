------------------------- MODULE MCSerializedAssets ------------------------
(***************************************************************************)
(* An instance of SerializedAssets for TLC.  The windows meet and do not   *)
(* overlap: two reservations compete for a unit, or share it one after the *)
(* other.                                                                  *)
(***************************************************************************)
EXTENDS SerializedAssets, TLC

MCWindows == {[from |-> 0, to |-> 1], [from |-> 1, to |-> 2]}
AssetSymmetry == Permutations(Locations) \cup Permutations(Reservations)
                   \cup Permutations(Tickets)
=============================================================================
