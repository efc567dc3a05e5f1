--------------------------- MODULE MCJsonStore -----------------------------
(***************************************************************************)
(* Instances of JsonStore for TLC.  Threads, collection names and contents *)
(* are model values that no action tells apart; there is no symmetry set,  *)
(* since a liveness property is checked too.                               *)
(***************************************************************************)
EXTENDS JsonStore
=============================================================================
