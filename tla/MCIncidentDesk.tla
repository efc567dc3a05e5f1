--------------------------- MODULE MCIncidentDesk ---------------------------
(***************************************************************************)
(* An instance of IncidentDesk for TLC: the two actions are alike.         *)
(***************************************************************************)
EXTENDS IncidentDesk, TLC

MCCategories == {"injury", "other"}
ActionSymmetry == Permutations(Actions)
=============================================================================
