------------------------- MODULE MCDayPackService --------------------------
(***************************************************************************)
(* Instances of DayPackService for TLC: two of the collections a build     *)
(* reads (performances before role tracks, as in build) are enough to tell *)
(* sections read at different moments apart.                               *)
(***************************************************************************)
EXTENDS DayPackService

MCSources == <<"performances", "role_tracks">>
=============================================================================
