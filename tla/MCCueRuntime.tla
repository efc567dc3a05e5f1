---------------------------- MODULE MCCueRuntime ----------------------------
(***************************************************************************)
(* Instances of CueRuntime for TLC: every dependency relation of three     *)
(* cues of which the second is critical and the others follow on           *)
(* automatically, and one sheet of two cues for snapshots.                 *)
(***************************************************************************)
EXTENDS CueRuntime, TLC

Three == 1..3
MCSheets ==
    {[cues |-> Three, requires |-> r, critical |-> {2},
      delay |-> [c \in Three |-> IF c = 3 THEN 1 ELSE 0]] :
        r \in [Three -> SUBSET Three]}
    \cup {[cues |-> 1..2, requires |-> (1 :> {} @@ 2 :> {1}), critical |-> {2},
           delay |-> [c \in 1..2 |-> 0]]}
=============================================================================
