------------------------------- MODULE Sorting -------------------------------
(***************************************************************************)
(* sorted() and list.sort() of Python, as the components use them: on      *)
(* members that the order tells apart, so that nothing hangs on which of   *)
(* two equal ones comes first.                                             *)
(***************************************************************************)
EXTENDS Naturals, FiniteSets

\* The members of a set in the order of before, a relation.
InOrder(S, before) ==
    [i \in 1..Cardinality(S) |->
        CHOOSE a \in S : Cardinality({b \in S : <<b, a>> \in before}) = i - 1]
=============================================================================
