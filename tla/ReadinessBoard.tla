--------------------------- MODULE ReadinessBoard ---------------------------
(***************************************************************************)
(* domain/readiness.py: the sign-offs of a production.  An item passes on  *)
(* evidence that is valid at the moment of the decision, and when the      *)
(* items it requires are satisfied; it can be waived, failed and reopened. *)
(*                                                                         *)
(* A call is one action.  The item is saved first and the event recorded   *)
(* after, and recording refuses a blank actor: traced says whether the     *)
(* call got that far.  Passing, failing and waiving refuse the blank actor *)
(* before the item is saved.  Titles, owners, weights and due dates are    *)
(* left out: only reports read them.                                       *)
(***************************************************************************)
EXTENDS Naturals, FiniteSets

CONSTANTS Items,        \* item ids
          EvidenceIds,  \* ids of an item's evidence records
          Moments,      \* when decisions are made
          Expiries,     \* when evidence expires
          Never,        \* evidence that does not expire
          None,         \* no such item, no such record, no decision
          Profile       \* item -> whether it blocks, and the evidence it needs

ASSUME BoardAssumption ==
    /\ Moments \subseteq Nat /\ Expiries \subseteq Nat
    /\ Never \notin Nat /\ None \notin Nat \cup {Never}
    /\ Profile \in [Items -> [blocking : BOOLEAN, minimum_evidence : Nat]]

VARIABLES items,    \* id -> None or Item
          shown     \* id -> None or the state its latest event shows

vars == <<items, shown>>

States == {"not_started", "in_progress", "passed", "failed", "waived"}
Satisfied == {"passed", "waived"}
Decided == Satisfied \cup {"failed"}

Item == [requires : SUBSET Items, state : States,
         evidence : [EvidenceIds -> Expiries \cup {Never, None}],
         decided_at : Moments \cup {None}]

ASSUME NoneAssumption == None \notin Item

OnBoard == {i \in Items : items[i] # None}

ValidEvidence(i, moment) ==
    {e \in EvidenceIds : LET expires_at == items[i].evidence[e]
                         IN  /\ expires_at # None
                             /\ expires_at = Never \/ moment < expires_at}
BlockingDependencies(i) == {r \in items[i].requires : items[r].state \notin Satisfied}
SatisfiedDependants(i) ==
    {d \in OnBoard : i \in items[d].requires /\ items[d].state \in Satisfied}

\* _save and then _record.
Save(i, item, traced) ==
    /\ items' = [items EXCEPT ![i] = item]
    /\ shown' = IF traced THEN [shown EXCEPT ![i] = item.state] ELSE shown

(***************************************************************************)
(* Adding items, which come without evidence and not started.              *)
(***************************************************************************)
NewItem(requires) ==
    [requires |-> requires, state |-> "not_started",
     evidence |-> [e \in EvidenceIds |-> None], decided_at |-> None]

\* Mutant: the required items need not be there yet.
AddEarly(i, requires, traced) ==
    /\ i \notin OnBoard
    /\ requires \subseteq Items \ {i}
    /\ Save(i, NewItem(requires), traced)

Add(i, requires, traced) ==
    /\ i \notin OnBoard
    /\ requires \subseteq OnBoard
    /\ Save(i, NewItem(requires), traced)

\* add_all of two items.  When the second is refused the first is taken back,
\* and a blank actor ends the batch in its first item, as add does.
AddAll(i, j, requires_i, requires_j) ==
    /\ i \notin OnBoard /\ j \notin OnBoard \cup {i}
    /\ requires_i \subseteq OnBoard
    /\ requires_j \subseteq OnBoard \cup {i}
    /\ items' = [items EXCEPT ![i] = NewItem(requires_i), ![j] = NewItem(requires_j)]
    /\ shown' = [shown EXCEPT ![i] = "not_started", ![j] = "not_started"]

(***************************************************************************)
(* Working on an item.                                                     *)
(***************************************************************************)
Start(i, traced) ==
    /\ i \in OnBoard
    /\ items[i].state = "not_started"
    /\ Save(i, [items[i] EXCEPT !.state = "in_progress"], traced)

\* A failed item is in progress again, without the checks of reopen; the
\* decision that failed it stays on it.
AddEvidence(i, e, expires_at, traced) ==
    /\ i \in OnBoard
    /\ items[i].state \notin Satisfied
    /\ items[i].evidence[e] = None
    /\ Save(i, [items[i] EXCEPT !.state = "in_progress", !.evidence[e] = expires_at], traced)

Decide(i, state, moment) ==
    Save(i, [items[i] EXCEPT !.state = state, !.decided_at = moment], TRUE)

\* Mutant: expired evidence counts.
PassOnAnyEvidence(i, moment) ==
    /\ i \in OnBoard
    /\ BlockingDependencies(i) = {}
    /\ Cardinality({e \in EvidenceIds : items[i].evidence[e] # None})
         >= Profile[i].minimum_evidence
    /\ Decide(i, "passed", moment)

\* From any state, a waiver or an earlier decision included.
PassItem(i, moment) ==
    /\ i \in OnBoard
    /\ BlockingDependencies(i) = {}
    /\ Cardinality(ValidEvidence(i, moment)) >= Profile[i].minimum_evidence
    /\ Decide(i, "passed", moment)

\* Mutant: the actor is looked at only when the event is recorded.
FailBeforeActor(i, moment) ==
    /\ i \in OnBoard
    /\ \E traced \in BOOLEAN :
         Save(i, [items[i] EXCEPT !.state = "failed", !.decided_at = moment], traced)

\* The items that require it are not looked at.
FailItem(i, moment) ==
    /\ i \in OnBoard
    /\ Decide(i, "failed", moment)

Waive(i, moment, authorized) ==
    /\ i \in OnBoard
    /\ Profile[i].blocking => authorized
    /\ Decide(i, "waived", moment)

\* Mutant: the items that require it are not looked at.
ReopenAnyTime(i, traced) ==
    /\ i \in OnBoard
    /\ items[i].state \in Decided
    /\ Save(i, [items[i] EXCEPT !.state = "in_progress", !.decided_at = None], traced)

Reopen(i, traced) ==
    /\ i \in OnBoard
    /\ items[i].state \in Decided
    /\ SatisfiedDependants(i) = {}
    /\ Save(i, [items[i] EXCEPT !.state = "in_progress", !.decided_at = None], traced)

Init ==
    /\ items = [i \in Items |-> None]
    /\ shown = [i \in Items |-> None]

Next ==
    \E i \in Items :
      \/ \E traced \in BOOLEAN :
           \/ \E requires \in SUBSET Items : Add(i, requires, traced)
           \/ Start(i, traced)
           \/ \E e \in EvidenceIds, expires_at \in Expiries \cup {Never} :
                AddEvidence(i, e, expires_at, traced)
           \/ Reopen(i, traced)
      \/ \E j \in Items, requires_i, requires_j \in SUBSET Items :
           AddAll(i, j, requires_i, requires_j)
      \/ \E moment \in Moments :
           \/ PassItem(i, moment)
           \/ FailItem(i, moment)
           \/ \E authorized \in BOOLEAN : Waive(i, moment, authorized)

Spec == Init /\ [][Next]_vars

-----------------------------------------------------------------------------
TypeOK ==
    /\ items \in [Items -> Item \cup {None}]
    /\ shown \in [Items -> States \cup {None}]

\* An item that counts as passed had, at the moment of the decision it bears,
\* all the evidence it needs ("Evidence-backed production-readiness gates",
\* README), whatever was failed, waived, reopened and passed again before.
PassedOnEvidence ==
    \A i \in OnBoard : items[i].state = "passed" =>
        /\ items[i].decided_at # None
        /\ Cardinality(ValidEvidence(i, items[i].decided_at)) >= Profile[i].minimum_evidence

\* What a passed item requires bears a decision: it is satisfied, or the
\* decision that failed it afterwards is still on it, even when new evidence
\* has put it back in progress.  Only reopen takes a decision off, and not
\* while an item that rests on it is satisfied.
PassedRestsOnDecisions ==
    \A i \in OnBoard : items[i].state = "passed" =>
        \A r \in items[i].requires : r \in OnBoard /\ items[r].decided_at # None

\* The decision history shows every sign-off, failure and waiver that is in
\* force, also when other calls with a blank actor left no event.
SignOffsAreTraced ==
    \A i \in OnBoard : items[i].state \in Decided => shown[i] = items[i].state

\* The items never wait for one another in a circle, nor for one that is not
\* there: as long as some are not satisfied, one of them waits for no other.
SomeItemIsActionable ==
    LET left == {i \in OnBoard : items[i].state \notin Satisfied}
    IN  left # {} => \E i \in left : \A r \in items[i].requires :
                         r \in OnBoard /\ items[r].state \in Satisfied
=============================================================================
