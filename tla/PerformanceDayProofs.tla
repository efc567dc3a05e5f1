------------------------- MODULE PerformanceDayProofs -------------------------
(***************************************************************************)
(* What holds of the objects a house keeps for the day of a performance,   *)
(* for any items, grants, cues, events, bookings, sales and calls: of the  *)
(* readiness board, the rights ledger, the cue sheet, the audit trail, the *)
(* schedule, the box office and the call sheet.                            *)
(*                                                                         *)
(* Each part shows that its object starts in its invariant and keeps it;   *)
(* a step of the day is a step of one object and leaves the others alone.  *)
(***************************************************************************)
EXTENDS PerformanceDay, SumTheorems

(***************************************************************************)
(* The readiness board, for any items, evidence, moments and profiles.     *)
(* Every call but add_all saves one item, so one lemma states what an item *)
(* must satisfy for the board to stay sound when it is saved, and each     *)
(* call is shown to save such an item.                                     *)
(***************************************************************************)
\* What an item of the board says of itself: a decision has its moment, and a
\* passed item the evidence it needs at that moment.
EnoughEvidence(x, i) ==
    Cardinality({e \in EvidenceIds : /\ x.evidence[e] # None
                                     /\ x.evidence[e] = Never \/ x.decided_at < x.evidence[e]})
        >= Profile[i].minimum_evidence

Sound(x, i) ==
    /\ x.state \in Decided => x.decided_at # None
    /\ x.state = "passed" => EnoughEvidence(x, i)

\* No items wait for one another in a circle: of any of them, one requires none
\* of the others.
NoCircle == \A S \in SUBSET OnBoard : S # {} => \E i \in S : items[i].requires \cap S = {}

BoardInv ==
    /\ TypeOK
    /\ NoCircle
    /\ \A i \in OnBoard :
         /\ Sound(items[i], i)
         /\ items[i].state \in Decided => shown[i] = items[i].state
         /\ items[i].requires \subseteq OnBoard
         /\ items[i].state = "passed" =>
              \A r \in items[i].requires : items[r].decided_at # None

-----------------------------------------------------------------------------
\* An item that requires only what is on the board closes no circle, and
\* neither does one that requires what it did.
LEMMA RequirementsKeepNoCircle ==
    ASSUME NoCircle, NEW i \in Items, NEW x,
           \A d \in OnBoard : items[d].requires \subseteq OnBoard,
           OnBoard' = OnBoard \cup {i},
           items'[i] = x, \A j \in OnBoard \ {i} : items'[j] = items[j],
           x.requires \subseteq OnBoard,
           i \in OnBoard => x.requires = items[i].requires
    PROVE  NoCircle'
  <1> SUFFICES ASSUME NEW S \in SUBSET OnBoard', S # {}
               PROVE  \E j \in S : items'[j].requires \cap S = {}
    BY DEF NoCircle
  <1>1. CASE i \in OnBoard \/ i \notin S
    <2>1. S \in SUBSET OnBoard
      BY <1>1
    <2>2. PICK j \in S : items[j].requires \cap S = {}
      BY <2>1 DEF NoCircle
    <2>3. items'[j].requires = items[j].requires
      BY <1>1, <2>1
    <2> QED BY <2>2, <2>3
  <1>2. CASE i \notin OnBoard /\ S = {i}
    BY <1>2
  <1>3. CASE i \notin OnBoard /\ S \ {i} # {}
    <2>1. S \ {i} \in SUBSET OnBoard
      OBVIOUS
    <2>2. PICK j \in S \ {i} : items[j].requires \cap (S \ {i}) = {}
      BY <1>3, <2>1 DEF NoCircle
    <2>3. i \notin items[j].requires /\ items'[j] = items[j]
      BY <1>3, <2>1, <2>2
    <2> QED BY <2>2, <2>3
  <1> QED BY <1>1, <1>2, <1>3

\* Saving an item keeps the board sound (_save and _record): when the item is
\* sound itself, decided only if the event is recorded, rests on items that
\* are there and, if passed, decided, and takes no decision off that a passed
\* item rests on.
LEMMA SaveKeeps ==
    ASSUME BoardInv, NEW i \in Items, NEW x \in Item, NEW traced \in BOOLEAN,
           Save(i, x, traced),
           Sound(x, i),
           x.state \in Decided => traced,
           x.requires \subseteq OnBoard,
           i \in OnBoard => x.requires = items[i].requires,
           x.state = "passed" => \A r \in x.requires : items[r].decided_at # None,
           x.decided_at = None =>
               \A d \in OnBoard \ {i} : items[d].state = "passed" => i \notin items[d].requires
    PROVE  BoardInv'
  <1>1. /\ items' = [items EXCEPT ![i] = x]
        /\ x # None /\ x.state \in States /\ x.requires \subseteq Items
        /\ items \in [Items -> Item \cup {None}]
    BY NoneAssumption DEF Save, BoardInv, TypeOK, Item
  <1>2. /\ shown' \in [Items -> States \cup {None}]
        /\ \A j \in Items \ {i} : shown'[j] = shown[j]
        /\ traced => shown'[i] = x.state
    BY <1>1 DEF Save, BoardInv, TypeOK
  <1>3. TypeOK'
    BY <1>1, <1>2 DEF TypeOK
  <1>4. OnBoard' = OnBoard \cup {i}
    BY <1>1 DEF OnBoard
  <1>5. ASSUME NEW j \in OnBoard', j # i
        PROVE  /\ Sound(items'[j], j)
               /\ items'[j].state \in Decided => shown'[j] = items'[j].state
               /\ items'[j].requires \subseteq OnBoard'
               /\ items'[j].state = "passed" =>
                    \A r \in items'[j].requires : items'[r].decided_at # None
    <2>1. j \in OnBoard /\ j \in Items /\ items'[j] = items[j] /\ shown'[j] = shown[j]
      BY <1>1, <1>2, <1>4, <1>5 DEF OnBoard
    <2>2. ASSUME items[j].state = "passed", NEW r \in items[j].requires
          PROVE  items'[r].decided_at # None
      <3>1. r \in Items /\ items[r].decided_at # None
        BY <2>1, <2>2 DEF BoardInv, OnBoard
      <3>2. CASE r = i
        BY <1>1, <1>5, <2>1, <2>2, <3>2
      <3> QED BY <1>1, <3>1, <3>2
    <2> QED BY <1>4, <2>1, <2>2 DEF BoardInv
  <1>6. /\ Sound(items'[i], i)
        /\ items'[i].state \in Decided => shown'[i] = items'[i].state
        /\ items'[i].requires \subseteq OnBoard'
        /\ items'[i].state = "passed" =>
             \A r \in items'[i].requires : items'[r].decided_at # None
    <2>1. ASSUME x.state = "passed", NEW r \in x.requires
          PROVE  items'[r].decided_at # None
      BY <1>1, <2>1 DEF Sound, Decided, Satisfied
    <2> QED BY <1>1, <1>2, <1>4, <2>1
  <1>7. NoCircle'
    <2>1. items'[i] = x /\ \A j \in OnBoard \ {i} : items'[j] = items[j]
      BY <1>1 DEF OnBoard
    <2> QED BY <1>4, <2>1, RequirementsKeepNoCircle DEF BoardInv
  <1> QED BY <1>3, <1>5, <1>6, <1>7 DEF BoardInv

\* The item that is added is one, is sound, and rests on nothing yet.
LEMMA NewItemIsSound ==
    ASSUME NEW requires \in SUBSET Items, NEW i \in Items
    PROVE  /\ NewItem(requires) \in Item
           /\ NewItem(requires).state = "not_started"
           /\ NewItem(requires).requires = requires
           /\ Sound(NewItem(requires), i)
  BY DEF NewItem, Item, States, Sound, Decided, Satisfied

\* No item rests on one that is not on the board.
LEMMA AbsentIsNotRequired ==
    ASSUME BoardInv, NEW i \in Items \ OnBoard, NEW d \in OnBoard
    PROVE  i \notin items[d].requires
  BY DEF BoardInv

-----------------------------------------------------------------------------
\* add and add_all.
LEMMA AddKeeps ==
    ASSUME BoardInv, NEW i \in Items, NEW requires \in SUBSET Items,
           NEW traced \in BOOLEAN, Add(i, requires, traced)
    PROVE  BoardInv'
  <1> DEFINE x == NewItem(requires)
  <1>1. i \notin OnBoard /\ requires \subseteq OnBoard /\ Save(i, x, traced)
    BY DEF Add
  <1>2. x \in Item /\ x.state = "not_started" /\ x.requires = requires /\ Sound(x, i)
    BY NewItemIsSound
  <1>3. x.state \notin Decided
    BY <1>2 DEF Decided, Satisfied
  <1>4. \A d \in OnBoard \ {i} : i \notin items[d].requires
    BY <1>1, AbsentIsNotRequired
  <1> HIDE DEF x
  <1> QED BY <1>1, <1>2, <1>3, <1>4, SaveKeeps DEF Decided, Satisfied

\* Adding two items in one call keeps the invariant.
LEMMA AddAllKeeps ==
    ASSUME BoardInv, NEW i \in Items, NEW j \in Items,
           NEW requires_i \in SUBSET Items, NEW requires_j \in SUBSET Items,
           AddAll(i, j, requires_i, requires_j)
    PROVE  BoardInv'
  <1> DEFINE x == NewItem(requires_i)
             y == NewItem(requires_j)
  <1>1. /\ i \notin OnBoard /\ j \notin OnBoard /\ i # j
        /\ requires_i \subseteq OnBoard /\ requires_j \subseteq OnBoard \cup {i}
        /\ items' = [items EXCEPT ![i] = x, ![j] = y]
        /\ shown' = [shown EXCEPT ![i] = "not_started", ![j] = "not_started"]
    BY DEF AddAll
  <1>2. /\ x \in Item /\ x.state = "not_started" /\ x.requires = requires_i /\ Sound(x, i)
        /\ y \in Item /\ y.state = "not_started" /\ y.requires = requires_j /\ Sound(y, j)
    BY NewItemIsSound
  <1> HIDE DEF x, y
  <1>3. x # None /\ y # None /\ items \in [Items -> Item \cup {None}]
    BY <1>2, NoneAssumption DEF BoardInv, TypeOK
  <1>4. /\ items'[i] = x /\ items'[j] = y
        /\ \A k \in Items \ {i, j} : items'[k] = items[k] /\ shown'[k] = shown[k]
    BY <1>1, <1>3 DEF BoardInv, TypeOK
  <1>5. OnBoard' = OnBoard \cup {i, j}
    BY <1>3, <1>4 DEF OnBoard
  <1>6. TypeOK'
    BY <1>1, <1>2, <1>3 DEF BoardInv, TypeOK, States
  <1>7. ASSUME NEW k \in OnBoard'
        PROVE  /\ Sound(items'[k], k)
               /\ items'[k].state \in Decided => shown'[k] = items'[k].state
               /\ items'[k].requires \subseteq OnBoard'
               /\ items'[k].state = "passed" =>
                    \A r \in items'[k].requires : items'[r].decided_at # None
    <2>1. CASE k \in {i, j}
      BY <1>1, <1>2, <1>4, <1>5, <2>1 DEF Decided, Satisfied
    <2>2. CASE k \notin {i, j}
      <3>1. k \in OnBoard /\ k \in Items /\ items'[k] = items[k] /\ shown'[k] = shown[k]
        BY <1>4, <1>5, <1>7, <2>2 DEF OnBoard
      <3>2. \A r \in items[k].requires : r \in OnBoard /\ r \in Items \ {i, j}
        BY <1>1, <3>1 DEF BoardInv, OnBoard
      <3> QED BY <1>4, <1>5, <3>1, <3>2 DEF BoardInv
    <2> QED BY <2>1, <2>2
  <1>8. NoCircle'
    <2> SUFFICES ASSUME NEW S \in SUBSET OnBoard', S # {}
                 PROVE  \E k \in S : items'[k].requires \cap S = {}
      BY DEF NoCircle
    <2>1. \A k \in OnBoard : /\ items'[k] = items[k]
                             /\ i \notin items[k].requires /\ j \notin items[k].requires
      BY <1>1, <1>4 DEF BoardInv, OnBoard
    <2>2. CASE S \ {i, j} # {}
      <3>1. S \ {i, j} \in SUBSET OnBoard
        BY <1>5
      <3>2. PICK k \in S \ {i, j} : items[k].requires \cap (S \ {i, j}) = {}
        BY <2>2, <3>1 DEF BoardInv, NoCircle
      <3> QED BY <2>1, <3>1, <3>2
    <2>3. CASE S \ {i, j} = {} /\ i \in S
      <3>1. items'[i].requires \cap {i, j} = {}
        BY <1>1, <1>2, <1>4
      <3> QED BY <2>3, <3>1
    <2>4. CASE S \ {i, j} = {} /\ i \notin S
      <3>1. S = {j} /\ items'[j].requires \cap {j} = {}
        BY <1>1, <1>2, <1>4, <2>4
      <3> QED BY <3>1
    <2> QED BY <2>2, <2>3, <2>4
  <1> QED BY <1>6, <1>7, <1>8 DEF BoardInv

\* start, add_evidence and reopen: the item is in progress afterwards.  Only
\* reopen takes its decision off.
LEMMA WorkKeeps ==
    ASSUME BoardInv, NEW i \in Items, NEW traced \in BOOLEAN,
           \/ Start(i, traced)
           \/ \E e \in EvidenceIds, expires_at \in Expiries \cup {Never} :
                AddEvidence(i, e, expires_at, traced)
           \/ Reopen(i, traced)
    PROVE  BoardInv'
  <1>1. i \in OnBoard
    BY DEF Start, AddEvidence, Reopen
  <1>2. items[i] \in Item /\ items[i].requires \subseteq OnBoard
    BY <1>1 DEF BoardInv, TypeOK, OnBoard
  <1>3. items[i].decided_at = None =>
          \A d \in OnBoard : items[d].state = "passed" => i \notin items[d].requires
    BY DEF BoardInv
  <1>4. ASSUME NEW x \in Item, x.state = "in_progress", x.requires = items[i].requires,
               Save(i, x, traced),
               x.decided_at = None => \A d \in OnBoard \ {i} :
                   items[d].state = "passed" => i \notin items[d].requires
        PROVE  BoardInv'
    <2>1. x.state \notin Decided /\ x.state # "passed"
      BY <1>4 DEF Decided, Satisfied
    <2>2. Sound(x, i)
      BY <2>1 DEF Sound
    <2> QED BY <1>2, <1>4, <2>1, <2>2, SaveKeeps
  <1>5. ASSUME Start(i, traced) PROVE BoardInv'
    <2> DEFINE x == [items[i] EXCEPT !.state = "in_progress"]
    <2>1. /\ x \in Item /\ x.state = "in_progress" /\ x.requires = items[i].requires
          /\ x.decided_at = items[i].decided_at
      BY <1>2 DEF Item, States
    <2>2. Save(i, x, traced)
      BY <1>5 DEF Start
    <2> HIDE DEF x
    <2> QED BY <1>3, <1>4, <2>1, <2>2
  <1>6. ASSUME NEW e \in EvidenceIds, NEW expires_at \in Expiries \cup {Never},
               AddEvidence(i, e, expires_at, traced)
        PROVE  BoardInv'
    <2> DEFINE x == [items[i] EXCEPT !.state = "in_progress", !.evidence[e] = expires_at]
    <2>1. /\ x \in Item /\ x.state = "in_progress" /\ x.requires = items[i].requires
          /\ x.decided_at = items[i].decided_at
      BY <1>2 DEF Item, States
    <2>2. Save(i, x, traced)
      BY <1>6 DEF AddEvidence
    <2> HIDE DEF x
    <2> QED BY <1>3, <1>4, <2>1, <2>2
  <1>7. ASSUME Reopen(i, traced) PROVE BoardInv'
    <2> DEFINE x == [items[i] EXCEPT !.state = "in_progress", !.decided_at = None]
    <2>1. x \in Item /\ x.state = "in_progress" /\ x.requires = items[i].requires
      BY <1>2 DEF Item, States
    <2>2. Save(i, x, traced)
      BY <1>7 DEF Reopen
    <2>3. \A d \in OnBoard : items[d].state = "passed" => i \notin items[d].requires
      BY <1>7 DEF Reopen, SatisfiedDependants, Satisfied
    <2> HIDE DEF x
    <2> QED BY <1>4, <2>1, <2>2, <2>3
  <1> QED BY <1>5, <1>6, <1>7

\* pass_item, fail_item and waive: a decision is always recorded, and the items
\* a passed one requires are satisfied, hence decided.
LEMMA DecisionKeeps ==
    ASSUME BoardInv, NEW i \in Items, NEW moment \in Moments,
           \/ PassItem(i, moment)
           \/ FailItem(i, moment)
           \/ \E authorized \in BOOLEAN : Waive(i, moment, authorized)
    PROVE  BoardInv'
  <1>1. i \in OnBoard
    BY DEF PassItem, FailItem, Waive
  <1>2. items[i] \in Item /\ items[i].requires \subseteq OnBoard
    BY <1>1 DEF BoardInv, TypeOK, OnBoard
  <1>3. moment # None
    BY BoardAssumption
  <1>4. ASSUME NEW state \in Decided, Decide(i, state, moment),
               state = "passed" => /\ BlockingDependencies(i) = {}
                                   /\ Cardinality(ValidEvidence(i, moment))
                                        >= Profile[i].minimum_evidence
        PROVE  BoardInv'
    <2> DEFINE x == [items[i] EXCEPT !.state = state, !.decided_at = moment]
    <2>1. /\ x \in Item /\ x.state = state /\ x.requires = items[i].requires
          /\ x.decided_at = moment /\ x.evidence = items[i].evidence
      BY <1>2, <1>4 DEF Item, States, Decided, Satisfied
    <2>2. Save(i, x, TRUE)
      BY <1>4 DEF Decide
    <2> HIDE DEF x
    <2>3. Sound(x, i)
      <3>1. x.state = "passed" => EnoughEvidence(x, i)
        BY <1>4, <2>1 DEF EnoughEvidence, ValidEvidence
      <3> QED BY <1>3, <2>1, <3>1 DEF Sound
    <2>4. x.state = "passed" => \A r \in x.requires : items[r].decided_at # None
      <3> SUFFICES ASSUME x.state = "passed", NEW r \in x.requires
                   PROVE  items[r].decided_at # None
        OBVIOUS
      <3>1. r \in OnBoard /\ items[r].state \in Decided
        BY <1>2, <1>4, <2>1 DEF BlockingDependencies, Decided
      <3> QED BY <3>1 DEF BoardInv, Sound
    <2> QED BY <1>2, <1>3, <2>1, <2>2, <2>3, <2>4, SaveKeeps
  <1>5. CASE PassItem(i, moment)
    BY <1>4, <1>5 DEF PassItem, Decided, Satisfied
  <1>6. CASE FailItem(i, moment)
    BY <1>4, <1>6 DEF FailItem, Decided, Satisfied
  <1>7. CASE \E authorized \in BOOLEAN : Waive(i, moment, authorized)
    BY <1>4, <1>7 DEF Waive, Decided, Satisfied
  <1> QED BY <1>5, <1>6, <1>7

\* One call of the board.
LEMMA NextBoardInv == BoardInv /\ [Next]_vars => BoardInv'
  <1>1. ASSUME BoardInv, Next PROVE BoardInv'
    BY <1>1, AddKeeps, AddAllKeeps, WorkKeeps, DecisionKeeps DEF Next
  <1>2. ASSUME BoardInv, UNCHANGED vars PROVE BoardInv'
    BY <1>2 DEF vars, BoardInv, NoCircle, TypeOK, OnBoard
  <1> QED BY <1>1, <1>2

-----------------------------------------------------------------------------
\* The board stays sound: every item of it, its decision and what it rests on.
THEOREM BoardInvariant == Spec => []BoardInv
  <1>1. Init => BoardInv
    BY DEF Init, BoardInv, NoCircle, TypeOK, OnBoard
  <1> QED BY <1>1, NextBoardInv, PTL DEF Spec

\* The type invariant of ReadinessBoard.
THEOREM BoardTypeCorrect == Spec => []TypeOK
  <1>1. BoardInv => TypeOK
    BY DEF BoardInv
  <1> QED BY <1>1, BoardInvariant, PTL

\* Nothing counts as passed without the evidence its decision needed.
THEOREM EvidenceCorrect == Spec => []PassedOnEvidence
  <1>1. BoardInv => PassedOnEvidence
    BY DEF BoardInv, PassedOnEvidence, Sound, EnoughEvidence, ValidEvidence, Decided,
           Satisfied
  <1> QED BY <1>1, BoardInvariant, PTL

\* What a passed item requires bears a decision, in any order of calls.
THEOREM DecisionsCorrect == Spec => []PassedRestsOnDecisions
  <1>1. BoardInv => PassedRestsOnDecisions
    BY DEF BoardInv, PassedRestsOnDecisions
  <1> QED BY <1>1, BoardInvariant, PTL

\* The history shows every decision in force.
THEOREM TraceCorrect == Spec => []SignOffsAreTraced
  <1>1. BoardInv => SignOffsAreTraced
    BY DEF BoardInv, SignOffsAreTraced
  <1> QED BY <1>1, BoardInvariant, PTL

\* As long as items are left, one of them waits for no other.
THEOREM ItemsProceed == Spec => []SomeItemIsActionable
  <1>1. BoardInv => SomeItemIsActionable
    <2> DEFINE left == {i \in OnBoard : items[i].state \notin Satisfied}
    <2> SUFFICES ASSUME BoardInv, left # {}
                 PROVE  \E i \in left : \A r \in items[i].requires :
                            r \in OnBoard /\ items[r].state \in Satisfied
      BY DEF SomeItemIsActionable
    <2>1. left \in SUBSET OnBoard
      OBVIOUS
    <2>2. PICK i \in left : items[i].requires \cap left = {}
      <3> HIDE DEF left
      <3> QED BY <2>1 DEF BoardInv, NoCircle
    <2> QED BY <2>1, <2>2 DEF BoardInv
  <1> QED BY <1>1, BoardInvariant, PTL

-----------------------------------------------------------------------------
(***************************************************************************)
(* The rights ledger, for any grants, replacements of grants, requests and *)
(* revocations.                                                            *)
(*                                                                         *)
(* The inductive invariant adds to UsageIsLicensed only that the uses are  *)
(* finitely many and what their fields are.  What takes an argument is the *)
(* quote: the grant that is chosen is the least of the eligible ones in an *)
(* order by three keys, so it has to exist, for whatever grants are        *)
(* eligible, before anything can be said of the use it is charged with.    *)
(***************************************************************************)
Ids == {GrantIds[k] : k \in DOMAIN GrantIds}

RightsInv ==
    /\ grants \in [Ids -> GrantTerms \cup {NoGrant}]
    /\ IsFiniteSet(usage)
    /\ \A u \in usage : /\ u.request \in Requests /\ u.grant_id \in Granted
                        /\ u.royalty_due \in Nat
    /\ lowered \subseteq Granted
    /\ \A u, v \in usage : SameUse(u.request, v.request) => u = v
    /\ \A g \in Granted \ lowered :
           Within(Cardinality(UsesFor(g)), grants[g].max_performances)

-----------------------------------------------------------------------------
\* A set of numbers that is not empty has a least one.
LEMMA LeastNumber ==
    ASSUME NEW S \in SUBSET Nat, S # {}
    PROVE  \E m \in S : \A n \in S : m <= n
  <1> DEFINE Less == {p \in Nat \X Nat : p[1] < p[2]}
  <1>1. IsWellFoundedOn(Less, Nat)
    <2>1. Less = OpToRel(<, Nat)
      BY DEF OpToRel
    <2> QED BY <2>1, NatLessThanWellFounded
  <1>2. PICK x \in S : \A y \in S : <<y, x>> \notin Less
    <2> HIDE DEF Less
    <2> QED BY <1>1, WFMin
  <1>3. ASSUME NEW n \in S PROVE x <= n
    <2>1. <<n, x>> \in Nat \X Nat
      OBVIOUS
    <2> QED BY <1>2, <2>1
  <1> QED BY <1>3

\* Of any things with a number each, some have the least number.
LEMMA LeastOf ==
    ASSUME NEW S, S # {}, NEW f \in [S -> Nat]
    PROVE  \E x \in S : \A y \in S : f[x] <= f[y]
  <1> DEFINE values == {f[x] : x \in S}
  <1>1. values \in SUBSET Nat /\ values # {}
    OBVIOUS
  <1>2. PICK m \in values : \A n \in values : m <= n
    <2> HIDE DEF values
    <2> QED BY <1>1, LeastNumber
  <1> QED BY <1>2

\* The royalty of a grant is a number of cents.
LEMMA RoyaltyIsMoney ==
    ASSUME NEW g, grants[g] \in GrantTerms, NEW gross \in Nat
    PROVE  RoyaltyFor(g, gross) \in Nat
  <1> DEFINE rate == grants[g].royalty_rate
             sum == gross * rate + 50
  <1>1. rate \in Nat /\ grants[g].minimum_royalty \in Nat
    BY RightsAssumption
  <1>2. gross * rate \in Nat
    BY <1>1
  <1>3. sum \div 100 \in Nat
    <2> HIDE DEF rate
    <2> QED BY <1>2
  <1> HIDE DEF rate
  <1> QED BY <1>1, <1>3 DEF RoyaltyFor, rate

\* The place of a grant among the ids is a number, so the first of several exists.
LEMMA PositionIsPlace ==
    ASSUME NEW g \in Ids
    PROVE  Position(g) \in Nat
  BY RightsAssumption DEF Position, Ids

\* A request that some grant is eligible for is quoted one that is: of the eligible
\* grants with the least royalty, of those the ones that end first, the first.
LEMMA QuoteIsEligible ==
    ASSUME RightsInv, NEW request \in Requests, EligibleGrants(request) # {}
    PROVE  Quote(request) \in EligibleGrants(request)
  <1> DEFINE S == EligibleGrants(request)
             royalty == [g \in S |-> RoyaltyFor(g, request.gross_receipts)]
             A == {g \in S : \A h \in S : royalty[g] <= royalty[h]}
             end == [g \in A |-> grants[g].valid_until]
             B == {g \in A : \A h \in A : end[g] <= end[h]}
             place == [g \in B |-> Position(g)]
  <1>1. \A g \in S : g \in Ids /\ grants[g] \in GrantTerms
    BY DEF EligibleGrants, Granted, RightsInv
  <1>2. royalty \in [S -> Nat]
    BY <1>1, RoyaltyIsMoney, RightsAssumption
  <1>3. A # {}
    <2> HIDE DEF S, royalty
    <2> QED BY <1>2, LeastOf DEF S
  <1>4. end \in [A -> Nat]
    BY <1>1, RightsAssumption
  <1>5. B # {}
    <2> HIDE DEF A, end
    <2> QED BY <1>3, <1>4, LeastOf
  <1>6. place \in [B -> Nat]
    BY <1>1, PositionIsPlace
  <1>7. PICK g \in B : \A h \in B : place[g] <= place[h]
    <2> HIDE DEF B, place
    <2> QED BY <1>5, <1>6, LeastOf
  <1>8. ASSUME NEW h \in S PROVE Before(g, h, request)
    <2>1. CASE h \notin A
      <3>1. PICK j \in S : ~(royalty[h] <= royalty[j])
        BY <2>1
      <3>2. royalty[g] <= royalty[j] /\ royalty[h] \in Nat /\ royalty[j] \in Nat /\ royalty[g] \in Nat
        BY <1>2
      <3>3. royalty[g] < royalty[h]
        BY <3>1, <3>2
      <3> QED BY <3>3 DEF Before
    <2>2. CASE h \in A \ B
      <3>1. PICK j \in A : ~(end[h] <= end[j])
        BY <2>2
      <3>2. end[g] <= end[j] /\ end[h] \in Nat /\ end[j] \in Nat /\ end[g] \in Nat
        BY <1>4, <2>2
      <3>3. end[g] < end[h]
        BY <3>1, <3>2
      <3>4. royalty[g] <= royalty[h] /\ royalty[h] <= royalty[g]
        BY <2>2
      <3>5. royalty[g] = royalty[h]
        BY <1>2, <3>4
      <3> QED BY <2>2, <3>3, <3>5 DEF Before
    <2>3. CASE h \in B
      <3>1. royalty[g] <= royalty[h] /\ royalty[h] <= royalty[g] /\ end[g] <= end[h] /\ end[h] <= end[g]
        BY <2>3
      <3>2. royalty[g] = royalty[h]
        BY <1>2, <3>1
      <3>3. end[g] = end[h]
        BY <1>4, <2>3, <3>1
      <3>4. place[g] <= place[h]
        BY <1>7, <2>3
      <3> QED BY <2>3, <3>2, <3>3, <3>4 DEF Before
    <2> QED BY <2>1, <2>2, <2>3
  <1>9. g \in EligibleGrants(request) /\ \A h \in EligibleGrants(request) : Before(g, h, request)
    BY <1>8
  <1> HIDE DEF S, A, B, royalty, end, place
  <1> QED BY <1>9 DEF Quote

\* What is counted of the uses of a grant is a number, and a use more or less counts.
LEMMA UsesAreCounted ==
    ASSUME RightsInv, NEW g
    PROVE  IsFiniteSet(UsesFor(g)) /\ Cardinality(UsesFor(g)) \in Nat
  <1>1. UsesFor(g) \subseteq usage
    BY DEF UsesFor
  <1> QED BY <1>1, FS_Subset, FS_CardinalityType DEF RightsInv

-----------------------------------------------------------------------------
\* A covered request is one a grant of the kind asked for is in time and in place for,
\* and has a use left.
LEMMA DenialsNameReasons == NamedReasonsBlock
  <1> SUFFICES ASSUME NEW request \in Requests, NEW g \in EligibleGrants(request)
               PROVE  RejectionReasons(request) \subseteq {"audience"}
    BY DEF NamedReasonsBlock
  <1>1. /\ g \in Granted /\ HasRemaining(g)
        /\ grants[g].production_id = request.production_id
        /\ grants[g].right_type = request.right_type
        /\ request.territory \in grants[g].territories
        /\ grants[g].valid_from <= request.occurs_at
        /\ request.occurs_at <= grants[g].valid_until
    BY DEF EligibleGrants, Covers
  <1> QED BY <1>1 DEF RejectionReasons

\* The ledger starts without grants and uses.
LEMMA RightsStart == RightsInit => RightsInv
  <1> SUFFICES ASSUME RightsInit PROVE RightsInv
    OBVIOUS
  <1>1. Granted = {}
    BY DEF RightsInit, Granted
  <1> QED BY <1>1, FS_EmptySet DEF RightsInit, RightsInv, Ids

\* A grant that is added has no use; one that is replaced keeps those it has, and is
\* noted when they are more than it allows.
LEMMA GrantsKeep ==
    ASSUME RightsInv, NEW g \in DOMAIN grants, NEW terms \in GrantTerms,
           AddGrant(g, terms) \/ ReplaceGrant(g, terms)
    PROVE  RightsInv'
  <1>1. /\ grants' = [grants EXCEPT ![g] = terms] /\ usage' = usage
        /\ grants \in [Ids -> GrantTerms \cup {NoGrant}] /\ g \in Ids
    BY DEF AddGrant, ReplaceGrant, RightsInv
  <1>2. grants' \in [Ids -> GrantTerms \cup {NoGrant}]
    BY <1>1
  <1>3. Granted' = Granted \cup {g} /\ grants'[g] = terms
    BY <1>1, RightsAssumption DEF Granted
  <1>4. \A h \in Granted \ {g} : grants'[h] = grants[h]
    BY <1>1 DEF Granted
  <1>5. \A h : UsesFor(h)' = UsesFor(h)
    BY <1>1 DEF UsesFor
  <1>6. CASE AddGrant(g, terms)
    <2>1. UsesFor(g) = {} /\ lowered' = lowered
      BY <1>6 DEF AddGrant, UsesFor, RightsInv
    <2>2. Within(0, terms.max_performances)
      BY RightsAssumption DEF Within
    <2>3. Within(Cardinality(UsesFor(g)'), grants'[g].max_performances)
      BY <1>3, <1>5, <2>1, <2>2, FS_EmptySet
    <2> QED BY <1>1, <1>2, <1>3, <1>4, <1>5, <2>1, <2>3 DEF RightsInv
  <1>7. CASE ReplaceGrant(g, terms)
    <2>1. /\ lowered' \subseteq lowered \cup {g} /\ lowered \subseteq lowered' \cup {g}
          /\ g \notin lowered' => Within(Cardinality(UsesFor(g)), terms.max_performances)
      BY <1>7 DEF ReplaceGrant
    <2> QED BY <1>1, <1>2, <1>3, <1>4, <1>5, <2>1 DEF RightsInv
  <1> QED BY <1>6, <1>7

\* A use is charged to a grant with one left, and to no performance that has one.
LEMMA AuthorizeKeeps ==
    ASSUME RightsInv, NEW request \in Requests, Authorize(request)
    PROVE  RightsInv'
  <1>1. PICK g, u :
          /\ g = Quote(request)
          /\ u = [request |-> request, grant_id |-> g,
                  royalty_due |-> RoyaltyFor(g, request.gross_receipts)]
    OBVIOUS
  <1>2. /\ usage' = usage \cup {u} /\ UNCHANGED <<grants, lowered>>
        /\ \A v \in usage : ~SameUse(v.request, request)
        /\ u.request = request /\ u.grant_id = g
    BY <1>1 DEF Authorize
  <1>3. g \in Granted /\ HasRemaining(g)
    BY <1>1, QuoteIsEligible DEF Authorize, EligibleGrants
  <1>4. IsFiniteSet(usage') /\ u.royalty_due \in Nat
    <2>1. u.royalty_due = RoyaltyFor(g, request.gross_receipts)
      BY <1>1
    <2>2. grants[g] \in GrantTerms /\ request.gross_receipts \in Nat
      BY <1>3, RightsAssumption DEF RightsInv, Granted
    <2> QED BY <1>2, <2>1, <2>2, RoyaltyIsMoney, FS_AddElement DEF RightsInv
  <1>5. Granted' = Granted
    BY <1>2 DEF Granted
  <1>6. ASSUME NEW h \in Granted \ lowered
        PROVE  Within(Cardinality(UsesFor(h)'), grants[h].max_performances)
    <2>1. CASE h = g
      <3>1. UsesFor(g)' = UsesFor(g) \cup {u}
        BY <1>2 DEF UsesFor
      <3>2. \/ Cardinality(UsesFor(g)') = Cardinality(UsesFor(g))
            \/ Cardinality(UsesFor(g)') = Cardinality(UsesFor(g)) + 1
        BY <3>1, UsesAreCounted, FS_AddElement
      <3>3. grants[g].max_performances \in Nat \cup {Unlimited}
        BY <1>3, RightsAssumption DEF RightsInv, Granted
      <3> QED BY <1>3, <2>1, <3>2, <3>3, UsesAreCounted DEF HasRemaining, Within
    <2>2. CASE h # g
      <3>1. UsesFor(h)' = UsesFor(h)
        BY <1>2, <2>2 DEF UsesFor
      <3> QED BY <1>6, <3>1 DEF RightsInv
    <2> QED BY <2>1, <2>2
  <1>7. \A v, w \in usage' : SameUse(v.request, w.request) => v = w
    BY <1>2 DEF RightsInv, SameUse
  <1> QED BY <1>2, <1>3, <1>4, <1>5, <1>6, <1>7 DEF RightsInv

\* A use less is within what its grant allows when it was before.
LEMMA RevokeKeeps ==
    ASSUME RightsInv, NEW u \in usage, Revoke(u)
    PROVE  RightsInv'
  <1> DEFINE g == u.grant_id
  <1>1. usage' = usage \ {u} /\ grants' = grants /\ Granted' = Granted /\ g \in Granted
    BY DEF Revoke, Granted, RightsInv
  <1>2. IsFiniteSet(usage')
    BY <1>1, FS_RemoveElement DEF RightsInv
  <1>3. /\ lowered' \subseteq lowered /\ lowered \subseteq lowered' \cup {g}
        /\ g \in lowered /\ g \notin lowered' =>
               Within(Cardinality(UsesFor(g)) - 1, grants[g].max_performances)
    BY DEF Revoke
  <1>4. ASSUME NEW h \in Granted \ lowered'
        PROVE  Within(Cardinality(UsesFor(h)'), grants[h].max_performances)
    <2>1. CASE h = g
      <3>1. UsesFor(g)' = UsesFor(g) \ {u} /\ u \in UsesFor(g)
        BY <1>1 DEF UsesFor
      <3>2. Cardinality(UsesFor(g)') = Cardinality(UsesFor(g)) - 1
        BY <3>1, UsesAreCounted, FS_RemoveElement
      <3>3. grants[g].max_performances \in Nat \cup {Unlimited}
        BY <1>1, RightsAssumption DEF RightsInv, Granted
      <3>4. CASE g \in lowered
        BY <1>3, <1>4, <2>1, <3>2, <3>4
      <3>5. CASE g \notin lowered
        <4>1. Within(Cardinality(UsesFor(g)), grants[g].max_performances)
          BY <1>1, <3>5 DEF RightsInv
        <4> HIDE DEF g
        <4> QED BY <2>1, <3>2, <3>3, <4>1, UsesAreCounted DEF Within
      <3> QED BY <3>4, <3>5
    <2>2. CASE h # g
      <3>1. UsesFor(h)' = UsesFor(h)
        BY <1>1, <2>2 DEF UsesFor
      <3>2. h \notin lowered
        BY <1>3, <1>4, <2>2
      <3> QED BY <1>4, <3>1, <3>2 DEF RightsInv
    <2> QED BY <2>1, <2>2
  <1> QED BY <1>1, <1>2, <1>3, <1>4 DEF RightsInv

\* Grants, authorizations and revocations keep the invariant.
LEMMA RightsStep == RightsInv /\ [RightsNext]_rightsVars => RightsInv'
  <1> SUFFICES ASSUME RightsInv, [RightsNext]_rightsVars PROVE RightsInv'
    OBVIOUS
  <1>1. CASE RightsNext
    BY <1>1, GrantsKeep, AuthorizeKeeps, RevokeKeeps DEF RightsNext
  <1>2. CASE UNCHANGED rightsVars
    BY <1>2 DEF rightsVars, RightsInv, Granted, UsesFor
  <1> QED BY <1>1, <1>2

\* What the invariant says of a ledger is what is promised of it.
LEMMA InvLicenses == RightsInv => UsageIsLicensed
  <1> SUFFICES ASSUME RightsInv PROVE UsageIsLicensed
    OBVIOUS
  <1>1. RightsTypeOK
    BY DEF RightsInv, RightsTypeOK, Granted
  <1> QED BY <1>1, DenialsNameReasons DEF RightsInv, UsageIsLicensed

-----------------------------------------------------------------------------
\* A performance uses a right once, and a grant is used no more often than it allows but
\* after a replacement that lowered it, for any grants and requests in any order.
THEOREM UsesLicensed == RightsSpec => []UsageIsLicensed
  <1> QED BY RightsStart, RightsStep, InvLicenses, PTL DEF RightsSpec

\* Of finitely many uses the lines of the exposure, one per currency, add up to all.
LEMMA LinesAddUp ==
    ASSUME RightsInv
    PROVE  ExposureIsComplete
  <1> DEFINE lines == {grants[u.grant_id].currency : u \in usage}
             key == [u \in usage |-> grants[u.grant_id].currency]
             own == [c \in lines |-> {u \in usage : grants[u.grant_id].currency = c}]
             due == [u \in usage |-> u.royalty_due]
             one == [u \in usage |-> 1]
             dues == [c \in lines |-> [u \in own[c] |-> u.royalty_due]]
             ones == [c \in lines |-> [u \in own[c] |-> 1]]
             counts == [c \in lines |-> Exposure[c].usage_count]
             sums == [c \in lines |-> Exposure[c].royalty_due]
  <1>1. DOMAIN Exposure = lines
    BY DEF Exposure
  <1>2. ASSUME NEW c \in lines
        PROVE  counts[c] = Cardinality(own[c]) /\ sums[c] = SumOf(dues[c], own[c])
    BY DEF Exposure, SumOf
  <1>3. IsFiniteSet(usage) /\ IsFiniteSet(lines)
    <2>1. IsFiniteSet(usage)
      BY DEF RightsInv
    <2>2. key \in Surjection(usage, lines)
      BY DEF Surjection
    <2> HIDE DEF key, lines
    <2> QED BY <2>1, <2>2, FS_Surjection
  <1>4. \A u \in usage : key[u] \in lines /\ due[u] \in Int /\ one[u] \in Int
    BY DEF RightsInv
  <1>5. /\ \A c \in lines : own[c] = {u \in usage : key[u] = c}
        /\ \A c \in lines : \A u \in own[c] : dues[c][u] = due[u] /\ ones[c][u] = one[u]
    OBVIOUS
  <1>6. SummedByKey(sums, lines, own, dues, key, due, usage)
    <2> HIDE DEF lines, key, own, due, dues, sums
    <2> QED BY <1>2, <1>3, <1>4, <1>5 DEF SummedByKey
  <1>7. SummedByKey(counts, lines, own, ones, key, one, usage)
    <2>1. ASSUME NEW c \in lines PROVE counts[c] = SumOf(ones[c], own[c])
      <3> PICK T, e : T = own[c] /\ e = ones[c]
        OBVIOUS
      <3>1. IsFiniteSet(T) /\ \A u \in T : e[u] = 1
        BY <1>3, FS_Subset
      <3>2. SumOf(e, T) = Cardinality(T)
        BY <3>1, SumOfOnes
      <3> HIDE DEF counts, ones, own, lines
      <3> QED BY <1>2, <3>2
    <2> HIDE DEF lines, key, own, one, ones, counts
    <2> QED BY <1>3, <1>4, <1>5, <2>1 DEF SummedByKey
  <1>8. SumOf(sums, lines) = SumOf(due, usage)
    BY <1>6, SumByKey
  <1>9. SumOf(counts, lines) = Cardinality(usage)
    <2>1. \A u \in usage : one[u] = 1
      OBVIOUS
    <2>2. SumOf(counts, lines) = SumOf(one, usage)
      BY <1>7, SumByKey
    <2> HIDE DEF one, counts, lines
    <2> QED BY <1>3, <2>1, <2>2, SumOfOnes
  <1>10. /\ [c \in DOMAIN Exposure |-> Exposure[c].usage_count] = counts
         /\ [c \in DOMAIN Exposure |-> Exposure[c].royalty_due] = sums
    BY <1>1
  <1> HIDE DEF lines, counts, sums, due
  <1> QED BY <1>1, <1>8, <1>9, <1>10, Zenon DEF ExposureIsComplete, SumOf, due

\* The exposure reports every use and every royalty exactly once, in whatever currency the
\* grants of the uses came to be replaced by.
THEOREM ExposureStaysComplete == DaySpec => []ExposureIsComplete
  <1>1. DayInit => RightsInit
    BY DEF DayInit
  <1>2. [DayNext]_dayVars => [RightsNext]_rightsVars
    BY DEF DayNext, dayVars, rightsVars
  <1>3. RightsInv => ExposureIsComplete
    BY LinesAddUp
  <1> QED BY <1>1, <1>2, <1>3, RightsStart, RightsStep, PTL DEF DaySpec

\* Whatever else happens on the day, a performance uses a right once and a grant is used
\* no more often than it allows, but after a replacement that lowered it.
THEOREM DayUsesLicensed == DaySpec => []UsageIsLicensed
  <1>1. DayInit => RightsInit
    BY DEF DayInit
  <1>2. [DayNext]_dayVars => [RightsNext]_rightsVars
    BY DEF DayNext, dayVars, rightsVars
  <1> QED BY <1>1, <1>2, RightsStart, RightsStep, InvLicenses, PTL DEF DaySpec

-----------------------------------------------------------------------------
(***************************************************************************)
(* The cue sheet.  The calls look at numbers only.  What has to be added   *)
(* to RequirementsFollowCues for it to be inductive is that no two cues    *)
(* have one number: one that is required then means one cue, before a cue  *)
(* is renumbered and after.                                                *)
(***************************************************************************)
CueSheetInv ==
    /\ sheetCues = [c \in CueIds |-> sheetCues[c]]
    /\ \A c \in OnCueSheet :
          /\ sheetCues[c] \in [number : CueNumbers \ {0}, requires : Seq(CueNumbers)]
          /\ \A d \in OnCueSheet \ {c} : sheetCues[d].number # sheetCues[c].number
          /\ Required(c) = everRequired[c]
    /\ strayed \in BOOLEAN
    /\ ~strayed => SheetValid

\* The requirements a cue may be added with are numbers.
LEMMA RequirementsAre ==
    ASSUME NEW requires \in RequirementLists
    PROVE  requires \in Seq(CueNumbers)
  <1>1. PICK n \in 0..MaxRequired : requires \in [1..n -> CueNumbers \ {0}]
    BY DEF RequirementLists
  <1> QED BY <1>1, CueSheetAssumption

\* A cue that the step puts on the sheet, as a cue.
LEMMA CuesAreCues ==
    ASSUME NEW number \in CueNumbers, NEW requires \in Seq(CueNumbers)
    PROVE  [number |-> number, requires |-> requires] # NoCue
  <1>1. [number |-> number, requires |-> requires] \in [number : Nat, requires : Seq(Nat)]
    BY CueSheetAssumption
  <1> QED BY <1>1, CueSheetAssumption

\* When the cues that stay keep what they require, the history says the same as the sheet.
LEMMA HistoryKeeps ==
    ASSUME CueSheetInv, Remember, NEW c \in OnCueSheet',
           c \in OnCueSheet => Required(c) \subseteq Required(c)'
    PROVE  Required(c)' = everRequired'[c]
  <1>1. c \in CueIds
    BY DEF OnCueSheet
  <1> QED BY <1>1 DEF Remember, CueSheetInv

\* A new cue has a number of its own and what it requires stays as it is.
LEMMA AddCueKeeps ==
    ASSUME CueSheetInv, NEW c \in CueIds, NEW number \in CueNumbers,
           NEW requires \in RequirementLists, AddCue(c, number, requires)
    PROVE  CueSheetInv'
  <1>1. /\ c \notin OnCueSheet /\ number >= 1 /\ number \notin Numbers
        /\ sheetCues' = [sheetCues EXCEPT ![c] = [number |-> number, requires |-> requires]]
        /\ requires \in Seq(CueNumbers) /\ number \notin ToSet(requires)
    BY RequirementsAre DEF AddCue
  <1>2. /\ sheetCues' = [d \in CueIds |-> sheetCues'[d]]
        /\ sheetCues'[c] = [number |-> number, requires |-> requires]
        /\ \A d \in CueIds \ {c} : sheetCues'[d] = sheetCues[d]
    BY <1>1 DEF CueSheetInv
  <1>3. OnCueSheet' = OnCueSheet \cup {c}
    BY <1>1, <1>2, CuesAreCues DEF OnCueSheet
  <1>4. \A d \in OnCueSheet : /\ d # c /\ d \in CueIds /\ sheetCues'[d] = sheetCues[d]
                              /\ sheetCues[d].number # number
    BY <1>1, <1>2 DEF OnCueSheet, Numbers
  <1>5. \A d \in OnCueSheet : Required(d) \subseteq Required(d)'
    BY <1>3, <1>4 DEF Required
  <1>6. \A d \in OnCueSheet' : Required(d)' = everRequired'[d]
    <2> SUFFICES ASSUME NEW d \in OnCueSheet' PROVE Required(d)' = everRequired'[d]
      OBVIOUS
    <2> QED BY <1>5, HistoryKeeps DEF AddCue
  <1>7. ASSUME ~strayed' PROVE SheetValid'
    <2>1. SheetValid /\ ToSet(requires) \subseteq Numbers
      BY <1>7 DEF AddCue, CueSheetInv
    <2>2. Numbers' = Numbers \cup {number}
      BY <1>2, <1>3, <1>4 DEF Numbers
    <2>3. \A d \in OnCueSheet' : ToSet(sheetCues'[d].requires) \subseteq Numbers'
      BY <1>2, <1>3, <1>4, <2>1, <2>2 DEF SheetValid
    <2>4. \A d \in OnCueSheet : Required(d)' = Required(d)
      <3> SUFFICES ASSUME NEW d \in OnCueSheet PROVE Required(d)' \subseteq Required(d)
        BY <1>5
      <3>1. number \notin ToSet(sheetCues[d].requires)
        BY <1>1, <2>1 DEF SheetValid
      <3> QED BY <1>2, <1>3, <1>4, <3>1 DEF Required
    <2>5. ASSUME NEW circle \in (SUBSET OnCueSheet') \ {{}}
          PROVE  \E d \in circle : Required(d)' \cap circle = {}
      <3>1. c \notin Required(c)'
        BY <1>1, <1>2 DEF Required
      <3>2. CASE circle = {c}
        BY <3>1, <3>2
      <3>3. CASE circle # {c}
        <4>1. circle \ {c} \in (SUBSET OnCueSheet) \ {{}}
          BY <1>3, <2>5, <3>3
        <4>2. PICK d \in circle \ {c} : Required(d) \cap (circle \ {c}) = {}
          BY <2>1, <4>1 DEF SheetValid
        <4>3. Required(d)' = Required(d) /\ c \notin Required(d)
          BY <1>1, <2>4, <4>1 DEF Required
        <4> QED BY <4>2, <4>3
      <3> QED BY <3>2, <3>3
    <2> QED BY <2>3, <2>5 DEF SheetValid
  <1>8. ASSUME NEW d \in OnCueSheet'
        PROVE  /\ sheetCues'[d] \in [number : CueNumbers \ {0}, requires : Seq(CueNumbers)]
               /\ \A e \in OnCueSheet' \ {d} : sheetCues'[e].number # sheetCues'[d].number
    <2>1. CASE d = c
      <3>1. number \in CueNumbers \ {0}
        BY <1>1, CueSheetAssumption
      <3> QED BY <1>1, <1>2, <1>3, <1>4, <2>1, <3>1
    <2>2. CASE d # c
      BY <1>1, <1>2, <1>3, <1>4, <1>8, <2>2 DEF CueSheetInv
    <2> QED BY <2>1, <2>2
  <1>9. strayed' \in BOOLEAN
    BY DEF AddCue
  <1> QED BY <1>2, <1>6, <1>7, <1>8, <1>9 DEF CueSheetInv

\* A cue that others require stays: what is removed is missed by none.
LEMMA RemoveCueKeeps ==
    ASSUME CueSheetInv, NEW c \in CueIds, RemoveCue(c)
    PROVE  CueSheetInv'
  <1>1. /\ c \in OnCueSheet /\ strayed' = strayed
        /\ \A d \in OnCueSheet : sheetCues[c].number \notin ToSet(sheetCues[d].requires)
        /\ sheetCues' = [sheetCues EXCEPT ![c] = NoCue]
    BY DEF RemoveCue
  <1>2. /\ sheetCues' = [d \in CueIds |-> sheetCues'[d]] /\ sheetCues'[c] = NoCue
        /\ \A d \in CueIds \ {c} : sheetCues'[d] = sheetCues[d]
    BY <1>1 DEF CueSheetInv
  <1>3. OnCueSheet' = OnCueSheet \ {c}
    BY <1>2 DEF OnCueSheet
  <1>4. \A d \in OnCueSheet' : /\ sheetCues'[d] = sheetCues[d] /\ d \in OnCueSheet
                               /\ Required(d)' = Required(d)
    BY <1>1, <1>2, <1>3 DEF OnCueSheet, Required
  <1>5. \A d \in OnCueSheet' : Required(d)' = everRequired'[d]
    <2> SUFFICES ASSUME NEW d \in OnCueSheet' PROVE Required(d)' = everRequired'[d]
      OBVIOUS
    <2> QED BY <1>4, HistoryKeeps DEF RemoveCue
  <1>6. ASSUME SheetValid PROVE SheetValid'
    <2>1. \A d \in OnCueSheet' : ToSet(sheetCues'[d].requires) \subseteq Numbers'
      <3> SUFFICES ASSUME NEW d \in OnCueSheet', NEW n \in ToSet(sheetCues[d].requires)
                   PROVE  n \in Numbers'
        BY <1>4
      <3>1. n # sheetCues[c].number
        BY <1>1, <1>4
      <3>2. PICK e \in OnCueSheet : sheetCues[e].number = n
        BY <1>4, <1>6 DEF SheetValid, Numbers
      <3>3. e \in OnCueSheet' /\ sheetCues'[e].number = n
        BY <1>3, <1>4, <3>1, <3>2
      <3> QED BY <3>3 DEF Numbers
    <2>2. ASSUME NEW circle \in (SUBSET OnCueSheet') \ {{}}
          PROVE  \E d \in circle : Required(d)' \cap circle = {}
      <3>1. circle \in (SUBSET OnCueSheet) \ {{}}
        BY <1>3
      <3>2. PICK d \in circle : Required(d) \cap circle = {}
        BY <1>6, <3>1 DEF SheetValid
      <3> QED BY <1>4, <3>2
    <2> QED BY <2>1, <2>2 DEF SheetValid
  <1>7. ASSUME NEW d \in OnCueSheet'
        PROVE  /\ sheetCues'[d] \in [number : CueNumbers \ {0}, requires : Seq(CueNumbers)]
               /\ \A e \in OnCueSheet' \ {d} : sheetCues'[e].number # sheetCues'[d].number
    BY <1>4 DEF CueSheetInv
  <1> QED BY <1>1, <1>2, <1>5, <1>6, <1>7 DEF CueSheetInv

\* A cue takes another number, and what requires it follows.
LEMMA RenumberKeeps ==
    ASSUME CueSheetInv, NEW c \in CueIds, NEW new_number \in CueNumbers,
           Renumber(c, new_number)
    PROVE  CueSheetInv'
  <1>1. PICK old_number : old_number = sheetCues[c].number
    OBVIOUS
  <1>2. /\ c \in OnCueSheet /\ strayed' = strayed /\ new_number >= 1
        /\ \A d \in OnCueSheet \ {c} : sheetCues[d].number # new_number
        /\ sheetCues' = [d \in CueIds |->
               IF d \notin OnCueSheet THEN NoCue
               ELSE [number |-> IF d = c THEN new_number ELSE sheetCues[d].number,
                     requires |-> Renamed(sheetCues[d].requires, old_number, new_number)]]
    BY <1>1 DEF Renumber
  <1>3. \A d \in OnCueSheet : d \in CueIds /\ sheetCues[d].requires \in Seq(CueNumbers)
    BY DEF CueSheetInv, OnCueSheet
  <1>4. ASSUME NEW d \in OnCueSheet
        PROVE  /\ Renamed(sheetCues[d].requires, old_number, new_number) \in Seq(CueNumbers)
               /\ DOMAIN Renamed(sheetCues[d].requires, old_number, new_number)
                     = DOMAIN sheetCues[d].requires
    BY <1>3 DEF Renamed
  <1>5. ASSUME NEW d \in OnCueSheet
        PROVE  /\ sheetCues'[d].number = IF d = c THEN new_number ELSE sheetCues[d].number
               /\ sheetCues'[d].requires
                     = Renamed(sheetCues[d].requires, old_number, new_number)
               /\ sheetCues'[d] \in [number : CueNumbers \ {0}, requires : Seq(CueNumbers)]
               /\ sheetCues'[d] # NoCue
    <2>1. sheetCues'[d] = [number |-> IF d = c THEN new_number ELSE sheetCues[d].number,
              requires |-> Renamed(sheetCues[d].requires, old_number, new_number)]
      BY <1>2, <1>3
    <2>2. (IF d = c THEN new_number ELSE sheetCues[d].number) \in CueNumbers \ {0}
      BY <1>2, CueSheetAssumption DEF CueSheetInv
    <2>3. sheetCues'[d] # NoCue
      BY <1>4, <2>1, <2>2, CuesAreCues
    <2> QED BY <1>4, <2>1, <2>2, <2>3
  <1>6. OnCueSheet' = OnCueSheet
    <2>1. \A d \in CueIds : d \notin OnCueSheet => sheetCues'[d] = NoCue
      BY <1>2
    <2> QED BY <1>5, <2>1 DEF OnCueSheet
  <1>7. ASSUME NEW d \in OnCueSheet PROVE Required(d) \subseteq Required(d)'
    <2> SUFFICES ASSUME NEW e \in Required(d) PROVE e \in Required(d)'
      OBVIOUS
    <2>1. PICK i \in DOMAIN sheetCues[d].requires :
            sheetCues[d].requires[i] = sheetCues[e].number
      BY DEF Required, ToSet
    <2>2. e \in OnCueSheet /\ (sheetCues[e].number = old_number <=> e = c)
      BY <1>1, <1>2 DEF Required, CueSheetInv
    <2>3. Renamed(sheetCues[d].requires, old_number, new_number)[i] = sheetCues'[e].number
      BY <1>5, <2>1, <2>2 DEF Renamed
    <2> QED BY <1>4, <1>5, <1>6, <2>1, <2>2, <2>3 DEF Required, ToSet
  <1>8. \A d \in OnCueSheet' : Required(d)' = everRequired'[d]
    <2> SUFFICES ASSUME NEW d \in OnCueSheet' PROVE Required(d)' = everRequired'[d]
      OBVIOUS
    <2> QED BY <1>7, HistoryKeeps DEF Renumber
  <1>9. ASSUME NEW d \in OnCueSheet, NEW e \in OnCueSheet,
               sheetCues'[e].number = sheetCues'[d].number
        PROVE  e = d
    <2>1. CASE e = c \/ d = c
      BY <1>2, <1>5, <1>9, <2>1
    <2>2. CASE e # c /\ d # c
      <3>1. sheetCues[e].number = sheetCues[d].number
        BY <1>5, <1>9, <2>2
      <3> QED BY <3>1 DEF CueSheetInv
    <2> QED BY <2>1, <2>2
  <1>10. ASSUME SheetValid PROVE SheetValid'
    <2>1. ASSUME NEW d \in OnCueSheet, NEW i \in DOMAIN sheetCues[d].requires
          PROVE  \E e \in Required(d) :
                    Renamed(sheetCues[d].requires, old_number, new_number)[i]
                       = sheetCues'[e].number
      <3>1. PICK e \in OnCueSheet : sheetCues[e].number = sheetCues[d].requires[i]
        BY <1>10 DEF SheetValid, Numbers, ToSet
      <3>2. e \in Required(d)
        BY <3>1 DEF Required, ToSet
      <3>3. sheetCues[e].number = old_number <=> e = c
        BY <1>1, <1>2 DEF CueSheetInv
      <3> QED BY <1>5, <3>1, <3>2, <3>3 DEF Renamed
    <2>2. \A d \in OnCueSheet' : ToSet(sheetCues'[d].requires) \subseteq Numbers'
      <3> SUFFICES ASSUME NEW d \in OnCueSheet, NEW n \in ToSet(sheetCues'[d].requires)
                   PROVE  n \in Numbers'
        BY <1>6
      <3>1. PICK i \in DOMAIN sheetCues[d].requires :
              n = Renamed(sheetCues[d].requires, old_number, new_number)[i]
        BY <1>4, <1>5 DEF ToSet
      <3>2. PICK e \in Required(d) : n = sheetCues'[e].number
        BY <2>1, <3>1
      <3>3. e \in OnCueSheet'
        BY <1>6 DEF Required
      <3> QED BY <3>2, <3>3 DEF Numbers
    <2>3. ASSUME NEW d \in OnCueSheet PROVE Required(d)' \subseteq Required(d)
      <3> SUFFICES ASSUME NEW e \in Required(d)' PROVE e \in Required(d)
        OBVIOUS
      <3>1. e \in OnCueSheet /\ sheetCues'[e].number \in ToSet(sheetCues'[d].requires)
        BY <1>6 DEF Required
      <3>2. PICK i \in DOMAIN sheetCues[d].requires :
              sheetCues'[e].number = Renamed(sheetCues[d].requires, old_number, new_number)[i]
        BY <1>4, <1>5, <3>1 DEF ToSet
      <3>3. PICK f \in Required(d) : sheetCues'[e].number = sheetCues'[f].number
        BY <2>1, <3>2
      <3>4. f \in OnCueSheet
        BY DEF Required
      <3>5. e = f
        BY <1>9, <3>1, <3>3, <3>4
      <3> QED BY <3>3, <3>5
    <2>4. ASSUME NEW circle \in (SUBSET OnCueSheet') \ {{}}
          PROVE  \E d \in circle : Required(d)' \cap circle = {}
      <3>1. circle \in (SUBSET OnCueSheet) \ {{}}
        BY <1>6
      <3>2. PICK d \in circle : Required(d) \cap circle = {}
        BY <1>10, <3>1 DEF SheetValid
      <3> QED BY <2>3, <3>1, <3>2
    <2> QED BY <2>2, <2>4 DEF SheetValid
  <1>11. sheetCues' = [d \in CueIds |-> sheetCues'[d]]
    BY <1>2
  <1> QED BY <1>2, <1>5, <1>6, <1>8, <1>9, <1>10, <1>11, ZenonT(40) DEF CueSheetInv

\* The sheet starts empty.
LEMMA CueSheetStart == CueSheetInit => CueSheetInv
  <1> SUFFICES ASSUME CueSheetInit PROVE CueSheetInv
    OBVIOUS
  <1>1. OnCueSheet = {} /\ sheetCues = [c \in CueIds |-> sheetCues[c]]
    BY DEF CueSheetInit, OnCueSheet
  <1>2. SheetValid
    BY <1>1 DEF SheetValid
  <1> QED BY <1>1, <1>2 DEF CueSheetInit, CueSheetInv

\* The three calls that change the sheet keep its invariant.
LEMMA CueSheetStep == CueSheetInv /\ [CueSheetNext]_cueSheetVars => CueSheetInv'
  <1> SUFFICES ASSUME CueSheetInv, [CueSheetNext]_cueSheetVars PROVE CueSheetInv'
    OBVIOUS
  <1>1. CASE CueSheetNext
    <2>1. OnCueSheet \subseteq CueIds
      BY DEF OnCueSheet
    <2> QED BY <1>1, <2>1, AddCueKeeps, RemoveCueKeeps, RenumberKeeps DEF CueSheetNext
  <1>2. CASE UNCHANGED cueSheetVars
    <2>1. sheetCues' = sheetCues /\ everRequired' = everRequired /\ strayed' = strayed
      BY <1>2 DEF cueSheetVars
    <2>2. OnCueSheet' = OnCueSheet /\ Numbers' = Numbers
      BY <2>1 DEF OnCueSheet, Numbers
    <2>3. \A c : Required(c)' = Required(c)
      BY <2>1, <2>2 DEF Required
    <2>4. SheetValid' = SheetValid
      BY <2>1, <2>2, <2>3 DEF SheetValid
    <2> QED BY <2>1, <2>2, <2>3, <2>4 DEF CueSheetInv
  <1> QED BY <1>1, <1>2

\* What the invariant says of a sheet is what is promised of it.
LEMMA InvFollowsCues == CueSheetInv => RequirementsFollowCues
  <1> SUFFICES ASSUME CueSheetInv PROVE RequirementsFollowCues
    OBVIOUS
  <1>1. ASSUME NEW c \in OnCueSheet PROVE ToSet(sheetCues[c].requires) \subseteq CueNumbers
    <2>1. sheetCues[c].requires \in Seq(CueNumbers)
      BY DEF CueSheetInv
    <2> QED BY <2>1 DEF ToSet
  <1> QED BY <1>1 DEF CueSheetInv, RequirementsFollowCues, CueSheetTypeOK

\* A cue that requires another requires it for as long as it is on the sheet, whatever is
\* renumbered and removed; and a sheet whose cues came after what they require is valid.
THEOREM RequirementsStay == DaySpec => []RequirementsFollowCues
  <1>1. DayInit => CueSheetInit
    BY DEF DayInit
  <1>2. [DayNext]_dayVars => [CueSheetNext]_cueSheetVars
    BY DEF DayNext, dayVars, cueSheetVars
  <1> QED BY <1>1, <1>2, CueSheetStart, CueSheetStep, InvFollowsCues, PTL DEF DaySpec

-----------------------------------------------------------------------------
(***************************************************************************)
(* The order of a valid sheet.  No cues requiring one another in a circle, *)
(* the numbers have levels, as many as there are: collecting a number      *)
(* calls itself for lower ones only, which is why it comes to an end, and  *)
(* why the number is not among what was collected for it.                  *)
(***************************************************************************)
\* What a number of the sheet requires, in the order it is collected in.
Needs(number) == sheetCues[CueOf(number)].requires

\* The numbers of a valid sheet have levels, each above those of what it requires.
Levels(level) ==
    /\ level \in [Numbers -> 0..(Cardinality(Numbers) - 1)]
    /\ \A number \in Numbers :
          \A i \in 1..Len(Needs(number)) :
              /\ Needs(number)[i] \in Numbers
              /\ level[Needs(number)[i]] < level[number]

\* Each number of the sheet is that of one cue.
LEMMA CueOfNumber ==
    ASSUME CueSheetInv, NEW number \in Numbers
    PROVE  /\ CueOf(number) \in OnCueSheet /\ sheetCues[CueOf(number)].number = number
           /\ \A c \in OnCueSheet : sheetCues[c].number = number => c = CueOf(number)
           /\ number \in Nat /\ Needs(number) \in Seq(Nat) /\ Len(Needs(number)) \in Nat
           /\ DOMAIN Needs(number) = 1..Len(Needs(number))
  <1>1. \E c \in OnCueSheet : sheetCues[c].number = number
    BY DEF Numbers
  <1>2. CueOf(number) \in OnCueSheet /\ sheetCues[CueOf(number)].number = number
    BY <1>1 DEF CueOf
  <1>3. number \in CueNumbers /\ Needs(number) \in Seq(CueNumbers) /\ CueNumbers \subseteq Nat
    BY <1>2, CueSheetAssumption DEF CueSheetInv, Needs
  <1>4. PICK list : list = Needs(number)
    OBVIOUS
  <1>5. list \in Seq(Nat) /\ Len(list) \in Nat /\ DOMAIN list = 1..Len(list)
    <2>1. PICK n \in Nat : list \in [1..n -> CueNumbers] /\ n = Len(list)
      BY <1>3, <1>4
    <2>2. list \in [1..n -> Nat]
      BY <1>3, <2>1
    <2>3. list \in Seq(Nat)
      BY <2>2
    <2> QED BY <2>1, <2>2, <2>3
  <1>6. \A c \in OnCueSheet : sheetCues[c].number = number => c = CueOf(number)
    BY <1>2 DEF CueSheetInv
  <1>7. number \in Nat
    BY <1>3
  <1> QED BY <1>2, <1>4, <1>5, <1>6, <1>7

\* There are finitely many numbers, as many as cues.
LEMMA NumbersAreCounted ==
    ASSUME CueSheetInv
    PROVE  /\ IsFiniteSet(Numbers) /\ Cardinality(Numbers) \in Nat
           /\ Cardinality(Numbers) = Cardinality(OnCueSheet)
  <1> DEFINE numberOf == [c \in OnCueSheet |-> sheetCues[c].number]
  <1>1. IsFiniteSet(OnCueSheet)
    BY CueSheetAssumption, FS_Subset DEF OnCueSheet
  <1>2. \A c \in OnCueSheet : numberOf[c] \in Numbers
    BY DEF Numbers
  <1>3. \A c, d \in OnCueSheet : numberOf[c] = numberOf[d] => c = d
    BY DEF CueSheetInv
  <1>4. \A number \in Numbers : \E c \in OnCueSheet : numberOf[c] = number
    BY DEF Numbers
  <1>5. numberOf \in [OnCueSheet -> Numbers] /\ DOMAIN numberOf = OnCueSheet
    BY <1>2
  <1> HIDE DEF numberOf
  <1>6. numberOf \in Injection(OnCueSheet, Numbers)
    BY <1>3, <1>5 DEF Injection, IsInjective
  <1>7. numberOf \in Surjection(OnCueSheet, Numbers)
    BY <1>4, <1>5 DEF Surjection
  <1>8. ExistsBijection(OnCueSheet, Numbers)
    BY <1>6, <1>7 DEF Bijection, ExistsBijection
  <1>9. IsFiniteSet(Numbers) /\ Cardinality(Numbers) = Cardinality(OnCueSheet)
    BY <1>1, <1>7, <1>8, FS_Bijection, FS_Surjection
  <1> QED BY <1>9, FS_CardinalityType

\* A part of the numbers that requires nothing outside of it, in levels of their own.
Levelled(A, level) ==
    /\ A \in SUBSET Numbers /\ level \in [A -> 0..(Cardinality(A) - 1)]
    /\ \A number \in A :
          \A i \in 1..Len(Needs(number)) :
              Needs(number)[i] \in A /\ level[Needs(number)[i]] < level[number]

\* Of a valid sheet, such a part that is not all of it can be extended by a number.
LEMMA LevelsGrow ==
    ASSUME CueSheetInv, SheetValid, NEW A, NEW level, Levelled(A, level), A # Numbers
    PROVE  \E more \in Numbers \ A : \E higher : Levelled(A \cup {more}, higher)
  <1> DEFINE circle == {c \in OnCueSheet : sheetCues[c].number \notin A}
  <1>1. circle \in (SUBSET OnCueSheet) \ {{}}
    <2>1. PICK number \in Numbers : number \notin A
      BY DEF Levelled
    <2>2. CueOf(number) \in circle
      BY <2>1, CueOfNumber
    <2> QED BY <2>2
  <1>2. PICK c \in circle : Required(c) \cap circle = {}
    BY <1>1 DEF SheetValid
  <1>3. PICK more : more = sheetCues[c].number
    OBVIOUS
  <1>4. more \in Numbers \ A /\ Needs(more) = sheetCues[c].requires
    <2>1. more \in Numbers
      BY <1>2, <1>3 DEF Numbers
    <2>2. c = CueOf(more)
      BY <1>2, <1>3, <2>1, CueOfNumber
    <2> QED BY <1>2, <1>3, <2>1, <2>2 DEF Needs
  <1>5. /\ Len(Needs(more)) \in Nat /\ DOMAIN Needs(more) = 1..Len(Needs(more))
    BY <1>4, CueOfNumber
  <1>6. \A i \in 1..Len(Needs(more)) : Needs(more)[i] \in A
    <2> SUFFICES ASSUME NEW i \in 1..Len(Needs(more)), Needs(more)[i] \notin A PROVE FALSE
      OBVIOUS
    <2>1. PICK number : number = Needs(more)[i]
      OBVIOUS
    <2>2. number \in ToSet(sheetCues[c].requires)
      BY <1>4, <1>5, <2>1 DEF ToSet
    <2>3. number \in Numbers
      BY <1>2, <2>2 DEF SheetValid
    <2>4. CueOf(number) \in circle /\ CueOf(number) \in Required(c)
      BY <2>1, <2>2, <2>3, CueOfNumber DEF Required
    <2> QED BY <1>2, <2>4
  <1>7. PICK k : k = Cardinality(A)
    OBVIOUS
  <1>8. k \in Nat /\ Cardinality(A \cup {more}) = k + 1 /\ A \subseteq Numbers
    <2>1. A \in SUBSET Numbers /\ IsFiniteSet(A)
      BY NumbersAreCounted, FS_Subset DEF Levelled
    <2> QED BY <1>4, <1>7, <2>1, FS_CardinalityType, FS_AddElement
  <1> DEFINE higher == [number \in A \cup {more} |-> IF number = more THEN k ELSE level[number]]
  <1>9. \A number \in A : level[number] \in 0..(k - 1) /\ higher[number] = level[number]
    BY <1>4, <1>7 DEF Levelled
  <1>10. higher[more] = k
    OBVIOUS
  <1>11. higher \in [A \cup {more} -> 0..k]
    <2>1. \A number \in A \cup {more} : higher[number] \in 0..k
      <3> HIDE DEF higher
      <3> QED BY <1>8, <1>9, <1>10
    <2> QED BY <2>1
  <1> HIDE DEF higher
  <1>12. ASSUME NEW number \in A \cup {more}, NEW i \in 1..Len(Needs(number))
         PROVE  Needs(number)[i] \in A \cup {more} /\ higher[Needs(number)[i]] < higher[number]
    <2>1. CASE number = more
      BY <1>6, <1>8, <1>9, <1>10, <1>12, <2>1
    <2>2. CASE number \in A
      <3>1. Needs(number)[i] \in A /\ level[Needs(number)[i]] < level[number]
        BY <1>12, <2>2 DEF Levelled
      <3> QED BY <1>9, <2>2, <3>1
    <2> QED BY <2>1, <2>2
  <1>13. Levelled(A \cup {more}, higher)
    <2>1. higher \in [A \cup {more} -> 0..(Cardinality(A \cup {more}) - 1)]
      BY <1>8, <1>11
    <2>2. A \cup {more} \in SUBSET Numbers
      BY <1>4, <1>8
    <2> QED BY <1>12, <2>1, <2>2 DEF Levelled
  <1> QED BY <1>4, <1>13

\* So all the numbers of a valid sheet have levels.
LEMMA LevelsThere ==
    ASSUME CueSheetInv, SheetValid
    PROVE  \E level : Levels(level)
  <1> DEFINE N == Cardinality(Numbers)
             Good == {k \in 0..N : \E A, level : Levelled(A, level) /\ Cardinality(A) = k}
  <1>1. IsFiniteSet(Numbers) /\ N \in Nat
    BY NumbersAreCounted
  <1>2. 0 \in Good
    <2>1. Cardinality({}) = 0
      BY FS_EmptySet
    <2>2. Levelled({}, [n \in {} |-> 0])
      BY DEF Levelled
    <2> QED BY <1>1, <2>1, <2>2
  <1>3. ASSUME NEW k \in 1..N, k - 1 \in Good PROVE k \in Good
    <2>1. PICK A, level : Levelled(A, level) /\ Cardinality(A) = k - 1
      BY <1>3
    <2>2. A # Numbers
      BY <1>1, <1>3, <2>1
    <2>3. PICK more \in Numbers \ A : \E higher : Levelled(A \cup {more}, higher)
      BY <2>1, <2>2, LevelsGrow
    <2>4. IsFiniteSet(A)
      BY <1>1, <2>1, FS_Subset DEF Levelled
    <2>5. Cardinality(A \cup {more}) = (k - 1) + 1
      BY <2>1, <2>3, <2>4, FS_AddElement
    <2>6. (k - 1) + 1 = k /\ k \in 0..N
      BY <1>1, <1>3
    <2> QED BY <2>3, <2>5, <2>6
  <1>4. N \in Good
    <2> HIDE DEF Good
    <2>1. \A k \in 0..N : k \in Good
      <3> HIDE DEF N
      <3> QED BY <1>1, <1>2, <1>3, Climbing
    <2> QED BY <1>1, <2>1
  <1>5. PICK A, level : Levelled(A, level) /\ Cardinality(A) = N
    BY <1>4
  <1>6. A = Numbers
    <2>1. A \in SUBSET Numbers
      BY <1>5 DEF Levelled
    <2> QED BY <1>1, <1>5, <2>1, FS_Subset
  <1> QED BY <1>5, <1>6 DEF Levelled, Levels

\* An order of numbers in which each comes once, after all it requires.
Closed(result) ==
    /\ result \in Seq(Nat) /\ ToSet(result) \subseteq Numbers
    /\ \A i, j \in 1..Len(result) : result[i] = result[j] => i = j
    /\ \A i \in 1..Len(result) : \A k \in 1..Len(Needs(result[i])) :
          \E j \in 1..(i - 1) : result[j] = Needs(result[i])[k]

\* What collecting a number makes of an order: it has the number, what it had, and
\* nothing new above the level of the number.
Extends(before, after, level, numbers, top) ==
    /\ Closed(after)
    /\ ToSet(before) \cup numbers \subseteq ToSet(after)
    /\ \A number \in ToSet(after) \ ToSet(before) : level[number] <= top

\* Collecting works for the numbers below a level.
Collects(collect, level, top) ==
    \A number \in Numbers : \A result :
        level[number] < top /\ Closed(result) =>
            Extends(result, collect[number][result], level, {number}, level[number])

\* A number appended to an order that has what it requires, and not the number.
LEMMA AppendCloses ==
    ASSUME CueSheetInv, NEW result, Closed(result), NEW number \in Numbers,
           number \notin ToSet(result),
           \A k \in 1..Len(Needs(number)) : Needs(number)[k] \in ToSet(result)
    PROVE  /\ Closed(Append(result, number))
           /\ ToSet(Append(result, number)) = ToSet(result) \cup {number}
  <1> DEFINE z == Append(result, number)
  <1>1. /\ Len(result) \in Nat /\ result \in Seq(Nat) /\ number \in Nat
        /\ DOMAIN result = 1..Len(result)
    BY CueOfNumber DEF Closed
  <1>2. /\ z \in Seq(Nat) /\ Len(z) = Len(result) + 1 /\ DOMAIN z = 1..(Len(result) + 1)
        /\ z[Len(result) + 1] = number /\ \A i \in 1..Len(result) : z[i] = result[i]
    BY <1>1
  <1> HIDE DEF z
  <1>3. ToSet(z) = ToSet(result) \cup {number}
    BY <1>1, <1>2 DEF ToSet
  <1>4. \A i \in 1..Len(result) : result[i] # number
    BY <1>1 DEF ToSet
  <1>5. ASSUME NEW i \in 1..Len(z), NEW j \in 1..Len(z), z[i] = z[j] PROVE i = j
    <2>1. CASE i \in 1..Len(result) /\ j \in 1..Len(result)
      BY <1>2, <1>5, <2>1 DEF Closed
    <2>2. CASE i \in 1..Len(result) /\ j = Len(result) + 1
      BY <1>2, <1>4, <1>5, <2>2
    <2>3. CASE i = Len(result) + 1 /\ j \in 1..Len(result)
      BY <1>2, <1>4, <1>5, <2>3
    <2> QED BY <1>1, <1>2, <2>1, <2>2, <2>3
  <1>6. ASSUME NEW i \in 1..Len(z), NEW k \in 1..Len(Needs(z[i]))
        PROVE  \E j \in 1..(i - 1) : z[j] = Needs(z[i])[k]
    <2>1. CASE i \in 1..Len(result)
      <3>1. PICK j \in 1..(i - 1) : result[j] = Needs(result[i])[k]
        BY <1>2, <1>6, <2>1 DEF Closed
      <3>2. j \in 1..Len(result)
        BY <1>1, <2>1, <3>1
      <3> QED BY <1>2, <2>1, <3>1, <3>2
    <2>2. CASE i = Len(result) + 1
      <3>1. Needs(number)[k] \in ToSet(result)
        BY <1>2, <1>6, <2>2
      <3>2. PICK j \in 1..Len(result) : result[j] = Needs(number)[k]
        BY <1>1, <3>1 DEF ToSet
      <3> QED BY <1>1, <1>2, <2>2, <3>2
    <2> QED BY <1>1, <1>2, <2>1, <2>2
  <1>7. Closed(z)
    BY <1>2, <1>3, <1>5, <1>6 DEF Closed
  <1> QED BY <1>3, <1>7 DEF z

\* The order after each of the numbers of a list.
AfterEach(f, collect, numbers, result, k) ==
    IF k = 0 THEN result ELSE collect[numbers[k]][f[k - 1]]

IsLoop(f, collect, numbers, result) ==
    f = [k \in 0..Len(numbers) |-> AfterEach(f, collect, numbers, result, k)]

\* The loop over a list is defined: each time around follows from the one before.
LEMMA CollectEachIs ==
    ASSUME NEW collect, NEW numbers, NEW result, Len(numbers) \in Nat
    PROVE  \E f : /\ IsLoop(f, collect, numbers, result)
                  /\ CollectEach(collect, numbers, result) = f[Len(numbers)]
  <1> DEFINE Computes(f, m) == f = [k \in 0..m |-> AfterEach(f, collect, numbers, result, k)]
             Good == {m \in 0..Len(numbers) : \E f : Computes(f, m)}
  <1>1. 0 \in Good
    <2>1. Computes([k \in 0..0 |-> result], 0)
      BY DEF AfterEach
    <2> QED BY <2>1
  <1>2. ASSUME NEW m \in 1..Len(numbers), m - 1 \in Good
        PROVE  m \in Good
    <2>1. PICK f : Computes(f, m - 1)
      BY <1>2
    <2> DEFINE last == AfterEach(f, collect, numbers, result, m)
               g == [k \in 0..m |-> IF k = m THEN last ELSE f[k]]
    <2>2. ASSUME NEW k \in 0..m PROVE g[k] = AfterEach(g, collect, numbers, result, k)
      <3>1. k = m => g[k] = last /\ g[k - 1] = f[k - 1]
        BY <1>2
      <3>2. k # m => /\ g[k] = AfterEach(f, collect, numbers, result, k)
                     /\ k # 0 => g[k - 1] = f[k - 1]
        BY <1>2, <2>1
      <3> HIDE DEF g
      <3> QED BY <3>1, <3>2 DEF AfterEach
    <2>3. g = [k \in 0..m |-> g[k]]
      OBVIOUS
    <2> HIDE DEF g
    <2>4. Computes(g, m)
      BY <2>2, <2>3
    <2> QED BY <2>4
  <1>3. \E f : Computes(f, Len(numbers))
    <2> HIDE DEF Good
    <2>1. \A m \in 0..Len(numbers) : m \in Good
      BY <1>1, <1>2, Climbing
    <2> QED BY <2>1 DEF Good
  <1>4. CollectEach(collect, numbers, result) =
        (CHOOSE f : Computes(f, Len(numbers)))[Len(numbers)]
    BY DEF CollectEach, AfterEach
  <1> HIDE DEF Computes
  <1>5. Computes(CHOOSE f : Computes(f, Len(numbers)), Len(numbers))
    BY <1>3
  <1> QED BY <1>4, <1>5 DEF Computes, IsLoop

\* The numbers at the first places of a list.
FirstNumbers(numbers, m) == {numbers[k] : k \in 1..m}

\* Collecting each number of a list, all of them below a level, extends the order by them.
LEMMA EachIsCollected ==
    ASSUME NEW collect, NEW level, NEW top, Collects(collect, level, top),
           NEW numbers \in Seq(Nat), NEW result, Closed(result), NEW highest \in Int,
           level \in [Numbers -> Int],
           \A k \in 1..Len(numbers) : /\ numbers[k] \in Numbers /\ level[numbers[k]] < top
                                      /\ level[numbers[k]] <= highest
    PROVE  Extends(result, CollectEach(collect, numbers, result), level, ToSet(numbers), highest)
  <1>1. Len(numbers) \in Nat /\ DOMAIN numbers = 1..Len(numbers)
    OBVIOUS
  <1>2. PICK f : /\ IsLoop(f, collect, numbers, result)
                 /\ CollectEach(collect, numbers, result) = f[Len(numbers)]
    BY <1>1, CollectEachIs
  <1>7. /\ f[0] = result
        /\ \A m \in 1..Len(numbers) : f[m] = collect[numbers[m]][f[m - 1]]
    <2>1. \A m \in 0..Len(numbers) : f[m] = AfterEach(f, collect, numbers, result, m)
      BY <1>2 DEF IsLoop
    <2> QED BY <1>1, <2>1 DEF AfterEach
  <1> DEFINE Reached(m) == Extends(result, f[m], level, FirstNumbers(numbers, m), highest)
             Good == {m \in 0..Len(numbers) : Reached(m)}
  <1>3. 0 \in Good
    <2>2. FirstNumbers(numbers, 0) = {}
      BY DEF FirstNumbers
    <2>3. Extends(result, result, level, {}, highest)
      BY DEF Extends
    <2>4. Reached(0)
      BY <1>7, <2>2, <2>3
    <2> HIDE DEF Reached
    <2> QED BY <1>1, <2>4
  <1>4. ASSUME NEW m \in 1..Len(numbers), m - 1 \in Good
        PROVE  m \in Good
    <2>1. f[m] = collect[numbers[m]][f[m - 1]] /\ m - 1 \in Nat
      BY <1>7, <1>4
    <2>2. FirstNumbers(numbers, m) = FirstNumbers(numbers, m - 1) \cup {numbers[m]}
      <3>1. \A k : k \in 1..m <=> k \in 1..(m - 1) \/ k = m
        BY <1>1, <1>4
      <3> QED BY <3>1 DEF FirstNumbers
    <2>3. PICK number, before : number = numbers[m] /\ before = f[m - 1]
      OBVIOUS
    <2>4. Extends(result, before, level, FirstNumbers(numbers, m - 1), highest)
      BY <1>4, <2>3
    <2>5. number \in Numbers /\ level[number] < top /\ level[number] <= highest
      BY <1>1, <1>4, <2>3
    <2>6. Extends(before, f[m], level, {number}, level[number])
      BY <2>1, <2>3, <2>4, <2>5 DEF Collects, Extends
    <2>7. ToSet(f[m]) \subseteq Numbers
      BY <2>6 DEF Extends, Closed
    <2>8. Extends(result, f[m], level, FirstNumbers(numbers, m - 1) \cup {number}, highest)
      BY <2>4, <2>5, <2>6, <2>7 DEF Extends
    <2>9. Reached(m) /\ m \in 0..Len(numbers)
      BY <1>1, <1>4, <2>2, <2>3, <2>8
    <2> HIDE DEF Reached
    <2> QED BY <2>9
  <1>5. Len(numbers) \in Good
    <2> HIDE DEF Good
    <2>1. \A m \in 0..Len(numbers) : m \in Good
      BY <1>1, <1>3, <1>4, Climbing
    <2> QED BY <1>1, <2>1
  <1>6. ToSet(numbers) = FirstNumbers(numbers, Len(numbers))
    BY <1>1 DEF ToSet, FirstNumbers
  <1> QED BY <1>2, <1>5, <1>6

\* What collects within a number of calls of collect.
Collecting(f, depth) ==
    [number \in Nat |-> [result \in Seq(Nat) |->
        IF depth = 0 THEN result ELSE Collect(f[depth - 1], number, result)]]

IsCollecting(f) == f = [depth \in 0..Cardinality(Numbers) |-> Collecting(f, depth)]

Sheet == InOrder(Numbers, {ab \in Numbers \X Numbers : ab[1] < ab[2]})

\* The recursion is defined: each depth follows from the one before.
LEMMA DependencyOrderIs ==
    ASSUME Cardinality(Numbers) \in Nat
    PROVE  \E f : /\ IsCollecting(f)
                  /\ DependencyOrder = CollectEach(f[Cardinality(Numbers)], Sheet, <<>>)
  <1>1. PICK N : N = Cardinality(Numbers) /\ N \in Nat
    OBVIOUS
  <1> DEFINE Computes(f, m) == f = [depth \in 0..m |-> Collecting(f, depth)]
             Good == {m \in 0..N : \E f : Computes(f, m)}
  <1>2. 0 \in Good
    <2> DEFINE g == [depth \in 0..0 |-> [number \in Nat |-> [result \in Seq(Nat) |-> result]]]
    <2>1. \A depth \in 0..0 : g[depth] = Collecting(g, depth)
      BY DEF Collecting
    <2>2. g = [depth \in 0..0 |-> g[depth]]
      OBVIOUS
    <2> HIDE DEF g
    <2>3. Computes(g, 0)
      BY <2>1, <2>2
    <2> QED BY <1>1, <2>3
  <1>3. ASSUME NEW m \in 1..N, m - 1 \in Good
        PROVE  m \in Good
    <2>1. PICK f : Computes(f, m - 1)
      BY <1>3
    <2> DEFINE last == Collecting(f, m)
               g == [depth \in 0..m |-> IF depth = m THEN last ELSE f[depth]]
    <2>2. ASSUME NEW depth \in 0..m PROVE g[depth] = Collecting(g, depth)
      <3>1. depth = m => g[depth] = last /\ g[depth - 1] = f[depth - 1]
        BY <1>1, <1>3
      <3>2. depth # m => /\ g[depth] = Collecting(f, depth)
                         /\ depth # 0 => g[depth - 1] = f[depth - 1]
        <4>1. \A k \in 0..(m - 1) : f[k] = Collecting(f, k)
          BY <2>1
        <4> HIDE DEF last, Computes
        <4>2. depth # m => depth \in 0..(m - 1) /\ g[depth] = f[depth]
          BY <1>1, <1>3
        <4>3. depth # m /\ depth # 0 => depth - 1 \in 0..m /\ depth - 1 # m
          BY <1>1, <1>3
        <4>4. depth # m /\ depth # 0 => g[depth - 1] = f[depth - 1]
          BY <4>3
        <4> HIDE DEF g
        <4> QED BY <4>1, <4>2, <4>4
      <3> HIDE DEF g
      <3> QED BY <3>1, <3>2 DEF Collecting
    <2>3. g = [depth \in 0..m |-> g[depth]]
      OBVIOUS
    <2> HIDE DEF g
    <2>4. Computes(g, m)
      BY <2>2, <2>3
    <2>5. m \in 0..N
      BY <1>1, <1>3
    <2> QED BY <2>4, <2>5
  <1>4. \E f : Computes(f, N)
    <2> HIDE DEF Good
    <2>1. \A m \in 0..N : m \in Good
      BY <1>1, <1>2, <1>3, Climbing
    <2>2. N \in Good
      BY <1>1, <2>1
    <2> QED BY <2>2 DEF Good
  <1>5. DependencyOrder =
        CollectEach((CHOOSE f : Computes(f, Cardinality(Numbers)))[Cardinality(Numbers)],
                    Sheet, <<>>)
    BY DEF DependencyOrder, Collecting, Sheet
  <1> HIDE DEF Computes
  <1>6. Computes(CHOOSE f : Computes(f, N), N)
    BY <1>4
  <1> QED BY <1>1, <1>5, <1>6 DEF Computes, IsCollecting

\* A number is collected within as many calls as its level is high, and one.
LEMMA CollectBelow ==
    ASSUME CueSheetInv, NEW level, Levels(level), NEW m \in Nat \ {0},
           NEW collect, Collects(collect, level, m - 1),
           NEW number \in Numbers, level[number] < m, NEW result, Closed(result)
    PROVE  Extends(result, Collect(collect, number, result), level, {number}, level[number])
  <1>1. /\ level \in [Numbers -> Int] /\ level[number] \in Int
        /\ Needs(number) \in Seq(Nat) /\ Len(Needs(number)) \in Nat
        /\ DOMAIN Needs(number) = 1..Len(Needs(number))
    BY CueOfNumber, NumbersAreCounted DEF Levels
  <1>2. CASE number \in ToSet(result)
    <2>1. Collect(collect, number, result) = result
      BY <1>2 DEF Collect
    <2> QED BY <1>2, <2>1 DEF Extends
  <1>3. CASE number \notin ToSet(result)
    <2>1. PICK list, top : list = Needs(number) /\ top = level[number] - 1
      OBVIOUS
    <2>2. PICK after : after = CollectEach(collect, list, result)
      OBVIOUS
    <2>3. Collect(collect, number, result) = Append(after, number)
      BY <1>3, <2>1, <2>2 DEF Collect, Needs
    <2>4. \A k \in 1..Len(list) : /\ list[k] \in Numbers /\ level[list[k]] < m - 1
                                  /\ level[list[k]] <= top
      <3> SUFFICES ASSUME NEW k \in 1..Len(list)
                   PROVE  /\ list[k] \in Numbers /\ level[list[k]] < m - 1
                          /\ level[list[k]] <= top
        OBVIOUS
      <3>1. list[k] \in Numbers /\ level[list[k]] < level[number]
        BY <2>1 DEF Levels
      <3>2. level[list[k]] \in Int
        BY <1>1, <3>1
      <3> QED BY <1>1, <2>1, <3>1, <3>2
    <2>5. Extends(result, after, level, ToSet(list), top)
      <3>1. top \in Int /\ list \in Seq(Nat)
        BY <1>1, <2>1
      <3> QED BY <1>1, <2>2, <2>4, <3>1, EachIsCollected
    <2>6. Closed(after) /\ ToSet(result) \subseteq ToSet(after) /\ ToSet(after) \subseteq Numbers
      BY <2>5 DEF Extends, Closed
    <2>7. number \notin ToSet(after)
      BY <1>1, <1>3, <2>1, <2>5 DEF Extends
    <2>8. \A k \in 1..Len(Needs(number)) : Needs(number)[k] \in ToSet(after)
      <3>1. \A k \in 1..Len(Needs(number)) : Needs(number)[k] \in ToSet(list)
        BY <1>1, <2>1 DEF ToSet
      <3> QED BY <2>5, <3>1 DEF Extends
    <2>9. /\ Closed(Append(after, number))
          /\ ToSet(Append(after, number)) = ToSet(after) \cup {number}
      BY <2>6, <2>7, <2>8, AppendCloses
    <2>10. \A other \in ToSet(after) \ ToSet(result) : level[other] <= level[number]
      <3> SUFFICES ASSUME NEW other \in ToSet(after) \ ToSet(result)
                   PROVE  level[other] <= level[number]
        OBVIOUS
      <3>1. level[other] <= top /\ level[other] \in Int
        BY <1>1, <2>5, <2>6 DEF Extends
      <3> QED BY <1>1, <2>1, <3>1
    <2>11. \A other \in ToSet(Append(after, number)) \ ToSet(result) : level[other] <= level[number]
      BY <1>1, <2>9, <2>10
    <2> QED BY <2>3, <2>6, <2>9, <2>11 DEF Extends
  <1> QED BY <1>2, <1>3

\* So every number is collected within as many calls as there are cues.
LEMMA AllCollect ==
    ASSUME CueSheetInv, NEW level, Levels(level), NEW f, IsCollecting(f)
    PROVE  Collects(f[Cardinality(Numbers)], level, Cardinality(Numbers))
  <1>1. PICK N : N = Cardinality(Numbers) /\ N \in Nat
    BY NumbersAreCounted
  <1>2. level \in [Numbers -> 0..(N - 1)]
    BY <1>1 DEF Levels
  <1>3. \A depth \in 0..N : f[depth] = Collecting(f, depth)
    BY <1>1 DEF IsCollecting
  <1> DEFINE Reached(m) == Collects(f[m], level, m)
             Good == {m \in 0..N : Reached(m)}
  <1>4. 0 \in Good
    <2>1. \A number \in Numbers : ~(level[number] < 0)
      BY <1>1, <1>2
    <2>2. Reached(0)
      BY <2>1 DEF Collects
    <2> HIDE DEF Reached
    <2> QED BY <1>1, <2>2
  <1>5. ASSUME NEW m \in 1..N, m - 1 \in Good PROVE m \in Good
    <2>1. PICK collect : collect = f[m - 1]
      OBVIOUS
    <2>2. Collects(collect, level, m - 1)
      BY <1>5, <2>1
    <2>3. f[m] = [number \in Nat |-> [result \in Seq(Nat) |-> Collect(collect, number, result)]]
      <3>1. m \in 0..N /\ m # 0
        BY <1>1, <1>5
      <3>2. f[m] = Collecting(f, m)
        BY <1>3, <3>1
      <3> QED BY <2>1, <3>1, <3>2 DEF Collecting
    <2>4. ASSUME NEW number \in Numbers, NEW result, level[number] < m, Closed(result)
          PROVE  Extends(result, f[m][number][result], level, {number}, level[number])
      <3>1. number \in Nat /\ result \in Seq(Nat) /\ m \in Nat \ {0}
        BY <1>1, <1>5, <2>4, CueOfNumber DEF Closed
      <3>2. f[m][number][result] = Collect(collect, number, result)
        BY <2>3, <3>1
      <3>3. Extends(result, Collect(collect, number, result), level, {number}, level[number])
        BY <2>2, <2>4, <3>1, CollectBelow
      <3> QED BY <3>2, <3>3
    <2>5. Reached(m)
      BY <2>4 DEF Collects
    <2> HIDE DEF Reached
    <2> QED BY <1>1, <1>5, <2>5
  <1>6. \A m \in 0..N : m \in Good
    <2> HIDE DEF Good
    <2> QED BY <1>1, <1>4, <1>5, Climbing
  <1> QED BY <1>1, <1>6

\* The order of a valid sheet.
LEMMA OrderIsThere == CueSheetInv => ValidSheetsHaveAnOrder
  <1> SUFFICES ASSUME CueSheetInv, SheetValid
               PROVE  LET order == DependencyOrder
                      IN  /\ Len(order) = Cardinality(OnCueSheet) /\ ToSet(order) = Numbers
                          /\ \A i \in DOMAIN order :
                                 ToSet(sheetCues[CueOf(order[i])].requires)
                                     \subseteq ToSet(SubSeq(order, 1, i - 1))
    BY DEF ValidSheetsHaveAnOrder
  <1>1. PICK N : N = Cardinality(Numbers) /\ N \in Nat /\ N = Cardinality(OnCueSheet)
    BY NumbersAreCounted
  <1>2. PICK level : Levels(level)
    BY LevelsThere
  <1>3. PICK f : IsCollecting(f) /\ DependencyOrder = CollectEach(f[N], Sheet, <<>>)
    BY <1>1, DependencyOrderIs
  <1>4. PICK collect, order : collect = f[N] /\ order = DependencyOrder
    OBVIOUS
  <1>5. Collects(collect, level, N)
    BY <1>1, <1>2, <1>3, <1>4, AllCollect
  <1>6. Sheet \in Seq(Nat) /\ DOMAIN Sheet = 1..Len(Sheet) /\ ToSet(Sheet) = Numbers
    <2> DEFINE before == {ab \in Numbers \X Numbers : ab[1] < ab[2]}
    <2>1. \A number \in Numbers : number \in Nat
      BY CueOfNumber
    <2>2. Ordered(Numbers, before)
      BY <2>1 DEF Ordered
    <2> HIDE DEF before
    <2>3. Sorts(InOrder(Numbers, before), Numbers, before)
      BY <2>2, NumbersAreCounted, InOrderSorts
    <2>4. Sheet = InOrder(Numbers, before)
      BY DEF Sheet, before
    <2>5. /\ Sheet \in Seq(Numbers) /\ DOMAIN Sheet = 1..Len(Sheet) /\ Len(Sheet) \in Nat
          /\ ToSet(Sheet) = Numbers
      BY <2>3, <2>4 DEF Sorts
    <2>6. PICK s, n : s = Sheet /\ n = Len(Sheet)
      OBVIOUS
    <2>7. n \in Nat /\ s \in [1..n -> Numbers]
      BY <2>5, <2>6
    <2>8. s \in [1..n -> Nat]
      BY <2>1, <2>7
    <2>9. s \in Seq(Nat)
      BY <2>7, <2>8
    <2> QED BY <2>5, <2>6, <2>9
  <1>7. Extends(<<>>, order, level, Numbers, N)
    <2>1. level \in [Numbers -> 0..(N - 1)]
      BY <1>1, <1>2 DEF Levels
    <2>2. level \in [Numbers -> Int] /\ N \in Int
      BY <1>1, <2>1
    <2>3. \A k \in 1..Len(Sheet) : /\ Sheet[k] \in Numbers /\ level[Sheet[k]] < N
                                   /\ level[Sheet[k]] <= N
      <3> SUFFICES ASSUME NEW k \in 1..Len(Sheet)
                   PROVE  /\ Sheet[k] \in Numbers /\ level[Sheet[k]] < N
                          /\ level[Sheet[k]] <= N
        OBVIOUS
      <3>1. Sheet[k] \in Numbers
        BY <1>6 DEF ToSet
      <3>2. level[Sheet[k]] \in 0..(N - 1)
        BY <2>1, <3>1
      <3> QED BY <1>1, <3>1, <3>2
    <2>4. Closed(<<>>)
      BY DEF Closed, ToSet
    <2>5. Extends(<<>>, CollectEach(collect, Sheet, <<>>), level, ToSet(Sheet), N)
      BY <1>5, <1>6, <2>2, <2>3, <2>4, EachIsCollected
    <2> QED BY <1>3, <1>4, <1>6, <2>5
  <1>8. /\ order \in Seq(Nat) /\ Len(order) \in Nat /\ DOMAIN order = 1..Len(order)
        /\ ToSet(order) = Numbers
        /\ \A i, j \in 1..Len(order) : order[i] = order[j] => i = j
        /\ \A i \in 1..Len(order) : \A k \in 1..Len(Needs(order[i])) :
              \E j \in 1..(i - 1) : order[j] = Needs(order[i])[k]
    <2>1. Closed(order) /\ Numbers \subseteq ToSet(order)
      BY <1>7 DEF Extends
    <2> QED BY <2>1 DEF Closed
  <1>9. Len(order) = N
    <2>1. order \in [1..Len(order) -> Numbers] /\ \A number \in Numbers :
                                                      \E i \in 1..Len(order) : order[i] = number
      BY <1>8 DEF ToSet
    <2>2. order \in Injection(1..Len(order), Numbers)
      BY <1>8, <2>1 DEF Injection, IsInjective
    <2>3. order \in Surjection(1..Len(order), Numbers)
      BY <2>1 DEF Surjection
    <2>4. ExistsBijection(1..Len(order), Numbers)
      BY <2>2, <2>3 DEF Bijection, ExistsBijection
    <2> QED BY <1>1, <1>8, <2>4, FS_CountingElements
  <1>10. ASSUME NEW i \in 1..Len(order)
         PROVE  ToSet(Needs(order[i])) \subseteq ToSet(SubSeq(order, 1, i - 1))
    <2>1. order[i] \in Numbers
      BY <1>8 DEF ToSet
    <2>2. PICK list, part : list = Needs(order[i]) /\ part = SubSeq(order, 1, i - 1)
      OBVIOUS
    <2>3. DOMAIN list = 1..Len(list)
      BY <2>1, <2>2, CueOfNumber
    <2>4. DOMAIN part = 1..(i - 1) /\ \A j \in 1..(i - 1) : part[j] = order[j]
      BY <1>8, <2>2
    <2>5. ASSUME NEW k \in 1..Len(list) PROVE list[k] \in ToSet(part)
      <3>1. PICK j \in 1..(i - 1) : order[j] = list[k]
        BY <1>8, <2>2
      <3> QED BY <2>4, <3>1 DEF ToSet
    <2>6. ToSet(list) \subseteq ToSet(part)
      BY <2>3, <2>5 DEF ToSet
    <2> QED BY <2>2, <2>6
  <1> QED BY <1>1, <1>4, <1>8, <1>9, <1>10 DEF Needs

\* Whatever was added, renumbered and removed: when the sheet is valid, its dependency order
\* has each cue once, after all it requires.
THEOREM OrderStays == DaySpec => []ValidSheetsHaveAnOrder
  <1>1. DayInit => CueSheetInit
    BY DEF DayInit
  <1>2. [DayNext]_dayVars => [CueSheetNext]_cueSheetVars
    BY DEF DayNext, dayVars, cueSheetVars
  <1> QED BY <1>1, <1>2, CueSheetStart, CueSheetStep, OrderIsThere, PTL DEF DaySpec

-----------------------------------------------------------------------------
(***************************************************************************)
(* The audit trail.  That the chain verifies is kept only because a batch  *)
(* that is open began within it: what a failed batch leaves is the part    *)
(* that was there before, and the first part of a valid chain is valid.    *)
(***************************************************************************)
AuditInv ==
    /\ trail \in Seq({trail[k] : k \in DOMAIN trail})
    /\ Len(trail) <= MaxEvents
    /\ Valid(trail)
    /\ batch # NoBatch => batch \in 0..Len(trail)
    /\ file # NoFile => "faults" \in DOMAIN file /\ file.faults \in 0..MaxFaults
    /\ "query" \in DOMAIN reader /\ reader.query \in Resources \cup {EveryResource}

\* The digest an event of a list follows on is that of the event before it.
LEMMA HeadOfFirst ==
    ASSUME NEW S, NEW events \in Seq(S), NEW n \in 1..Len(events) + 1
    PROVE  HeadDigest(SubSeq(events, 1, n - 1))
               = IF n = 1 THEN Genesis ELSE events[n - 1].digest
  <1> DEFINE before == SubSeq(events, 1, n - 1)
  <1>1. Len(before) = n - 1 /\ \A k \in 1..n - 1 : before[k] = events[k]
    OBVIOUS
  <1>2. before = <<>> <=> n = 1
    <2>1. n = 1 => before = <<>>
      OBVIOUS
    <2> QED BY <1>1, <2>1
  <1> HIDE DEF before
  <1> QED BY <1>1, <1>2 DEF HeadDigest, before

\* What verify looks at, event by event.
Follows(events, n) ==
    /\ events[n].sequence = n
    /\ events[n].previous_hash = IF n = 1 THEN Genesis ELSE events[n - 1].digest
    /\ events[n].digest = Digest(HashPayload(events[n]))
    /\ n > 1 => events[n - 1].occurred_at <= events[n].occurred_at

\* verify accepts a trail whose events follow on each other one by one.
LEMMA ValidIsFollows ==
    ASSUME NEW S, NEW events \in Seq(S)
    PROVE  Valid(events) <=> \A n \in 1..Len(events) : Follows(events, n)
  <1>1. DOMAIN events = 1..Len(events)
    OBVIOUS
  <1>2. ASSUME NEW n \in 1..Len(events)
        PROVE  HeadDigest(SubSeq(events, 1, n - 1))
                   = IF n = 1 THEN Genesis ELSE events[n - 1].digest
    <2>1. n \in 1..Len(events) + 1
      OBVIOUS
    <2> QED BY <2>1, HeadOfFirst
  <1> QED BY <1>1, <1>2 DEF Valid, Follows

\* The first events of a valid list are valid.
LEMMA FirstPartIsValid ==
    ASSUME NEW S, NEW events \in Seq(S), Valid(events), NEW k \in 0..Len(events)
    PROVE  Valid(SubSeq(events, 1, k))
  <1> DEFINE part == SubSeq(events, 1, k)
  <1>1. part \in Seq(S) /\ Len(part) = k /\ \A n \in 1..k : part[n] = events[n]
    OBVIOUS
  <1>2. ASSUME NEW n \in 1..k PROVE Follows(part, n)
    <2>1. Follows(events, n)
      BY ValidIsFollows
    <2>2. part[n] = events[n] /\ (n > 1 => part[n - 1] = events[n - 1])
      BY <1>1
    <2> HIDE DEF part
    <2> QED BY <2>1, <2>2 DEF Follows
  <1> HIDE DEF part
  <1> QED BY <1>1, <1>2, ValidIsFollows DEF part

\* The event record makes follows on the trail, and its digest is that of its payload.
LEMMA EventFollows ==
    ASSUME NEW entry, NEW occurred_at
    PROVE  LET event == Event(entry, occurred_at)
           IN  /\ event.sequence = Len(trail) + 1
               /\ event.previous_hash = HeadDigest(trail)
               /\ event.digest = Digest(HashPayload(event))
               /\ event.occurred_at = occurred_at
  <1> DEFINE payload == [sequence |-> Len(trail) + 1, occurred_at |-> occurred_at,
                    action |-> entry.action, outcome |-> entry.outcome,
                    resource |-> entry.resource, reason |-> entry.reason,
                    before |-> Sanitize(entry.before), after |-> Sanitize(entry.after),
                    previous_hash |-> HeadDigest(trail)]
             event == [f \in DOMAIN payload \cup {"digest"} |->
                          IF f = "digest" THEN Digest(payload) ELSE payload[f]]
  <1>1. Event(entry, occurred_at) = event
    BY DEF Event
  <1>2. "digest" \notin DOMAIN payload
    OBVIOUS
  <1>3. payload = [f \in DOMAIN payload |-> payload[f]]
    OBVIOUS
  <1>4. {"sequence", "previous_hash", "occurred_at"} \subseteq DOMAIN payload
    OBVIOUS
  <1>5. /\ payload.sequence = Len(trail) + 1 /\ payload.previous_hash = HeadDigest(trail)
        /\ payload.occurred_at = occurred_at
    OBVIOUS
  <1> HIDE DEF payload
  <1>6. HashPayload(event) = payload
    BY <1>2, <1>3 DEF HashPayload
  <1>7. event.digest = Digest(payload)
    OBVIOUS
  <1>8. /\ event.sequence = payload.sequence /\ event.previous_hash = payload.previous_hash
        /\ event.occurred_at = payload.occurred_at
    BY <1>4
  <1> QED BY <1>1, <1>5, <1>6, <1>7, <1>8

\* An event that is recorded goes to the end of the chain, and no earlier than the last.
LEMMA RecordKeeps ==
    ASSUME AuditInv, NEW entry \in Entries, NEW occurred_at \in RecordTimes,
           Record(entry, occurred_at)
    PROVE  AuditInv'
  <1>1. PICK event : event = Event(entry, occurred_at)
    OBVIOUS
  <1>2. PICK S : S = {trail[k] : k \in DOMAIN trail} \cup {event}
    OBVIOUS
  <1>3. /\ trail \in Seq(S) /\ event \in S /\ trail' = Append(trail, event)
        /\ UNCHANGED <<batch, file, restored, reader>> /\ Len(trail) < MaxEvents
        /\ trail # <<>> => trail[Len(trail)].occurred_at <= occurred_at
    BY <1>1, <1>2 DEF AuditInv, Record, Acceptable
  <1>4. /\ trail' \in Seq(S) /\ Len(trail') = Len(trail) + 1 /\ trail'[Len(trail) + 1] = event
        /\ \A n \in 1..Len(trail) : trail'[n] = trail[n]
    BY <1>3
  <1>5. ASSUME NEW n \in 1..Len(trail) PROVE Follows(trail', n)
    <2>1. Follows(trail, n)
      BY <1>3, ValidIsFollows DEF AuditInv
    <2>2. trail'[n] = trail[n] /\ (n > 1 => trail'[n - 1] = trail[n - 1])
      BY <1>3, <1>4
    <2> QED BY <2>1, <2>2 DEF Follows
  <1>6. Follows(trail', Len(trail) + 1)
    <2>1. /\ event.sequence = Len(trail) + 1 /\ event.previous_hash = HeadDigest(trail)
          /\ event.digest = Digest(HashPayload(event)) /\ event.occurred_at = occurred_at
      BY <1>1, EventFollows
    <2>2. Len(trail) \in Nat /\ (trail = <<>> <=> Len(trail) = 0)
      BY <1>3
    <2>3. Len(trail) > 0 => trail'[Len(trail)] = trail[Len(trail)]
      BY <1>4, <2>2
    <2>4. HeadDigest(trail) = IF Len(trail) + 1 = 1 THEN Genesis ELSE trail'[Len(trail)].digest
      BY <2>2, <2>3 DEF HeadDigest
    <2>5. PICK n : n = Len(trail) + 1
      OBVIOUS
    <2>6. n - 1 = Len(trail) /\ (n > 1 <=> Len(trail) > 0) /\ (n > 1 => trail # <<>>)
      BY <2>2, <2>5
    <2>7. trail'[n] = event
      BY <1>4, <2>5
    <2>8. n > 1 => trail'[n - 1].occurred_at <= trail'[n].occurred_at
      BY <1>3, <2>1, <2>3, <2>6, <2>7
    <2>9. trail'[n].previous_hash = IF n = 1 THEN Genesis ELSE trail'[n - 1].digest
      BY <2>1, <2>4, <2>5, <2>6, <2>7
    <2> QED BY <2>1, <2>5, <2>7, <2>8, <2>9 DEF Follows
  <1>7. Valid(trail')
    <2>1. \A n \in 1..Len(trail') : Follows(trail', n)
      BY <1>3, <1>4, <1>5, <1>6
    <2> QED BY <1>4, <2>1, ValidIsFollows
  <1>8. trail' \in Seq({trail'[k] : k \in DOMAIN trail'})
    BY <1>4
  <1>9. Len(trail') <= MaxEvents /\ Len(trail) \in Nat
    BY <1>3, <1>4, AuditAssumption
  <1> QED BY <1>3, <1>4, <1>7, <1>8, <1>9 DEF AuditInv

\* What a batch that fails leaves is the chain as it was when the batch was opened.
LEMMA FailBatchKeeps ==
    ASSUME AuditInv, NEW entry \in Entries, NEW occurred_at \in RecordTimes,
           FailBatch(entry, occurred_at)
    PROVE  AuditInv'
  <1>1. PICK S : S = {trail[k] : k \in DOMAIN trail}
    OBVIOUS
  <1>2. /\ trail \in Seq(S) /\ batch \in 0..Len(trail) /\ trail' = SubSeq(trail, 1, batch)
        /\ batch' = NoBatch /\ UNCHANGED <<file, restored, reader>>
    BY <1>1 DEF AuditInv, FailBatch
  <1>3. trail' \in Seq(S) /\ Len(trail') = batch
    BY <1>2
  <1>4. Valid(trail')
    BY <1>2, FirstPartIsValid DEF AuditInv
  <1>5. trail' \in Seq({trail'[k] : k \in DOMAIN trail'})
    BY <1>3
  <1>6. Len(trail') <= MaxEvents
    BY <1>2, <1>3, AuditAssumption DEF AuditInv
  <1> QED BY <1>2, <1>4, <1>5, <1>6 DEF AuditInv

\* The other steps record nothing and cut nothing off.
LEMMA ReadingKeepsTrail ==
    ASSUME AuditInv,
           \/ OpenBatch \/ CloseBatch \/ ReadPage \/ Import
           \/ \E query \in Resources \cup {EveryResource} : StartReading(query) \/ Export(query)
           \/ \E lines : file # NoFile /\ Fault(lines)
           \/ UNCHANGED auditVars
    PROVE  AuditInv'
  <1>1. trail' = trail
    BY DEF OpenBatch, CloseBatch, ReadPage, Import, StartReading, Export, Fault, auditVars
  <1>2. batch' = batch \/ batch' = Len(trail) \/ batch' = NoBatch
    BY DEF OpenBatch, CloseBatch, ReadPage, Import, StartReading, Export, Fault, auditVars
  <1>3. file' # NoFile => "faults" \in DOMAIN file' /\ file'.faults \in 0..MaxFaults
    <2>1. CASE file' = file
      BY <2>1 DEF AuditInv
    <2>2. ASSUME NEW query, Export(query)
          PROVE  "faults" \in DOMAIN file' /\ file'.faults \in 0..MaxFaults
      BY <2>2, AuditAssumption DEF Export
    <2>3. ASSUME NEW lines, Fault(lines)
          PROVE  "faults" \in DOMAIN file' /\ file'.faults \in 0..MaxFaults
      <3>1. /\ "faults" \in DOMAIN file /\ file.faults \in 0..MaxFaults
            /\ file.faults < MaxFaults
            /\ file' = [file EXCEPT !.lines = lines, !.faults = @ + 1]
        BY <2>3 DEF Fault, AuditInv
      <3>2. "faults" \in DOMAIN file' /\ file'.faults = file.faults + 1
        BY <3>1
      <3> QED BY <3>1, <3>2, AuditAssumption
    <2> QED BY <2>1, <2>2, <2>3 DEF OpenBatch, CloseBatch, ReadPage, Import, StartReading, auditVars
  <1>4. "query" \in DOMAIN reader' /\ reader'.query \in Resources \cup {EveryResource}
    <2>1. CASE reader' = reader
      BY <2>1 DEF AuditInv
    <2>2. ASSUME NEW query \in Resources \cup {EveryResource}, reader' = NewReader(query)
          PROVE  "query" \in DOMAIN reader' /\ reader'.query \in Resources \cup {EveryResource}
      BY <2>2 DEF NewReader
    <2>3. ASSUME ReadPage
          PROVE  "query" \in DOMAIN reader' /\ reader'.query \in Resources \cup {EveryResource}
      <3>1. PICK page : reader' = [reader EXCEPT !.seen = @ \o page.events, !.done = ~page.has_more,
                                                 !.after_sequence = page.next_sequence]
        BY <2>3 DEF ReadPage
      <3>2. "query" \in DOMAIN reader' /\ reader'.query = reader.query
        BY <3>1 DEF AuditInv
      <3> QED BY <3>2 DEF AuditInv
    <2>4. \/ reader' = reader \/ ReadPage
          \/ \E query \in Resources \cup {EveryResource} : reader' = NewReader(query)
      BY DEF OpenBatch, CloseBatch, Import, StartReading, Export, Fault, auditVars
    <2> QED BY <2>1, <2>2, <2>3, <2>4
  <1>5. Len(trail) \in Nat
    BY DEF AuditInv
  <1> QED BY <1>1, <1>2, <1>3, <1>4, <1>5 DEF AuditInv

\* The trail starts empty, and with nothing to verify.
LEMMA AuditStart == AuditInit => AuditInv
  <1> SUFFICES ASSUME AuditInit PROVE AuditInv
    OBVIOUS
  <1>1. trail = <<>> /\ Len(trail) = 0 /\ DOMAIN trail = {}
    BY DEF AuditInit
  <1>2. trail \in Seq({trail[k] : k \in DOMAIN trail}) /\ Valid(trail)
    BY <1>1 DEF Valid
  <1> QED BY <1>1, <1>2, AuditAssumption DEF AuditInit, AuditInv, NewReader

\* Recording, failing a batch and everything else keep the invariant.
LEMMA AuditStep == AuditInv /\ [AuditNext]_auditVars => AuditInv'
  <1> SUFFICES ASSUME AuditInv, [AuditNext]_auditVars PROVE AuditInv'
    OBVIOUS
  <1>1. CASE AuditNext
    <2>1. ASSUME NEW k, NEW l, NEW resource,
                 \/ LoseLine(k) \/ RepeatLine(k) \/ ExchangeLines(k, l)
                 \/ GarbleLine(k, resource)
          PROVE  \E lines : Fault(lines)
      BY <2>1 DEF LoseLine, RepeatLine, ExchangeLines, GarbleLine
    <2> QED BY <1>1, <2>1, RecordKeeps, FailBatchKeeps, ReadingKeepsTrail DEF AuditNext
  <1> QED BY <1>1, ReadingKeepsTrail

\* The invariant gives the types of the trail and that it verifies.
LEMMA InvVerifies == AuditInv => ChainVerifies
  <1> SUFFICES ASSUME AuditInv PROVE ChainVerifies
    OBVIOUS
  <1>1. Len(trail) \in Nat /\ Len(trail) <= MaxEvents /\ MaxEvents \in Nat
    BY AuditAssumption DEF AuditInv
  <1>2. batch \in 0..MaxEvents \cup {NoBatch}
    BY <1>1 DEF AuditInv
  <1> QED BY <1>1, <1>2 DEF AuditInv, AuditTypeOK, ChainVerifies

\* The chain verifies after every step, for any entries and any batches that fail.
THEOREM TrailVerifies == DaySpec => []ChainVerifies
  <1>1. DayInit => AuditInit
    BY DEF DayInit
  <1>2. [DayNext]_dayVars => [AuditNext]_auditVars
    BY DEF DayNext, dayVars, auditVars
  <1> QED BY <1>1, <1>2, AuditStart, AuditStep, InvVerifies, PTL DEF DaySpec

-----------------------------------------------------------------------------
(***************************************************************************)
(* What is read of the trail.  Pages, queries and exports are lists of the *)
(* events at some places of it, each once and in order (Lists): there is   *)
(* one such list of given places (ListsAgree), lists join (ListsJoin), and *)
(* the loop over the events makes it (ChosenLists).                        *)
(***************************************************************************)
\* What is kept of the first n events.
KeptOf(f, events, places, n) ==
    IF n = 0 THEN <<>>
    ELSE IF n \in places THEN Append(f[n - 1], events[n]) ELSE f[n - 1]

\* The loop over the events is defined: what is kept after each of them follows from what
\* was kept before it.
LEMMA ChosenIs ==
    ASSUME NEW events, Len(events) \in Nat, NEW places
    PROVE  \E f : /\ f = [n \in 0..Len(events) |-> KeptOf(f, events, places, n)]
                  /\ Chosen(events, places) = f[Len(events)]
  <1> DEFINE Keeps(f, m) == f = [n \in 0..m |-> KeptOf(f, events, places, n)]
             Good == {m \in 0..Len(events) : \E f : Keeps(f, m)}
  <1>1. 0 \in Good
    <2>1. Keeps([n \in 0..0 |-> <<>>], 0)
      BY DEF KeptOf
    <2> QED BY <2>1
  <1>2. ASSUME NEW m \in 1..Len(events), m - 1 \in Good
        PROVE  m \in Good
    <2>1. PICK f : Keeps(f, m - 1)
      BY <1>2
    <2> DEFINE g == [n \in 0..m |-> IF n = m THEN KeptOf(f, events, places, m) ELSE f[n]]
    <2>2. ASSUME NEW n \in 0..m PROVE g[n] = KeptOf(g, events, places, n)
      <3>1. n = m => g[n] = KeptOf(f, events, places, n) /\ g[n - 1] = f[n - 1]
        BY <1>2
      <3>2. n # m => g[n] = KeptOf(f, events, places, n) /\ (n # 0 => g[n - 1] = f[n - 1])
        BY <1>2, <2>1
      <3> HIDE DEF g
      <3> QED BY <3>1, <3>2 DEF KeptOf
    <2>3. g = [n \in 0..m |-> g[n]]
      OBVIOUS
    <2> HIDE DEF g
    <2>4. Keeps(g, m)
      BY <2>2, <2>3
    <2> QED BY <2>4
  <1>3. \E f : Keeps(f, Len(events))
    <2> HIDE DEF Good
    <2>1. \A m \in 0..Len(events) : m \in Good
      BY <1>1, <1>2, Climbing
    <2> QED BY <2>1 DEF Good
  <1>4. Chosen(events, places) = (CHOOSE f : Keeps(f, Len(events)))[Len(events)]
    BY DEF Chosen, KeptOf
  <1> HIDE DEF Keeps
  <1>5. Keeps(CHOOSE f : Keeps(f, Len(events)), Len(events))
    BY <1>3
  <1> QED BY <1>4, <1>5 DEF Keeps

\* place takes the first m positions to the numbers of P, each once and in order.
CountsOff(m, place, P) ==
    /\ m \in Nat /\ place \in [1..m -> P]
    /\ \A i, j \in 1..m : i < j => place[i] < place[j]
    /\ \A p \in P : \E i \in 1..m : place[i] = p

\* c holds the events at the places of P, each once and in order.
Lists(c, events, P) ==
    \E m, place : CountsOff(m, place, P) /\ c = [i \in 1..m |-> events[place[i]]]

\* A list by places is a sequence.
LEMMA ListIsSeq ==
    ASSUME NEW m \in Nat, NEW place, NEW events
    PROVE  LET c == [i \in 1..m |-> events[place[i]]]
           IN  /\ c \in Seq({c[i] : i \in 1..m}) /\ Len(c) = m /\ DOMAIN c = 1..m
               /\ \A i \in 1..m : c[i] = events[place[i]]
  OBVIOUS

\* Nothing is listed of no places.
LEMMA EmptyList == ASSUME NEW events PROVE Lists(<<>>, events, {})
  <1>1. CountsOff(0, <<>>, {})
    <2>1. <<>> \in [1..0 -> {}]
      OBVIOUS
    <2> QED BY <2>1 DEF CountsOff
  <1>2. <<>> = [i \in 1..0 |-> events[<<>>[i]]]
    OBVIOUS
  <1> QED BY <1>1, <1>2 DEF Lists

\* Numbers are counted off in one way only: as far as one of two ways gets, they agree.
LEMMA PlacesAgree ==
    ASSUME NEW P \in SUBSET Nat, NEW m, NEW p, CountsOff(m, p, P), NEW k, NEW q, CountsOff(k, q, P)
    PROVE  m <= k /\ \A i \in 1..m : p[i] = q[i]
  <1> DEFINE Same(n) == n <= k /\ \A i \in 1..n : p[i] = q[i]
             Good == {n \in 0..m : Same(n)}
  <1>0. m \in Nat /\ k \in Nat /\ p \in [1..m -> Nat] /\ q \in [1..k -> Nat]
    BY DEF CountsOff
  <1>1. 0 \in Good
    BY <1>0
  <1>2. ASSUME NEW n \in 1..m, n - 1 \in Good
        PROVE  n \in Good
    <2>1. n - 1 <= k /\ \A i \in 1..n - 1 : p[i] = q[i]
      BY <1>2
    <2>2. PICK j \in 1..k : q[j] = p[n]
      BY <1>0 DEF CountsOff
    <2>3. j >= n
      <3> SUFFICES ASSUME j < n PROVE FALSE
        BY <1>0
      <3>1. j \in 1..n - 1 /\ j \in 1..m
        BY <1>0
      <3>2. p[j] = p[n] /\ p[j] < p[n] /\ p[n] \in Nat
        BY <1>0, <2>1, <2>2, <3>1 DEF CountsOff
      <3> QED BY <3>2
    <2>4. n \in 1..k
      BY <1>0, <2>3
    <2>5. PICK l \in 1..m : p[l] = q[n]
      BY <1>0, <2>4 DEF CountsOff
    <2>6. l >= n
      <3> SUFFICES ASSUME l < n PROVE FALSE
        BY <1>0
      <3>1. l \in 1..n - 1 /\ l \in 1..k
        BY <1>0, <2>4
      <3>2. q[l] = q[n] /\ q[l] < q[n] /\ q[n] \in Nat
        BY <1>0, <2>1, <2>4, <2>5, <3>1 DEF CountsOff
      <3> QED BY <3>2
    <2>7. q[n] <= q[j] /\ p[n] <= p[l]
      <3>1. n = j \/ n < j
        BY <1>0, <2>3
      <3>2. n = l \/ n < l
        BY <1>0, <2>6
      <3>3. q[n] \in Nat /\ q[j] \in Nat /\ p[n] \in Nat /\ p[l] \in Nat
        BY <1>0, <2>4
      <3> QED BY <2>4, <3>1, <3>2, <3>3 DEF CountsOff
    <2>8. p[n] = q[n]
      BY <1>0, <2>2, <2>4, <2>5, <2>7
    <2>9. Same(n)
      <3>1. \A i \in 1..n : i \in 1..n - 1 \/ i = n
        BY <1>0
      <3> QED BY <1>0, <2>1, <2>4, <2>8, <3>1
    <2> QED BY <1>0, <2>9
  <1>3. m \in Good
    <2> HIDE DEF Good
    <2>1. \A n \in 0..m : n \in Good
      BY <1>0, <1>1, <1>2, Climbing
    <2> QED BY <1>0, <2>1
  <1> QED BY <1>3

\* There is one list of the events at given places.
LEMMA ListsAgree ==
    ASSUME NEW P \in SUBSET Nat, NEW events, NEW c, Lists(c, events, P),
           NEW d, Lists(d, events, P)
    PROVE  c = d
  <1>1. PICK m, p : CountsOff(m, p, P) /\ c = [i \in 1..m |-> events[p[i]]]
    BY DEF Lists
  <1>2. PICK k, q : CountsOff(k, q, P) /\ d = [i \in 1..k |-> events[q[i]]]
    BY DEF Lists
  <1>3. CountsOff(m, p, P) /\ CountsOff(k, q, P)
    BY <1>1, <1>2
  <1>5. m <= k /\ \A i \in 1..m : p[i] = q[i]
    BY <1>3, PlacesAgree
  <1>6. k <= m
    BY <1>3, PlacesAgree
  <1>4. m = k
    BY <1>3, <1>5, <1>6 DEF CountsOff
  <1> QED BY <1>1, <1>2, <1>4, <1>5

\* A list of events that are the same is the same.
LEMMA ListsSame ==
    ASSUME NEW P, NEW events, NEW other, \A p \in P : events[p] = other[p],
           NEW c, Lists(c, events, P)
    PROVE  Lists(c, other, P)
  <1>1. PICK m, p : CountsOff(m, p, P) /\ c = [i \in 1..m |-> events[p[i]]]
    BY DEF Lists
  <1>2. \A i \in 1..m : p[i] \in P
    BY <1>1 DEF CountsOff
  <1>3. c = [i \in 1..m |-> other[p[i]]]
    BY <1>1, <1>2
  <1>4. CountsOff(m, p, P)
    BY <1>1
  <1> QED BY <1>3, <1>4 DEF Lists

\* Two lists, the places of one below those of the other, make one.
LEMMA ListsJoin ==
    ASSUME NEW P \in SUBSET Nat, NEW Q \in SUBSET Nat, \A x \in P, y \in Q : x < y,
           NEW events, NEW c, Lists(c, events, P), NEW d, Lists(d, events, Q)
    PROVE  Lists(c \o d, events, P \cup Q)
  <1>1. PICK m, p : CountsOff(m, p, P) /\ c = [i \in 1..m |-> events[p[i]]]
    BY DEF Lists
  <1>2. PICK k, q : CountsOff(k, q, Q) /\ d = [i \in 1..k |-> events[q[i]]]
    BY DEF Lists
  <1>3. m \in Nat /\ k \in Nat /\ p \in [1..m -> P] /\ q \in [1..k -> Q]
    BY <1>1, <1>2 DEF CountsOff
  <1> DEFINE r == [i \in 1..m + k |-> IF i <= m THEN p[i] ELSE q[i - m]]
  <1>4. ASSUME NEW i \in 1..m + k
        PROVE  /\ i <= m => i \in 1..m /\ r[i] = p[i] /\ r[i] \in P
               /\ ~ (i <= m) => i - m \in 1..k /\ r[i] = q[i - m] /\ r[i] \in Q
    BY <1>3
  <1>5. CountsOff(m + k, r, P \cup Q)
    <2>1. r \in [1..m + k -> P \cup Q]
      <3>1. \A i \in 1..m + k : r[i] \in P \cup Q
        BY <1>4
      <3> QED BY <3>1
    <2>2. ASSUME NEW i \in 1..m + k, NEW j \in 1..m + k, i < j
          PROVE  r[i] < r[j]
      <3> HIDE DEF r
      <3>1. CASE j <= m
        <4>1. i <= m /\ i \in 1..m /\ j \in 1..m
          BY <1>3, <2>2, <3>1
        <4>2. p[i] < p[j]
          BY <1>1, <2>2, <4>1 DEF CountsOff
        <4> QED BY <1>4, <3>1, <4>1, <4>2
      <3>2. CASE i <= m /\ ~ (j <= m)
        BY <1>4, <3>2
      <3>3. CASE ~ (i <= m)
        <4>1. ~ (j <= m)
          BY <1>3, <2>2, <3>3
        <4>2. i - m \in 1..k /\ j - m \in 1..k /\ i - m < j - m
          BY <1>3, <1>4, <2>2, <3>3, <4>1
        <4>3. q[i - m] < q[j - m]
          BY <1>2, <4>2 DEF CountsOff
        <4> QED BY <1>4, <3>3, <4>1, <4>3
      <3> QED BY <3>1, <3>2, <3>3
    <2>3. ASSUME NEW x \in P \cup Q
          PROVE  \E i \in 1..m + k : r[i] = x
      <3>1. CASE x \in P
        <4>1. PICK i \in 1..m : p[i] = x
          BY <1>1, <3>1 DEF CountsOff
        <4>2. i \in 1..m + k /\ r[i] = p[i]
          BY <1>3, <4>1
        <4> HIDE DEF r
        <4> QED BY <4>1, <4>2
      <3>2. CASE x \in Q
        <4>1. PICK i \in 1..k : q[i] = x
          BY <1>2, <3>2 DEF CountsOff
        <4>2. i + m \in 1..m + k /\ r[i + m] = q[i]
          <5>1. i + m \in 1..m + k /\ ~ (i + m <= m) /\ (i + m) - m = i
            BY <1>3, <4>1
          <5> QED BY <5>1
        <4> HIDE DEF r
        <4> QED BY <4>1, <4>2
      <3> QED BY <3>1, <3>2
    <2> HIDE DEF r
    <2> QED BY <1>3, <2>1, <2>2, <2>3 DEF CountsOff
  <1>6. c \o d = [i \in 1..m + k |-> events[r[i]]]
    <2>1. /\ c \in Seq({c[i] : i \in 1..m}) /\ Len(c) = m
          /\ \A i \in 1..m : c[i] = events[p[i]]
      BY <1>1, <1>3, ListIsSeq
    <2>2. /\ d \in Seq({d[i] : i \in 1..k}) /\ Len(d) = k
          /\ \A i \in 1..k : d[i] = events[q[i]]
      BY <1>2, <1>3, ListIsSeq
    <2>3. PICK S : S = {c[i] : i \in 1..m} \cup {d[i] : i \in 1..k}
      OBVIOUS
    <2>4. c \in Seq(S) /\ d \in Seq(S)
      BY <2>1, <2>2, <2>3
    <2>5. c \o d \in Seq(S) /\ Len(c \o d) = m + k
      <3>1. Len(c \o d) = Len(c) + Len(d)
        BY <2>4
      <3> QED BY <2>1, <2>2, <2>4, <3>1
    <2>6. ASSUME NEW i \in 1..m + k PROVE (c \o d)[i] = events[r[i]]
      <3>1. CASE i <= m
        <4>1. (c \o d)[i] = c[i]
          BY <1>3, <2>1, <2>2, <2>4, <3>1
        <4> HIDE DEF r
        <4> QED BY <1>4, <2>1, <3>1, <4>1
      <3>2. CASE ~ (i <= m)
        <4>1. (c \o d)[i] = d[i - m]
          BY <1>3, <2>1, <2>2, <2>4, <3>2
        <4> HIDE DEF r
        <4> QED BY <1>4, <2>2, <3>2, <4>1
      <3> QED BY <3>1, <3>2
    <2>7. c \o d = [i \in 1..m + k |-> (c \o d)[i]]
      <3>1. PICK b : b = c \o d
        OBVIOUS
      <3>2. b \in Seq(S) /\ Len(b) = m + k
        BY <2>5, <3>1
      <3>3. b = [i \in 1..m + k |-> b[i]]
        BY <3>2
      <3> QED BY <3>1, <3>3
    <2> HIDE DEF r
    <2> QED BY <2>6, <2>7
  <1> HIDE DEF r
  <1>7. PICK n, b : n = m + k /\ b = c \o d
    OBVIOUS
  <1>8. CountsOff(n, r, P \cup Q) /\ b = [i \in 1..n |-> events[r[i]]]
    BY <1>5, <1>6, <1>7
  <1>9. Lists(b, events, P \cup Q)
    BY <1>8 DEF Lists
  <1> QED BY <1>7, <1>9

\* The first part of a list is a list of the places up to that of its last event.
LEMMA ListsFirst ==
    ASSUME NEW P \in SUBSET Nat, NEW m, NEW p, CountsOff(m, p, P), NEW t \in 1..m,
           NEW events, NEW c, c = [i \in 1..m |-> events[p[i]]]
    PROVE  Lists(SubSeq(c, 1, t), events, {x \in P : x <= p[t]})
  <1>1. m \in Nat /\ p \in [1..m -> Nat] /\ t \in 1..m /\ \A i \in 1..m : p[i] \in P
    BY DEF CountsOff
  <1> DEFINE part == [i \in 1..t |-> p[i]]
             R == {x \in P : x <= p[t]}
  <1>2. CountsOff(t, part, R)
    <2>1. ASSUME NEW i \in 1..t PROVE part[i] \in R
      <3>1. i \in 1..m /\ (i = t \/ i < t)
        BY <1>1
      <3>2. p[i] <= p[t] /\ p[i] \in P
        BY <1>1, <3>1 DEF CountsOff
      <3> QED BY <3>2
    <2>2. ASSUME NEW i \in 1..t, NEW j \in 1..t, i < j PROVE part[i] < part[j]
      <3>1. i \in 1..m /\ j \in 1..m
        BY <1>1
      <3> QED BY <2>2, <3>1 DEF CountsOff
    <2>3. ASSUME NEW x \in R PROVE \E i \in 1..t : part[i] = x
      <3>1. PICK i \in 1..m : p[i] = x
        BY DEF CountsOff
      <3>2. i <= t
        <4> SUFFICES ASSUME t < i PROVE FALSE
          BY <1>1
        <4>1. p[t] < p[i] /\ p[i] <= p[t]
          BY <1>1, <3>1 DEF CountsOff
        <4> QED BY <1>1, <4>1
      <3>3. i \in 1..t
        BY <1>1, <3>2
      <3> QED BY <3>1, <3>3
    <2>4. part \in [1..t -> R] /\ t \in Nat
      <3> HIDE DEF R
      <3> QED BY <1>1, <2>1
    <2> HIDE DEF part, R
    <2> QED BY <2>1, <2>2, <2>3, <2>4 DEF CountsOff
  <1>3. SubSeq(c, 1, t) = [i \in 1..t |-> events[part[i]]]
    <2>5. m \in Nat /\ t \in 1..m
      BY <1>1
    <2>6. c \in Seq({c[i] : i \in 1..m})
      <3> HIDE DEF part, R
      <3> QED BY <2>5, ListIsSeq
    <2>7. PICK S : S = {c[i] : i \in 1..m}
      OBVIOUS
    <2>1. c \in Seq(S) /\ Len(c) = m /\ \A i \in 1..m : c[i] = events[p[i]]
      BY <2>5, <2>6, <2>7
    <2>2. /\ Len(SubSeq(c, 1, t)) = t /\ DOMAIN SubSeq(c, 1, t) = 1..t
          /\ \A i \in 1..t : SubSeq(c, 1, t)[i] = c[i]
          /\ SubSeq(c, 1, t) \in Seq(S)
      <3> HIDE DEF part, R
      <3> QED BY <2>1, <2>5
    <2>3. \A i \in 1..t : SubSeq(c, 1, t)[i] = events[part[i]]
      BY <1>1, <2>1, <2>2
    <2>4. SubSeq(c, 1, t) = [i \in 1..t |-> SubSeq(c, 1, t)[i]]
      BY <2>2
    <2> HIDE DEF part
    <2> QED BY <2>3, <2>4
  <1> HIDE DEF part, R
  <1>4. Lists(SubSeq(c, 1, t), events, R)
    BY <1>2, <1>3 DEF Lists
  <1> QED BY <1>4 DEF R

\* The loop lists the events at the places.
LEMMA ChosenLists ==
    ASSUME NEW events, Len(events) \in Nat, NEW P \in SUBSET (1..Len(events))
    PROVE  Lists(Chosen(events, P), events, P)
  <1>1. PICK f : /\ f = [n \in 0..Len(events) |-> KeptOf(f, events, P, n)]
                 /\ Chosen(events, P) = f[Len(events)]
    BY ChosenIs
  <1> DEFINE Upto(n) == {x \in P : x <= n}
             Good == {n \in 0..Len(events) : Lists(f[n], events, Upto(n))}
  <1>0. \A x \in P : x \in Nat /\ 1 <= x /\ x <= Len(events)
    OBVIOUS
  <1>2. \A n \in 0..Len(events) : f[n] = KeptOf(f, events, P, n)
    BY <1>1
  <1>3. 0 \in Good
    <2>0. 0 \in 0..Len(events)
      OBVIOUS
    <2>1. f[0] = <<>>
      BY <1>2, <2>0 DEF KeptOf
    <2>3. Upto(0) = {}
      <3>1. \A x \in P : ~ (x <= 0)
        BY <1>0
      <3> QED BY <3>1
    <2>2. Lists(f[0], events, Upto(0))
      BY <2>1, <2>3, EmptyList
    <2> HIDE DEF Upto
    <2> QED BY <2>0, <2>2
  <1>4. ASSUME NEW n \in 1..Len(events), n - 1 \in Good
        PROVE  n \in Good
    <2>1. Lists(f[n - 1], events, Upto(n - 1)) /\ n \in 0..Len(events)
      BY <1>4
    <2>4. f[n] = KeptOf(f, events, P, n) /\ n # 0
      BY <1>2, <2>1
    <2>2. CASE n \notin P
      <3>1. f[n] = f[n - 1]
        BY <2>2, <2>4 DEF KeptOf
      <3>2. Upto(n) = Upto(n - 1)
        <4>1. \A x \in P : x <= n <=> x <= n - 1
          BY <1>0, <2>2
        <4> QED BY <4>1
      <3> HIDE DEF Upto
      <3> QED BY <2>1, <3>1, <3>2
    <2>3. CASE n \in P
      <3>1. f[n] = Append(f[n - 1], events[n])
        BY <2>3, <2>4 DEF KeptOf
      <3>2. Lists(<<events[n]>>, events, {n})
        <4>1. CountsOff(1, <<n>>, {n})
          <5>1. <<n>> \in [1..1 -> {n}] /\ 1 \in Nat
            OBVIOUS
          <5>2. \A i, j \in 1..1 : ~ (i < j)
            OBVIOUS
          <5>3. \A p \in {n} : \E i \in 1..1 : <<n>>[i] = p
            OBVIOUS
          <5> QED BY <5>1, <5>2, <5>3 DEF CountsOff
        <4>2. <<events[n]>> = [i \in 1..1 |-> events[<<n>>[i]]]
          OBVIOUS
        <4> QED BY <4>1, <4>2 DEF Lists
      <3>3. Upto(n - 1) \in SUBSET Nat /\ {n} \in SUBSET Nat
        <4>1. \A x \in Upto(n - 1) : x \in Nat
          BY <1>0
        <4> HIDE DEF Upto
        <4> QED BY <4>1
      <3>7. \A x \in Upto(n - 1), y \in {n} : x < y
        BY <1>0
      <3>4. Upto(n - 1) \cup {n} = Upto(n)
        <4>1. \A x \in P : x <= n <=> x <= n - 1 \/ x = n
          BY <1>0
        <4>2. n <= n
          OBVIOUS
        <4> QED BY <2>3, <4>1, <4>2
      <3>5. f[n] = f[n - 1] \o <<events[n]>>
        <4>1. PICK m, p : CountsOff(m, p, Upto(n - 1)) /\ f[n - 1] = [i \in 1..m |-> events[p[i]]]
          BY <2>1 DEF Lists
        <4>2. m \in Nat
          BY <4>1 DEF CountsOff
        <4>3. f[n - 1] \in Seq({f[n - 1][i] : i \in 1..m})
          BY <4>1, <4>2, ListIsSeq
        <4>4. PICK c : c = f[n - 1]
          OBVIOUS
        <4>5. PICK S : S = {c[i] : i \in 1..m} \cup {events[n]}
          OBVIOUS
        <4>6. c \in Seq(S) /\ events[n] \in S
          BY <4>3, <4>4, <4>5
        <4>7. Append(c, events[n]) = c \o <<events[n]>>
          BY <4>6
        <4> QED BY <3>1, <4>4, <4>7
      <3> HIDE DEF Upto
      <3>6. Lists(f[n - 1] \o <<events[n]>>, events, Upto(n - 1) \cup {n})
        BY <2>1, <3>2, <3>3, <3>7, ListsJoin
      <3> QED BY <2>1, <3>4, <3>5, <3>6
    <2> QED BY <2>2, <2>3
  <1>5. Len(events) \in Good
    <2> HIDE DEF Good
    <2>1. \A n \in 0..Len(events) : n \in Good
      BY <1>3, <1>4, Climbing
    <2> QED BY <2>1
  <1>6. Upto(Len(events)) = P
    BY <1>0
  <1> HIDE DEF Upto
  <1> QED BY <1>1, <1>5, <1>6

-----------------------------------------------------------------------------
(***************************************************************************)
(* Import.  A line that verifies in its place has the number of that place *)
(* and the digest of an event with that number, so it is that event, which *)
(* must have been exported; and as many lines as events exported, all of   *)
(* them the first of the trail, are the export.  The reader.  What was     *)
(* shown ends before the place a batch may be cut off at, so it is never   *)
(* cut off, and the next page goes on where the last one ended.            *)
(***************************************************************************)
IsEvent(event) ==
    /\ event = [f \in DOMAIN event |-> event[f]]
    /\ {"sequence", "digest", "resource"} \subseteq DOMAIN event
    /\ event.resource \in Resources

Queries == Resources \cup {EveryResource}

\* What faults can make of the lines of an export.
Garbled(query) ==
    {[trail[n] EXCEPT !.resource = x] : n \in Matches(query), x \in Resources}

FileInv ==
    /\ \A n \in DOMAIN trail : IsEvent(trail[n])
    /\ file # NoFile =>
           /\ batch = NoBatch
           /\ \E query \in Queries, faults \in 0..MaxFaults :
                  \E lines \in Seq(Garbled(query)) :
                      file = [count |-> Len(Query(query)), lines |-> lines,
                              faults |-> faults, exported |-> Query(query),
                              query |-> query]
    /\ restored # NoFile => restored = file.exported

\* As far as the chain can no longer be cut off.
Settled == IF batch = NoBatch THEN Len(trail) ELSE batch

ReaderInv ==
    \E query \in Queries, after \in Nat : \E seen, done :
        /\ reader = [query |-> query, after_sequence |-> after, seen |-> seen, done |-> done]
        /\ ~done => /\ after <= Settled
                    /\ Lists(seen, trail, {n \in Matches(query) : n <= after})

\* The places of a query are places of the trail.
LEMMA MatchesAre ==
    ASSUME AuditInv, NEW query
    PROVE  /\ Matches(query) \in SUBSET (1..Len(trail)) /\ Matches(query) \in SUBSET Nat
           /\ Len(trail) \in Nat
           /\ Lists(Query(query), trail, Matches(query))
           /\ \A n \in Matches(query) : trail[n].sequence = n
  <1>1. PICK S : trail \in Seq(S)
    BY DEF AuditInv
  <1>2. Len(trail) \in Nat /\ DOMAIN trail = 1..Len(trail)
    BY <1>1
  <1>3. Matches(query) \in SUBSET (1..Len(trail))
    BY <1>2 DEF Matches
  <1>4. Matches(query) \in SUBSET Nat
    <2>1. \A n \in Matches(query) : n \in Nat
      BY <1>2 DEF Matches
    <2> QED BY <2>1
  <1>5. Lists(Query(query), trail, Matches(query))
    BY <1>2, <1>3, ChosenLists DEF Query
  <1>6. \A n \in DOMAIN trail : trail[n].sequence = n
    BY DEF AuditInv, Valid
  <1>7. \A n \in Matches(query) : trail[n].sequence = n
    BY <1>6 DEF Matches
  <1> QED BY <1>2, <1>3, <1>4, <1>5, <1>7

\* What record makes is an event.
LEMMA EventIs ==
    ASSUME NEW entry \in Entries, NEW occurred_at
    PROVE  IsEvent(Event(entry, occurred_at))
  <1> DEFINE payload == [sequence |-> Len(trail) + 1, occurred_at |-> occurred_at,
                    action |-> entry.action, outcome |-> entry.outcome,
                    resource |-> entry.resource, reason |-> entry.reason,
                    before |-> Sanitize(entry.before), after |-> Sanitize(entry.after),
                    previous_hash |-> HeadDigest(trail)]
             event == [f \in DOMAIN payload \cup {"digest"} |->
                          IF f = "digest" THEN Digest(payload) ELSE payload[f]]
  <1>1. Event(entry, occurred_at) = event
    BY DEF Event
  <1>2. {"sequence", "resource"} \subseteq DOMAIN payload /\ payload.resource = entry.resource
    OBVIOUS
  <1>3. entry.resource \in Resources
    BY AuditAssumption DEF Entry
  <1> HIDE DEF payload
  <1>4. event = [f \in DOMAIN event |-> event[f]]
    OBVIOUS
  <1>5. DOMAIN event = DOMAIN payload \cup {"digest"} /\ event.resource = payload.resource
    BY <1>2
  <1> HIDE DEF event
  <1> QED BY <1>1, <1>2, <1>3, <1>4, <1>5 DEF IsEvent

\* A list of events of which the first m are all there counts them from one.
LEMMA PlacesFromOne ==
    ASSUME NEW P \in SUBSET Nat, NEW m, NEW p, CountsOff(m, p, P), 0 \notin P, 1..m \subseteq P
    PROVE  \A i \in 1..m : p[i] = i
  <1> DEFINE Good == {n \in 0..m : \A i \in 1..n : p[i] = i}
  <1>0. m \in Nat /\ p \in [1..m -> Nat] /\ \A i \in 1..m : p[i] \in P
    BY DEF CountsOff
  <1>1. 0 \in Good
    BY <1>0
  <1>2. ASSUME NEW n \in 1..m, n - 1 \in Good
        PROVE  n \in Good
    <2>1. \A i \in 1..n - 1 : p[i] = i
      BY <1>2
    <2>2. PICK j \in 1..m : p[j] = n
      BY DEF CountsOff
    <2>3. j >= n
      <3> SUFFICES ASSUME j < n PROVE FALSE
        BY <1>0
      <3>1. j \in 1..n - 1
        BY <1>0
      <3> QED BY <1>0, <2>1, <2>2, <3>1
    <2>4. p[n] <= n
      <3>1. n = j \/ n < j
        BY <1>0, <2>3
      <3>2. p[n] \in Nat /\ p[j] \in Nat
        BY <1>0
      <3>3. n < j => p[n] < p[j]
        BY DEF CountsOff
      <3> QED BY <2>2, <3>1, <3>2, <3>3
    <2>5. p[n] >= n
      <3>1. CASE n = 1
        <4>1. p[n] \in Nat /\ p[n] # 0
          BY <1>0
        <4> QED BY <3>1, <4>1
      <3>2. CASE n # 1
        <4>1. n - 1 \in 1..m /\ n - 1 \in 1..n - 1 /\ n - 1 < n
          BY <1>0, <3>2
        <4>2. p[n - 1] = n - 1 /\ p[n - 1] < p[n] /\ p[n] \in Nat
          BY <1>0, <2>1, <4>1 DEF CountsOff
        <4> QED BY <1>0, <4>2
      <3> QED BY <3>1, <3>2
    <2>6. p[n] = n
      BY <1>0, <2>4, <2>5
    <2>7. \A i \in 1..n : i \in 1..n - 1 \/ i = n
      BY <1>0
    <2> QED BY <1>0, <2>1, <2>6, <2>7
  <1>3. m \in Good
    <2> HIDE DEF Good
    <2>1. \A n \in 0..m : n \in Good
      BY <1>0, <1>1, <1>2, Climbing
    <2> QED BY <1>0, <2>1
  <1> QED BY <1>3

\* A line that verifies in its place is the event of that place, whatever was garbled.
LEMMA LineIsEvent ==
    ASSUME AuditInv, FileInv, NEW query, NEW line \in Garbled(query), NEW k,
           line.sequence = k, line.digest = Digest(HashPayload(line))
    PROVE  k \in Matches(query) /\ line = trail[k]
  <1>1. PICK n \in Matches(query), x \in Resources : line = [trail[n] EXCEPT !.resource = x]
    BY DEF Garbled
  <1>2. PICK event : event = trail[n]
    OBVIOUS
  <1>3. IsEvent(event) /\ event.sequence = n /\ event.digest = Digest(HashPayload(event))
    BY <1>2 DEF FileInv, AuditInv, Valid, Matches
  <1>4. line = [event EXCEPT !.resource = x]
    BY <1>1, <1>2
  <1>5. /\ DOMAIN line = DOMAIN event /\ line.sequence = event.sequence
        /\ line.digest = event.digest /\ line.resource = x
    BY <1>3, <1>4 DEF IsEvent
  <1>6. HashPayload(line) = HashPayload(event)
    BY <1>3, <1>5 DEF Digest
  <1>7. HashPayload(line)["resource"] = x /\ HashPayload(event)["resource"] = event.resource
    BY <1>3, <1>5 DEF HashPayload, IsEvent
  <1>8. x = event.resource
    BY <1>6, <1>7
  <1>9. line = event
    BY <1>3, <1>4, <1>8 DEF IsEvent
  <1> QED BY <1>2, <1>3, <1>5, <1>9

\* What import accepts are the events that were exported.
LEMMA AcceptedIsExported ==
    ASSUME AuditInv, FileInv, NEW query, NEW lines \in Seq(Garbled(query)),
           Len(lines) = Len(Query(query)), Valid(lines)
    PROVE  lines = Query(query)
  <1>1. PICK m, p : /\ CountsOff(m, p, Matches(query))
                    /\ Query(query) = [i \in 1..m |-> trail[p[i]]]
    BY MatchesAre DEF Lists
  <1>2. m \in Nat
    BY <1>1 DEF CountsOff
  <1>3. Len(Query(query)) = m
    BY <1>1, <1>2, ListIsSeq
  <1>4. Len(lines) = m /\ DOMAIN lines = 1..m /\ \A k \in 1..m : lines[k] \in Garbled(query)
    BY <1>3
  <1>5. ASSUME NEW k \in 1..m
        PROVE  k \in Matches(query) /\ lines[k] = trail[k]
    <2>1. lines[k].sequence = k /\ lines[k].digest = Digest(HashPayload(lines[k]))
      BY <1>4 DEF Valid
    <2> QED BY <1>4, <2>1, LineIsEvent
  <1>6. Matches(query) \in SUBSET Nat /\ 0 \notin Matches(query)
    BY MatchesAre
  <1>7. 1..m \subseteq Matches(query)
    BY <1>5
  <1>8. \A i \in 1..m : p[i] = i
    BY <1>1, <1>6, <1>7, PlacesFromOne
  <1>9. lines = [i \in 1..m |-> lines[i]]
    BY <1>4
  <1> QED BY <1>1, <1>5, <1>8, <1>9

-----------------------------------------------------------------------------
\* While a file is out the trail rests, and so does what it was exported from.
LEMMA RestingFileKept ==
    ASSUME FileInv, UNCHANGED <<trail, batch, file>>, restored' = restored \/ restored' = NoFile
    PROVE  FileInv'
  <1>1. \A query : Query(query)' = Query(query) /\ Garbled(query)' = Garbled(query)
    BY DEF Query, Garbled, Matches
  <1> QED BY <1>1 DEF FileInv

\* A fault garbles, loses, repeats or exchanges lines: it makes no new ones.
LEMMA FaultKeepsFile ==
    ASSUME AuditInv, FileInv, file # NoFile,
           \E k \in DOMAIN file.lines :
              \/ LoseLine(k) \/ RepeatLine(k)
              \/ \E l \in DOMAIN file.lines : k < l /\ ExchangeLines(k, l)
              \/ \E resource \in Resources \ {file.lines[k].resource} : GarbleLine(k, resource)
    PROVE  FileInv'
  <1>1. PICK query \in Queries, faults \in 0..MaxFaults :
            \E lines \in Seq(Garbled(query)) :
                file = [count |-> Len(Query(query)), lines |-> lines,
                        faults |-> faults, exported |-> Query(query),
                        query |-> query]
    BY DEF FileInv
  <1>2. PICK S, count, exported :
            S = Garbled(query) /\ count = Len(Query(query)) /\ exported = Query(query)
    OBVIOUS
  <1>3. PICK lines \in Seq(S) :
            file = [count |-> count, lines |-> lines, faults |-> faults,
                    exported |-> exported, query |-> query]
    BY <1>1, <1>2
  <1>4. file.lines = lines /\ file.faults = faults
    BY <1>3
  <1>5. ASSUME NEW line \in S, NEW x \in Resources
        PROVE  [line EXCEPT !.resource = x] \in S
    <2>1. PICK n \in Matches(query), y \in Resources : line = [trail[n] EXCEPT !.resource = y]
      BY <1>2, <1>5 DEF Garbled
    <2>2. PICK event : event = trail[n]
      OBVIOUS
    <2>3. line = [event EXCEPT !.resource = y] /\ event = [f \in DOMAIN event |-> event[f]]
      BY <2>1, <2>2 DEF FileInv, IsEvent, Matches
    <2>4. [line EXCEPT !.resource = x] = [event EXCEPT !.resource = x]
      BY <2>3
    <2> QED BY <1>2, <1>5, <2>2, <2>4 DEF Garbled
  <1>6. PICK new \in Seq(S) : Fault(new)
    <2>1. PICK k \in DOMAIN lines :
              \/ Fault(RemoveAt(lines, k))
              \/ Fault(InsertAt(lines, k, lines[k]))
              \/ \E l \in DOMAIN lines :
                     Fault([lines EXCEPT ![k] = lines[l], ![l] = lines[k]])
              \/ \E x \in Resources : Fault([lines EXCEPT ![k].resource = x])
      BY <1>4 DEF LoseLine, RepeatLine, ExchangeLines, GarbleLine
    <2>2. k \in 1..Len(lines) /\ lines[k] \in S /\ Len(lines) \in Nat
      BY <1>3, <2>1
    <2>3. RemoveAt(lines, k) \in Seq(S)
      BY <2>2 DEF RemoveAt
    <2>4. InsertAt(lines, k, lines[k]) \in Seq(S)
      BY <2>2 DEF InsertAt
    <2>5. ASSUME NEW l \in DOMAIN lines
          PROVE  [lines EXCEPT ![k] = lines[l], ![l] = lines[k]] \in Seq(S)
      BY <2>2
    <2>6. ASSUME NEW x \in Resources
          PROVE  [lines EXCEPT ![k].resource = x] \in Seq(S)
      <3>1. PICK line : line = [lines[k] EXCEPT !.resource = x]
        OBVIOUS
      <3>2. [lines EXCEPT ![k].resource = x] = [lines EXCEPT ![k] = line]
        BY <3>1
      <3>3. line \in S
        BY <1>5, <2>2, <3>1
      <3>4. [lines EXCEPT ![k] = line] \in Seq(S)
        BY <2>2, <3>3
      <3> QED BY <3>2, <3>4
    <2> QED BY <2>1, <2>3, <2>4, <2>5, <2>6
  <1>7. /\ file' = [file EXCEPT !.lines = new, !.faults = @ + 1]
        /\ faults < MaxFaults /\ restored = NoFile /\ UNCHANGED <<trail, batch, restored>>
    BY <1>4, <1>6 DEF Fault
  <1>8. file' = [count |-> count, lines |-> new, faults |-> faults + 1,
                 exported |-> exported, query |-> query]
    BY <1>3, <1>7
  <1>9. faults + 1 \in 0..MaxFaults
    BY <1>7, AuditAssumption
  <1>10. Query(query)' = exported /\ Garbled(query)' = S
    BY <1>2, <1>7 DEF Query, Garbled, Matches
  <1>11. /\ batch' = NoBatch /\ restored' = NoFile
         /\ \A n \in DOMAIN trail' : IsEvent(trail'[n])
    BY <1>7 DEF FileInv
  <1>12. Len(Query(query)') = count
    BY <1>2, <1>10
  <1> QED BY <1>3, <1>8, <1>9, <1>10, <1>11, <1>12 DEF FileInv

\* An export lists the events of the query as they are.
LEMMA ExportKeepsFile ==
    ASSUME AuditInv, FileInv, NEW query \in Queries, Export(query)
    PROVE  FileInv'
  <1>1. PICK S, exported : S = Garbled(query) /\ exported = Query(query)
    OBVIOUS
  <1>2. PICK m, p : /\ CountsOff(m, p, Matches(query))
                    /\ exported = [i \in 1..m |-> trail[p[i]]]
    BY <1>1, MatchesAre DEF Lists
  <1>3. m \in Nat /\ \A i \in 1..m : p[i] \in Matches(query)
    BY <1>2 DEF CountsOff
  <1>4. ASSUME NEW i \in 1..m
        PROVE  trail[p[i]] \in S
    <2>1. PICK event : event = trail[p[i]]
      OBVIOUS
    <2>2. IsEvent(event)
      BY <1>3, <2>1 DEF FileInv, Matches
    <2>3. event = [event EXCEPT !.resource = event.resource] /\ event.resource \in Resources
      BY <2>2 DEF IsEvent
    <2> QED BY <1>1, <1>3, <2>1, <2>3 DEF Garbled
  <1>5. exported \in Seq(S)
    <2>1. exported \in [1..m -> S]
      BY <1>2, <1>4
    <2> QED BY <1>3, <2>1
  <1>6. /\ file' = [count |-> Len(exported), lines |-> exported, faults |-> 0,
                    exported |-> exported, query |-> query]
        /\ restored' = NoFile /\ batch = NoBatch /\ UNCHANGED <<trail, batch>>
    BY <1>1 DEF Export
  <1>7. Query(query)' = exported /\ Garbled(query)' = S
    BY <1>1, <1>6 DEF Query, Garbled, Matches
  <1>8. Len(Query(query)') = Len(exported)
    BY <1>7
  <1>9. 0 \in 0..MaxFaults
    BY AuditAssumption
  <1>10. \A n \in DOMAIN trail' : IsEvent(trail'[n])
    BY <1>6 DEF FileInv
  <1> QED BY <1>5, <1>6, <1>7, <1>8, <1>9, <1>10 DEF FileInv

\* Import restores what was exported, or nothing.
LEMMA ImportKeepsFile ==
    ASSUME AuditInv, FileInv, Import
    PROVE  FileInv'
  <1>1. PICK query \in Queries, faults \in 0..MaxFaults :
            \E lines \in Seq(Garbled(query)) :
                file = [count |-> Len(Query(query)), lines |-> lines,
                        faults |-> faults, exported |-> Query(query),
                        query |-> query]
    BY DEF FileInv, Import
  <1>2. PICK count, exported : count = Len(Query(query)) /\ exported = Query(query)
    OBVIOUS
  <1>3. PICK lines \in Seq(Garbled(query)) :
            file = [count |-> count, lines |-> lines, faults |-> faults,
                    exported |-> exported, query |-> query]
    BY <1>1, <1>2
  <1>4. file.lines = lines /\ file.count = count /\ file.exported = exported
    BY <1>3
  <1>5. /\ count = Len(lines) /\ Valid(lines) /\ restored' = lines
        /\ UNCHANGED <<trail, batch, file>>
    BY <1>4 DEF Import
  <1>6. lines = exported
    BY <1>2, <1>5, AcceptedIsExported
  <1>7. \A q : Query(q)' = Query(q) /\ Garbled(q)' = Garbled(q)
    BY <1>5 DEF Query, Garbled, Matches
  <1>8. restored' = file'.exported
    BY <1>4, <1>5, <1>6
  <1> QED BY <1>5, <1>7, <1>8 DEF FileInv

\* Events are recorded and cut off only while no file is out.
LEMMA TrailKeepsFile ==
    ASSUME AuditInv, FileInv,
           \E entry \in Entries, occurred_at \in RecordTimes :
               Record(entry, occurred_at) \/ FailBatch(entry, occurred_at)
    PROVE  FileInv'
  <1>1. PICK entry \in Entries, occurred_at \in RecordTimes :
            Record(entry, occurred_at) \/ FailBatch(entry, occurred_at)
    OBVIOUS
  <1>2. UNCHANGED <<file, restored>> /\ file = NoFile
    BY <1>1 DEF Record, FailBatch, FileInv
  <1>3. PICK S : trail \in Seq(S)
    BY DEF AuditInv
  <1>4. CASE Record(entry, occurred_at)
    <2>1. PICK event : event = Event(entry, occurred_at)
      OBVIOUS
    <2>2. IsEvent(event) /\ trail' = Append(trail, event)
      BY <1>4, <2>1, EventIs DEF Record
    <2>3. \A n \in DOMAIN trail' : \/ n \in DOMAIN trail /\ trail'[n] = trail[n]
                                  \/ trail'[n] = event
      BY <1>3, <2>2
    <2> QED BY <1>2, <2>2, <2>3 DEF FileInv
  <1>5. CASE FailBatch(entry, occurred_at)
    <2>1. trail' = SubSeq(trail, 1, batch) /\ batch \in 0..Len(trail)
      BY <1>5 DEF FailBatch, AuditInv
    <2>2. \A n \in DOMAIN trail' : n \in DOMAIN trail /\ trail'[n] = trail[n]
      BY <1>3, <2>1
    <2> QED BY <1>2, <2>2 DEF FileInv
  <1> QED BY <1>1, <1>4, <1>5

\* Every step keeps the file.
LEMMA FileStep == AuditInv /\ FileInv /\ [AuditNext]_auditVars => FileInv'
  <1> SUFFICES ASSUME AuditInv, FileInv, [AuditNext]_auditVars PROVE FileInv'
    OBVIOUS
  <1>1. CASE UNCHANGED auditVars
    BY <1>1, RestingFileKept DEF auditVars
  <1>2. CASE OpenBatch
    BY <1>2 DEF OpenBatch, FileInv
  <1>3. CASE CloseBatch
    BY <1>3 DEF CloseBatch, FileInv
  <1>4. ASSUME NEW query, StartReading(query) PROVE FileInv'
    BY <1>4, RestingFileKept DEF StartReading
  <1>5. CASE ReadPage
    BY <1>5, RestingFileKept DEF ReadPage
  <1> QED BY <1>1, <1>2, <1>3, <1>4, <1>5, TrailKeepsFile, ExportKeepsFile, FaultKeepsFile,
             ImportKeepsFile DEF AuditNext, Queries

\* The invariant gives that nothing but what was exported is imported.
LEMMA FileInvRestores == FileInv => ImportedIsExported
  BY DEF FileInv, ImportedIsExported

-----------------------------------------------------------------------------
\* A reader who starts has seen nothing yet, and there is nothing before the start.
LEMMA NewReaderKept ==
    ASSUME AuditInv, NEW query \in Queries, reader' = NewReader(query),
           UNCHANGED <<trail, batch>>
    PROVE  ReaderInv'
  <1>1. PICK places : places = {n \in Matches(query) : n <= 0}
    OBVIOUS
  <1>2. places = {}
    <2>1. \A n \in Matches(query) : n \in 1..Len(trail) /\ Len(trail) \in Nat
      BY MatchesAre
    <2>2. \A n \in Matches(query) : ~ (n <= 0)
      BY <2>1
    <2> QED BY <1>1, <2>2
  <1>3. Lists(<<>>, trail', places)
    BY <1>2, EmptyList
  <1>4. {n \in Matches(query)' : n <= 0} = places
    BY <1>1 DEF Matches
  <1>5. 0 <= Settled'
    BY DEF Settled, AuditInv
  <1>6. reader' = [query |-> query, after_sequence |-> 0, seen |-> <<>>, done |-> FALSE]
    BY DEF NewReader
  <1> QED BY <1>3, <1>4, <1>5, <1>6 DEF ReaderInv

\* What a reader has seen stays, whatever comes after it and is cut off after it.
LEMMA RestingReaderKept ==
    ASSUME AuditInv, ReaderInv, reader' = reader, Len(trail') \in Nat,
           DOMAIN trail' = 1..Len(trail'), Settled <= Settled', Settled' <= Len(trail'),
           Settled' \in Nat, \A n \in 1..Settled : trail'[n] = trail[n]
    PROVE  ReaderInv'
  <1>1. PICK query \in Queries, after \in Nat : \E seen, done :
            /\ reader = [query |-> query, after_sequence |-> after, seen |-> seen, done |-> done]
            /\ ~done => /\ after <= Settled
                        /\ Lists(seen, trail, {n \in Matches(query) : n <= after})
    BY DEF ReaderInv
  <1>2. PICK seen, done :
            /\ reader = [query |-> query, after_sequence |-> after, seen |-> seen, done |-> done]
            /\ ~done => /\ after <= Settled
                        /\ Lists(seen, trail, {n \in Matches(query) : n <= after})
    BY <1>1
  <1>3. ASSUME ~done
        PROVE  /\ after <= Settled'
               /\ Lists(seen, trail', {n \in Matches(query)' : n <= after})
    <2>1. Settled \in Nat /\ Settled <= Len(trail) /\ DOMAIN trail = 1..Len(trail)
          /\ Len(trail) \in Nat
      BY DEF Settled, AuditInv
    <2>2. PICK before : before = {n \in Matches(query) : n <= after}
      OBVIOUS
    <2>3. \A n \in before : n \in 1..Settled /\ trail[n] = trail'[n]
      BY <1>2, <1>3, <2>1, <2>2 DEF Matches
    <2>4. Lists(seen, trail', before)
      BY <1>2, <1>3, <2>2, <2>3, ListsSame
    <2>5. {n \in Matches(query)' : n <= after} = before
      <3>1. ASSUME NEW n \in Nat, n <= after
            PROVE  n \in Matches(query) <=> n \in Matches(query)'
        <4>1. n \in DOMAIN trail <=> n \in 1..Settled
          BY <1>2, <1>3, <2>1, <3>1
        <4>2. n \in DOMAIN trail' <=> n \in 1..Settled
          BY <1>2, <1>3, <2>1, <3>1
        <4> QED BY <4>1, <4>2 DEF Matches
      <3>2. \A n \in Matches(query) : n \in Nat
        BY <2>1 DEF Matches
      <3>3. \A n \in Matches(query)' : n \in Nat
        BY DEF Matches
      <3> QED BY <2>2, <3>1, <3>2, <3>3
    <2>6. after <= Settled'
      <3>1. after <= Settled
        BY <1>2, <1>3
      <3> QED BY <2>1, <3>1
    <2>7. Lists(seen, trail', {n \in Matches(query)' : n <= after})
      BY <2>4, <2>5
    <2> QED BY <2>6, <2>7
  <1> QED BY <1>2, <1>3 DEF ReaderInv

\* The next page goes on where the last one ended.
LEMMA PageGoesOn ==
    ASSUME AuditInv, NEW query \in Queries, NEW after \in Nat, NEW seen, NEW done,
           reader = [query |-> query, after_sequence |-> after, seen |-> seen, done |-> done],
           ~done, Lists(seen, trail, {n \in Matches(query) : n <= after}), ReadPage
    PROVE  /\ reader'.query = query
           /\ reader'.done => reader'.seen = Query(query)
           /\ ~reader'.done =>
                  reader'.seen = Chosen(trail, {n \in Matches(query) :
                                                    n <= reader'.after_sequence})
           /\ ReaderInv'
  <1>1. PICK M, P, Q : /\ M = Matches(query) /\ P = {n \in M : n <= after}
                       /\ Q = {n \in M : n > after}
    OBVIOUS
  <1>2. /\ Len(trail) \in Nat /\ M \in SUBSET Nat /\ P \in SUBSET Nat /\ Q \in SUBSET Nat
        /\ M \in SUBSET (1..Len(trail)) /\ Q \in SUBSET (1..Len(trail))
        /\ \A n \in M : n \in Nat /\ n <= Len(trail) /\ trail[n].sequence = n
    <2>1. M \in SUBSET Nat /\ M \in SUBSET (1..Len(trail)) /\ Len(trail) \in Nat
      BY <1>1, MatchesAre
    <2>2. P \in SUBSET M /\ Q \in SUBSET M
      BY <1>1
    <2>3. \A n \in M : n \in Nat /\ n <= Len(trail)
      BY <2>1
    <2>4. \A n \in M : trail[n].sequence = n
      BY <1>1, MatchesAre
    <2> QED BY <2>1, <2>2, <2>3, <2>4
  <1>3. P \cup Q = M /\ \A x \in P, y \in Q : x < y
    <2>1. \A n \in M : n <= after \/ n > after
      BY <1>2
    <2>2. \A x \in P, y \in Q : x < y
      BY <1>1, <1>2
    <2> QED BY <1>1, <2>1, <2>2
  <1>4. PICK selected : selected = Chosen(trail, Q)
    OBVIOUS
  <1>5. Lists(selected, trail, Q) /\ Lists(seen, trail, P)
    BY <1>1, <1>2, <1>4, ChosenLists
  <1>6. PICK m, p : CountsOff(m, p, Q) /\ selected = [i \in 1..m |-> trail[p[i]]]
    BY <1>5 DEF Lists
  <1>7. m \in Nat /\ Len(selected) = m /\ p \in [1..m -> Q]
    BY <1>6, ListIsSeq DEF CountsOff
  <1>14. selected \in Seq({selected[i] : i \in 1..m})
    <2>1. selected = [i \in 1..m |-> trail[p[i]]]
      BY <1>6
    <2> QED BY <1>7, <2>1, ListIsSeq
  <1>8. Page(query, after) = PageOf(selected)
    <2>1. {n \in M : trail[n].sequence > after} = Q
      <3>1. \A n \in M : trail[n].sequence = n
        BY <1>2
      <3> QED BY <1>1, <3>1
    <2> QED BY <1>1, <1>4, <2>1 DEF Page
  <1>9. PICK page : page = PageOf(selected)
    OBVIOUS
  <1>10. reader' = [query |-> query, after_sequence |-> page.next_sequence,
                    seen |-> seen \o page.events, done |-> ~page.has_more]
    <2>1. reader.query = query /\ reader.after_sequence = after
      OBVIOUS
    <2>2. reader' = [reader EXCEPT !.seen = @ \o page.events, !.done = ~page.has_more,
                                   !.after_sequence = page.next_sequence]
      BY <1>8, <1>9, <2>1 DEF ReadPage
    <2> QED BY <2>2
  <1>11. UNCHANGED <<trail, batch>> /\ batch = NoBatch
    BY DEF ReadPage
  <1>12. CASE m > PageLimit
    <2>1. PageLimit \in 1..m
      BY <1>7, <1>12, AuditAssumption
    <2>2. PICK part, upto : part = SubSeq(selected, 1, PageLimit) /\ upto = p[PageLimit]
      OBVIOUS
    <2>3. Lists(part, trail, {x \in Q : x <= upto})
      BY <1>2, <1>6, <2>1, <2>2, ListsFirst
    <2>4. Len(part) = PageLimit /\ part[PageLimit] = trail[upto] /\ upto \in Q
      <3>2. Len(part) = PageLimit /\ part[PageLimit] = selected[PageLimit]
        BY <1>7, <1>14, <2>1, <2>2
      <3> QED BY <1>6, <1>7, <2>1, <2>2, <3>2
    <2>5. page.events = part /\ page.has_more = TRUE /\ page.next_sequence = upto
      <3>1. page = [events |-> part, has_more |-> TRUE, next_sequence |-> part[PageLimit].sequence]
        BY <1>7, <1>9, <1>12, <2>2, <2>4 DEF PageOf
      <3>2. trail[upto].sequence = upto
        BY <1>1, <1>2, <2>4
      <3> QED BY <2>4, <3>1, <3>2
    <2>6. PICK R : R = {x \in Q : x <= upto}
      OBVIOUS
    <2>7. R \in SUBSET Nat /\ \A x \in P, y \in R : x < y
      BY <1>2, <1>3, <2>6
    <2>8. P \cup R = {n \in M : n <= upto}
      <3>1. upto \in Nat /\ after < upto
        BY <1>1, <1>2, <2>4
      <3>2. \A n \in P : n <= upto
        BY <1>1, <1>2, <3>1
      <3> QED BY <1>1, <1>3, <2>6, <3>2
    <2>9. Lists(seen \o part, trail, P \cup R)
      BY <1>2, <1>5, <2>3, <2>6, <2>7, ListsJoin
    <2>10. PICK T : T = {n \in M : n <= upto}
      OBVIOUS
    <2>11. T \in SUBSET (1..Len(trail)) /\ T \in SUBSET Nat
      BY <1>2, <2>10
    <2>12. seen \o part = Chosen(trail, T)
      <3>1. Lists(Chosen(trail, T), trail, T)
        BY <1>2, <2>11, ChosenLists
      <3>2. Lists(seen \o part, trail, T)
        BY <2>8, <2>9, <2>10
      <3> QED BY <2>11, <3>1, <3>2, ListsAgree
    <2>13. reader' = [query |-> query, after_sequence |-> upto, seen |-> seen \o part,
                      done |-> FALSE]
      BY <1>10, <2>5
    <2>14. ReaderInv'
      <3>1. upto \in Nat /\ upto <= Settled'
        BY <1>1, <1>2, <1>11, <2>4 DEF Settled
      <3>2. Lists(seen \o part, trail', {n \in Matches(query)' : n <= upto})
        <4>1. Matches(query)' = M /\ trail' = trail
          BY <1>1, <1>11 DEF Matches
        <4> QED BY <2>8, <2>9, <4>1
      <3> QED BY <2>13, <3>1, <3>2 DEF ReaderInv
    <2>15. reader'.query = query /\ ~reader'.done
      BY <2>13
    <2>16. reader'.seen = Chosen(trail, T) /\ reader'.after_sequence = upto
      BY <2>12, <2>13
    <2> QED BY <1>1, <2>10, <2>14, <2>15, <2>16
  <1>13. CASE ~ (m > PageLimit)
    <2>1. (Len(selected) > PageLimit) = FALSE
      BY <1>7, <1>13
    <2>2. SubSeq(selected, 1, Len(selected)) = selected
      BY <1>14
    <2>3. page = [events |-> selected, has_more |-> FALSE, next_sequence |-> 0]
      BY <1>9, <2>1, <2>2 DEF PageOf
    <2>4. reader' = [query |-> query, after_sequence |-> 0, seen |-> seen \o selected,
                     done |-> TRUE]
      BY <1>10, <2>3
    <2>5. Lists(seen \o selected, trail, M)
      <3>1. Lists(seen \o selected, trail, P \cup Q)
        BY <1>2, <1>3, <1>5, ListsJoin
      <3> QED BY <1>3, <3>1
    <2>6. seen \o selected = Query(query)
      <3>1. Lists(Query(query), trail, M)
        BY <1>1, MatchesAre
      <3> QED BY <1>2, <2>5, <3>1, ListsAgree
    <2>7. ReaderInv'
      BY <2>4 DEF ReaderInv
    <2>8. reader'.query = query /\ reader'.done /\ reader'.seen = Query(query)
      BY <2>4, <2>6
    <2> QED BY <2>7, <2>8
  <1> QED BY <1>7, <1>12, <1>13, AuditAssumption

\* So what the reader has seen by then is kept.
LEMMA PageKept == ASSUME AuditInv, ReaderInv, ReadPage PROVE ReaderInv'
  <1>1. PICK query \in Queries, after \in Nat : \E seen, done :
            /\ reader = [query |-> query, after_sequence |-> after, seen |-> seen, done |-> done]
            /\ ~done => /\ after <= Settled
                        /\ Lists(seen, trail, {n \in Matches(query) : n <= after})
    BY DEF ReaderInv
  <1>2. PICK seen, done :
            /\ reader = [query |-> query, after_sequence |-> after, seen |-> seen, done |-> done]
            /\ ~done => /\ after <= Settled
                        /\ Lists(seen, trail, {n \in Matches(query) : n <= after})
    BY <1>1
  <1>3. ~done
    BY <1>2 DEF ReadPage
  <1>4. /\ reader = [query |-> query, after_sequence |-> after, seen |-> seen, done |-> done]
        /\ Lists(seen, trail, {n \in Matches(query) : n <= after})
    BY <1>2, <1>3
  <1>5. /\ reader'.query = query
        /\ reader'.done => reader'.seen = Query(query)
        /\ ~reader'.done =>
               reader'.seen = Chosen(trail, {n \in Matches(query) :
                                                 n <= reader'.after_sequence})
        /\ ReaderInv'
    BY <1>3, <1>4, PageGoesOn
  <1> QED BY <1>5

\* Every step keeps what the reader has seen.
LEMMA ReaderStep == AuditInv /\ AuditInv' /\ ReaderInv /\ [AuditNext]_auditVars => ReaderInv'
  <1> SUFFICES ASSUME AuditInv, AuditInv', ReaderInv, [AuditNext]_auditVars PROVE ReaderInv'
    OBVIOUS
  <1>1. PICK S : trail \in Seq(S)
    BY DEF AuditInv
  <1>2. PICK S1 : trail' \in Seq(S1)
    BY DEF AuditInv
  <1>3. /\ Len(trail) \in Nat /\ Len(trail') \in Nat /\ DOMAIN trail' = 1..Len(trail')
        /\ Settled \in Nat /\ Settled' \in Nat /\ Settled' <= Len(trail')
        /\ Settled <= Len(trail)
    BY <1>1, <1>2 DEF AuditInv, Settled
  <1>4. ASSUME reader' = reader, Settled <= Settled', \A n \in 1..Settled : trail'[n] = trail[n]
        PROVE  ReaderInv'
    BY <1>3, <1>4, RestingReaderKept
  <1>5. ASSUME NEW entry \in Entries, NEW occurred_at, Record(entry, occurred_at)
        PROVE  ReaderInv'
    <2>1. PICK event : event = Event(entry, occurred_at)
      OBVIOUS
    <2>2. trail' = Append(trail, event) /\ UNCHANGED <<batch, reader>>
      BY <1>5, <2>1 DEF Record
    <2>3. Len(trail') = Len(trail) + 1 /\ \A n \in 1..Len(trail) : trail'[n] = trail[n]
      <3>1. PICK T : T = S \cup {event}
        OBVIOUS
      <3>2. trail \in Seq(T) /\ event \in T
        BY <1>1, <3>1
      <3> QED BY <2>2, <3>2
    <2>4. Settled <= Settled'
      BY <1>3, <2>2, <2>3 DEF Settled
    <2>5. \A n \in 1..Settled : n \in 1..Len(trail)
      BY <1>3
    <2> QED BY <1>4, <2>2, <2>3, <2>4, <2>5
  <1>6. ASSUME NEW entry \in Entries, NEW occurred_at, FailBatch(entry, occurred_at)
        PROVE  ReaderInv'
    <2>1. /\ trail' = SubSeq(trail, 1, batch) /\ batch \in 0..Len(trail) /\ batch # NoBatch
          /\ batch' = NoBatch /\ reader' = reader
      BY <1>6 DEF FailBatch, AuditInv
    <2>2. Len(trail') = batch /\ \A n \in 1..batch : trail'[n] = trail[n]
      BY <1>1, <2>1
    <2>3. Settled = batch /\ Settled' = Len(trail')
      BY <2>1 DEF Settled
    <2>4. Settled <= Settled'
      BY <1>3, <2>2, <2>3
    <2> QED BY <1>4, <2>1, <2>2, <2>3, <2>4
  <1>7. CASE OpenBatch
    <2>1. /\ batch = NoBatch /\ batch' = Len(trail) /\ trail' = trail /\ reader' = reader
      BY <1>7 DEF OpenBatch
    <2>2. Settled' = Settled
      BY <2>1 DEF Settled
    <2>3. Settled <= Settled'
      BY <1>3, <2>2
    <2> QED BY <1>4, <2>1, <2>3
  <1>8. CASE CloseBatch
    <2>1. /\ batch # NoBatch /\ batch' = NoBatch /\ trail' = trail /\ reader' = reader
      BY <1>8 DEF CloseBatch
    <2>2. Settled <= Settled'
      BY <1>3, <2>1 DEF Settled
    <2> QED BY <1>4, <2>1, <2>2
  <1>9. ASSUME NEW query \in Queries, StartReading(query) \/ Export(query)
        PROVE  ReaderInv'
    <2>1. CASE StartReading(query)
      BY <2>1, NewReaderKept DEF StartReading
    <2>2. CASE Export(query)
      <3>1. reader' = NewReader(EveryResource) /\ UNCHANGED <<trail, batch>>
            /\ EveryResource \in Queries
        BY <2>2 DEF Export, Queries
      <3> QED BY <3>1, NewReaderKept
    <2> QED BY <1>9, <2>1, <2>2
  <1>10. CASE ReadPage
    BY <1>10, PageKept
  <1>11. CASE UNCHANGED <<trail, batch, reader>>
    <2>1. Settled' = Settled
      BY <1>11 DEF Settled
    <2>2. Settled <= Settled'
      BY <1>3, <2>1
    <2> QED BY <1>4, <1>11, <2>2
  <1>12. ASSUME NEW lines, Fault(lines) PROVE ReaderInv'
    BY <1>11, <1>12 DEF Fault
  <1>13. CASE Import
    BY <1>11, <1>13 DEF Import
  <1>14. CASE UNCHANGED auditVars
    BY <1>11, <1>14 DEF auditVars
  <1>15. ASSUME NEW k, NEW l, NEW resource,
                 \/ LoseLine(k) \/ RepeatLine(k) \/ ExchangeLines(k, l)
                 \/ GarbleLine(k, resource)
         PROVE  \E lines : Fault(lines)
    BY <1>15 DEF LoseLine, RepeatLine, ExchangeLines, GarbleLine
  <1> QED BY <1>5, <1>6, <1>7, <1>8, <1>9, <1>10, <1>12, <1>13, <1>14, <1>15
          DEF AuditNext, Queries

\* Whoever follows the pages is shown the events of the query, each once and in order, as
\* far as the pages go.
LEMMA PagesShow ==
    ASSUME AuditInv, ReaderInv, [AuditNext]_auditVars,
           reader'.seen # reader.seen \/ reader'.done # reader.done
    PROVE  \/ reader'.seen = <<>> /\ ~reader'.done
           \/ /\ reader'.done => reader'.seen = Query(reader.query)
              /\ ~reader'.done =>
                     reader'.seen = Chosen(trail, {n \in Matches(reader.query) :
                                                       n <= reader'.after_sequence})
  <1>1. CASE ReadPage
    <2>1. PICK query \in Queries, after \in Nat : \E seen, done :
            /\ reader = [query |-> query, after_sequence |-> after, seen |-> seen, done |-> done]
            /\ ~done => /\ after <= Settled
                        /\ Lists(seen, trail, {n \in Matches(query) : n <= after})
      BY DEF ReaderInv
    <2>2. PICK seen, done :
            /\ reader = [query |-> query, after_sequence |-> after, seen |-> seen, done |-> done]
            /\ ~done => /\ after <= Settled
                        /\ Lists(seen, trail, {n \in Matches(query) : n <= after})
      BY <2>1
    <2>3. ~done /\ reader.query = query
      BY <1>1, <2>2 DEF ReadPage
    <2>4. /\ reader'.done => reader'.seen = Query(query)
          /\ ~reader'.done =>
                 reader'.seen = Chosen(trail, {n \in Matches(query) :
                                                   n <= reader'.after_sequence})
      BY <1>1, <2>2, <2>3, PageGoesOn
    <2> QED BY <2>3, <2>4
  <1>2. ASSUME NEW query, reader' = NewReader(query)
        PROVE  reader'.seen = <<>> /\ ~reader'.done
    BY <1>2 DEF NewReader
  <1>3. \/ ReadPage \/ reader' = reader \/ \E query : reader' = NewReader(query)
    BY DEF AuditNext, auditVars, Record, FailBatch, OpenBatch, CloseBatch, StartReading, Export,
           Fault, LoseLine, RepeatLine, ExchangeLines, GarbleLine, Import
  <1> QED BY <1>1, <1>2, <1>3

\* The action property says this of every step.
LEMMA ReaderIsServed ==
    AuditInv /\ ReaderInv /\ [AuditNext]_auditVars =>
        [ reader'.seen # reader.seen \/ reader'.done # reader.done =>
            \/ reader'.seen = <<>> /\ ~reader'.done
            \/ /\ reader'.done => reader'.seen = Query(reader.query)
               /\ ~reader'.done =>
                      reader'.seen = Chosen(trail, {n \in Matches(reader.query) :
                                                        n <= reader'.after_sequence})
        ]_auditVars
  BY PagesShow

\* At first there are no events, no file, and a reader who has seen nothing.
LEMMA FileAndReaderStart == AuditInit => FileInv /\ ReaderInv
  <1> SUFFICES ASSUME AuditInit PROVE FileInv /\ ReaderInv
    OBVIOUS
  <1>1. FileInv
    BY DEF AuditInit, FileInv
  <1>2. ReaderInv
    <2>1. trail = <<>> /\ DOMAIN trail = {} /\ Len(trail) = 0 /\ batch = NoBatch
      BY DEF AuditInit
    <2>2. \A query : {n \in Matches(query) : n <= 0} = {}
      BY <2>1 DEF Matches
    <2>3. Lists(<<>>, trail, {})
      BY EmptyList
    <2>4. reader = [query |-> EveryResource, after_sequence |-> 0, seen |-> <<>>, done |-> FALSE]
      BY DEF AuditInit, NewReader
    <2>5. 0 <= Settled /\ EveryResource \in Queries
      BY <2>1 DEF Settled, Queries
    <2> QED BY <2>2, <2>3, <2>4, <2>5 DEF ReaderInv
  <1> QED BY <1>1, <1>2

-----------------------------------------------------------------------------
\* What is known of a resource after the first n events.
AfterFirst(f, resource, sequence, n) ==
    IF n = 0 THEN NoState
    ELSE IF trail[n].sequence > sequence \/ ~Effective(trail[n], resource) THEN f[n - 1]
    ELSE After(trail[n], f[n - 1])

\* The replay is defined: what is known after each event follows from what was known
\* before it.
LEMMA StateAtIs ==
    ASSUME AuditInv, NEW resource, NEW sequence
    PROVE  \E f : /\ f = [n \in 0..Len(trail) |-> AfterFirst(f, resource, sequence, n)]
                  /\ StateAt(resource, sequence) = f[Len(trail)]
  <1>0. Len(trail) \in Nat
    BY DEF AuditInv
  <1> DEFINE Replays(f, m) == f = [n \in 0..m |-> AfterFirst(f, resource, sequence, n)]
             Good == {m \in 0..Len(trail) : \E f : Replays(f, m)}
  <1>1. 0 \in Good
    <2>1. Replays([n \in 0..0 |-> NoState], 0)
      BY DEF AfterFirst
    <2> QED BY <1>0, <2>1
  <1>2. ASSUME NEW m \in 1..Len(trail), m - 1 \in Good
        PROVE  m \in Good
    <2>1. PICK f : Replays(f, m - 1)
      BY <1>2
    <2> DEFINE g == [n \in 0..m |-> IF n = m THEN AfterFirst(f, resource, sequence, m) ELSE f[n]]
    <2>2. ASSUME NEW n \in 0..m PROVE g[n] = AfterFirst(g, resource, sequence, n)
      <3>1. n = m => g[n] = AfterFirst(f, resource, sequence, n) /\ g[n - 1] = f[n - 1]
        BY <1>0, <1>2
      <3>2. n # m => /\ g[n] = AfterFirst(f, resource, sequence, n)
                     /\ n # 0 => g[n - 1] = f[n - 1]
        BY <1>0, <1>2, <2>1
      <3> HIDE DEF g
      <3> QED BY <3>1, <3>2 DEF AfterFirst
    <2>3. g = [n \in 0..m |-> g[n]]
      OBVIOUS
    <2> HIDE DEF g
    <2>4. Replays(g, m)
      BY <2>2, <2>3
    <2> QED BY <1>0, <2>4
  <1>3. \E f : Replays(f, Len(trail))
    <2> HIDE DEF Good
    <2>1. \A m \in 0..Len(trail) : m \in Good
      BY <1>0, <1>1, <1>2, Climbing
    <2> QED BY <1>0, <2>1 DEF Good
  <1>4. StateAt(resource, sequence) = (CHOOSE f : Replays(f, Len(trail)))[Len(trail)]
    BY DEF StateAt, AfterFirst
  <1> HIDE DEF Replays
  <1>5. Replays(CHOOSE f : Replays(f, Len(trail)), Len(trail))
    BY <1>3
  <1> QED BY <1>4, <1>5 DEF Replays

\* The places of the events that left something behind.
Effects(resource, s) ==
    {n \in 1..s : /\ Effective(trail[n], resource)
                  /\ \/ trail[n].action = "delete"
                     \/ trail[n].after # NoState}

\* What the last of them left.
LeftBy(effects) ==
    IF effects = {} THEN NoState
    ELSE LET last == CHOOSE n \in effects : \A m \in effects : m <= n
         IN  IF trail[last].action = "delete" THEN NoState ELSE trail[last].after

\* The last of some numbers is the one that none exceeds.
LEMMA LastIs ==
    ASSUME NEW effects \in SUBSET Nat, NEW n \in effects, \A m \in effects : m <= n
    PROVE  LeftBy(effects) = IF trail[n].action = "delete" THEN NoState ELSE trail[n].after
  <1>1. PICK last : last = CHOOSE k \in effects : \A m \in effects : m <= k
    OBVIOUS
  <1>2. last \in effects /\ \A m \in effects : m <= last
    BY <1>1
  <1>3. last = n
    <2>1. last <= n /\ n <= last /\ last \in Nat /\ n \in Nat
      BY <1>2
    <2> QED BY <2>1
  <1>4. effects # {}
    OBVIOUS
  <1> QED BY <1>1, <1>3, <1>4 DEF LeftBy

\* A replay up to a point of the past finds what the last effect before it left.
LEMMA ReplayIs ==
    ASSUME AuditInv, NEW resource, NEW s \in 0..Len(trail)
    PROVE  StateAt(resource, s) = LeftBy(Effects(resource, s))
  <1>1. PICK f : /\ f = [n \in 0..Len(trail) |-> AfterFirst(f, resource, s, n)]
                 /\ StateAt(resource, s) = f[Len(trail)]
    BY StateAtIs
  <1>2. PICK S : trail \in Seq(S)
    BY DEF AuditInv
  <1>3. Len(trail) \in Nat /\ \A n \in 1..Len(trail) : trail[n].sequence = n
    <2>1. Len(trail) \in Nat /\ DOMAIN trail = 1..Len(trail)
      BY <1>2
    <2> QED BY <2>1 DEF AuditInv, Valid
  <1> DEFINE Reached(n) == IF n <= s THEN n ELSE s
             Good == {n \in 0..Len(trail) : f[n] = LeftBy(Effects(resource, Reached(n)))}
  <1>4. \A n \in 0..Len(trail) : f[n] = AfterFirst(f, resource, s, n)
    BY <1>1
  <1>5. 0 \in Good
    <2>1. 0 \in 0..Len(trail) /\ Reached(0) = 0
      BY <1>3
    <2>2. f[0] = NoState
      BY <1>4, <2>1 DEF AfterFirst
    <2>3. Effects(resource, 0) = {}
      BY DEF Effects
    <2>4. LeftBy({}) = NoState
      BY DEF LeftBy
    <2> HIDE DEF Reached
    <2> QED BY <2>1, <2>2, <2>3, <2>4
  <1>6. ASSUME NEW n \in 1..Len(trail), n - 1 \in Good
        PROVE  n \in Good
    <2>1. /\ f[n - 1] = LeftBy(Effects(resource, Reached(n - 1))) /\ n \in 0..Len(trail)
          /\ f[n] = AfterFirst(f, resource, s, n) /\ n # 0 /\ trail[n].sequence = n
      BY <1>3, <1>4, <1>6
    <2>2. CASE n > s
      <3>1. Reached(n) = s /\ Reached(n - 1) = s
        BY <1>3, <2>2
      <3>2. f[n] = f[n - 1]
        BY <2>1, <2>2 DEF AfterFirst
      <3> HIDE DEF Reached
      <3> QED BY <2>1, <3>1, <3>2
    <2>3. CASE ~ (n > s)
      <3>1. Reached(n) = n /\ Reached(n - 1) = n - 1 /\ n <= s
        BY <1>3, <2>3
      <3> DEFINE Leaves == /\ Effective(trail[n], resource)
                           /\ trail[n].action = "delete" \/ trail[n].after # NoState
      <3>2. CASE ~Leaves
        <4>1. f[n] = f[n - 1]
          BY <2>1, <2>3, <3>2 DEF AfterFirst, After
        <4>2. Effects(resource, n) = Effects(resource, n - 1)
          <5>1. \A k : k \in 1..n <=> k \in 1..n - 1 \/ k = n
            BY <1>3
          <5> QED BY <3>2, <5>1 DEF Effects
        <4> HIDE DEF Reached
        <4> QED BY <2>1, <3>1, <4>1, <4>2
      <3>3. CASE Leaves
        <4>1. f[n] = IF trail[n].action = "delete" THEN NoState ELSE trail[n].after
          BY <2>1, <2>3, <3>3 DEF AfterFirst, After
        <4>2. PICK effects : effects = Effects(resource, n)
          OBVIOUS
        <4>3. n \in effects
          BY <1>3, <3>3, <4>2 DEF Effects
        <4>4. effects \in SUBSET Nat /\ \A m \in effects : m <= n
          BY <1>3, <4>2 DEF Effects
        <4>5. LeftBy(effects) = IF trail[n].action = "delete" THEN NoState ELSE trail[n].after
          BY <4>3, <4>4, LastIs
        <4> HIDE DEF Reached
        <4> QED BY <2>1, <3>1, <4>1, <4>2, <4>5
      <3> QED BY <3>2, <3>3
    <2> QED BY <2>2, <2>3
  <1>7. Len(trail) \in Good
    <2> HIDE DEF Good
    <2>1. \A n \in 0..Len(trail) : n \in Good
      BY <1>3, <1>5, <1>6, Climbing
    <2> QED BY <1>3, <2>1
  <1>8. Reached(Len(trail)) = s
    BY <1>3
  <1> HIDE DEF Reached
  <1> QED BY <1>1, <1>7, <1>8

\* So it does at every point of the past.
LEMMA InvReplays == AuditInv => ReplayFindsLastEffect
  <1> SUFFICES ASSUME AuditInv, NEW resource \in Resources, NEW s \in 0..Len(trail)
               PROVE  StateAt(resource, s) = LeftBy(Effects(resource, s))
    BY DEF ReplayFindsLastEffect, LeftBy, Effects
  <1> QED BY ReplayIs

\* Nothing is imported but the events that were exported, for any entries, any query and
\* any number of faults of the file.
THEOREM ImportRestores == DaySpec => []ImportedIsExported
  <1>1. DayInit => AuditInit
    BY DEF DayInit
  <1>2. [DayNext]_dayVars => [AuditNext]_auditVars
    BY DEF DayNext, dayVars, auditVars
  <1> QED BY <1>1, <1>2, AuditStart, AuditStep, FileAndReaderStart, FileStep, FileInvRestores,
             PTL DEF DaySpec

\* Whoever follows the pages of a query gets each of its events once and in order, for any
\* size of a page and whatever is recorded and cut off between two pages.
THEOREM ReaderIsShownAll == DaySpec => ReaderSeesEachOnce
  <1>1. DayInit => AuditInit
    BY DEF DayInit
  <1>2. [DayNext]_dayVars => [AuditNext]_auditVars
    BY DEF DayNext, dayVars, auditVars
  <1> QED BY <1>1, <1>2, AuditStart, AuditStep, FileAndReaderStart, ReaderStep, ReaderIsServed,
             PTL DEF DaySpec, ReaderSeesEachOnce

\* A replay finds, at every point of the past, what the last event that took effect left.
THEOREM ReplayStaysTrue == DaySpec => []ReplayFindsLastEffect
  <1>1. DayInit => AuditInit
    BY DEF DayInit
  <1>2. [DayNext]_dayVars => [AuditNext]_auditVars
    BY DEF DayNext, dayVars, auditVars
  <1> QED BY <1>1, <1>2, AuditStart, AuditStep, InvReplays, PTL DEF DaySpec

-----------------------------------------------------------------------------
(***************************************************************************)
(* The schedule.  A step that changes one booking can only bring it to     *)
(* clash with the others, and those are what find_conflicts looks at; a    *)
(* series changes several, which may only clash with one another.          *)
(***************************************************************************)
SchedInv ==
    /\ bookings = [b \in BookingIds |-> bookings[b]]
    /\ \A b \in BookingIds : bookings[b] # NoBooking =>
           DOMAIN bookings[b] = {"template", "slot", "status"}

\* Two bookings that would clash if both are active.
Clash(a, b) ==
    /\ Overlaps(Expand(a.slot), Expand(b.slot))
    /\ Shared(Wants(a), Wants(b)) # {}

\* Bookings clash with one another.
LEMMA ClashIsMutual == ASSUME NEW a, NEW b PROVE Clash(a, b) <=> Clash(b, a)
  BY DEF Clash, Overlaps, Shared

\* The pairs of the matrix are of two active bookings that clash.
LEMMA MatrixIs ==
    /\ \A pair \in ConflictMatrix :
          /\ pair[1] \in BookingIds /\ pair[2] \in BookingIds /\ pair[1] # pair[2]
          /\ pair = <<pair[1], pair[2]>>
    /\ \A x, y \in BookingIds :
          <<x, y>> \in ConflictMatrix <=>
              x # y /\ Active(x) /\ Active(y) /\ Clash(bookings[x], bookings[y])
  BY DEF ConflictMatrix, Clash

\* A slot without conflicts clashes with no active booking that is looked at.
LEMMA FreeOfClashes ==
    ASSUME NEW slot, NEW wants, NEW ignored, FindConflicts(slot, wants, ignored) = {},
           NEW c \in BookingIds \ ignored, Active(c)
    PROVE  ~(/\ Overlaps(Expand(slot), Expand(bookings[c].slot))
             /\ Shared(wants, Wants(bookings[c])) # {})
  BY DEF FindConflicts, BookingConflicts

\* A pair that clashes after a step is of two bookings active then; if the step changed
\* neither, it clashed before.
LEMMA ClashesAfter ==
    ASSUME NEW pair \in ConflictMatrix'
    PROVE  /\ pair[1] \in BookingIds /\ pair[2] \in BookingIds /\ pair[1] # pair[2]
           /\ Active(pair[1])' /\ Active(pair[2])'
           /\ Clash(bookings'[pair[1]], bookings'[pair[2]])
           /\ bookings'[pair[1]] = bookings[pair[1]] /\ bookings'[pair[2]] = bookings[pair[2]] =>
                  pair \in ConflictMatrix
  <1>1. /\ pair[1] \in BookingIds /\ pair[2] \in BookingIds /\ pair[1] # pair[2]
        /\ pair = <<pair[1], pair[2]>>
    BY DEF ConflictMatrix
  <1>2. /\ Active(pair[1])' /\ Active(pair[2])'
        /\ Clash(bookings'[pair[1]], bookings'[pair[2]])
    BY <1>1 DEF ConflictMatrix, Clash
  <1>3. ASSUME bookings'[pair[1]] = bookings[pair[1]], bookings'[pair[2]] = bookings[pair[2]]
        PROVE  pair \in ConflictMatrix
    <2>1. Active(pair[1]) /\ Active(pair[2])
      BY <1>2, <1>3 DEF Active
    <2>2. Clash(bookings[pair[1]], bookings[pair[2]])
      BY <1>2, <1>3
    <2> QED BY <1>1, <2>1, <2>2, MatrixIs
  <1> QED BY <1>1, <1>2, <1>3

\* Of such a pair that was not checked before, one booking is named, and the other.
LEMMA ChangedOfPair ==
    ASSUME ClashesOnlyWhereAllowed, NEW pair \in ConflictMatrix',
           {pair[1], pair[2]} \notin unchecked
    PROVE  \E b, c \in BookingIds :
              /\ b # c /\ b \in {pair[1], pair[2]} /\ c \in {pair[1], pair[2]}
              /\ {pair[1], pair[2]} = {b, c} /\ bookings'[b] # bookings[b]
  <1>1. bookings'[pair[1]] # bookings[pair[1]] \/ bookings'[pair[2]] # bookings[pair[2]]
    BY ClashesAfter DEF ClashesOnlyWhereAllowed
  <1>2. /\ pair[1] \in BookingIds /\ pair[2] \in BookingIds /\ pair[1] # pair[2]
    BY ClashesAfter
  <1>3. {pair[1], pair[2]} = {pair[2], pair[1]}
    OBVIOUS
  <1>4. CASE bookings'[pair[1]] # bookings[pair[1]]
    BY <1>2, <1>4
  <1>5. CASE bookings'[pair[2]] # bookings[pair[2]]
    BY <1>2, <1>3, <1>5
  <1> QED BY <1>1, <1>4, <1>5

\* A booking that is put where nothing was found in the way clashes with none that stays.
LEMMA PlacedIsFree ==
    ASSUME NEW pair \in ConflictMatrix',
           NEW b \in {pair[1], pair[2]}, NEW c \in {pair[1], pair[2]}, b # c,
           bookings'[c] = bookings[c], NEW ignored, c \notin ignored,
           FindConflicts(bookings'[b].slot, Wants(bookings'[b]), ignored) = {}
    PROVE  FALSE
  <1>1. Active(c) /\ c \in BookingIds
    BY ClashesAfter DEF Active
  <1>2. Clash(bookings'[b], bookings[c])
    BY ClashesAfter, ClashIsMutual
  <1> QED BY <1>1, <1>2, FreeOfClashes DEF Clash

\* A booking is scheduled into a clash only when the caller allows conflicts, and then
\* every booking it clashes with is among those that were found.
LEMMA ScheduleAllowed ==
    ASSUME SchedInv, ClashesOnlyWhereAllowed, NEW b \in BookingIds, NEW template, NEW slot,
           NEW status, NEW allow, Schedule(b, template, slot, status, allow)
    PROVE  ClashesOnlyWhereAllowed'
  <1> SUFFICES ASSUME NEW pair \in ConflictMatrix', {pair[1], pair[2]} \notin unchecked
               PROVE  {pair[1], pair[2]} \in unchecked'
    BY DEF ClashesOnlyWhereAllowed, Schedule
  <1>1. /\ bookings'[b] = NewBooking(template, slot, status)
        /\ \A c \in BookingIds \ {b} : bookings'[c] = bookings[c]
    BY DEF Schedule, SchedInv
  <1>2. PICK c \in BookingIds : /\ c # b /\ b \in {pair[1], pair[2]} /\ c \in {pair[1], pair[2]}
                                /\ {pair[1], pair[2]} = {b, c}
    BY <1>1, ChangedOfPair
  <1>3. bookings'[b].slot = slot /\ Wants(bookings'[b]) = Templates[template]
    BY <1>1 DEF NewBooking, Wants
  <1>4. Active(c) /\ Clash(bookings'[b], bookings[c])
    BY <1>1, <1>2, ClashesAfter, ClashIsMutual DEF Active
  <1>5. <<"booked", c>> \in FindConflicts(slot, Templates[template], {})
    BY <1>3, <1>4 DEF Clash, FindConflicts, BookingConflicts
  <1>6. allow /\ {b, c} \in PairsOf(b)
    BY <1>2, <1>5 DEF Schedule, PairsOf
  <1>7. {b, c} \in Admitted(b, slot, Templates[template])
    BY <1>5, <1>6 DEF Admitted
  <1> QED BY <1>2, <1>6, <1>7 DEF Schedule

\* A booking that is moved clashes with none.
LEMMA RescheduleAllowed ==
    ASSUME SchedInv, ClashesOnlyWhereAllowed, NEW b \in BookingIds, NEW slot,
           RescheduleBooking(b, slot)
    PROVE  ClashesOnlyWhereAllowed'
  <1>1. /\ bookings[b] # NoBooking /\ bookings' = [bookings EXCEPT ![b].slot = slot]
        /\ FindConflicts(slot, Wants(bookings[b]), {b}) = {}
    BY DEF RescheduleBooking
  <1>2. \A c \in BookingIds \ {b} : bookings'[c] = bookings[c]
    BY <1>1 DEF SchedInv
  <1>3. bookings'[b].slot = slot /\ bookings'[b].template = bookings[b].template
    <2>1. bookings'[b] = [bookings[b] EXCEPT !.slot = slot]
      BY <1>1 DEF SchedInv
    <2> QED BY <1>1, <2>1 DEF SchedInv
  <1>4. FindConflicts(bookings'[b].slot, Wants(bookings'[b]), {b}) = {}
    BY <1>1, <1>3 DEF Wants
  <1>5. ASSUME NEW pair \in ConflictMatrix' PROVE b \notin {pair[1], pair[2]}
    <2> SUFFICES ASSUME b \in {pair[1], pair[2]} PROVE FALSE
      OBVIOUS
    <2>1. PICK c \in {pair[1], pair[2]} : c # b /\ c \in BookingIds
      BY ClashesAfter
    <2> QED BY <1>2, <1>4, <2>1, PlacedIsFree
  <1> SUFFICES ASSUME NEW pair \in ConflictMatrix' PROVE {pair[1], pair[2]} \in unchecked'
    BY DEF ClashesOnlyWhereAllowed
  <1>6. {pair[1], pair[2]} \in unchecked
    BY <1>2, <1>5, ClashesAfter DEF ClashesOnlyWhereAllowed
  <1>7. {pair[1], pair[2]} \notin PairsOf(b)
    BY <1>5 DEF PairsOf
  <1> QED BY <1>6, <1>7 DEF RescheduleBooking

\* A booking is reactivated unchecked, and with it every pair it is in.
LEMMA StatusAllowed ==
    ASSUME SchedInv, ClashesOnlyWhereAllowed, NEW b \in BookingIds, NEW status, SetStatus(b, status)
    PROVE  ClashesOnlyWhereAllowed'
  <1> SUFFICES ASSUME NEW pair \in ConflictMatrix' PROVE {pair[1], pair[2]} \in unchecked'
    BY DEF ClashesOnlyWhereAllowed
  <1>1. /\ bookings[b] # NoBooking /\ bookings' = [bookings EXCEPT ![b].status = status]
        /\ \A c \in BookingIds \ {b} : bookings'[c] = bookings[c]
    BY DEF SetStatus, SchedInv
  <1>2. bookings'[b] = [bookings[b] EXCEPT !.status = status]
    BY <1>1 DEF SchedInv
  <1>3. bookings'[b].status = status /\ bookings'[b].slot = bookings[b].slot
        /\ bookings'[b].template = bookings[b].template
    BY <1>1, <1>2 DEF SchedInv
  <1>4. CASE b \notin {pair[1], pair[2]}
    BY <1>1, <1>4, ClashesAfter DEF ClashesOnlyWhereAllowed, SetStatus
  <1>5. CASE b \in {pair[1], pair[2]}
    <2>1. PICK c \in BookingIds : c # b /\ {pair[1], pair[2]} = {b, c}
                                  /\ c \in {pair[1], pair[2]}
      BY <1>5, ClashesAfter
    <2>2. {pair[1], pair[2]} \in PairsOf(b)
      BY <2>1 DEF PairsOf
    <2>3. status # "cancelled"
      BY <1>3, <1>5, ClashesAfter DEF Active
    <2>4. CASE ~Active(b)
      BY <2>2, <2>3, <2>4 DEF SetStatus
    <2>5. CASE Active(b)
      <3>1. Active(pair[1]) /\ Active(pair[2])
        BY <1>1, <1>5, <2>1, <2>5, ClashesAfter DEF Active
      <3>2. Clash(bookings[pair[1]], bookings[pair[2]])
        BY <1>1, <1>3, <1>5, <2>1, ClashesAfter DEF Clash, Wants
      <3>3. pair = <<pair[1], pair[2]>>
        BY DEF ConflictMatrix
      <3>4. pair \in ConflictMatrix
        BY <3>1, <3>2, <3>3, ClashesAfter, MatrixIs
      <3> QED BY <3>4 DEF ClashesOnlyWhereAllowed, SetStatus
    <2> QED BY <2>4, <2>5
  <1> QED BY <1>4, <1>5

\* A booking that is removed takes its pairs along.
LEMMA RemoveAllowed ==
    ASSUME SchedInv, ClashesOnlyWhereAllowed, NEW b \in BookingIds, RemoveBooking(b)
    PROVE  ClashesOnlyWhereAllowed'
  <1> SUFFICES ASSUME NEW pair \in ConflictMatrix' PROVE {pair[1], pair[2]} \in unchecked'
    BY DEF ClashesOnlyWhereAllowed
  <1>1. bookings'[b] = NoBooking /\ \A c \in BookingIds \ {b} : bookings'[c] = bookings[c]
    BY DEF RemoveBooking, SchedInv
  <1>2. b \notin {pair[1], pair[2]}
    BY <1>1, ClashesAfter DEF Active
  <1>3. {pair[1], pair[2]} \in unchecked
    BY <1>1, <1>2, ClashesAfter DEF ClashesOnlyWhereAllowed
  <1>4. {pair[1], pair[2]} \notin PairsOf(b)
    BY <1>2 DEF PairsOf
  <1> QED BY <1>3, <1>4 DEF RemoveBooking

\* A series is checked against what was booked before it, and not against itself.
LEMMA SeriesAllowed ==
    ASSUME SchedInv, ClashesOnlyWhereAllowed, NEW template, NEW slot, NEW status, NEW rule, NEW all,
           ScheduleSeries(template, slot, status, rule, all)
    PROVE  ClashesOnlyWhereAllowed'
  <1> DEFINE days == SeriesDays[rule][DayOf(slot)]
             proposed == [n \in DOMAIN days |-> Shift(slot, days[n] - DayOf(slot))]
  <1>1. PICK staged \in {{n \in DOMAIN days :
                              FindConflicts(proposed[n], Templates[template], {}) = {}}} :
          /\ bookings' = [b \in BookingIds |->
                 IF b \in {SeriesIds[n] : n \in staged}
                 THEN NewBooking(template, proposed[CHOOSE n \in staged : SeriesIds[n] = b], status)
                 ELSE bookings[b]]
          /\ unchecked' = (unchecked \ UNION {PairsOf(b) : b \in {SeriesIds[n] : n \in staged}})
                 \cup {pair \in UNION {PairsOf(b) : b \in {SeriesIds[n] : n \in staged}} :
                           pair \subseteq {SeriesIds[n] : n \in staged}}
    BY DEF ScheduleSeries
  <1> HIDE DEF days, proposed
  <1>4. PICK placed : placed = {SeriesIds[n] : n \in staged}
    OBVIOUS
  <1>5. /\ \A n \in staged : FindConflicts(proposed[n], Templates[template], {}) = {}
        /\ bookings' = [b \in BookingIds |->
               IF b \in placed
               THEN NewBooking(template, proposed[CHOOSE n \in staged : SeriesIds[n] = b], status)
               ELSE bookings[b]]
        /\ unchecked' = (unchecked \ UNION {PairsOf(b) : b \in placed})
                 \cup {pair \in UNION {PairsOf(b) : b \in placed} : pair \subseteq placed}
    BY <1>1, <1>4
  <1>6. ASSUME NEW b \in BookingIds, b \in placed
        PROVE  FindConflicts(bookings'[b].slot, Wants(bookings'[b]), {}) = {}
    <2>1. \E n \in staged : SeriesIds[n] = b
      BY <1>4, <1>6
    <2>2. PICK n \in staged : bookings'[b] = NewBooking(template, proposed[n], status)
      BY <1>5, <1>6, <2>1
    <2>3. bookings'[b].slot = proposed[n] /\ Wants(bookings'[b]) = Templates[template]
      BY <2>2 DEF NewBooking, Wants
    <2> QED BY <1>5, <2>3
  <1>7. \A b \in BookingIds \ placed : bookings'[b] = bookings[b]
    BY <1>4, <1>5
  <1> SUFFICES ASSUME NEW pair \in ConflictMatrix' PROVE {pair[1], pair[2]} \in unchecked'
    BY DEF ClashesOnlyWhereAllowed
  <1>8. /\ pair[1] \in BookingIds /\ pair[2] \in BookingIds /\ pair[1] # pair[2]
    BY ClashesAfter
  <1>9. ASSUME NEW b \in {pair[1], pair[2]}, NEW c \in {pair[1], pair[2]}, b # c, b \in placed
        PROVE  c \in placed
    <2> SUFFICES ASSUME c \notin placed PROVE FALSE
      OBVIOUS
    <2>1. bookings'[c] = bookings[c]
      BY <1>7, <1>8
    <2>2. FindConflicts(bookings'[b].slot, Wants(bookings'[b]), {}) = {}
      BY <1>6, <1>8, <1>9
    <2> QED BY <1>9, <2>1, <2>2, PlacedIsFree
  <1>10. CASE pair[1] \in placed /\ pair[2] \in placed
    <2>1. {pair[1], pair[2]} \in PairsOf(pair[1])
      BY <1>8 DEF PairsOf
    <2>2. {pair[1], pair[2]} \in UNION {PairsOf(b) : b \in placed}
      BY <1>10, <2>1
    <2>3. {pair[1], pair[2]} \subseteq placed
      BY <1>10
    <2> QED BY <1>5, <2>2, <2>3
  <1>11. CASE pair[1] \notin placed /\ pair[2] \notin placed
    <2>1. {pair[1], pair[2]} \in unchecked
      BY <1>7, <1>8, <1>11, ClashesAfter DEF ClashesOnlyWhereAllowed
    <2>2. \A b \in placed : {pair[1], pair[2]} \notin PairsOf(b)
      BY <1>11 DEF PairsOf
    <2> QED BY <1>5, <2>1, <2>2
  <1> QED BY <1>8, <1>9, <1>10, <1>11

\* Whatever the step, a pair that clashes after it was let in unchecked.
LEMMA ClashStep ==
    SchedInv /\ ClashesOnlyWhereAllowed /\ [SchedNext]_schedVars => ClashesOnlyWhereAllowed'
  <1> SUFFICES ASSUME SchedInv, ClashesOnlyWhereAllowed, [SchedNext]_schedVars
               PROVE  ClashesOnlyWhereAllowed'
    OBVIOUS
  <1>1. CASE bookings' = bookings /\ unchecked' = unchecked
    BY <1>1 DEF ClashesOnlyWhereAllowed, ConflictMatrix, Active
  <1>2. ASSUME NEW r, NEW capacity, NEW active, NEW windows, NEW window,
               \/ RegisterRoom(r, capacity) \/ ReplaceRoom(r, active, capacity)
               \/ SetAvailability(r, windows) \/ AddAvailability(r, window)
        PROVE  bookings' = bookings /\ unchecked' = unchecked
    BY <1>2 DEF RegisterRoom, ReplaceRoom, SetAvailability, AddAvailability
  <1>3. CASE SchedNext
    BY <1>1, <1>2, <1>3, ScheduleAllowed, RescheduleAllowed, StatusAllowed, RemoveAllowed,
       SeriesAllowed DEF SchedNext
  <1> QED BY <1>1, <1>3 DEF schedVars

\* There are no bookings at the start.
LEMMA SchedStart == SchedInit => SchedInv /\ ClashesOnlyWhereAllowed
  BY DEF SchedInit, SchedInv, ClashesOnlyWhereAllowed, ConflictMatrix, Active

\* Bookings keep their slots and templates in every call.
LEMMA SchedStep == SchedInv /\ [SchedNext]_schedVars => SchedInv'
  <1> SUFFICES ASSUME SchedInv, [SchedNext]_schedVars PROVE SchedInv'
    OBVIOUS
  <1>1. CASE bookings' = bookings
    BY <1>1 DEF SchedInv
  <1>2. ASSUME NEW b \in BookingIds, NEW template, NEW slot, NEW status, NEW allow,
               Schedule(b, template, slot, status, allow)
        PROVE  SchedInv'
    BY <1>2 DEF Schedule, NewBooking, SchedInv
  <1>3. ASSUME NEW b \in BookingIds, NEW slot, RescheduleBooking(b, slot) PROVE SchedInv'
    BY <1>3 DEF RescheduleBooking, SchedInv
  <1>4. ASSUME NEW b \in BookingIds, NEW status, SetStatus(b, status) PROVE SchedInv'
    BY <1>4 DEF SetStatus, SchedInv
  <1>5. ASSUME NEW b \in BookingIds, RemoveBooking(b) PROVE SchedInv'
    BY <1>5 DEF RemoveBooking, SchedInv
  <1>6. ASSUME NEW template, NEW slot, NEW status, NEW rule, NEW all,
               ScheduleSeries(template, slot, status, rule, all)
        PROVE  SchedInv'
    <2>1. /\ bookings' = [b \in BookingIds |-> bookings'[b]]
          /\ \A b \in BookingIds :
                 \/ bookings'[b] = bookings[b]
                 \/ \E at : bookings'[b] = NewBooking(template, at, status)
      BY <1>6 DEF ScheduleSeries
    <2> QED BY <2>1 DEF NewBooking, SchedInv
  <1>7. ASSUME NEW r, NEW capacity, NEW active, NEW windows, NEW window,
               \/ RegisterRoom(r, capacity) \/ ReplaceRoom(r, active, capacity)
               \/ SetAvailability(r, windows) \/ AddAvailability(r, window)
        PROVE  bookings' = bookings
    BY <1>7 DEF RegisterRoom, ReplaceRoom, SetAvailability, AddAvailability
  <1>8. CASE SchedNext
    BY <1>1, <1>2, <1>3, <1>4, <1>5, <1>6, <1>7, <1>8 DEF SchedNext
  <1> QED BY <1>1, <1>8 DEF schedVars

\* Two active bookings clash only when a caller allowed it, when one was reactivated, or
\* within one series: for any rooms, templates, slots, statuses and rules.
THEOREM ClashesAllowed == DaySpec => []ClashesOnlyWhereAllowed
  <1>1. DayInit => SchedInit
    BY DEF DayInit
  <1>2. [DayNext]_dayVars => [SchedNext]_schedVars
    BY DEF DayNext, dayVars, schedVars
  <1> QED BY <1>1, <1>2, SchedStart, SchedStep, ClashStep, PTL DEF DaySpec

-----------------------------------------------------------------------------
(***************************************************************************)
(* The days of a series.  The loop leaves weeks out when it comes by the   *)
(* first of the weekdays, so the walk is followed by how often that day    *)
(* has come since the series began: from a day to the one the loop steps   *)
(* to, no day between is in the walk.  So the walk has yielded, at each    *)
(* day it comes by, the days before it that are in it and fall on the      *)
(* weekdays; and on a weekday of the rule, the first of them has come as   *)
(* often as weeks have begun since the one the series begins in.           *)
(***************************************************************************)
\* What is left over when a multiple of i is passed by at most i.
LEMMA Remainders ==
    ASSUME NEW i \in Nat \ {0}, NEW c \in Nat, c % i = 0, NEW r \in 0..i
    PROVE  (r = i => (c + r) % i = 0) /\ (r # i => (c + r) % i = r)
  <1>1. PICK q \in Int : c = i * q
    <2>1. c = i * (c \div i) + (c % i) /\ c \div i \in Int
      OBVIOUS
    <2> QED BY <2>1
  <1> DEFINE p == (c + r) \div i
             m == (c + r) % i
  <1>2. p \in Int /\ m \in 0..(i - 1) /\ c + r = i * p + m
    OBVIOUS
  <1> HIDE DEF p, m
  <1>3. i * (p - q) = r - m /\ p - q \in Int
    BY <1>1, <1>2
  <1>4. PICK z \in Int : z = p - q /\ i * z = r - m
    BY <1>3
  <1>5. z >= 2 => i * z >= i + i
    OBVIOUS
  <1>6. z <= -1 => i * z <= -i
    OBVIOUS
  <1>7. z = 1 => i * z = i
    OBVIOUS
  <1>8. z = 0 => i * z = 0
    OBVIOUS
  <1>9. z = 0 \/ z = 1 \/ z >= 2 \/ z <= -1
    OBVIOUS
  <1>10. i >= 1 /\ r \in Int /\ 0 <= r /\ r <= i /\ m \in Int /\ 0 <= m /\ m < i
    BY <1>2
  <1>11. (r = i => m = 0) /\ (r # i => m = r)
    BY <1>4, <1>5, <1>6, <1>7, <1>8, <1>9, <1>10
  <1> QED BY <1>11 DEF m

\* There is a first one of weekdays.
LEMMA FirstOfIs ==
    ASSUME NEW weekdays \in SUBSET (0..6), weekdays # {}
    PROVE  /\ FirstOf(weekdays) \in weekdays /\ FirstOf(weekdays) \in 0..6
           /\ \A e \in weekdays : FirstOf(weekdays) <= e
  <1> DEFINE Least(d) == \A e \in weekdays : d <= e
  <1>1. \E d \in weekdays : Least(d)
    <2>1. PICK e \in weekdays : e \in 0..6
      OBVIOUS
    <2>2. ASSUME NEW d \in weekdays, \A c \in weekdays : c >= d PROVE Least(d)
      BY <2>2
    <2>3. \A c \in weekdays : c \in 0..6
      OBVIOUS
    <2>4. CASE 0 \in weekdays
      BY <2>2, <2>3, <2>4
    <2>5. CASE 0 \notin weekdays /\ 1 \in weekdays
      BY <2>2, <2>3, <2>5
    <2>6. CASE 0 \notin weekdays /\ 1 \notin weekdays /\ 2 \in weekdays
      BY <2>2, <2>3, <2>6
    <2>7. CASE weekdays \cap 0..2 = {} /\ 3 \in weekdays
      BY <2>2, <2>3, <2>7
    <2>8. CASE weekdays \cap 0..3 = {} /\ 4 \in weekdays
      BY <2>2, <2>3, <2>8
    <2>9. CASE weekdays \cap 0..4 = {} /\ 5 \in weekdays
      BY <2>2, <2>3, <2>9
    <2>10. CASE weekdays \cap 0..5 = {}
      BY <2>1, <2>2, <2>3, <2>10
    <2> HIDE DEF Least
    <2> QED BY <2>3, <2>4, <2>5, <2>6, <2>7, <2>8, <2>9, <2>10
  <1>2. PICK d \in weekdays : d = FirstOf(weekdays) /\ Least(d)
    BY <1>1 DEF FirstOf
  <1> QED BY <1>2

\* How often the weekday f has come until day, from some Monday on, and since first.
Turns(f, day) == WeekOf(day) + (IF Weekday(day) >= f THEN 1 ELSE 0)
CountOf(f, first, day) == Turns(f, day) - Turns(f, first)

\* The weekday f counts one more whenever it comes.
LEMMA TurnsIs ==
    ASSUME NEW f \in 0..6, NEW day \in Nat
    PROVE  /\ Turns(f, day) \in Int
           /\ Turns(f, day + 1) = Turns(f, day) + (IF Weekday(day + 1) = f THEN 1 ELSE 0)
  <1>1. PICK w, r \in Int : /\ w = day \div 7 /\ r = day % 7 /\ 0 <= r /\ r < 7 /\ day = 7 * w + r
    OBVIOUS
  <1>2. CASE r < 6
    <2>1. (day + 1) \div 7 = w /\ (day + 1) % 7 = r + 1
      BY <1>1, <1>2
    <2> QED BY <1>1, <2>1 DEF Turns, WeekOf, Weekday
  <1>3. CASE r = 6
    <2>1. (day + 1) \div 7 = w + 1 /\ (day + 1) % 7 = 0
      BY <1>1, <1>3
    <2> QED BY <1>1, <1>3, <2>1 DEF Turns, WeekOf, Weekday
  <1> QED BY <1>1, <1>2, <1>3

\* Each day counts for itself.
LEMMA CountIs ==
    ASSUME NEW f \in 0..6, NEW first \in Nat, NEW day \in Nat, first <= day
    PROVE  /\ CountOf(f, first, first) = 0 /\ CountOf(f, first, day) \in Nat
           /\ CountOf(f, first, day + 1) = CountOf(f, first, day)
                                               + (IF Weekday(day + 1) = f THEN 1 ELSE 0)
  <1>1. Turns(f, first) \in Int /\ Turns(f, day) \in Int
    BY TurnsIs
  <1>2. Turns(f, first) <= Turns(f, day)
    <2>1. PICK w, r, v, s \in Int :
             /\ w = first \div 7 /\ r = first % 7 /\ 0 <= r /\ r < 7 /\ first = 7 * w + r
             /\ v = day \div 7 /\ s = day % 7 /\ 0 <= s /\ s < 7 /\ day = 7 * v + s
      <3>1. \A d \in Nat : /\ d \div 7 \in Int /\ d % 7 \in Int /\ 0 <= d % 7 /\ d % 7 < 7
                           /\ d = 7 * (d \div 7) + (d % 7)
        OBVIOUS
      <3> QED BY <3>1
    <2>2. w < v \/ (w = v /\ r <= s)
      BY <2>1
    <2> QED BY <2>1, <2>2 DEF Turns, WeekOf, Weekday
  <1> QED BY <1>1, <1>2, TurnsIs DEF CountOf

\* From a day that is the weekday f one more counts every week.
LEMMA WeeksCount ==
    ASSUME NEW f \in 0..6, NEW first \in Nat, NEW day \in Nat, first <= day,
           Weekday(day + 1) = f, NEW k \in Nat
    PROVE  CountOf(f, first, day + 1 + k) = CountOf(f, first, day) + 1 + (k \div 7)
  <1> DEFINE Good == {j \in 0..k :
                         CountOf(f, first, day + 1 + j) = CountOf(f, first, day) + 1 + (j \div 7)}
  <1>0. /\ CountOf(f, first, day) \in Nat
        /\ CountOf(f, first, day + 1)
               = CountOf(f, first, day) + (IF Weekday(day + 1) = f THEN 1 ELSE 0)
    BY CountIs
  <1>1. 0 \in Good
    <2>1. day + 1 + 0 = day + 1 /\ 0 \div 7 = 0
      OBVIOUS
    <2> QED BY <1>0, <2>1
  <1>2. ASSUME NEW j \in 1..k, j - 1 \in Good
        PROVE  j \in Good
    <2>1. CountOf(f, first, day + 1 + (j - 1)) = CountOf(f, first, day) + 1 + ((j - 1) \div 7)
      BY <1>2
    <2>2. CountOf(f, first, day + 1 + j)
              = CountOf(f, first, day + j) + (IF Weekday(day + 1 + j) = f THEN 1 ELSE 0)
      <3>1. PICK d \in Nat : d = day + j /\ d + 1 = day + 1 + j /\ first <= d
        OBVIOUS
      <3>2. CountOf(f, first, d + 1) = CountOf(f, first, d) + (IF Weekday(d + 1) = f THEN 1 ELSE 0)
        BY <3>1, CountIs, ZenonT(40)
      <3> QED BY <3>1, <3>2
    <2>3. day + 1 + (j - 1) = day + j /\ CountOf(f, first, day) \in Nat
      BY <1>0
    <2>4. Weekday(day + 1 + j) = f <=> j % 7 = 0
      BY DEF Weekday
    <2>5. j \div 7 = ((j - 1) \div 7) + (IF j % 7 = 0 THEN 1 ELSE 0) /\ (j - 1) \div 7 \in Int
      OBVIOUS
    <2>6. CountOf(f, first, day + 1 + j) = CountOf(f, first, day) + 1 + (j \div 7)
      BY <2>1, <2>2, <2>3, <2>4, <2>5
    <2> QED BY <2>6
  <1>3. \A j \in 0..k : j \in Good
    <2> HIDE DEF Good
    <2> QED BY <1>1, <1>2, Climbing
  <1> QED BY <1>3

\* The days that the walk of a rule comes by, or that have their turn with one of these.
InWalk(rule, first, day) ==
    IF rule.frequency = "daily" THEN (day - first) % rule.interval = 0
    ELSE IF rule.weekdays = {} THEN (day - first) % (7 * rule.interval) = 0
    ELSE CountOf(FirstOf(rule.weekdays), first, day) % rule.interval = 0

\* A step leads from a day in the walk to the next one.
LEMMA StepIs ==
    ASSUME NEW rule \in Rules, NEW first \in Nat, NEW day \in Nat, first <= day,
           InWalk(rule, first, day)
    PROVE  /\ Step(rule, day) \in Nat /\ Step(rule, day) > day /\ InWalk(rule, first, Step(rule, day))
           /\ \A e \in Nat : day < e /\ e < Step(rule, day) => ~InWalk(rule, first, e)
  <1> DEFINE i == rule.interval
             f == FirstOf(rule.weekdays)
  <1>1. i \in Nat \ {0} /\ 7 * i \in Nat \ {0}
    BY RuleAssumption DEF RuleAllowed
  <1> HIDE DEF f
  <1>0. day - first \in Nat
    OBVIOUS
  <1>2. ASSUME NEW j \in Nat \ {0}, (day - first) % j = 0
        PROVE  /\ day + j \in Nat /\ day + j > day /\ (day + j - first) % j = 0
               /\ \A e \in Nat : day < e /\ e < day + j => (e - first) % j # 0
    <2>1. ((day - first) + j) % j = 0
      <3>1. j \in 0..j
        OBVIOUS
      <3> QED BY <1>0, <1>2, <3>1, Remainders
    <2>2. ASSUME NEW e \in Nat, day < e, e < day + j PROVE (e - first) % j # 0
      <3>1. PICK r \in 0..j : r = e - day /\ r # 0 /\ r # j
                            /\ e - first = (day - first) + r
        BY <2>2
      <3>2. ((day - first) + r) % j = r
        BY <1>0, <1>2, <3>1, Remainders, ZenonT(40)
      <3> QED BY <3>1, <3>2
    <2>3. day + j - first = (day - first) + j
      OBVIOUS
    <2> QED BY <2>1, <2>2, <2>3
  <1>3. CASE rule.frequency = "daily"
    <2>1. Step(rule, day) = day + i /\ \A e : InWalk(rule, first, e) <=> (e - first) % i = 0
      BY <1>3 DEF Step, InWalk
    <2> HIDE DEF i
    <2>2. (day - first) % i = 0
      BY <2>1
    <2>3. /\ day + i \in Nat /\ day + i > day /\ (day + i - first) % i = 0
          /\ \A e \in Nat : day < e /\ e < day + i => (e - first) % i # 0
      BY <1>1, <1>2, <2>2
    <2>4. InWalk(rule, first, day + i)
      <3>1. PICK e \in Nat : e = day + i
        BY <2>3
      <3>2. (e - first) % i = 0
        BY <1>1, <2>3, <3>1
      <3> QED BY <2>1, <3>1, <3>2, Zenon
    <2>5. ASSUME NEW e \in Nat, day < e, e < day + i PROVE ~InWalk(rule, first, e)
      BY <2>1, <2>3, <2>5, Zenon
    <2>6. day + i \in Nat /\ day + i > day /\ Step(rule, day) = day + i
      BY <2>1, <2>3
    <2> QED BY <2>4, <2>5, <2>6, Zenon
  <1>4. CASE rule.frequency # "daily" /\ rule.weekdays = {}
    <2>1. Step(rule, day) = day + 7 * i /\ \A e : InWalk(rule, first, e) <=> (e - first) % (7 * i) = 0
      BY <1>4 DEF Step, InWalk
    <2> DEFINE j == 7 * i
    <2>2. j \in Nat \ {0}
      BY <1>1
    <2> HIDE DEF i, j
    <2>3. (day - first) % j = 0
      BY <2>1 DEF j
    <2>4. /\ day + j \in Nat /\ day + j > day /\ (day + j - first) % j = 0
          /\ \A e \in Nat : day < e /\ e < day + j => (e - first) % j # 0
      BY <1>2, <2>2, <2>3
    <2>5. InWalk(rule, first, day + j)
      <3>1. PICK e \in Nat : e = day + j
        BY <2>4
      <3>2. (e - first) % j = 0
        BY <2>2, <2>4, <3>1
      <3>3. (e - first) % (7 * i) = 0
        BY <3>2 DEF j
      <3> QED BY <2>1, <3>1, <3>3, Zenon
    <2>6. ASSUME NEW e \in Nat, day < e, e < day + j PROVE ~InWalk(rule, first, e)
      BY <2>1, <2>4, <2>6, Zenon DEF j
    <2>7. day + j \in Nat /\ day + j > day /\ Step(rule, day) = day + j
      BY <2>1, <2>4 DEF j
    <2> QED BY <2>5, <2>6, <2>7, Zenon
  <1>5. CASE rule.frequency # "daily" /\ rule.weekdays # {}
    <2>1. \A e : InWalk(rule, first, e) <=> CountOf(f, first, e) % i = 0
      BY <1>5 DEF InWalk, f
    <2>0. f \in 0..6
      BY <1>5, RuleAssumption, FirstOfIs DEF f
    <2>2. CountOf(f, first, day) \in Nat /\ CountOf(f, first, day) % i = 0
      BY <2>0, <2>1, CountIs
    <2>3. CASE Weekday(day + 1) = f
      <3>1. Step(rule, day) = day + 1 + 7 * (i - 1)
        BY <1>5, <2>3 DEF Step, f
      <3> HIDE DEF i
      <3>2. PICK k \in Nat : k = 7 * (i - 1) /\ k \div 7 = i - 1
        BY <1>1
      <3>3. CountOf(f, first, day + 1 + k) % i = 0
        <4>1. CountOf(f, first, day + 1 + k) = CountOf(f, first, day) + i
          <5>1. CountOf(f, first, day + 1 + k) = CountOf(f, first, day) + 1 + (k \div 7)
            BY <2>0, <2>3, WeeksCount
          <5> QED BY <1>1, <2>2, <3>2, <5>1
        <4>2. i \in 0..i
          BY <1>1
        <4> QED BY <1>1, <2>2, <4>1, <4>2, Remainders
      <3>4. ASSUME NEW e \in Nat, day < e, e < day + 1 + k PROVE CountOf(f, first, e) % i # 0
        <4>1. PICK j \in Nat : j = e - day - 1 /\ e = day + 1 + j /\ j < k
          BY <3>4
        <4>2. j \div 7 \in Nat /\ j \div 7 < i - 1
          BY <1>1, <3>2, <4>1
        <4>3. PICK r \in 0..i : r = 1 + (j \div 7) /\ r # 0 /\ r # i
          BY <1>1, <4>2
        <4>4. CountOf(f, first, e) = CountOf(f, first, day) + r
          <5>1. CountOf(f, first, day + 1 + j) = CountOf(f, first, day) + 1 + (j \div 7)
            BY <2>0, <2>3, WeeksCount
          <5> QED BY <2>2, <4>1, <4>2, <4>3, <5>1
        <4>5. (CountOf(f, first, day) + r) % i = r
          BY <1>1, <2>2, <4>3, Remainders
        <4> QED BY <4>3, <4>4, <4>5
      <3> QED BY <1>1, <2>1, <3>1, <3>2, <3>3, <3>4
    <2>4. CASE Weekday(day + 1) # f
      <3>1. Step(rule, day) = day + 1
        BY <1>5, <2>4 DEF Step, f
      <3>2. CountOf(f, first, day + 1) = CountOf(f, first, day)
        <4>1. CountOf(f, first, day + 1) = CountOf(f, first, day)
                                               + (IF Weekday(day + 1) = f THEN 1 ELSE 0)
          BY <2>0, CountIs
        <4> QED BY <2>2, <2>4, <4>1
      <3> QED BY <2>1, <2>2, <3>1, <3>2
    <2> QED BY <2>3, <2>4
  <1> QED BY <1>3, <1>4, <1>5

\* The walk after each time around.
WalkAfter(f, rule, first, n) ==
    IF n = 0 THEN [day |-> first, yielded |-> <<>>]
    ELSE IF Over(rule, f[n - 1].day, Len(f[n - 1].yielded)) THEN f[n - 1]
    ELSE [day |-> Step(rule, f[n - 1].day),
          yielded |-> IF Falls(rule, f[n - 1].day) THEN Append(f[n - 1].yielded, f[n - 1].day)
                      ELSE f[n - 1].yielded]

\* The loop is defined: each time around follows from the one before.
LEMMA OccurrencesIs ==
    ASSUME NEW rule, NEW first
    PROVE  \E f : /\ f = [n \in 0..(LastDay + 1) |-> WalkAfter(f, rule, first, n)]
                  /\ Occurrences(rule, first) = f[LastDay + 1].yielded
  <1> DEFINE Computes(f, m) == f = [n \in 0..m |-> WalkAfter(f, rule, first, n)]
             Good == {m \in 0..(LastDay + 1) : \E f : Computes(f, m)}
  <1>0. LastDay + 1 \in Nat
    BY SchedulingAssumption
  <1>1. 0 \in Good
    <2>1. Computes([n \in 0..0 |-> [day |-> first, yielded |-> <<>>]], 0)
      BY DEF WalkAfter
    <2> QED BY <1>0, <2>1
  <1>2. ASSUME NEW m \in 1..(LastDay + 1), m - 1 \in Good
        PROVE  m \in Good
    <2>1. PICK f : Computes(f, m - 1)
      BY <1>2
    <2> DEFINE last == WalkAfter(f, rule, first, m)
               g == [n \in 0..m |-> IF n = m THEN last ELSE f[n]]
    <2>2. ASSUME NEW n \in 0..m PROVE g[n] = WalkAfter(g, rule, first, n)
      <3>1. n = m => g[n] = last /\ g[n - 1] = f[n - 1]
        BY <1>0, <1>2
      <3>2. n # m => /\ g[n] = WalkAfter(f, rule, first, n)
                     /\ n # 0 => g[n - 1] = f[n - 1]
        BY <1>0, <1>2, <2>1
      <3> HIDE DEF g
      <3> QED BY <3>1, <3>2 DEF WalkAfter
    <2>3. g = [n \in 0..m |-> g[n]]
      OBVIOUS
    <2> HIDE DEF g
    <2>4. Computes(g, m)
      BY <2>2, <2>3
    <2> QED BY <2>4
  <1>3. \E f : Computes(f, LastDay + 1)
    <2> HIDE DEF Good
    <2>1. \A m \in 0..(LastDay + 1) : m \in Good
      BY <1>0, <1>1, <1>2, Climbing
    <2> QED BY <1>0, <2>1 DEF Good
  <1>4. Occurrences(rule, first) = (CHOOSE f : Computes(f, LastDay + 1))[LastDay + 1].yielded
    BY DEF Occurrences, WalkAfter
  <1> HIDE DEF Computes
  <1>5. Computes(CHOOSE f : Computes(f, LastDay + 1), LastDay + 1)
    BY <1>3
  <1> QED BY <1>4, <1>5 DEF Computes

\* The days before a day that are in the walk and that fall on the weekdays.
DueBefore(rule, first, day) == {d \in first..(day - 1) : InWalk(rule, first, d) /\ Falls(rule, d)}

\* What the walk keeps at each day it comes by.
Kept(rule, first, day, y, n) ==
    /\ day \in Nat /\ first <= day /\ InWalk(rule, first, day)
    /\ y \in Seq(Nat) /\ ToSet(y) = DueBefore(rule, first, day)
    /\ \A i, j \in 1..Len(y) : i < j => y[i] < y[j]
    /\ \A d \in ToSet(y) : d <= LastDay /\ (rule.until = Unbounded \/ d <= rule.until)
    /\ rule.count # Unbounded => Len(y) <= rule.count
    /\ day >= n \/ Over(rule, day, Len(y))

Walked(rule, first, at, n) == Kept(rule, first, at.day, at.yielded, n)

\* A day that is yielded comes after all before it.
LEMMA YieldedAppends ==
    ASSUME NEW y \in Seq(Nat), NEW day \in Nat, \A d \in ToSet(y) : d < day,
           \A i, j \in 1..Len(y) : i < j => y[i] < y[j]
    PROVE  LET z == Append(y, day)
           IN  /\ z \in Seq(Nat) /\ Len(z) = Len(y) + 1 /\ ToSet(z) = ToSet(y) \cup {day}
               /\ \A i, j \in 1..Len(z) : i < j => z[i] < z[j]
  <1> DEFINE z == Append(y, day)
  <1>1. /\ Len(y) \in Nat /\ DOMAIN y = 1..Len(y) /\ z \in Seq(Nat) /\ Len(z) = Len(y) + 1
        /\ DOMAIN z = 1..(Len(y) + 1) /\ z[Len(y) + 1] = day
        /\ \A i \in 1..Len(y) : z[i] = y[i]
    OBVIOUS
  <1> HIDE DEF z
  <1>2. ToSet(z) = ToSet(y) \cup {day}
    BY <1>1, SMTT(30) DEF ToSet
  <1>3. \A i \in 1..Len(y) : y[i] < day
    BY <1>1 DEF ToSet
  <1>4. ASSUME NEW i \in 1..Len(z), NEW j \in 1..Len(z), i < j PROVE z[i] < z[j]
    <2>1. i \in 1..Len(y)
      BY <1>1, <1>4
    <2>2. CASE j = Len(y) + 1
      BY <1>1, <1>3, <2>1, <2>2
    <2>3. CASE j # Len(y) + 1
      BY <1>1, <1>4, <2>1, <2>3, SMTT(30)
    <2> QED BY <2>2, <2>3
  <1> QED BY <1>1, <1>2, <1>4 DEF z

\* Each time around keeps that.
LEMMA WalkKeeps ==
    ASSUME NEW rule \in Rules, NEW first \in Nat, NEW n \in Nat, NEW at, Walked(rule, first, at, n),
           ~Over(rule, at.day, Len(at.yielded)), NEW next,
           next = [day |-> Step(rule, at.day),
                   yielded |-> IF Falls(rule, at.day) THEN Append(at.yielded, at.day)
                               ELSE at.yielded]
    PROVE  Walked(rule, first, next, n + 1)
  <1>1. PICK day, y : day = at.day /\ y = at.yielded
    OBVIOUS
  <1>2. /\ day \in Nat /\ first <= day /\ InWalk(rule, first, day) /\ day >= n
        /\ y \in Seq(Nat) /\ ToSet(y) = DueBefore(rule, first, day) /\ Len(y) \in Nat
        /\ \A i, j \in 1..Len(y) : i < j => y[i] < y[j]
        /\ \A d \in ToSet(y) : d <= LastDay /\ (rule.until = Unbounded \/ d <= rule.until)
        /\ rule.count # Unbounded => Len(y) <= rule.count
    <2>1. Kept(rule, first, day, y, n) /\ ~Over(rule, day, Len(y))
      BY <1>1 DEF Walked
    <2> QED BY <2>1 DEF Kept
  <1>3. /\ Len(y) # rule.count /\ day <= LastDay
        /\ rule.until = Unbounded \/ day <= rule.until
    BY <1>1, <1>2, RuleAssumption, SchedulingAssumption DEF Over
  <1>4. PICK new : new = Step(rule, day)
    OBVIOUS
  <1>5. /\ new \in Nat /\ new > day /\ InWalk(rule, first, new)
        /\ \A e \in Nat : day < e /\ e < new => ~InWalk(rule, first, e)
    BY <1>2, <1>4, StepIs
  <1>6. DueBefore(rule, first, new)
            = DueBefore(rule, first, day) \cup (IF Falls(rule, day) THEN {day} ELSE {})
    <2>1. ASSUME NEW d PROVE d \in DueBefore(rule, first, new) <=>
                               d \in DueBefore(rule, first, day) \/ (d = day /\ Falls(rule, day))
      <3>1. d \in first..(new - 1) <=> \/ d \in first..(day - 1) \/ d = day
                                       \/ d \in Nat /\ day < d /\ d < new
        BY <1>2, <1>5
      <3> QED BY <1>2, <1>5, <3>1 DEF DueBefore
    <2> QED BY <2>1
  <1>7. PICK z : z = IF Falls(rule, day) THEN Append(y, day) ELSE y
    OBVIOUS
  <1>8. next.day = new /\ next.yielded = z
    BY <1>1, <1>4, <1>7
  <1>9. \A d \in ToSet(y) : d < day
    BY <1>2 DEF DueBefore
  <1>10. CASE Falls(rule, day)
    <2>1. /\ z \in Seq(Nat) /\ Len(z) = Len(y) + 1 /\ ToSet(z) = ToSet(y) \cup {day}
          /\ \A i, j \in 1..Len(z) : i < j => z[i] < z[j]
      BY <1>2, <1>7, <1>9, <1>10, YieldedAppends
    <2>2. rule.count # Unbounded => Len(z) <= rule.count
      BY <1>2, <1>3, <2>1, RuleAssumption
    <2>3. ToSet(z) = DueBefore(rule, first, new)
      BY <1>2, <1>6, <1>10, <2>1
    <2>4. \A d \in ToSet(z) : d <= LastDay /\ (rule.until = Unbounded \/ d <= rule.until)
      BY <1>2, <1>3, <2>1
    <2>5. new >= n + 1 /\ first <= new
      BY <1>2, <1>5
    <2>6. Kept(rule, first, new, z, n + 1)
      BY <1>5, <2>1, <2>2, <2>3, <2>4, <2>5 DEF Kept
    <2> QED BY <1>8, <2>6 DEF Walked
  <1>11. CASE ~Falls(rule, day)
    <2>1. z = y /\ ToSet(z) = DueBefore(rule, first, new)
      BY <1>2, <1>6, <1>7, <1>11
    <2>2. new >= n + 1 /\ first <= new
      BY <1>2, <1>5
    <2>3. Kept(rule, first, new, z, n + 1)
      BY <1>2, <1>5, <2>1, <2>2 DEF Kept
    <2> QED BY <1>8, <2>3 DEF Walked
  <1> QED BY <1>10, <1>11

\* Where the walk ends, it is over, and has yielded what was due.
LEMMA WalkEnds ==
    ASSUME NEW rule \in Rules, NEW first \in Nat
    PROVE  \E at : /\ Occurrences(rule, first) = at.yielded
                   /\ Walked(rule, first, at, 0) /\ Over(rule, at.day, Len(at.yielded))
  <1>0. LastDay \in Nat /\ LastDay + 1 \in Nat
    BY SchedulingAssumption
  <1>1. PICK f : /\ f = [n \in 0..(LastDay + 1) |-> WalkAfter(f, rule, first, n)]
                 /\ Occurrences(rule, first) = f[LastDay + 1].yielded
    BY OccurrencesIs
  <1> DEFINE Good == {n \in 0..(LastDay + 1) : Walked(rule, first, f[n], n)}
  <1>2. 0 \in Good
    <2>1. f[0] = [day |-> first, yielded |-> <<>>]
      BY <1>0, <1>1 DEF WalkAfter
    <2>2. f[0].day = first /\ f[0].yielded = <<>>
      BY <2>1
    <2>3. /\ <<>> \in Seq(Nat) /\ Len(<<>>) = 0 /\ ToSet(<<>>) = {}
          /\ DueBefore(rule, first, first) = {}
          /\ \A i, j \in 1..0 : FALSE
      BY DEF ToSet, DueBefore
    <2>4. InWalk(rule, first, first)
      <3>1. rule.interval \in Nat \ {0} /\ 7 * rule.interval \in Nat \ {0}
        BY RuleAssumption DEF RuleAllowed
      <3>2. 0 % rule.interval = 0 /\ 0 % (7 * rule.interval) = 0
        BY <3>1
      <3>3. ASSUME rule.weekdays # {} PROVE CountOf(FirstOf(rule.weekdays), first, first) = 0
        <4>1. FirstOf(rule.weekdays) \in 0..6
          BY <3>3, RuleAssumption, FirstOfIs
        <4>2. first <= first
          OBVIOUS
        <4> QED BY <4>1, <4>2, CountIs
      <3>4. first - first = 0
        OBVIOUS
      <3> QED BY <3>2, <3>3, <3>4 DEF InWalk
    <2>5. rule.count # Unbounded => 0 <= rule.count
      BY RuleAssumption
    <2>6. Walked(rule, first, f[0], 0)
      <3>1. Kept(rule, first, first, <<>>, 0)
        BY <2>3, <2>4, <2>5 DEF Kept
      <3> QED BY <2>2, <3>1 DEF Walked
    <2> QED BY <1>0, <2>6
  <1>3. ASSUME NEW n \in 1..(LastDay + 1), n - 1 \in Good
        PROVE  n \in Good
    <2>1. n \in 0..(LastDay + 1) /\ n - 1 \in Nat /\ Walked(rule, first, f[n - 1], n - 1) /\ n \in Nat
      BY <1>0, <1>3
    <2>2. f[n] = WalkAfter(f, rule, first, n) /\ n # 0
      BY <1>0, <1>1, <1>3, <2>1
    <2>3. CASE Over(rule, f[n - 1].day, Len(f[n - 1].yielded))
      <3>1. f[n] = f[n - 1]
        BY <2>2, <2>3 DEF WalkAfter
      <3> QED BY <2>1, <2>3, <3>1 DEF Walked, Kept
    <2>4. CASE ~Over(rule, f[n - 1].day, Len(f[n - 1].yielded))
      <3>1. f[n] = [day |-> Step(rule, f[n - 1].day),
                    yielded |-> IF Falls(rule, f[n - 1].day)
                                THEN Append(f[n - 1].yielded, f[n - 1].day) ELSE f[n - 1].yielded]
        BY <2>2, <2>4 DEF WalkAfter
      <3>2. Walked(rule, first, f[n], (n - 1) + 1)
        BY <2>1, <2>4, <3>1, WalkKeeps
      <3> QED BY <2>1, <3>2
    <2> QED BY <2>3, <2>4
  <1>4. Walked(rule, first, f[LastDay + 1], LastDay + 1)
    <2>1. \A n \in 0..(LastDay + 1) : n \in Good
      <3> HIDE DEF Good
      <3> QED BY <1>0, <1>2, <1>3, Climbing
    <2> QED BY <1>0, <2>1
  <1>5. Over(rule, f[LastDay + 1].day, Len(f[LastDay + 1].yielded))
    BY <1>0, <1>4 DEF Walked, Kept, Over
  <1>6. Walked(rule, first, f[LastDay + 1], 0)
    BY <1>4, <1>5 DEF Walked, Kept
  <1> QED BY <1>1, <1>5, <1>6

\* The occurrences of a rule are days.
LEMMA OccurrencesAreDays ==
    ASSUME NEW rule \in Rules, NEW first \in Nat
    PROVE  LET days == Occurrences(rule, first)
           IN  days \in Seq(Nat) /\ \A n \in DOMAIN days : days[n] - first \in Nat
  <1>1. PICK at : Occurrences(rule, first) = at.yielded /\ Walked(rule, first, at, 0)
    BY WalkEnds
  <1>2. PICK day, y : day = at.day /\ y = at.yielded
    OBVIOUS
  <1>3. y \in Seq(Nat) /\ ToSet(y) = DueBefore(rule, first, day) /\ day \in Nat
    BY <1>1, <1>2 DEF Walked, Kept
  <1>4. \A d \in ToSet(y) : d - first \in Nat
    BY <1>3 DEF DueBefore
  <1>5. \A n \in DOMAIN y : y[n] \in ToSet(y)
    BY <1>3 DEF ToSet
  <1> QED BY <1>1, <1>2, <1>3, <1>4, <1>5

\* On a weekday of the rule, what the walk counts are the weeks of the calendar.
LEMMA WalkIsDue ==
    ASSUME NEW rule \in Rules, NEW first \in Nat, NEW day \in Nat, first <= day, Falls(rule, day)
    PROVE  Due(rule, first, day) <=> /\ InWalk(rule, first, day)
                                     /\ rule.until = Unbounded \/ day <= rule.until
  <1>1. CASE rule.frequency = "daily" \/ rule.weekdays = {}
    BY <1>1 DEF Due, InWalk
  <1>2. CASE rule.frequency # "daily" /\ rule.weekdays # {}
    <2> DEFINE f == FirstOf(rule.weekdays)
    <2>1. f \in 0..6 /\ f <= Weekday(day)
      BY <1>2, RuleAssumption, FirstOfIs DEF Falls
    <2> HIDE DEF f
    <2>2. Weekday(first) \in Int /\ WeekOf(first) \in Int /\ WeekOf(day) \in Int
      BY DEF Weekday, WeekOf
    <2>3. Turns(f, day) = WeekOf(day) + 1
      BY <2>1 DEF Turns
    <2>4. Turns(f, first) = WeekOf(first) + (IF Weekday(first) < f THEN 0 ELSE 1)
      BY <2>1, <2>2 DEF Turns
    <2>5. CountOf(f, first, day) = WeeksSince(rule, first, day)
      BY <2>1, <2>2, <2>3, <2>4 DEF CountOf, WeeksSince, f
    <2> QED BY <1>2, <2>5 DEF Due, InWalk, f
  <1> QED BY <1>1, <1>2

\* A rule falls on what it says, day by day.
LEMMA RulesAreFollowed == DaysFollowRules
  <1> SUFFICES ASSUME NEW rule \in Rules, NEW first \in 0..6
               PROVE  LET days == Occurrences(rule, first)
                          all == {d \in first..LastDay : Due(rule, first, d)}
                      IN  /\ \A n \in 1..Len(days) - 1 : days[n] < days[n + 1]
                          /\ IF rule.count # Unbounded /\ rule.count < Cardinality(all)
                             THEN /\ Len(days) = rule.count /\ ToSet(days) \subseteq all
                                  /\ \A d \in all : d \in ToSet(days) \/ d > days[rule.count]
                             ELSE ToSet(days) = all
    BY DEF DaysFollowRules
  <1>0. LastDay \in Nat
    BY SchedulingAssumption
  <1>1. PICK at : /\ Occurrences(rule, first) = at.yielded
                  /\ Walked(rule, first, at, 0) /\ Over(rule, at.day, Len(at.yielded))
    BY WalkEnds
  <1>2. PICK y, day : y = at.yielded /\ day = at.day
    OBVIOUS
  <1> DEFINE all == {d \in first..LastDay : Due(rule, first, d)}
  <1>11. all = {d \in first..LastDay : /\ InWalk(rule, first, d) /\ Falls(rule, d)
                                       /\ rule.until = Unbounded \/ d <= rule.until}
    BY <1>0, WalkIsDue DEF Due
  <1>3. /\ day \in Nat /\ y \in Seq(Nat) /\ ToSet(y) = DueBefore(rule, first, day)
        /\ Len(y) \in Nat /\ DOMAIN y = 1..Len(y)
        /\ \A i, j \in 1..Len(y) : i < j => y[i] < y[j]
        /\ \A d \in ToSet(y) : d <= LastDay /\ (rule.until = Unbounded \/ d <= rule.until)
        /\ rule.count # Unbounded => Len(y) <= rule.count
        /\ \/ Len(y) = rule.count
           \/ day > LastDay \/ (rule.until # Unbounded /\ day > rule.until)
    BY <1>1, <1>2 DEF Walked, Kept, Over
  <1>4. /\ rule.count \in Nat \cup {Unbounded} /\ Unbounded \notin Int
        /\ rule.until \in Int \cup {Unbounded}
    BY RuleAssumption, SchedulingAssumption
  <1>5. \A n \in 1..Len(y) - 1 : y[n] < y[n + 1]
    BY <1>3
  <1>6. ToSet(y) \subseteq all /\ \A d \in all : d < day => d \in ToSet(y)
    BY <1>0, <1>3, <1>11 DEF DueBefore
  <1>7. IsFiniteSet(all) /\ Cardinality(all) \in Nat
    <2>1. IsFiniteSet(first..LastDay)
      BY <1>0, FS_Interval
    <2>2. IsFiniteSet(all)
      BY <2>1, FS_Subset
    <2> QED BY <2>2, FS_CardinalityType
  <1>8. Cardinality(ToSet(y)) = Len(y)
    <2>1. \A i, j \in 1..Len(y) : i # j => y[i] # y[j]
      <3>1. \A i \in 1..Len(y) : y[i] \in Int /\ i \in Int
        BY <1>3
      <3> QED BY <1>3, <3>1
    <2>2. y \in [1..Len(y) -> ToSet(y)] /\ ToSet(y) = {y[i] : i \in 1..Len(y)}
      BY <1>3 DEF ToSet
    <2>3. y \in Bijection(1..Len(y), ToSet(y))
      <3> HIDE DEF all
      <3>1. \A i, j \in 1..Len(y) : y[i] = y[j] => i = j
        BY <2>1
      <3>2. y \in Injection(1..Len(y), ToSet(y))
        BY <2>2, <3>1 DEF Injection, IsInjective
      <3>3. \A t \in ToSet(y) : \E i \in 1..Len(y) : y[i] = t
        BY <2>2
      <3>4. y \in Surjection(1..Len(y), ToSet(y))
        BY <2>2, <3>3 DEF Surjection
      <3> QED BY <3>2, <3>4 DEF Bijection
    <2> QED BY <1>3, <2>3, FS_CountingElements DEF ExistsBijection
  <1>9. CASE rule.count # Unbounded /\ rule.count < Cardinality(all)
    <2>1. Len(y) = rule.count
      <3> SUFFICES ASSUME Len(y) # rule.count PROVE FALSE
        OBVIOUS
      <3>1. \A d \in all : d < day
        BY <1>0, <1>3, <1>4, <1>11
      <3>2. ToSet(y) = all
        BY <1>6, <3>1
      <3>3. Len(y) = Cardinality(all)
        BY <1>8, <3>2, Zenon
      <3> QED BY <1>3, <1>4, <1>7, <1>9, <3>3
    <2>2. ASSUME NEW d \in all, d \notin ToSet(y) PROVE d > y[rule.count]
      <3>1. rule.count \in 1..Len(y)
        BY <1>4, <1>9, <2>1, RuleAssumption DEF RuleAllowed
      <3>2. y[rule.count] \in ToSet(y)
        BY <1>3, <3>1 DEF ToSet
      <3>3. y[rule.count] \in Nat /\ y[rule.count] < day
        BY <1>3, <3>2 DEF DueBefore
      <3> QED BY <1>0, <1>3, <1>6, <2>2, <3>3
    <2> QED BY <1>1, <1>2, <1>5, <1>6, <1>9, <2>1, <2>2
  <1>10. CASE ~(rule.count # Unbounded /\ rule.count < Cardinality(all))
    <2>1. ToSet(y) = all
      <3>1. CASE Len(y) = rule.count
        <4>1. rule.count # Unbounded /\ Len(y) >= Cardinality(all)
          BY <1>3, <1>4, <1>7, <1>10, <3>1
        <4>2. ToSet(y) \in SUBSET all
          BY <1>6
        <4> HIDE DEF all
        <4>3. /\ Cardinality(ToSet(y)) <= Cardinality(all)
              /\ Cardinality(all) = Cardinality(ToSet(y)) => all = ToSet(y)
          BY <1>7, <4>2, FS_Subset
        <4> QED BY <1>3, <1>7, <1>8, <4>1, <4>3
      <3>2. CASE Len(y) # rule.count
        <4>1. \A d \in all : d < day
          BY <1>0, <1>3, <1>4, <1>11, <3>2
        <4> QED BY <1>6, <4>1
      <3> QED BY <3>1, <3>2
    <2> QED BY <1>1, <1>2, <1>5, <1>10, <2>1
  <1> QED BY <1>9, <1>10

-----------------------------------------------------------------------------
(***************************************************************************)
(* Free time.  The loop over the busy slots moves a cursor along a segment *)
(* and keeps what it jumps over; what it keeps is all that no busy slot    *)
(* covers, because the slots come in the order of their starts.            *)
(***************************************************************************)
Spans == {slot \in Int \X Int : slot[1] < slot[2]}

\* Where the cursor is after each busy slot.
CursorAfter(f, segment, busy, n) ==
    IF n = 0 THEN segment[1]
    ELSE IF Overlaps(segment, busy[n]) THEN Larger(f[n - 1], Meet(segment, busy[n])[2])
    ELSE f[n - 1]

IsCursor(f, segment, busy) == f = [n \in 0..Len(busy) |-> CursorAfter(f, segment, busy, n)]

\* The loop is defined: each place of the cursor follows from the one before.
LEMMA FreeOfIs ==
    ASSUME NEW segment, NEW busy, Len(busy) \in Nat
    PROVE  \E f : IsCursor(f, segment, busy) /\ FreeOf(segment, busy) = Left(segment, busy, f)
  <1> DEFINE Computes(f, m) == f = [n \in 0..m |-> CursorAfter(f, segment, busy, n)]
             Good == {m \in 0..Len(busy) : \E f : Computes(f, m)}
  <1>1. 0 \in Good
    <2>1. Computes([n \in 0..0 |-> segment[1]], 0)
      BY DEF CursorAfter
    <2> QED BY <2>1
  <1>2. ASSUME NEW m \in 1..Len(busy), m - 1 \in Good
        PROVE  m \in Good
    <2>1. PICK f : Computes(f, m - 1)
      BY <1>2
    <2> DEFINE last == CursorAfter(f, segment, busy, m)
               g == [n \in 0..m |-> IF n = m THEN last ELSE f[n]]
    <2>2. ASSUME NEW n \in 0..m PROVE g[n] = CursorAfter(g, segment, busy, n)
      <3>1. n = m => g[n] = last /\ g[n - 1] = f[n - 1]
        BY <1>2
      <3>2. n # m => /\ g[n] = CursorAfter(f, segment, busy, n)
                     /\ n # 0 => g[n - 1] = f[n - 1]
        BY <1>2, <2>1
      <3> HIDE DEF g
      <3> QED BY <3>1, <3>2 DEF CursorAfter
    <2>3. g = [n \in 0..m |-> g[n]]
      OBVIOUS
    <2> HIDE DEF g
    <2>4. Computes(g, m)
      BY <2>2, <2>3
    <2> QED BY <2>4
  <1>3. \E f : Computes(f, Len(busy))
    <2> HIDE DEF Good
    <2>1. \A m \in 0..Len(busy) : m \in Good
      BY <1>1, <1>2, Climbing
    <2> QED BY <2>1 DEF Good
  <1>4. FreeOf(segment, busy) = Left(segment, busy, CHOOSE f : Computes(f, Len(busy)))
    BY DEF FreeOf, CursorAfter
  <1> HIDE DEF Computes
  <1>5. Computes(CHOOSE f : Computes(f, Len(busy)), Len(busy))
    BY <1>3
  <1> QED BY <1>4, <1>5 DEF Computes, IsCursor

\* What two slots that overlap have in common lies within both.
LEMMA MeetIs ==
    ASSUME NEW a \in Spans, NEW b \in Spans, Overlaps(a, b)
    PROVE  /\ Meet(a, b) \in Spans
           /\ ContainsRange(a, Meet(a, b)) /\ ContainsRange(b, Meet(a, b))
           /\ Meet(a, b)[1] \in {a[1], b[1]} /\ Meet(a, b)[2] \in {a[2], b[2]}
  BY DEF Spans, Overlaps, Meet, ContainsRange, Larger, Smaller

\* The cursor stays on the segment, goes forward only, and is behind no busy slot it passed.
LEMMA CursorMoves ==
    ASSUME NEW segment \in Spans, NEW busy, Len(busy) \in Nat,
           \A n \in 1..Len(busy) : busy[n] \in Spans,
           NEW f, IsCursor(f, segment, busy)
    PROVE  /\ \A n \in 0..Len(busy) : f[n] \in Int /\ segment[1] <= f[n] /\ f[n] <= segment[2]
           /\ \A n \in 0..Len(busy) : \A k \in 0..n : f[k] <= f[n]
           /\ \A n \in 1..Len(busy) :
                 Overlaps(segment, busy[n]) => Meet(segment, busy[n])[2] <= f[n]
  <1>0. segment[1] \in Int /\ segment[2] \in Int /\ segment[1] < segment[2]
    BY DEF Spans
  <1>1. f[0] = segment[1]
    BY DEF IsCursor, CursorAfter
  <1>2. ASSUME NEW n \in 1..Len(busy)
        PROVE  f[n] = IF Overlaps(segment, busy[n]) THEN Larger(f[n - 1], Meet(segment, busy[n])[2])
                      ELSE f[n - 1]
    BY <1>2 DEF IsCursor, CursorAfter
  <1> DEFINE On == {n \in 0..Len(busy) : f[n] \in Int /\ segment[1] <= f[n] /\ f[n] <= segment[2]}
  <1>3. ASSUME NEW n \in 1..Len(busy), f[n - 1] \in Int
        PROVE  /\ f[n] \in Int /\ f[n - 1] <= f[n]
               /\ f[n - 1] <= segment[2] => f[n] <= segment[2]
               /\ Overlaps(segment, busy[n]) => Meet(segment, busy[n])[2] <= f[n]
    <2>1. CASE ~Overlaps(segment, busy[n])
      BY <1>2, <1>3, <2>1
    <2>2. CASE Overlaps(segment, busy[n])
      <3>1. busy[n] \in Spans
        OBVIOUS
      <3>2. Meet(segment, busy[n])[2] \in Int /\ Meet(segment, busy[n])[2] <= segment[2]
        BY <2>2, <3>1, MeetIs DEF Spans, ContainsRange
      <3> QED BY <1>2, <1>3, <2>2, <3>2 DEF Larger
    <2> QED BY <2>1, <2>2
  <1>4. \A n \in 0..Len(busy) : n \in On
    <2>1. 0 \in On
      BY <1>0, <1>1
    <2>2. ASSUME NEW n \in 1..Len(busy), n - 1 \in On PROVE n \in On
      BY <1>0, <1>3, <2>2
    <2> HIDE DEF On
    <2> QED BY <2>1, <2>2, Climbing
  <1>5. \A n \in 0..Len(busy) : f[n] \in Int
    BY <1>4
  <1> DEFINE Grown == {n \in 0..Len(busy) : \A k \in 0..n : f[k] <= f[n]}
  <1>6. \A n \in 0..Len(busy) : n \in Grown
    <2>1. 0 \in Grown
      BY <1>5
    <2>2. ASSUME NEW n \in 1..Len(busy), n - 1 \in Grown PROVE n \in Grown
      <3>1. f[n - 1] \in Int /\ f[n] \in Int /\ f[n - 1] <= f[n]
        BY <1>3, <1>5
      <3>2. ASSUME NEW k \in 0..n PROVE f[k] <= f[n]
        <4>1. CASE k = n
          BY <3>1, <4>1
        <4>2. CASE k # n
          <5>1. k \in 0..(n - 1) /\ f[k] \in Int
            BY <1>5, <4>2
          <5>2. f[k] <= f[n - 1]
            BY <2>2, <5>1
          <5> QED BY <3>1, <5>1, <5>2
        <4> QED BY <4>1, <4>2
      <3> QED BY <3>2
    <2> HIDE DEF Grown
    <2> QED BY <2>1, <2>2, Climbing
  <1>7. \A n \in 1..Len(busy) : n - 1 \in 0..Len(busy)
    OBVIOUS
  <1> QED BY <1>3, <1>4, <1>5, <1>6, <1>7

\* What is free of a segment: slots on it that no busy slot overlaps, which do not touch
\* one another, and one of which has any slot on it that no busy slot overlaps.
FreePart(free, segment, busy) ==
    /\ IsFiniteSet(free) /\ free \subseteq Spans
    /\ \A a \in free : ContainsRange(segment, a)
    /\ \A a \in free, b \in busy : ~Overlaps(a, b)
    /\ \A a, b \in free : a # b => a[2] < b[1] \/ b[2] < a[1]
    /\ \A i \in Spans :
          ContainsRange(segment, i) /\ (\A b \in busy : ~Overlaps(i, b))
              => \E a \in free : ContainsRange(a, i)

\* A cursor that goes over slots in the order of their starts leaves what is free.
LEMMA LeftIsFree ==
    ASSUME NEW segment \in Spans, NEW busy, Len(busy) \in Nat,
           \A n \in 1..Len(busy) : busy[n] \in Spans,
           \A n \in 1..Len(busy) : \A k \in 1..n : busy[k][1] <= busy[n][1],
           NEW f, IsCursor(f, segment, busy)
    PROVE  FreePart(Left(segment, busy, f), segment, {busy[n] : n \in 1..Len(busy)})
  <1> DEFINE N == Len(busy)
             M == {m \in 1..N : /\ Overlaps(segment, busy[m])
                                /\ f[m - 1] < Meet(segment, busy[m])[1]}
             gap == [n \in M |-> <<f[n - 1], Meet(segment, busy[n])[1]>>]
             gaps == {gap[n] : n \in M}
             end == IF f[N] < segment[2] THEN {<<f[N], segment[2]>>} ELSE {}
             free == gaps \cup end
  <1>1. Left(segment, busy, f) = free
    BY DEF Left
  <1>2. segment[1] \in Int /\ segment[2] \in Int /\ segment[1] < segment[2]
    BY DEF Spans
  <1>3. ASSUME NEW n \in 1..N
        PROVE  /\ busy[n] \in Spans /\ busy[n][1] \in Int /\ busy[n][2] \in Int
               /\ busy[n][1] < busy[n][2]
    BY DEF Spans
  <1>4. /\ \A n \in 0..N : f[n] \in Int /\ segment[1] <= f[n] /\ f[n] <= segment[2]
        /\ \A n \in 0..N : \A k \in 0..n : f[k] <= f[n]
        /\ \A n \in 1..N : Overlaps(segment, busy[n]) => Meet(segment, busy[n])[2] <= f[n]
    BY CursorMoves
  <1>5. ASSUME NEW n \in 1..N, Overlaps(segment, busy[n])
        PROVE  LET meet == Meet(segment, busy[n])
               IN  /\ meet[1] \in Int /\ meet[2] \in Int /\ meet[1] < meet[2]
                   /\ segment[1] <= meet[1] /\ meet[2] <= segment[2]
                   /\ busy[n][1] <= meet[1] /\ meet[2] <= busy[n][2]
                   /\ meet[1] \in {segment[1], busy[n][1]} /\ meet[2] \in {segment[2], busy[n][2]}
    <2>1. /\ Meet(segment, busy[n]) \in Spans
          /\ ContainsRange(segment, Meet(segment, busy[n]))
          /\ ContainsRange(busy[n], Meet(segment, busy[n]))
          /\ Meet(segment, busy[n])[1] \in {segment[1], busy[n][1]}
          /\ Meet(segment, busy[n])[2] \in {segment[2], busy[n][2]}
      BY <1>3, <1>5, MeetIs
    <2> QED BY <2>1 DEF Spans, ContainsRange
  <1>6. ASSUME NEW n \in M
        PROVE  /\ n \in 1..N /\ n - 1 \in 0..N /\ Overlaps(segment, busy[n])
               /\ gap[n][1] = f[n - 1] /\ gap[n][2] = Meet(segment, busy[n])[1]
               /\ gap[n] = <<gap[n][1], gap[n][2]>>
               /\ gap[n][1] \in Int /\ gap[n][2] \in Int /\ gap[n][1] < gap[n][2]
               /\ segment[1] <= gap[n][1] /\ gap[n][2] < segment[2]
               /\ gap[n][2] = busy[n][1] /\ gap[n][2] < f[n]
    <2>1. /\ n \in 1..N /\ n - 1 \in 0..N /\ Overlaps(segment, busy[n])
          /\ gap[n] = <<f[n - 1], Meet(segment, busy[n])[1]>>
          /\ f[n - 1] < Meet(segment, busy[n])[1]
      OBVIOUS
    <2> HIDE DEF gap, M
    <2>2. /\ f[n - 1] \in Int /\ segment[1] <= f[n - 1]
          /\ Meet(segment, busy[n])[2] <= f[n] /\ f[n] \in Int
      BY <1>4, <2>1
    <2> QED BY <1>2, <1>3, <1>5, <2>1, <2>2, SMTT(30)
  <1> HIDE DEF gap
  \* Nothing the cursor has passed reaches into what is left.
  <1>7. ASSUME NEW a \in Spans, ContainsRange(segment, a), NEW k \in 1..N, f[k] <= a[1]
        PROVE  ~Overlaps(a, busy[k])
    <2>1. a[1] \in Int /\ a[2] \in Int /\ a[1] < a[2] /\ segment[1] <= a[1] /\ a[2] <= segment[2]
      BY <1>7 DEF Spans, ContainsRange
    <2>2. CASE ~Overlaps(segment, busy[k])
      BY <1>2, <1>3, <2>1, <2>2 DEF Overlaps
    <2>3. CASE Overlaps(segment, busy[k])
      <3> DEFINE end2 == Meet(segment, busy[k])[2]
      <3>1. end2 <= f[k] /\ f[k] \in Int
        BY <1>4, <2>3
      <3>2. end2 \in {segment[2], busy[k][2]}
        BY <1>5, <2>3
      <3> HIDE DEF end2
      <3>3. CASE end2 = segment[2]
        BY <1>2, <1>7, <2>1, <3>1, <3>3
      <3>4. CASE end2 = busy[k][2]
        BY <1>3, <1>7, <2>1, <3>1, <3>4 DEF Overlaps
      <3> QED BY <3>2, <3>3, <3>4
    <2> QED BY <2>2, <2>3
  <1>8. ASSUME NEW n \in M
        PROVE  gap[n] \in Spans /\ ContainsRange(segment, gap[n])
    BY <1>2, <1>6 DEF Spans, ContainsRange
  <1>9. ASSUME NEW a \in end
        PROVE  /\ a = <<f[N], segment[2]>> /\ a[1] = f[N] /\ a[2] = segment[2] /\ f[N] \in Int
               /\ a \in Spans /\ ContainsRange(segment, a)
    <2>1. N \in 0..N
      OBVIOUS
    <2> QED BY <1>2, <1>4, <2>1 DEF Spans, ContainsRange
  <1> HIDE DEF end
  <1>10. free \subseteq Spans /\ \A a \in free : ContainsRange(segment, a)
    <2>1. ASSUME NEW a \in free PROVE a \in Spans /\ ContainsRange(segment, a)
      BY <1>8, <1>9
    <2> QED BY <2>1
  <1>11. ASSUME NEW a \in free, NEW k \in 1..N
         PROVE  ~Overlaps(a, busy[k])
    <2>1. CASE a \in end
      <3>1. k \in 0..N /\ N \in 0..N /\ f[k] <= f[N]
        BY <1>4
      <3> QED BY <1>7, <1>9, <2>1, <3>1
    <2>2. CASE a \in gaps
      <3>1. PICK n \in M : a = gap[n]
        BY <2>2
      <3>2. CASE k < n
        <4>1. k \in 0..(n - 1) /\ n - 1 \in 0..N
          BY <1>6, <3>2
        <4>2. f[k] <= f[n - 1]
          BY <1>4, <4>1
        <4> QED BY <1>6, <1>7, <1>8, <3>1, <4>2
      <3>3. CASE k >= n
        <4>1. n \in 1..k /\ k \in 1..N
          BY <1>6, <3>3
        <4>2. busy[n][1] <= busy[k][1]
          BY <4>1
        <4> QED BY <1>3, <1>6, <3>1, <4>1, <4>2 DEF Overlaps
      <3>4. n \in Int /\ k \in Int
        BY <1>6
      <3> QED BY <3>2, <3>3, <3>4
    <2> QED BY <2>1, <2>2
  <1>12. ASSUME NEW m \in M, NEW n \in M, m < n
         PROVE  gap[m][2] < gap[n][1]
    <2>1. m \in 0..(n - 1) /\ n - 1 \in 0..N /\ m \in 0..N
      BY <1>6, <1>12
    <2>2. f[m] <= f[n - 1] /\ f[m] \in Int /\ f[n - 1] \in Int
      BY <1>4, <2>1
    <2> QED BY <1>6, <2>2
  <1>13. ASSUME NEW m \in M, NEW a \in end
         PROVE  gap[m][2] < a[1]
    <2>1. m \in 0..N /\ N \in 0..N
      BY <1>6
    <2>2. f[m] <= f[N] /\ f[m] \in Int /\ f[N] \in Int
      BY <1>4, <2>1
    <2> QED BY <1>6, <1>9, <2>2
  <1>14. \A a, b \in free : a # b => a[2] < b[1] \/ b[2] < a[1]
    <2> SUFFICES ASSUME NEW a \in free, NEW b \in free, a # b
                 PROVE  a[2] < b[1] \/ b[2] < a[1]
      OBVIOUS
    <2>1. CASE a \in gaps /\ b \in gaps
      <3>1. PICK m \in M, n \in M : a = gap[m] /\ b = gap[n]
        BY <2>1
      <3>2. m \in Int /\ n \in Int /\ m # n
        BY <1>6, <3>1
      <3> QED BY <1>12, <3>1, <3>2
    <2>2. CASE a \in end \/ b \in end
      BY <1>9, <1>13, <2>2
    <2> QED BY <2>1, <2>2
  <1>15. ASSUME NEW i \in Spans, ContainsRange(segment, i),
                \A n \in 1..N : ~Overlaps(i, busy[n])
         PROVE  \E a \in free : ContainsRange(a, i)
    <2>1. i[1] \in Int /\ i[2] \in Int /\ i[1] < i[2] /\ segment[1] <= i[1] /\ i[2] <= segment[2]
      BY <1>15 DEF Spans, ContainsRange
    <2> DEFINE Good == {n \in 0..N : f[n] <= i[1] \/ \E a \in gaps : ContainsRange(a, i)}
    <2>2. 0 \in Good
      <3>1. f[0] = segment[1]
        BY DEF IsCursor, CursorAfter
      <3> QED BY <2>1, <3>1
    <2>3. ASSUME NEW n \in 1..N, n - 1 \in Good, ~ \E a \in gaps : ContainsRange(a, i)
          PROVE  f[n] <= i[1]
      <3>1. f[n - 1] <= i[1] /\ f[n - 1] \in Int
        BY <1>4, <2>3
      <3>2. f[n] = IF Overlaps(segment, busy[n]) THEN Larger(f[n - 1], Meet(segment, busy[n])[2])
                   ELSE f[n - 1]
        BY SMTT(30) DEF IsCursor, CursorAfter
      <3>3. CASE ~Overlaps(segment, busy[n])
        BY <3>1, <3>2, <3>3
      <3>4. CASE Overlaps(segment, busy[n])
        <4> DEFINE meet == Meet(segment, busy[n])
        <4>1. /\ meet[1] \in Int /\ meet[2] \in Int /\ meet[1] < meet[2]
              /\ meet[2] <= busy[n][2] /\ meet[1] \in {segment[1], busy[n][1]} /\ busy[n][1] <= meet[1]
          BY <1>5, <3>4
        <4> HIDE DEF meet
        <4>2. ASSUME i[1] < meet[2] PROVE FALSE
          <5>1. i[2] <= busy[n][1]
            BY <1>3, <1>15, <2>1, <4>1, <4>2 DEF Overlaps
          <5>2. f[n - 1] < meet[1] /\ i[2] <= meet[1]
            BY <1>3, <2>1, <3>1, <4>1, <5>1
          <5>3. n \in M
            BY <3>4, <5>2 DEF meet
          <5>4. ContainsRange(gap[n], i)
            BY <1>6, <3>1, <5>2, <5>3 DEF ContainsRange, meet
          <5> QED BY <2>3, <5>3, <5>4
        <4> QED BY <2>1, <3>1, <3>2, <3>4, <4>1, <4>2 DEF Larger, meet
      <3> QED BY <3>3, <3>4
    <2>4. \A n \in 0..N : n \in Good
      <3>1. ASSUME NEW n \in 1..N, n - 1 \in Good PROVE n \in Good
        BY <2>3, <3>1
      <3> HIDE DEF Good
      <3> QED BY <2>2, <3>1, Climbing
    <2>5. CASE f[N] <= i[1]
      <3>1. N \in 0..N
        OBVIOUS
      <3>2. f[N] \in Int /\ <<f[N], segment[2]>> \in end
        BY <1>2, <1>4, <2>1, <2>5, <3>1 DEF end
      <3> QED BY <2>1, <2>5, <3>2 DEF ContainsRange
    <2> QED BY <2>4, <2>5
  <1>16. IsFiniteSet(free)
    <2>1. IsFiniteSet(M)
      <3>1. 1 \in Int /\ N \in Int
        OBVIOUS
      <3>2. IsFiniteSet(1..N)
        BY <3>1, FS_Interval
      <3> QED BY <3>2, FS_Subset
    <2> HIDE DEF M
    <2>3. IsFiniteSet(gaps)
      BY <2>1, ImageIsFinite
    <2>4. IsFiniteSet(end)
      BY FS_EmptySet, FS_Singleton DEF end
    <2> QED BY <2>3, <2>4, FS_Union
  <1> HIDE DEF free
  <1>17. FreePart(free, segment, {busy[n] : n \in 1..N})
    BY <1>10, <1>11, <1>14, <1>15, <1>16 DEF FreePart
  <1> QED BY <1>1, <1>17

\* Slots that lie within slots which do not overlap do not overlap either.
LEMMA WithinApart ==
    ASSUME NEW a \in Spans, NEW b \in Spans, NEW s \in Spans, NEW t \in Spans,
           ContainsRange(s, a), ContainsRange(t, b), Overlaps(a, b)
    PROVE  Overlaps(s, t)
  BY DEF Spans, ContainsRange, Overlaps

\* What is cut out of a finite set of slots is one, within the window.
LEMMA CutsAre ==
    ASSUME NEW S \in SUBSET Spans, IsFiniteSet(S), NEW window \in Spans
    PROVE  /\ IsFiniteSet(Cuts(S, window)) /\ Cuts(S, window) \subseteq Spans
           /\ \A a \in Cuts(S, window) :
                 \E s \in S : /\ Overlaps(s, window) /\ a = Meet(s, window)
                              /\ ContainsRange(s, a) /\ ContainsRange(window, a)
           /\ \A s \in S : Overlaps(s, window) => Meet(s, window) \in Cuts(S, window)
           /\ Disjoint(S) => Disjoint(Cuts(S, window))
  <1> DEFINE T == {s \in S : Overlaps(s, window)}
             cut == [s \in T |-> Meet(s, window)]
  <1>1. Cuts(S, window) = {cut[s] : s \in T}
    BY DEF Cuts
  <1>2. \A a \in Cuts(S, window) :
            \E s \in S : /\ Overlaps(s, window) /\ a = Meet(s, window) /\ a \in Spans
                         /\ ContainsRange(s, a) /\ ContainsRange(window, a)
    <2> SUFFICES ASSUME NEW a \in Cuts(S, window)
                 PROVE  \E s \in S : /\ Overlaps(s, window) /\ a = Meet(s, window) /\ a \in Spans
                                     /\ ContainsRange(s, a) /\ ContainsRange(window, a)
      OBVIOUS
    <2>1. PICK s \in S : Overlaps(s, window) /\ a = Meet(s, window)
      BY DEF Cuts
    <2>2. s \in Spans
      OBVIOUS
    <2> QED BY <2>1, <2>2, MeetIs
  <1>3. IsFiniteSet(Cuts(S, window))
    <2>1. IsFiniteSet(T)
      BY FS_Subset
    <2> HIDE DEF T, cut
    <2> QED BY <1>1, <2>1, ImageIsFinite
  <1>4. \A s \in S : Overlaps(s, window) => Meet(s, window) \in Cuts(S, window)
    BY DEF Cuts
  <1>5. ASSUME Disjoint(S), NEW a \in Cuts(S, window), NEW b \in Cuts(S, window), a # b
        PROVE  ~Overlaps(a, b)
    <2>1. PICK s \in S : a = Meet(s, window) /\ a \in Spans /\ ContainsRange(s, a)
      BY <1>2
    <2>2. PICK t \in S : b = Meet(t, window) /\ b \in Spans /\ ContainsRange(t, b)
      BY <1>2
    <2>3. ~Overlaps(s, t)
      BY <1>5, <2>1, <2>2 DEF Disjoint
    <2> QED BY <2>1, <2>2, <2>3, WithinApart
  <1>6. Cuts(S, window) \subseteq Spans
    BY <1>2
  <1> QED BY <1>2, <1>3, <1>4, <1>5, <1>6 DEF Disjoint

\* The order of the starts is one that sorts.
LEMMA ByStartIs ==
    ASSUME NEW S \in SUBSET Spans, IsFiniteSet(S)
    PROVE  /\ Len(ByStart(S)) \in Nat
           /\ \A n \in 1..Len(ByStart(S)) : ByStart(S)[n] \in Spans
           /\ \A n \in 1..Len(ByStart(S)) : \A k \in 1..n : ByStart(S)[k][1] <= ByStart(S)[n][1]
           /\ {ByStart(S)[n] : n \in 1..Len(ByStart(S))} = S
  <1> DEFINE before == {ab \in S \X S :
                          ab[1][1] < ab[2][1] \/ (ab[1][1] = ab[2][1] /\ ab[1][2] < ab[2][2])}
             s == InOrder(S, before)
  <1>1. \A a \in S : a[1] \in Int /\ a[2] \in Int /\ a = <<a[1], a[2]>>
    BY DEF Spans
  <1>2. \A a, b \in S : <<a, b>> \in before <=>
                            a[1] < b[1] \/ (a[1] = b[1] /\ a[2] < b[2])
    OBVIOUS
  <1> HIDE DEF before
  <1>3. Ordered(S, before)
    <2>1. \A a \in S : <<a, a>> \notin before
      BY <1>1, <1>2
    <2>2. \A a, b \in S : a # b => <<a, b>> \in before \/ <<b, a>> \in before
      BY <1>1, <1>2
    <2>3. \A a, b, c \in S : <<a, b>> \in before /\ <<b, c>> \in before => <<a, c>> \in before
      BY <1>1, <1>2
    <2> QED BY <2>1, <2>2, <2>3 DEF Ordered
  <1>4. Sorts(s, S, before)
    BY <1>3, InOrderSorts
  <1>5. ByStart(S) = s
    BY DEF ByStart, before
  <1> HIDE DEF s
  <1>6. /\ Len(s) \in Nat /\ DOMAIN s = 1..Len(s) /\ ToSet(s) = S
        /\ \A i, j \in 1..Len(s) : i < j => <<s[i], s[j]>> \in before
    BY <1>4 DEF Sorts
  <1>7. {s[n] : n \in 1..Len(s)} = S
    BY <1>6 DEF ToSet
  <1>8. \A n \in 1..Len(s) : s[n] \in S
    BY <1>7
  <1>9. ASSUME NEW n \in 1..Len(s), NEW k \in 1..n PROVE s[k][1] <= s[n][1]
    <2>1. k \in 1..Len(s) /\ s[k] \in S /\ s[n] \in S
      BY <1>8
    <2>2. CASE k = n
      BY <1>1, <2>1, <2>2
    <2>3. CASE k < n
      <3>1. PICK a \in S, b \in S : a = s[k] /\ b = s[n]
        BY <2>1
      <3>2. <<a, b>> \in before
        BY <1>6, <2>1, <2>3, <3>1
      <3>3. a[1] <= b[1]
        BY <1>1, <1>2, <3>2
      <3> QED BY <3>1, <3>3
    <2> QED BY <2>2, <2>3
  <1> QED BY <1>5, <1>6, <1>7, <1>8, <1>9

\* What the loop leaves of a segment is what is free of it.
LEMMA FreeOfSegment ==
    ASSUME NEW segment \in Spans, NEW S \in SUBSET Spans, IsFiniteSet(S)
    PROVE  FreePart(FreeOf(segment, ByStart(S)), segment, S)
  <1>1. PICK busy : busy = ByStart(S)
    OBVIOUS
  <1>2. /\ Len(busy) \in Nat
        /\ \A n \in 1..Len(busy) : busy[n] \in Spans
        /\ \A n \in 1..Len(busy) : \A k \in 1..n : busy[k][1] <= busy[n][1]
        /\ {busy[n] : n \in 1..Len(busy)} = S
    BY <1>1, ByStartIs
  <1>3. PICK f : IsCursor(f, segment, busy) /\ FreeOf(segment, busy) = Left(segment, busy, f)
    BY <1>2, FreeOfIs
  <1>4. FreePart(Left(segment, busy, f), segment, {busy[n] : n \in 1..Len(busy)})
    BY <1>2, <1>3, LeftIsFree
  <1> QED BY <1>1, <1>2, <1>3, <1>4

\* The minutes of slots that do not overlap are their instants.
LEMMA MinutesAreInstants ==
    ASSUME NEW S \in SUBSET Spans, IsFiniteSet(S), Disjoint(S)
    PROVE  IsFiniteSet(Instants(S)) /\ Minutes(S) = Cardinality(Instants(S))
  <1> DEFINE f == [slot \in S |-> slot[2] - slot[1]]
             Counted(T) == IsFiniteSet(Instants(T)) /\ SumOf(f, T) = Cardinality(Instants(T))
             Bad == {T \in SUBSET S : ~Counted(T)}
  <1>1. Minutes(S) = SumOf(f, S)
    BY DEF Minutes, SumOf
  <1>2. ASSUME Bad # {} PROVE FALSE
    <2>1. PICK T \in Bad : \A U \in SUBSET T : U # T => U \notin Bad
      <3>1. Bad \in SUBSET (SUBSET S)
        OBVIOUS
      <3> HIDE DEF Bad
      <3> QED BY <1>2, <3>1, LeastBad
    <2>2. T \in SUBSET S /\ IsFiniteSet(T)
      BY <2>1, FS_Subset
    <2>3. T # {}
      <3> SUFFICES ASSUME T = {} PROVE FALSE
        OBVIOUS
      <3>1. Instants(T) = {}
        BY DEF Instants
      <3>2. SumOf(f, T) = 0
        <4> HIDE DEF f
        <4> QED BY SumEmpty
      <3>3. Counted(T)
        BY <3>1, <3>2, FS_EmptySet
      <3> QED BY <2>1, <3>3
    <2> DEFINE x == OneOf(T)
               U == T \ {x}
               own == x[1]..(x[2] - 1)
    <2>4. x \in T /\ U \in SUBSET T /\ U # T /\ SumOf(f, T) = f[x] + SumOf(f, U)
      <3> HIDE DEF f
      <3> QED BY <2>2, <2>3, OneOfIs, SumStep
    <2>5. U \in SUBSET S /\ Counted(U)
      BY <2>1, <2>2, <2>4
    <2> HIDE DEF x
    <2>6. x[1] \in Int /\ x[2] \in Int /\ x[1] < x[2] /\ f[x] = x[2] - x[1] /\ x \in S
      BY <2>2, <2>4 DEF Spans
    <2>7. IsFiniteSet(own) /\ Cardinality(own) = x[2] - x[1]
      <3>1. x[2] - 1 \in Int /\ ~(x[1] > x[2] - 1)
        BY <2>6
      <3>2. Cardinality(own) = (x[2] - 1) - x[1] + 1 /\ IsFiniteSet(own)
        BY <2>6, <3>1, FS_Interval
      <3> HIDE DEF own
      <3> QED BY <2>6, <3>2
    <2>8. own \cap Instants(U) = {}
      <3> SUFFICES ASSUME NEW m \in own, m \in Instants(U) PROVE FALSE
        OBVIOUS
      <3>1. PICK y \in U : m \in y[1]..(y[2] - 1)
        BY DEF Instants
      <3>2. y \in S /\ y # x /\ y[1] \in Int /\ y[2] \in Int
        BY <2>5, <3>1 DEF Spans
      <3>3. ~Overlaps(x, y)
        BY <2>6, <3>2 DEF Disjoint
      <3> QED BY <2>6, <3>1, <3>2, <3>3 DEF Overlaps
    <2>9. Instants(T) = own \cup Instants(U)
      <3>1. ASSUME NEW m PROVE m \in Instants(T) <=> m \in own \cup Instants(U)
        BY <2>4 DEF Instants
      <3> QED BY <3>1
    <2> HIDE DEF own, U
    <2>10. /\ IsFiniteSet(own \cup Instants(U))
           /\ Cardinality(own \cup Instants(U)) = Cardinality(own) + Cardinality(Instants(U))
      <3>1. /\ IsFiniteSet(own \cup Instants(U))
            /\ Cardinality(own \cup Instants(U))
                 = Cardinality(own) + Cardinality(Instants(U)) - Cardinality(own \cap Instants(U))
        BY <2>5, <2>7, FS_Union
      <3>2. Cardinality(own \cap Instants(U)) = 0
        BY <2>8, FS_EmptySet
      <3>3. Cardinality(own) \in Nat /\ Cardinality(Instants(U)) \in Nat
        BY <2>5, <2>7, FS_CardinalityType
      <3> QED BY <3>1, <3>2, <3>3
    <2>11. Cardinality(Instants(U)) \in Nat
      BY <2>5, FS_CardinalityType
    <2>12. SumOf(f, T) = Cardinality(Instants(T)) /\ IsFiniteSet(Instants(T))
      <3> HIDE DEF f
      <3> QED BY <2>4, <2>5, <2>6, <2>7, <2>9, <2>10, <2>11
    <2> QED BY <2>1, <2>12
  <1>3. S \notin Bad
    BY <1>2
  <1> HIDE DEF f
  <1> QED BY <1>1, <1>3

\* What the reports rest on: the windows of a room are finitely many and do not overlap,
\* and bookings ask for what a template says, at some time.
TimesInv ==
    /\ SchedTypeOK
    /\ \A b \in BookingIds : bookings[b] # NoBooking =>
           bookings[b].slot \in TimeRanges /\ bookings[b].template \in DOMAIN Templates
    /\ DOMAIN availability = Rooms
    /\ \A r \in Rooms : \/ availability[r] = NeverSet
                        \/ IsFiniteSet(availability[r]) /\ availability[r] \subseteq TimeRanges

BusySlots(r, window) == {Expand(bookings[b].slot) : b \in Between(window, r)}

\* A time range of the code, and what the turnaround makes of it, are spans.
LEMMA RangesAreSpans ==
    /\ TimeRanges \subseteq Spans
    /\ \A slot \in TimeRanges : Expand(slot) \in Spans /\ ContainsRange(Expand(slot), slot)
  BY SchedulingAssumption DEF TimeRanges, Spans, Expand, ContainsRange

\* The segments of a room within a window.
LEMMA SegmentsAre ==
    ASSUME TimesInv, NEW r \in Rooms, NEW window \in TimeRanges
    PROVE  /\ AvailableSegments(r, window) \subseteq Spans
           /\ IsFiniteSet(AvailableSegments(r, window))
           /\ Disjoint(AvailableSegments(r, window))
           /\ \A s \in AvailableSegments(r, window) : ContainsRange(window, s)
  <1>1. PICK W : W = IF availability[r] = NeverSet THEN {window} ELSE availability[r]
    OBVIOUS
  <1>2. AvailableSegments(r, window) = Cuts(W, window)
    BY <1>1 DEF AvailableSegments
  <1>3. window \in Spans
    BY RangesAreSpans
  <1>4. W \in SUBSET Spans /\ IsFiniteSet(W) /\ Disjoint(W)
    <2>1. CASE availability[r] = NeverSet
      BY <1>1, <1>3, <2>1, FS_Singleton DEF Disjoint
    <2>2. CASE availability[r] # NeverSet
      BY <1>1, <2>2, RangesAreSpans DEF TimesInv, SchedTypeOK
    <2> QED BY <2>1, <2>2
  <1> QED BY <1>2, <1>3, <1>4, CutsAre

\* The busy slots of a room.
LEMMA BusySlotsAre ==
    ASSUME TimesInv, NEW r, NEW window \in TimeRanges
    PROVE  BusySlots(r, window) \in SUBSET Spans /\ IsFiniteSet(BusySlots(r, window))
  <1> DEFINE slotOf == [b \in BookingIds |-> Expand(bookings[b].slot)]
  <1>1. Between(window, r) \in SUBSET BookingIds
    BY DEF Between
  <1>2. IsFiniteSet(Between(window, r))
    BY <1>1, FS_Subset, SchedulingAssumption
  <1>3. BusySlots(r, window) = {slotOf[b] : b \in Between(window, r)}
    BY <1>1 DEF BusySlots
  <1>4. BusySlots(r, window) \subseteq Spans
    BY RangesAreSpans DEF BusySlots, Between, Active, TimesInv
  <1> HIDE DEF slotOf
  <1> QED BY <1>2, <1>3, <1>4, ImageIsFinite

\* What is free in a window is free of each segment.
LEMMA FreeIntervalsAre ==
    ASSUME TimesInv, NEW r \in Rooms, NEW window \in TimeRanges
    PROVE  LET free == FreeIntervals(r, window)
               segments == AvailableSegments(r, window)
           IN  /\ IsFiniteSet(free) /\ free \subseteq Spans
               /\ \A a \in free : \E s \in segments : ContainsRange(s, a)
               /\ \A a \in free, b \in BusySlots(r, window) : ~Overlaps(a, b)
               /\ \A i \in Spans, s \in segments :
                     ContainsRange(s, i) /\ (\A b \in BusySlots(r, window) : ~Overlaps(i, b))
                        => \E a \in free : ContainsRange(a, i)
               /\ \A a, b \in free : a # b =>
                     \/ a[2] < b[1] \/ b[2] < a[1]
                     \/ \E s, t \in segments : s # t /\ ContainsRange(s, a) /\ ContainsRange(t, b)
  <1> DEFINE segments == AvailableSegments(r, window)
             busy == BusySlots(r, window)
             occupied == Cuts(busy, window)
             part == [s \in segments |-> FreeOf(s, ByStart(occupied))]
             free == UNION {part[s] : s \in segments}
  <1>1. FreeIntervals(r, window) = free
    BY DEF FreeIntervals, BusySlots
  <1>2. window \in Spans /\ busy \in SUBSET Spans /\ IsFiniteSet(busy)
    BY BusySlotsAre, RangesAreSpans
  <1>3. /\ segments \subseteq Spans /\ IsFiniteSet(segments)
        /\ \A s \in segments : ContainsRange(window, s)
    BY SegmentsAre
  <1> HIDE DEF busy, segments
  <1>4. /\ occupied \in SUBSET Spans /\ IsFiniteSet(occupied)
        /\ \A a \in occupied : \E s \in busy : ContainsRange(s, a)
        /\ \A s \in busy : Overlaps(s, window) => Meet(s, window) \in occupied
    BY <1>2, CutsAre
  <1>5. ASSUME NEW s \in segments
        PROVE  FreePart(part[s], s, occupied)
    <2> HIDE DEF occupied
    <2>1. s \in Spans
      BY <1>3
    <2>2. FreePart(FreeOf(s, ByStart(occupied)), s, occupied)
      BY <1>4, <2>1, FreeOfSegment
    <2> QED BY <2>2
  <1>6. ASSUME NEW i \in Spans, NEW s \in segments, ContainsRange(s, i)
        PROVE  (\A b \in occupied : ~Overlaps(i, b)) <=> (\A b \in busy : ~Overlaps(i, b))
    <2>1. ContainsRange(window, i)
      BY <1>2, <1>3, <1>6 DEF ContainsRange, Spans
    <2>2. ASSUME NEW b \in busy, Overlaps(i, b)
          PROVE  \E c \in occupied : Overlaps(i, c)
      <3>1. b \in Spans /\ window \in Spans
        BY <1>2
      <3>2. Overlaps(b, window) /\ Overlaps(i, Meet(b, window))
        BY <2>1, <2>2, <3>1 DEF Spans, Overlaps, ContainsRange, Meet, Larger, Smaller
      <3> QED BY <1>4, <3>2
    <2>3. ASSUME NEW c \in occupied, Overlaps(i, c)
          PROVE  \E b \in busy : Overlaps(i, b)
      <3>1. PICK b \in busy : ContainsRange(b, c)
        BY <1>4
      <3>2. b \in Spans /\ c \in Spans /\ ContainsRange(i, i)
        BY <1>2, <1>4, <3>1 DEF Spans, ContainsRange
      <3>3. Overlaps(i, b)
        BY <2>3, <3>1, <3>2, WithinApart
      <3> QED BY <3>3
    <2> QED BY <2>2, <2>3
  <1> HIDE DEF occupied, part
  <1>7. IsFiniteSet(free)
    <2>1. IsFiniteSet({part[s] : s \in segments})
      BY <1>3, ImageIsFinite
    <2>2. \A T \in {part[s] : s \in segments} : IsFiniteSet(T)
      BY <1>5 DEF FreePart
    <2> QED BY <2>1, <2>2, FS_UNION
  <1>8. ASSUME NEW a \in free
        PROVE  \E s \in segments : a \in part[s] /\ a \in Spans /\ ContainsRange(s, a)
    <2>1. PICK s \in segments : a \in part[s]
      OBVIOUS
    <2> QED BY <1>5, <2>1 DEF FreePart
  <1>9. ASSUME NEW a \in free, NEW b \in busy PROVE ~Overlaps(a, b)
    <2>1. PICK s \in segments : a \in part[s] /\ a \in Spans /\ ContainsRange(s, a)
      BY <1>8
    <2>2. \A c \in occupied : ~Overlaps(a, c)
      BY <1>5, <2>1 DEF FreePart
    <2> QED BY <1>6, <2>1, <2>2
  <1>10. ASSUME NEW i \in Spans, NEW s \in segments, ContainsRange(s, i),
                \A b \in busy : ~Overlaps(i, b)
         PROVE  \E a \in free : ContainsRange(a, i)
    <2>1. \A c \in occupied : ~Overlaps(i, c)
      BY <1>6, <1>10
    <2>2. PICK a \in part[s] : ContainsRange(a, i)
      BY <1>5, <1>10, <2>1 DEF FreePart
    <2> QED BY <2>2
  <1>11. ASSUME NEW a \in free, NEW b \in free, a # b
         PROVE  \/ a[2] < b[1] \/ b[2] < a[1]
                \/ \E s, t \in segments : s # t /\ ContainsRange(s, a) /\ ContainsRange(t, b)
    <2>1. PICK s \in segments : a \in part[s] /\ ContainsRange(s, a)
      BY <1>8
    <2>2. PICK t \in segments : b \in part[t] /\ ContainsRange(t, b)
      BY <1>8
    <2>3. CASE s = t
      BY <1>5, <1>11, <2>1, <2>2, <2>3 DEF FreePart
    <2>4. CASE s # t
      BY <2>1, <2>2, <2>4
    <2> QED BY <2>3, <2>4
  <1>12. free \subseteq Spans
    BY <1>8
  <1> HIDE DEF free
  <1> QED BY <1>1, <1>7, <1>8, <1>9, <1>10, <1>11, <1>12 DEF segments, busy

\* An instant is of a slot if the slot overlaps it.
LEMMA InstantsAre ==
    ASSUME NEW S \in SUBSET Spans, NEW m
    PROVE  /\ m \in Instants(S) <=> m \in Int /\ \E s \in S : Overlaps(<<m, m + 1>>, s)
           /\ m \in Int => <<m, m + 1>> \in Spans
           /\ \A s \in Spans : m \in Int =>
                 (Overlaps(<<m, m + 1>>, s) <=> ContainsRange(s, <<m, m + 1>>))
  <1>1. ASSUME NEW s \in Spans
        PROVE  /\ m \in s[1]..(s[2] - 1) <=> m \in Int /\ Overlaps(<<m, m + 1>>, s)
               /\ m \in Int => (Overlaps(<<m, m + 1>>, s) <=> ContainsRange(s, <<m, m + 1>>))
    BY DEF Spans, Overlaps, ContainsRange
  <1>2. m \in Int => <<m, m + 1>> \in Spans
    BY DEF Spans
  <1>3. m \in Instants(S) <=> \E s \in S : m \in s[1]..(s[2] - 1)
    BY DEF Instants
  <1> QED BY <1>1, <1>2, <1>3

\* The free time of a room is what is available and not in the turnaround of a booking that
\* the window looks at, in few intervals, and utilization counts the rest.
LEMMA FreeTimeIs ==
    ASSUME TimesInv, NEW r \in Rooms, NEW window \in Views
    PROVE  LET free == FreeIntervals(r, window)
               available == Instants(AvailableSegments(r, window))
               busy == Instants(BusySlots(r, window))
           IN  /\ Instants(free) = available \ busy
               /\ Disjoint(free)
               /\ \A a, b \in free :
                      a[2] = b[1] => \E s \in AvailableSegments(r, window) : s[2] = a[2]
               /\ Utilization(r, window).booked = Cardinality(available \cap busy)
  <1>1. PICK free, segments, slots :
            /\ free = FreeIntervals(r, window)
            /\ segments = AvailableSegments(r, window)
            /\ slots = BusySlots(r, window)
    OBVIOUS
  <1>2. window \in TimeRanges
    BY SchedulingAssumption
  <1>3. /\ IsFiniteSet(free) /\ free \subseteq Spans
        /\ \A a \in free : \E s \in segments : ContainsRange(s, a)
        /\ \A a \in free, b \in slots : ~Overlaps(a, b)
        /\ \A i \in Spans, s \in segments :
              ContainsRange(s, i) /\ (\A b \in slots : ~Overlaps(i, b))
                 => \E a \in free : ContainsRange(a, i)
        /\ \A a, b \in free : a # b =>
              \/ a[2] < b[1] \/ b[2] < a[1]
              \/ \E s, t \in segments : s # t /\ ContainsRange(s, a) /\ ContainsRange(t, b)
    BY <1>1, <1>2, FreeIntervalsAre
  <1>4. segments \subseteq Spans /\ IsFiniteSet(segments) /\ Disjoint(segments)
    BY <1>1, <1>2, SegmentsAre
  <1>5. slots \subseteq Spans
    BY <1>1, <1>2, BusySlotsAre
  <1>6. ASSUME NEW m
        PROVE  m \in Instants(free) <=> m \in Instants(segments) /\ m \notin Instants(slots)
    <2> DEFINE i == <<m, m + 1>>
    <2>1. /\ m \in Instants(free) <=> m \in Int /\ \E a \in free : Overlaps(i, a)
          /\ m \in Instants(segments) <=> m \in Int /\ \E a \in segments : Overlaps(i, a)
          /\ m \in Instants(slots) <=> m \in Int /\ \E a \in slots : Overlaps(i, a)
          /\ m \in Int => i \in Spans
          /\ \A s \in Spans : m \in Int => (Overlaps(i, s) <=> ContainsRange(s, i))
      BY <1>3, <1>4, <1>5, InstantsAre
    <2> HIDE DEF i
    <2>2. ASSUME m \in Instants(free) PROVE m \in Instants(segments) /\ m \notin Instants(slots)
      <3>1. PICK a \in free : Overlaps(i, a) /\ m \in Int /\ i \in Spans /\ ContainsRange(a, i)
        BY <1>3, <2>1, <2>2
      <3>2. PICK s \in segments : ContainsRange(s, a)
        BY <1>3
      <3>3. a \in Spans /\ s \in Spans
        BY <1>3, <1>4
      <3>4. ContainsRange(s, i)
        BY <3>1, <3>2, <3>3 DEF Spans, ContainsRange
      <3>5. ASSUME NEW b \in slots, Overlaps(i, b) PROVE FALSE
        <4>1. b \in Spans /\ ContainsRange(b, b)
          BY <1>5 DEF Spans, ContainsRange
        <4>2. Overlaps(a, b)
          BY <3>1, <3>3, <3>5, <4>1, WithinApart
        <4> QED BY <1>3, <4>2
      <3> QED BY <2>1, <3>1, <3>3, <3>4, <3>5
    <2>3. ASSUME m \in Instants(segments), m \notin Instants(slots) PROVE m \in Instants(free)
      <3>1. PICK s \in segments : m \in Int /\ i \in Spans /\ ContainsRange(s, i)
        BY <1>4, <2>1, <2>3
      <3>2. \A b \in slots : ~Overlaps(i, b)
        BY <2>1, <2>3, <3>1
      <3>3. PICK a \in free : ContainsRange(a, i)
        BY <1>3, <3>1, <3>2
      <3> QED BY <1>3, <2>1, <3>1, <3>3
    <2> QED BY <2>2, <2>3
  <1>7. Instants(free) = Instants(segments) \ Instants(slots)
    BY <1>6
  \* Free intervals of two segments are apart as the segments are.
  <1>8. ASSUME NEW s \in segments, NEW t \in segments, s # t, NEW a \in free, NEW b \in free,
               ContainsRange(s, a), ContainsRange(t, b)
        PROVE  ~Overlaps(a, b) /\ (a[2] = b[1] => s[2] = a[2])
    <2>1. s \in Spans /\ t \in Spans /\ a \in Spans /\ b \in Spans
      BY <1>3, <1>4
    <2>2. ~Overlaps(s, t)
      BY <1>4, <1>8 DEF Disjoint
    <2> QED BY <1>8, <2>1, <2>2 DEF Spans, Overlaps, ContainsRange
  <1>9. Disjoint(free)
    <2>1. ASSUME NEW a \in free, NEW b \in free, a # b, Overlaps(a, b) PROVE FALSE
      <3>1. a \in Spans /\ b \in Spans
        BY <1>3
      <3>2. ~(a[2] < b[1]) /\ ~(b[2] < a[1])
        BY <2>1, <3>1 DEF Spans, Overlaps
      <3> QED BY <1>3, <1>8, <2>1, <3>2
    <2> QED BY <2>1 DEF Disjoint
  <1>10. ASSUME NEW a \in free, NEW b \in free, a[2] = b[1]
         PROVE  \E s \in segments : s[2] = a[2]
    <2>1. a \in Spans /\ b \in Spans
      BY <1>3
    <2>2. a # b /\ ~(a[2] < b[1]) /\ ~(b[2] < a[1])
      BY <1>10, <2>1 DEF Spans
    <2> QED BY <1>3, <1>8, <1>10, <2>2
  <1>11. Utilization(r, window).booked = Cardinality(Instants(segments) \cap Instants(slots))
    <2> DEFINE A == Instants(segments)
               B == Instants(slots)
    <2>1. IsFiniteSet(A) /\ Minutes(segments) = Cardinality(A)
      BY <1>4, MinutesAreInstants
    <2>2. Minutes(free) = Cardinality(Instants(free))
      BY <1>3, <1>9, MinutesAreInstants
    <2>3. Utilization(r, window).booked = Larger(0, Minutes(segments) - Minutes(free))
      BY <1>1 DEF Utilization
    <2> HIDE DEF A, B
    <2>4. Cardinality(A \ B) = Cardinality(A) - Cardinality(A \cap B)
      BY <2>1, FS_Difference
    <2>5. A \cap B \in SUBSET A
      OBVIOUS
    <2>6. Cardinality(A \cap B) \in Nat /\ Cardinality(A) \in Nat
      BY <2>1, <2>5, FS_Subset, FS_CardinalityType
    <2>7. Minutes(free) = Cardinality(A \ B)
      BY <1>7, <2>2 DEF A, B
    <2>8. Utilization(r, window).booked = Cardinality(A \cap B)
      BY <2>1, <2>3, <2>4, <2>6, <2>7 DEF Larger
    <2> QED BY <2>8 DEF A, B
  <1> QED BY <1>1, <1>7, <1>9, <1>10, <1>11

\* A window looks at every booking with an instant in it, or with one in its turnaround that
\* is more than a turnaround from the ends of the window.
LEMMA LookedAt ==
    ASSUME TimesInv, NEW r \in Rooms, NEW window \in TimeRanges, NEW b \in BookingIds, Active(b),
           r \in Wants(bookings[b]).rooms, NEW t \in Int
    PROVE  /\ t \in Instants({bookings[b].slot}) => t \in Instants({Expand(bookings[b].slot)})
           /\ t \in Instants({bookings[b].slot}) /\ t \in window[1]..(window[2] - 1) =>
                  b \in Between(window, r)
           /\ /\ t \in Instants({Expand(bookings[b].slot)})
              /\ t \in (window[1] + Turnaround)..(window[2] - Turnaround - 1)
              => b \in Between(window, r)
           /\ b \in Between(window, r) /\ t \in Instants({Expand(bookings[b].slot)}) =>
                  t \in Instants(BusySlots(r, window))
  <1>1. PICK slot \in TimeRanges : slot = bookings[b].slot
    BY DEF TimesInv, Active
  <1>2. /\ slot[1] \in Nat /\ slot[2] \in Nat /\ window[1] \in Nat /\ window[2] \in Nat
        /\ Turnaround \in Nat
    BY SchedulingAssumption DEF TimeRanges
  <1>3. t \in Instants({slot}) <=> slot[1] <= t /\ t < slot[2]
    BY <1>2 DEF Instants
  <1>4. t \in Instants({Expand(slot)}) <=> slot[1] - Turnaround <= t /\ t < slot[2] + Turnaround
    BY <1>2 DEF Instants, Expand
  <1>5. b \in Between(window, r) <=> slot[1] < window[2] /\ window[1] < slot[2]
    BY <1>1 DEF Between, Overlaps
  <1>6. b \in Between(window, r) => Expand(slot) \in BusySlots(r, window)
    BY <1>1 DEF BusySlots
  <1>7. Expand(slot) \in BusySlots(r, window) /\ t \in Instants({Expand(slot)}) =>
            t \in Instants(BusySlots(r, window))
    BY DEF Instants
  <1> QED BY <1>1, <1>2, <1>3, <1>4, <1>5, <1>6, <1>7

\* So the free time of a room is what is available and not kept for any of its bookings, up
\* to a turnaround from the ends of the window; and nowhere is it in use.
LEMMA FreeTimeExact == TimesInv => FreeIntervalsExact
  <1> SUFFICES ASSUME TimesInv, NEW r \in Rooms, NEW window \in Views
               PROVE  LET free == FreeIntervals(r, window)
                          available == Instants(AvailableSegments(r, window))
                      IN  /\ available \ Busy(r) \subseteq Instants(free)
                          /\ Instants(free) \subseteq available \ InUse(r)
                          /\ \A t \in (window[1] + Turnaround)..(window[2] - Turnaround - 1) :
                                 t \in Instants(free) <=> t \in available \ Busy(r)
                          /\ Disjoint(free)
                          /\ \A a, b \in free :
                                 a[2] = b[1] => \E s \in AvailableSegments(r, window) : s[2] = a[2]
                          /\ Utilization(r, window).booked = Cardinality(available \ Instants(free))
    BY DEF FreeIntervalsExact
  <1> DEFINE free == Instants(FreeIntervals(r, window))
             available == Instants(AvailableSegments(r, window))
             busy == Instants(BusySlots(r, window))
             hers == {c \in BookingIds : Active(c) /\ r \in Wants(bookings[c]).rooms}
  <1>1. window \in TimeRanges
    BY SchedulingAssumption
  <1>2. /\ free = available \ busy
        /\ Utilization(r, window).booked = Cardinality(available \cap busy)
    BY FreeTimeIs
  <1>3. busy \subseteq Busy(r)
    BY DEF Instants, BusySlots, Busy, Between
  <1>4. ASSUME NEW t \in available PROVE t \in Int /\ t \in window[1]..(window[2] - 1)
    <2>1. PICK s \in AvailableSegments(r, window) : t \in s[1]..(s[2] - 1)
      BY DEF Instants
    <2>2. s \in Spans /\ ContainsRange(window, s)
      BY <1>1, SegmentsAre
    <2> QED BY <1>1, <2>1, <2>2 DEF TimeRanges, Spans, ContainsRange
  <1>5. ASSUME NEW t \in available, t \in InUse(r) PROVE t \in busy
    <2>1. PICK b \in hers : t \in Instants({bookings[b].slot})
      BY <1>5 DEF InUse, Instants
    <2> QED BY <1>1, <1>4, <2>1, LookedAt
  <1>6. ASSUME NEW t \in (window[1] + Turnaround)..(window[2] - Turnaround - 1), t \in Busy(r)
        PROVE  t \in busy
    <2>1. PICK b \in hers : t \in Instants({Expand(bookings[b].slot)})
      BY <1>6 DEF Busy, Instants
    <2>2. t \in Int
      BY <1>1, SchedulingAssumption DEF TimeRanges
    <2> QED BY <1>1, <1>6, <2>1, <2>2, LookedAt
  <1>7. /\ Disjoint(FreeIntervals(r, window))
        /\ \A a, b \in FreeIntervals(r, window) :
               a[2] = b[1] => \E s \in AvailableSegments(r, window) : s[2] = a[2]
    BY FreeTimeIs
  <1> HIDE DEF free, available, busy
  <1>8. available \ free = available \cap busy
    BY <1>2
  <1>9. Utilization(r, window).booked = Cardinality(available \ free)
    BY <1>2, <1>8
  <1>10. available \ Busy(r) \subseteq free /\ free \subseteq available \ InUse(r)
    BY <1>2, <1>3, <1>5
  <1>11. ASSUME NEW t \in (window[1] + Turnaround)..(window[2] - Turnaround - 1)
         PROVE  t \in free <=> t \in available \ Busy(r)
    BY <1>2, <1>3, <1>6
  <1> QED BY <1>7, <1>9, <1>10, <1>11 DEF free, available

\* A room whose availability was set to nothing has no free time.
LEMMA NothingIsFree ==
    ASSUME NEW r, NEW window, availability[r] = {}
    PROVE  FreeIntervals(r, window) = {}
  <1>1. AvailableSegments(r, window) = {}
    BY SchedulingAssumption DEF AvailableSegments, Cuts
  <1> QED BY <1>1 DEF FreeIntervals

\* A room that is offered for a slot has the slot in its free time.
LEMMA OfferedIsFree == TimesInv => AvailableIsFree
  <1> SUFFICES ASSUME TimesInv, NEW r \in Rooms, NEW window \in Views, NEW slot \in Slots,
                      ContainsRange(window, slot), r \in AvailableRooms(slot, 0),
                      availability[r] # {}
               PROVE  \E interval \in FreeIntervals(r, window) : ContainsRange(interval, slot)
    BY NothingIsFree DEF AvailableIsFree
  <1> DEFINE wants == [rooms |-> {r}, performers |-> {}, attendees |-> 0]
  <1>1. FindConflicts(slot, wants, {}) = {}
    BY DEF AvailableRooms
  <1>2. /\ slot \in TimeRanges /\ window \in TimeRanges /\ slot \in Spans /\ window \in Spans
        /\ Expand(slot) \in Spans /\ ContainsRange(Expand(slot), slot)
    BY RangesAreSpans, SchedulingAssumption
  <1>3. ASSUME NEW b \in Between(window, r) PROVE ~Overlaps(slot, Expand(bookings[b].slot))
    <2>1. b \in BookingIds /\ Active(b) /\ r \in Wants(bookings[b]).rooms
      BY DEF Between
    <2>2. Shared(wants, Wants(bookings[b])) # {}
      BY <2>1 DEF Shared
    <2>3. ~Overlaps(Expand(slot), Expand(bookings[b].slot))
      <3>1. BookingConflicts(slot, wants, {}) = {}
        BY <1>1 DEF FindConflicts
      <3> HIDE DEF wants
      <3> QED BY <2>1, <2>2, <3>1 DEF BookingConflicts
    <2>4. Expand(bookings[b].slot) \in Spans
      BY <2>1, RangesAreSpans DEF TimesInv, Active
    <2>5. ContainsRange(Expand(bookings[b].slot), Expand(bookings[b].slot))
      BY <2>4 DEF Spans, ContainsRange
    <2> QED BY <1>2, <2>3, <2>4, <2>5, WithinApart
  <1>4. \E s \in AvailableSegments(r, window) : ContainsRange(s, slot)
    <2>1. PICK W : W = IF availability[r] = NeverSet THEN {window} ELSE availability[r]
      OBVIOUS
    <2>2. \E w \in W : w \in TimeRanges /\ ContainsRange(w, slot)
      <3>1. CASE availability[r] = NeverSet
        BY <1>2, <2>1, <3>1
      <3>2. CASE availability[r] # NeverSet
        <4>1. Windows(r) = availability[r] /\ Windows(r) # {} /\ W = availability[r]
          BY <2>1, <3>2 DEF Windows
        <4>2. RoomConflicts(slot, wants) = {}
          BY <1>1 DEF FindConflicts
        <4>3. \E w \in Windows(r) : ContainsRange(w, slot)
          <5> SUFFICES ASSUME \A w \in Windows(r) : ~ContainsRange(w, slot) PROVE FALSE
            OBVIOUS
          <5>1. <<"availability", r>> \in RoomConflicts(slot, wants)
            BY <4>1 DEF RoomConflicts
          <5> QED BY <4>2, <5>1
        <4> QED BY <3>2, <4>1, <4>3 DEF TimesInv
      <3> QED BY <3>1, <3>2
    <2>3. PICK w \in W : w \in TimeRanges /\ ContainsRange(w, slot)
      BY <2>2
    <2>4. w \in Spans
      BY <2>3, RangesAreSpans
    <2>5. Overlaps(w, window) /\ ContainsRange(Meet(w, window), slot)
      BY <1>2, <2>3, <2>4 DEF Spans, ContainsRange, Overlaps, Meet, Larger, Smaller
    <2>6. Meet(w, window) \in AvailableSegments(r, window)
      BY <2>1, <2>5 DEF AvailableSegments, Cuts
    <2> QED BY <2>5, <2>6
  <1>5. \A b \in BusySlots(r, window) : ~Overlaps(slot, b)
    BY <1>3 DEF BusySlots
  <1> QED BY <1>2, <1>4, <1>5, FreeIntervalsAre

\* A booking is on the timeline of every day that has an instant of it.
LEMMA TimelineComplete == TimesInv => TimelineHasEveryBooking
  <1> SUFFICES ASSUME TimesInv, NEW b \in BookingIds, Active(b), NEW r \in Wants(bookings[b]).rooms,
                      NEW moment \in Instants({bookings[b].slot})
               PROVE  LET today == DailyTimeline(moment \div DayLength)
                      IN  r \in DOMAIN today /\ b \in today[r]
    BY DEF TimelineHasEveryBooking
  <1>1. /\ bookings[b].slot \in TimeRanges /\ Wants(bookings[b]) \in Template
    BY TemplateAssumption DEF TimesInv, Active, Wants
  <1>2. r \in Rooms
    BY <1>1 DEF Template
  <1> DEFINE day == moment \div DayLength
             window == <<day * DayLength, (day + 1) * DayLength>>
  <1>3. Overlaps(bookings[b].slot, window)
    <2>1. PICK s \in TimeRanges : s = bookings[b].slot
      BY <1>1
    <2>2. moment \in s[1]..(s[2] - 1) /\ s[1] \in Nat /\ s[2] \in Nat
      BY <2>1 DEF Instants, TimeRanges
    <2>3. moment \in Nat /\ s[1] <= moment /\ moment < s[2]
      BY <2>2
    <2>4. DayLength \in Nat \ {0}
      BY SchedulingAssumption
    <2>5. day \in Int /\ day * DayLength <= moment /\ moment < (day + 1) * DayLength
      BY <2>3, <2>4
    <2>6. day * DayLength \in Int /\ (day + 1) * DayLength \in Int
      BY <2>4, <2>5
    <2> HIDE DEF day
    <2> QED BY <2>1, <2>2, <2>3, <2>5, <2>6 DEF Overlaps
  <1>4. b \in Between(window, r)
    BY <1>3 DEF Between
  <1> HIDE DEF day
  <1> QED BY <1>2, <1>4 DEF DailyTimeline, day

\* There are no windows and no bookings at the start.
LEMMA TimesStart == SchedInit => TimesInv
  <1> SUFFICES ASSUME SchedInit PROVE TimesInv
    OBVIOUS
  <1>1. SchedTypeOK
    BY DEF SchedInit, SchedTypeOK
  <1> QED BY <1>1 DEF SchedInit, TimesInv

\* A slot that is shifted by days is still a time range.
LEMMA ShiftedIsRange ==
    ASSUME NEW slot \in TimeRanges, NEW days \in Nat
    PROVE  Shift(slot, days) \in TimeRanges
  <1>1. days * DayLength \in Nat
    BY SchedulingAssumption
  <1> QED BY <1>1 DEF TimeRanges, Shift

\* What the bookings have, when each of them had it or is placed.
LEMMA BookingsKeepTimes ==
    ASSUME TimesInv, UNCHANGED <<rooms, availability>>,
           \A b \in BookingIds :
               bookings'[b] # NoBooking =>
                   /\ bookings'[b].status \in BookingStatus
                   /\ bookings'[b].slot \in TimeRanges
                   /\ bookings'[b].template \in DOMAIN Templates
    PROVE  TimesInv'
  BY DEF TimesInv, SchedTypeOK

\* What is placed is a booking at some time.
LEMMA NewIsBooking ==
    ASSUME NEW template \in DOMAIN Templates, NEW slot \in TimeRanges, NEW status \in Statuses
    PROVE  LET new == NewBooking(template, slot, status)
           IN  /\ new.status \in BookingStatus
               /\ new.slot \in TimeRanges /\ new.template \in DOMAIN Templates
  BY SchedulingAssumption DEF NewBooking, BookingStatus

\* Every call keeps the times.
LEMMA TimesStep == SchedInv /\ TimesInv /\ [SchedNext]_schedVars => TimesInv'
  <1> SUFFICES ASSUME SchedInv, TimesInv, [SchedNext]_schedVars PROVE TimesInv'
    OBVIOUS
  <1>0. /\ \A slot \in Slots : slot \in TimeRanges
        /\ \A windows \in WindowSets : windows \subseteq TimeRanges /\ IsFiniteSet(windows)
    BY SchedulingAssumption
  <1>1. ASSUME NEW r \in Rooms, NEW capacity \in Capacities, NEW active \in BOOLEAN,
               RegisterRoom(r, capacity) \/ ReplaceRoom(r, active, capacity)
        PROVE  TimesInv'
    <2>1. rooms' \in [Rooms -> [active : BOOLEAN, capacity : Capacities] \cup {NoRoom}]
      <3>1. PICK new \in [active : BOOLEAN, capacity : Capacities] :
                rooms' = [rooms EXCEPT ![r] = new]
        BY <1>1 DEF RegisterRoom, ReplaceRoom
      <3> QED BY <3>1 DEF TimesInv, SchedTypeOK
    <2> QED BY <1>1, <2>1 DEF RegisterRoom, ReplaceRoom, TimesInv, SchedTypeOK
  <1>2. ASSUME NEW r \in Rooms, NEW windows, IsFiniteSet(windows), windows \subseteq TimeRanges,
               Disjoint(windows), availability' = [availability EXCEPT ![r] = windows],
               UNCHANGED <<rooms, bookings>>
        PROVE  TimesInv'
    <2>1. /\ DOMAIN availability' = Rooms /\ availability'[r] = windows
          /\ \A q \in Rooms \ {r} : availability'[q] = availability[q]
      BY <1>2 DEF TimesInv
    <2> QED BY <1>2, <2>1 DEF TimesInv, SchedTypeOK
  <1>3. ASSUME NEW r \in Rooms, NEW windows \in WindowSets, SetAvailability(r, windows)
        PROVE  TimesInv'
    BY <1>0, <1>2, <1>3 DEF SetAvailability
  <1>4. ASSUME NEW r \in Rooms, NEW window \in UNION WindowSets, AddAvailability(r, window)
        PROVE  TimesInv'
    <2>1. /\ IsFiniteSet(Windows(r)) /\ Windows(r) \subseteq TimeRanges /\ Disjoint(Windows(r))
      BY FS_EmptySet DEF Windows, TimesInv, SchedTypeOK, Disjoint
    <2>2. CASE rooms[r] = NoRoom
      BY <1>2, <1>4, <2>1, <2>2 DEF AddAvailability
    <2>3. CASE rooms[r] # NoRoom
      <3>1. /\ availability' = [availability EXCEPT ![r] = Windows(r) \cup {window}]
            /\ \A other \in Windows(r) : ~Overlaps(other, window)
            /\ UNCHANGED <<rooms, bookings>>
        BY <1>4, <2>3 DEF AddAvailability
      <3>2. IsFiniteSet(Windows(r) \cup {window})
        BY <2>1, FS_AddElement
      <3>3. Disjoint(Windows(r) \cup {window})
        BY <2>1, <3>1 DEF Disjoint, Overlaps
      <3>4. Windows(r) \cup {window} \subseteq TimeRanges
        BY <1>0, <2>1
      <3> QED BY <1>2, <3>1, <3>2, <3>3, <3>4
    <2> QED BY <2>2, <2>3
  <1>5. ASSUME NEW b \in BookingIds, NEW template \in DOMAIN Templates, NEW slot \in Slots,
               NEW status \in Statuses, NEW allow, Schedule(b, template, slot, status, allow)
        PROVE  TimesInv'
    <2>1. /\ UNCHANGED <<rooms, availability>>
          /\ bookings'[b] = NewBooking(template, slot, status)
          /\ \A c \in BookingIds \ {b} : bookings'[c] = bookings[c]
      BY <1>5 DEF Schedule, SchedInv
    <2> QED BY <1>0, <2>1, BookingsKeepTimes, NewIsBooking DEF TimesInv, SchedTypeOK
  <1>6. ASSUME NEW b \in BookingIds, NEW slot \in Slots, RescheduleBooking(b, slot)
        PROVE  TimesInv'
    <2>1. /\ UNCHANGED <<rooms, availability>> /\ bookings[b] # NoBooking
          /\ bookings'[b] = [bookings[b] EXCEPT !.slot = slot]
          /\ \A c \in BookingIds \ {b} : bookings'[c] = bookings[c]
      BY <1>6 DEF RescheduleBooking, SchedInv
    <2>2. /\ bookings'[b].slot = slot /\ bookings'[b].template = bookings[b].template
          /\ bookings'[b].status = bookings[b].status
      BY <2>1 DEF SchedInv
    <2> QED BY <1>0, <2>1, <2>2, BookingsKeepTimes DEF TimesInv, SchedTypeOK
  <1>7. ASSUME NEW b \in BookingIds, NEW status \in Statuses, SetStatus(b, status)
        PROVE  TimesInv'
    <2>1. /\ UNCHANGED <<rooms, availability>> /\ bookings[b] # NoBooking
          /\ bookings'[b] = [bookings[b] EXCEPT !.status = status]
          /\ \A c \in BookingIds \ {b} : bookings'[c] = bookings[c]
      BY <1>7 DEF SetStatus, SchedInv
    <2>2. /\ bookings'[b].slot = bookings[b].slot /\ bookings'[b].template = bookings[b].template
          /\ bookings'[b].status = status
      BY <2>1 DEF SchedInv
    <2>3. status \in BookingStatus
      BY SchedulingAssumption DEF BookingStatus
    <2> QED BY <2>1, <2>2, <2>3, BookingsKeepTimes DEF TimesInv, SchedTypeOK
  <1>8. ASSUME NEW b \in BookingIds, RemoveBooking(b) PROVE TimesInv'
    <2>1. /\ UNCHANGED <<rooms, availability>> /\ bookings'[b] = NoBooking
          /\ \A c \in BookingIds \ {b} : bookings'[c] = bookings[c]
      BY <1>8 DEF RemoveBooking, SchedInv
    <2> QED BY <2>1, BookingsKeepTimes DEF TimesInv, SchedTypeOK
  <1>9. ASSUME NEW template \in DOMAIN Templates, NEW slot \in Slots, NEW rule \in SeriesRules,
               NEW status \in Statuses, NEW all,
               ScheduleSeries(template, slot, status, rule, all)
        PROVE  TimesInv'
    <2> DEFINE days == SeriesDays[rule][DayOf(slot)]
               proposed == [n \in DOMAIN days |-> Shift(slot, days[n] - DayOf(slot))]
    <2>2. \A n \in DOMAIN days : Shift(slot, days[n] - DayOf(slot)) \in TimeRanges
      <3>1. rule \in Rules /\ days = Occurrences(rule, DayOf(slot))
        BY SchedulingAssumption DEF SeriesDays
      <3>2. DayOf(slot) \in Nat
        BY <1>0, SchedulingAssumption DEF DayOf, TimeRanges
      <3>3. \A n \in DOMAIN days : days[n] - DayOf(slot) \in Nat
        BY <3>1, <3>2, OccurrencesAreDays
      <3> QED BY <1>0, <3>3, ShiftedIsRange
    <2>3. \A n \in DOMAIN days : proposed[n] = Shift(slot, days[n] - DayOf(slot))
      OBVIOUS
    <2>4. UNCHANGED <<rooms, availability>>
      BY <1>9 DEF ScheduleSeries
    <2>5. PICK staged \in {{n \in DOMAIN days :
                                FindConflicts(proposed[n], Templates[template], {}) = {}}} :
            bookings' = [b \in BookingIds |->
                IF b \in {SeriesIds[n] : n \in staged}
                THEN NewBooking(template, proposed[CHOOSE n \in staged : SeriesIds[n] = b], status)
                ELSE bookings[b]]
      BY <1>9 DEF ScheduleSeries
    <2> HIDE DEF days, proposed
    <2>6. ASSUME NEW b \in BookingIds, bookings'[b] # bookings[b]
          PROVE  \E n \in DOMAIN days : bookings'[b] = NewBooking(template, proposed[n], status)
      <3>1. \E n \in staged : SeriesIds[n] = b
        BY <2>5, <2>6
      <3>2. PICK n \in staged : bookings'[b] = NewBooking(template, proposed[n], status)
        BY <2>5, <3>1
      <3>3. staged \subseteq DOMAIN days
        OBVIOUS
      <3> QED BY <3>2, <3>3
    <2>7. ASSUME NEW b \in BookingIds, bookings'[b] # NoBooking
          PROVE  /\ bookings'[b].status \in BookingStatus
                 /\ bookings'[b].slot \in TimeRanges
                 /\ bookings'[b].template \in DOMAIN Templates
      <3>1. CASE bookings'[b] = bookings[b]
        BY <2>7, <3>1 DEF TimesInv, SchedTypeOK
      <3>2. CASE bookings'[b] # bookings[b]
        BY <2>2, <2>3, <2>6, <3>2, NewIsBooking
      <3> QED BY <3>1, <3>2
    <2> QED BY <2>4, <2>5, <2>7, BookingsKeepTimes
  <1>10. CASE SchedNext
    BY <1>1, <1>3, <1>4, <1>5, <1>6, <1>7, <1>8, <1>9, <1>10 DEF SchedNext
  <1>11. CASE UNCHANGED schedVars
    BY <1>11 DEF schedVars, TimesInv, SchedTypeOK
  <1> QED BY <1>10, <1>11

\* A series that begins on any day of a week falls on the days its rule says, in order, up
\* to its last day and no more often than its count: for any rules the code accepts,
\* however far one looks.
THEOREM OccurrencesFollow == DaySpec => []OccurrencesFollowRule
  <1>1. DayInit => SchedInit
    BY DEF DayInit
  <1>2. [DayNext]_dayVars => [SchedNext]_schedVars
    BY DEF DayNext, dayVars, schedVars
  <1>3. TimesInv => OccurrencesFollowRule
    BY RulesAreFollowed DEF TimesInv, OccurrencesFollowRule
  <1> QED BY <1>1, <1>2, <1>3, SchedStart, SchedStep, TimesStart, TimesStep, PTL DEF DaySpec

\* The free time of a room is what is available and not within the turnaround of any of its
\* bookings, the ends of the window apart; a room that is offered has the slot in its free
\* time unless its availability was set to nothing, and a booking is on the timeline of every
\* day it touches: for any windows, bookings and days.
THEOREM FreeTimeStaysTrue == DaySpec => []FreeTimeIsTrue
  <1>1. DayInit => SchedInit
    BY DEF DayInit
  <1>2. [DayNext]_dayVars => [SchedNext]_schedVars
    BY DEF DayNext, dayVars, schedVars
  <1>3. TimesInv => FreeTimeIsTrue
    BY FreeTimeExact, OfferedIsFree, TimelineComplete DEF FreeTimeIsTrue
  <1> QED BY <1>1, <1>2, <1>3, SchedStart, SchedStep, TimesStart, TimesStep, PTL DEF DaySpec

-----------------------------------------------------------------------------
(***************************************************************************)
(* The box office.  Every refund is off from its share by at most half a   *)
(* cent, so all of them by at most half a cent each; and the shares of the *)
(* tickets given back add up to no more than what was paid for them.       *)
(***************************************************************************)
BoxInv ==
    /\ bands \subseteq DOMAIN Bands
    /\ sales \in [SaleIds -> Sale \cup {NoSale}]
    /\ shares \in [SaleIds -> [calls : Nat, exact : Nat]]
    /\ \A s \in SaleIds \ Sold : shares[s] = [calls |-> 0, exact |-> 0]
    /\ \A s \in Sold :
          /\ sales[s].band_code \in bands
          /\ sales[s].refunded_quantity \in 0..sales[s].quantity
          /\ Gross(s) - sales[s].discount + sales[s].tax \in Nat
          /\ FeeTotal(s) \in Nat
          /\ shares[s].exact <= Total(s) * sales[s].refunded_quantity
          /\ 2 * (sales[s].quantity * sales[s].refund_total - shares[s].exact)
                 <= sales[s].quantity * shares[s].calls
          /\ -2 * (sales[s].quantity * sales[s].refund_total - shares[s].exact)
                 <= sales[s].quantity * shares[s].calls

\* Nothing is paid for the sale.
Free(s) == /\ sales[s].unit_price = 0 /\ sales[s].service_fee = 0 /\ sales[s].tax = 0
           /\ sales[s].discount = 0 /\ sales[s].refund_total = 0

\* A step that records one sale, for no more seats than its band has left.
Recorded(s) ==
    /\ UNCHANGED bands
    /\ s \notin Sold /\ Sold' = Sold \cup {s} /\ \A t \in Sold : sales'[t] = sales[t]
    /\ ActiveQuantity(s)' <= AvailableIn(sales'[s].band_code)
    /\ sales'[s].tender = Comp => Free(s)'

\* A step that takes tickets back, and money only of sales that were paid for.
TakenBack ==
    /\ UNCHANGED bands /\ Sold' = Sold
    /\ \A t \in Sold : /\ sales'[t].band_code = sales[t].band_code
                       /\ sales'[t].tender = sales[t].tender
                       /\ ActiveQuantity(t)' <= ActiveQuantity(t)
                       /\ sales[t].tender = Comp /\ Free(t) => Free(t)'

\* A share rounded to a cent is off by at most half a cent, so one refund more is one half
\* cent more.
LEMMA RoundingIsBounded ==
    ASSUME NEW q \in 1..4, NEW share \in Nat, NEW total \in Nat, NEW exact \in Nat,
           NEW n \in Nat,
           2 * (q * total - exact) <= q * n, -2 * (q * total - exact) <= q * n
    PROVE  /\ HalfUp(share, q) \in Nat
           /\ 2 * (q * (total + HalfUp(share, q)) - (exact + share)) <= q * (n + 1)
           /\ -2 * (q * (total + HalfUp(share, q)) - (exact + share)) <= q * (n + 1)
  <1>1. CASE q = 1
    BY <1>1 DEF HalfUp
  <1>2. CASE q = 2
    BY <1>2 DEF HalfUp
  <1>3. CASE q = 3
    BY <1>3 DEF HalfUp
  <1>4. CASE q = 4
    BY <1>4 DEF HalfUp
  <1> QED BY <1>1, <1>2, <1>3, <1>4

\* What is owed for tickets is no more than their part of what was paid.
LEMMA SharesAreParts ==
    ASSUME NEW paid \in Nat, NEW owed \in 0..paid, NEW r \in 0..4, NEW n \in 1..4, NEW exact \in Nat,
           exact <= paid * r, r + n <= 4
    PROVE  owed * n \in Nat /\ exact + owed * n <= paid * (r + n)
  <1>1. CASE n = 1
    BY <1>1
  <1>2. CASE n = 2
    BY <1>2
  <1>3. CASE n = 3
    BY <1>3
  <1>4. CASE n = 4
    BY <1>4
  <1> QED BY <1>1, <1>2, <1>3, <1>4

\* Refunds exceed what was paid by no more than half a cent each.
LEMMA RefundsAreCovered ==
    ASSUME NEW q \in 1..4, NEW r \in 0..q, NEW paid \in Nat, NEW total \in Nat,
           NEW exact \in Nat, NEW n \in Nat,
           exact <= paid * r, 2 * (q * total - exact) <= q * n
    PROVE  2 * (paid - total) >= -n
  <1>1. exact <= paid * q
    <2>1. CASE q = r
      BY <2>1
    <2>2. CASE r = 0
      BY <2>2
    <2>3. CASE r = 1
      BY <2>3
    <2>4. CASE r = 2
      BY <2>4
    <2>5. CASE r = 3
      BY <2>5
    <2> QED BY <2>1, <2>2, <2>3, <2>4, <2>5
  <1>2. CASE q = 1
    BY <1>1, <1>2
  <1>3. CASE q = 2
    BY <1>1, <1>3
  <1>4. CASE q = 3
    BY <1>1, <1>4
  <1>5. CASE q = 4
    BY <1>1, <1>5
  <1> QED BY <1>2, <1>3, <1>4, <1>5

\* Sales have one to four tickets.
LEMMA TicketsAre == \A sale \in Sale : sale.quantity \in 1..4 /\ sale.quantity \in Int
  <1>1. \A sale \in Sale : sale.quantity \in Quantities
    BY DEF Sale
  <1>2. \A q \in Quantities : q \in 1..4 /\ q \in Int
    BY BoxAssumption
  <1> QED BY <1>1, <1>2

\* A sale that is recorded is one, and what is paid for it is no less than nothing.
LEMMA RecordSaleKeeps ==
    ASSUME BoxInv, NEW s \in SaleIds, NEW code \in DOMAIN Bands, NEW quantity \in Quantities,
           NEW tender \in Tenders \cup {Comp}, NEW discount \in Discounts,
           RecordSale(s, code, quantity, tender, discount)
    PROVE  BoxInv' /\ Recorded(s)
  <1>1. PICK face, fee, rate, paid, taxed, tax :
          /\ face = Bands[code].face_value /\ fee = Bands[code].service_fee
          /\ rate = Bands[code].tax_rate
          /\ paid = IF tender = Comp THEN 0 ELSE 1
          /\ taxed = face * quantity - discount
          /\ tax = paid * HalfUp(taxed * rate, 100)
    OBVIOUS
  <1>2. PICK sale :
          sale = [band_code |-> code, quantity |-> quantity, tender |-> tender,
                  unit_price |-> paid * face, service_fee |-> paid * fee, tax |-> tax,
                  discount |-> discount, refunded_quantity |-> 0, refund_total |-> 0]
    OBVIOUS
  <1>3. /\ s \notin Sold /\ code \in bands /\ UNCHANGED <<bands, shares>>
        /\ IF tender = Comp THEN discount = 0 ELSE discount <= face * quantity
        /\ sales' = [sales EXCEPT ![s] = sale]
    BY <1>1, <1>2 DEF RecordSale
  <1>4. /\ face \in Nat /\ fee \in Nat /\ rate \in Nat /\ discount \in Nat
        /\ quantity \in 1..4 /\ paid \in {0, 1}
    BY <1>1, BoxAssumption
  <1>5. face * quantity \in Nat /\ fee * quantity \in Nat
    BY <1>4
  <1>6. taxed \in Nat
    BY <1>1, <1>3, <1>4, <1>5
  <1>7. taxed * rate \in Nat
    BY <1>4, <1>6
  <1>8. HalfUp(taxed * rate, 100) \in Nat
    <2> DEFINE n == taxed * rate
    <2>1. n \in Nat
      BY <1>7
    <2> HIDE DEF n
    <2>2. HalfUp(n, 100) \in Nat
      BY <2>1 DEF HalfUp
    <2> QED BY <2>2 DEF n
  <1>9. /\ tax \in Nat /\ paid * face \in Nat /\ paid * fee \in Nat
        /\ (paid * fee) * quantity \in Nat
        /\ (paid * face) * quantity - discount + tax \in Nat
    <2> DEFINE half == HalfUp(taxed * rate, 100)
    <2>0. half \in Nat /\ tax = paid * half
      BY <1>1, <1>8
    <2> HIDE DEF half
    <2>1. CASE paid = 0
      <3>1. paid * face = 0 /\ paid * fee = 0 /\ tax = 0 /\ 0 * quantity = 0
        BY <1>4, <2>0, <2>1
      <3>2. discount = 0
        BY <1>1, <1>3, <2>1
      <3> QED BY <3>1, <3>2
    <2>2. CASE paid = 1
      <3>1. paid * face = face /\ paid * fee = fee /\ tax = half
        BY <1>4, <2>0, <2>2
      <3>2. discount <= face * quantity
        BY <1>1, <1>3, <2>2
      <3> QED BY <1>4, <1>5, <2>0, <3>1, <3>2
    <2> QED BY <1>4, <2>1, <2>2
  <1>10. sale \in Sale /\ sale # NoSale
    BY <1>2, <1>4, <1>9, NoSaleAssumption DEF Sale
  <1>11. /\ sales' \in [SaleIds -> Sale \cup {NoSale}] /\ sales'[s] = sale
         /\ Sold' = Sold \cup {s} /\ \A r \in Sold : r # s /\ r \in SaleIds /\ sales'[r] = sales[r]
    BY <1>3, <1>10 DEF BoxInv, Sold
  <1>12. shares[s] = [calls |-> 0, exact |-> 0]
    BY <1>3 DEF BoxInv
  <1>13. ASSUME NEW r \in Sold'
         PROVE  /\ sales'[r].band_code \in bands'
                /\ sales'[r].refunded_quantity \in 0..sales'[r].quantity
                /\ (Gross(r) - sales[r].discount + sales[r].tax \in Nat)'
                /\ (FeeTotal(r) \in Nat)'
                /\ (shares[r].exact <= Total(r) * sales[r].refunded_quantity)'
                /\ (2 * (sales[r].quantity * sales[r].refund_total - shares[r].exact)
                       <= sales[r].quantity * shares[r].calls)'
                /\ (-2 * (sales[r].quantity * sales[r].refund_total - shares[r].exact)
                       <= sales[r].quantity * shares[r].calls)'
    <2>1. CASE r = s
      <3>1. Gross(s)' = (paid * face) * quantity /\ FeeTotal(s)' = (paid * fee) * quantity
        BY <1>2, <1>11 DEF Gross, FeeTotal
      <3>2. Total(s)' \in Int
        BY <1>2, <1>4, <1>9, <1>11, <3>1 DEF Total
      <3>3. /\ sales'[s].refunded_quantity = 0 /\ sales'[s].refund_total = 0
            /\ sales'[s].quantity = quantity /\ sales'[s].band_code = code
            /\ sales'[s].discount = discount /\ sales'[s].tax = tax
            /\ shares'[s].exact = 0 /\ shares'[s].calls = 0
        BY <1>2, <1>3, <1>11, <1>12
      <3>4. Total(s)' * 0 = 0 /\ 0 \in 0..quantity
            /\ 2 * (quantity * 0 - 0) <= quantity * 0 /\ -2 * (quantity * 0 - 0) <= quantity * 0
        BY <1>4, <3>2
      <3>5. (Gross(s) - sales[s].discount + sales[s].tax \in Nat)' /\ (FeeTotal(s) \in Nat)'
        BY <1>9, <3>1, <3>3
      <3>6. (shares[s].exact <= Total(s) * sales[s].refunded_quantity)'
        BY <3>3, <3>4
      <3>7. /\ (2 * (sales[s].quantity * sales[s].refund_total - shares[s].exact)
                   <= sales[s].quantity * shares[s].calls)'
            /\ (-2 * (sales[s].quantity * sales[s].refund_total - shares[s].exact)
                   <= sales[s].quantity * shares[s].calls)'
        BY <3>3, <3>4
      <3> QED BY <1>3, <2>1, <3>3, <3>4, <3>5, <3>6, <3>7
    <2>2. CASE r # s
      <3>1. r \in Sold /\ sales'[r] = sales[r] /\ shares'[r] = shares[r] /\ bands' = bands
        BY <1>3, <1>11, <2>2
      <3>2. Gross(r)' = Gross(r) /\ FeeTotal(r)' = FeeTotal(r) /\ Total(r)' = Total(r)
        BY <3>1 DEF Gross, FeeTotal, Total
      <3> QED BY <3>1, <3>2 DEF BoxInv
    <2> QED BY <2>1, <2>2
  <1>14. Recorded(s)
    <2>1. ActiveQuantity(s)' = quantity
      <3>1. sales'[s].quantity = quantity /\ sales'[s].refunded_quantity = 0
        BY <1>2, <1>11
      <3> QED BY <1>4, <3>1 DEF ActiveQuantity
    <2>2. quantity <= AvailableIn(code) /\ sales'[s].band_code = code
      BY <1>2, <1>11 DEF RecordSale
    <2>3. ASSUME sales'[s].tender = Comp PROVE Free(s)'
      <3>1. tender = Comp
        BY <1>2, <1>11, <2>3
      <3>2. paid = 0 /\ discount = 0
        BY <1>1, <1>3, <3>1
      <3>3. PICK half : half = HalfUp(taxed * rate, 100)
        OBVIOUS
      <3>4. paid * face = 0 /\ paid * fee = 0 /\ tax = 0
        BY <1>1, <1>4, <1>8, <3>2, <3>3
      <3> QED BY <1>2, <1>11, <3>2, <3>4 DEF Free
    <2> QED BY <1>3, <1>11, <2>1, <2>2, <2>3 DEF Recorded
  <1> QED BY <1>3, <1>11, <1>13, <1>14 DEF BoxInv

\* What is known of a sale: what was paid for it, with the fees and without.
LEMMA PaidIs ==
    ASSUME BoxInv, NEW s \in Sold
    PROVE  /\ s \in SaleIds /\ sales[s] \in Sale /\ sales[s].quantity \in 1..4
           /\ Total(s) \in Nat
           /\ Gross(s) - sales[s].discount + sales[s].tax \in 0..Total(s)
           /\ Gross(s) - sales[s].discount + sales[s].tax + FeeTotal(s) = Total(s)
  <1>1. s \in SaleIds /\ sales[s] \in Sale
    BY DEF BoxInv, Sold
  <1>2. /\ sales[s].unit_price \in Nat /\ sales[s].quantity \in 1..4 /\ sales[s].service_fee \in Nat
        /\ sales[s].discount \in Nat /\ sales[s].tax \in Nat
    BY <1>1, BoxAssumption DEF Sale
  <1>3. Gross(s) \in Nat /\ FeeTotal(s) \in Nat
    BY <1>2 DEF Gross, FeeTotal
  <1>4. Gross(s) - sales[s].discount + sales[s].tax \in Nat
    BY DEF BoxInv
  <1> QED BY <1>1, <1>2, <1>3, <1>4 DEF Total

\* What a step that changes the refunds of one sale has to show of that sale.
LEMMA RefundedIs ==
    ASSUME BoxInv, NEW s \in Sold, NEW r \in Nat, NEW total \in Nat, NEW n \in Nat, NEW exact \in Nat,
           UNCHANGED bands,
           sales' = [sales EXCEPT ![s].refunded_quantity = r, ![s].refund_total = total],
           shares' = [shares EXCEPT ![s] = [calls |-> n, exact |-> exact]],
           r <= sales[s].quantity, exact <= Total(s) * r,
           2 * (sales[s].quantity * total - exact) <= sales[s].quantity * n,
           -2 * (sales[s].quantity * total - exact) <= sales[s].quantity * n,
           sales[s].refunded_quantity <= r,
           sales[s].tender = Comp => total = sales[s].refund_total
    PROVE  BoxInv' /\ TakenBack
  <1> DEFINE sale == [sales[s] EXCEPT !.refunded_quantity = r, !.refund_total = total]
  <1>1. s \in SaleIds /\ sales[s] \in Sale /\ sales[s].quantity \in 1..4
    BY PaidIs
  <1>2. sale \in Sale /\ sale # NoSale
    BY <1>1, NoSaleAssumption DEF Sale
  <1>3. /\ sales'[s] = sale /\ \A t \in SaleIds \ {s} : sales'[t] = sales[t] /\ shares'[t] = shares[t]
        /\ shares'[s] = [calls |-> n, exact |-> exact]
    BY <1>1 DEF BoxInv
  <1>4. /\ sales' \in [SaleIds -> Sale \cup {NoSale}]
        /\ shares' \in [SaleIds -> [calls : Nat, exact : Nat]]
    BY <1>1, <1>2 DEF BoxInv
  <1>5. Sold' = Sold
    BY <1>1, <1>2, <1>3 DEF Sold
  <1>6. /\ sales'[s].refunded_quantity = r /\ sales'[s].refund_total = total
        /\ sales'[s].quantity = sales[s].quantity /\ sales'[s].band_code = sales[s].band_code
        /\ sales'[s].unit_price = sales[s].unit_price /\ sales'[s].tax = sales[s].tax
        /\ sales'[s].service_fee = sales[s].service_fee
        /\ sales'[s].discount = sales[s].discount
    <2>1. sales'[s] = sale
      BY <1>3
    <2>2. PICK old : old = sales[s]
      OBVIOUS
    <2>3. sale.refunded_quantity = r /\ sale.refund_total = total
      BY <1>1, <2>2 DEF Sale
    <2>4. sale.quantity = old.quantity /\ sale.band_code = old.band_code
      BY <1>1, <2>2 DEF Sale
    <2>5. sale.unit_price = old.unit_price /\ sale.tax = old.tax
      BY <1>1, <2>2 DEF Sale
    <2>6. sale.service_fee = old.service_fee /\ sale.discount = old.discount
      BY <1>1, <2>2 DEF Sale
    <2> HIDE DEF sale
    <2> QED BY <2>1, <2>2, <2>3, <2>4, <2>5, <2>6
  <1>7. Gross(s)' = Gross(s) /\ FeeTotal(s)' = FeeTotal(s) /\ Total(s)' = Total(s)
    BY <1>6 DEF Gross, FeeTotal, Total
  <1>8. ASSUME NEW t \in Sold'
        PROVE  /\ sales'[t].band_code \in bands'
               /\ sales'[t].refunded_quantity \in 0..sales'[t].quantity
               /\ (Gross(t) - sales[t].discount + sales[t].tax \in Nat)'
               /\ (FeeTotal(t) \in Nat)'
               /\ (shares[t].exact <= Total(t) * sales[t].refunded_quantity)'
               /\ (2 * (sales[t].quantity * sales[t].refund_total - shares[t].exact)
                      <= sales[t].quantity * shares[t].calls)'
               /\ (-2 * (sales[t].quantity * sales[t].refund_total - shares[t].exact)
                      <= sales[t].quantity * shares[t].calls)'
    <2>1. CASE t = s
      <3>1. sales'[s].band_code \in bands' /\ sales'[s].refunded_quantity \in 0..sales'[s].quantity
        BY <1>1, <1>6 DEF BoxInv
      <3>2. (Gross(s) - sales[s].discount + sales[s].tax \in Nat)' /\ (FeeTotal(s) \in Nat)'
        BY <1>6, <1>7 DEF BoxInv
      <3>3. shares'[s].exact = exact /\ shares'[s].calls = n
        BY <1>3
      <3> QED BY <1>6, <1>7, <2>1, <3>1, <3>2, <3>3
    <2>2. CASE t # s
      <3>1. t \in Sold /\ sales'[t] = sales[t] /\ shares'[t] = shares[t]
        BY <1>3, <1>5, <2>2 DEF Sold
      <3>2. Gross(t)' = Gross(t) /\ FeeTotal(t)' = FeeTotal(t) /\ Total(t)' = Total(t)
        BY <3>1 DEF Gross, FeeTotal, Total
      <3> QED BY <3>1, <3>2 DEF BoxInv
    <2> QED BY <2>1, <2>2
  <1>9. \A t \in SaleIds \ Sold' : shares'[t] = [calls |-> 0, exact |-> 0]
    BY <1>3, <1>5 DEF BoxInv
  <1>10. sales'[s].tender = sales[s].tender
    <2>1. PICK old : old = sales[s]
      OBVIOUS
    <2>2. sale.tender = old.tender
      BY <1>1, <2>1 DEF Sale
    <2> HIDE DEF sale
    <2> QED BY <1>3, <2>1, <2>2
  <1>11. ActiveQuantity(s)' <= ActiveQuantity(s)
    <2>1. sales[s].refunded_quantity \in Int
      BY <1>1 DEF Sale
    <2> QED BY <1>1, <1>6, <2>1 DEF ActiveQuantity
  <1>12. TakenBack
    <2>1. ASSUME NEW t \in Sold
          PROVE  /\ sales'[t].band_code = sales[t].band_code
                 /\ sales'[t].tender = sales[t].tender
                 /\ ActiveQuantity(t)' <= ActiveQuantity(t)
                 /\ sales[t].tender = Comp /\ Free(t) => Free(t)'
      <3>1. CASE t = s
        BY <1>6, <1>10, <1>11, <3>1 DEF Free
      <3>2. CASE t # s
        <4>1. sales'[t] = sales[t]
          BY <1>3, <3>2 DEF Sold
        <4>2. ActiveQuantity(t) \in Int
          <5>1. sales[t] \in Sale /\ sales[t].quantity \in Int
            BY PaidIs, TicketsAre
          <5>2. sales[t].refunded_quantity \in Int
            BY <5>1 DEF Sale
          <5> QED BY <5>1, <5>2 DEF ActiveQuantity
        <4>3. ActiveQuantity(t)' = ActiveQuantity(t)
          BY <4>1 DEF ActiveQuantity
        <4>4. ActiveQuantity(t)' <= ActiveQuantity(t)
          BY <4>2, <4>3
        <4>5. Free(t)' <=> Free(t)
          BY <4>1 DEF Free
        <4> QED BY <4>1, <4>4, <4>5
      <3> QED BY <3>1, <3>2
    <2> QED BY <1>5, <2>1 DEF TakenBack
  <1> QED BY <1>4, <1>8, <1>9, <1>12 DEF BoxInv

\* A refund pays the share of its tickets, rounded once.
LEMMA RefundKeeps ==
    ASSUME BoxInv, NEW s \in SaleIds, NEW quantity \in Quantities, NEW refund_fees \in BOOLEAN,
           Refund(s, quantity, refund_fees)
    PROVE  BoxInv' /\ TakenBack
  <1>1. PICK q, r, total, n, exact, owed :
          /\ q = sales[s].quantity /\ r = sales[s].refunded_quantity /\ total = sales[s].refund_total
          /\ n = shares[s].calls /\ exact = shares[s].exact
          /\ owed = Gross(s) - sales[s].discount + sales[s].tax
                       + (IF refund_fees THEN FeeTotal(s) ELSE 0)
    OBVIOUS
  <1>2. /\ s \in Sold /\ quantity <= q - r /\ UNCHANGED bands
        /\ sales' = [sales EXCEPT ![s].refunded_quantity = @ + quantity,
                                  ![s].refund_total = @ + HalfUp(owed * quantity, q)]
        /\ shares' = [shares EXCEPT ![s] = [calls |-> @.calls + 1,
                                            exact |-> @.exact + owed * quantity]]
    BY <1>1 DEF Refund, RefundShare, ActiveQuantity
  <1>3. /\ q \in 1..4 /\ r \in 0..q /\ total \in Nat /\ n \in Nat /\ exact \in Nat /\ quantity \in 1..4
        /\ exact <= Total(s) * r
        /\ 2 * (q * total - exact) <= q * n /\ -2 * (q * total - exact) <= q * n
    <2>1. sales[s] \in Sale /\ shares[s] \in [calls : Nat, exact : Nat]
      BY <1>2, PaidIs DEF BoxInv
    <2> QED BY <1>1, <1>2, <2>1, PaidIs, BoxAssumption DEF BoxInv, Sale
  <1>4. Total(s) \in Nat /\ owed \in 0..Total(s)
    BY <1>1, <1>2, PaidIs DEF BoxInv
  <1>5. owed * quantity \in Nat /\ exact + owed * quantity <= Total(s) * (r + quantity)
    <2> DEFINE paid == Total(s)
    <2>1. paid \in Nat /\ owed \in 0..paid /\ exact <= paid * r
      BY <1>3, <1>4
    <2> HIDE DEF paid
    <2>3. quantity <= q - r
      BY <1>2
    <2>4. r \in 0..4 /\ r + quantity <= 4
      <3>1. q \in 1..4 /\ r \in 0..q /\ quantity \in 1..4
        BY <1>3
      <3> QED BY <2>3, <3>1
    <2>2. owed * quantity \in Nat /\ exact + owed * quantity <= paid * (r + quantity)
      BY <1>3, <2>1, <2>4, SharesAreParts
    <2> QED BY <2>2 DEF paid
  <1>6. PICK share : share = owed * quantity
    OBVIOUS
  <1>7. /\ HalfUp(share, q) \in Nat
        /\ 2 * (q * (total + HalfUp(share, q)) - (exact + share)) <= q * (n + 1)
        /\ -2 * (q * (total + HalfUp(share, q)) - (exact + share)) <= q * (n + 1)
    BY <1>3, <1>5, <1>6, RoundingIsBounded
  <1>8. PICK more : more = HalfUp(share, q)
    OBVIOUS
  <1>9. /\ sales' = [sales EXCEPT ![s].refunded_quantity = r + quantity,
                                  ![s].refund_total = total + more]
        /\ shares' = [shares EXCEPT ![s] = [calls |-> n + 1, exact |-> exact + share]]
    <2>1. s \in SaleIds /\ sales[s] \in Sale
      BY <1>2, PaidIs
    <2> QED BY <1>1, <1>2, <1>6, <1>8, <2>1 DEF BoxInv
  <1>10. /\ r + quantity \in Nat /\ total + more \in Nat /\ n + 1 \in Nat /\ exact + share \in Nat
         /\ r + quantity <= q
    BY <1>2, <1>3, <1>5, <1>6, <1>7, <1>8
  <1>11. /\ exact + share <= Total(s) * (r + quantity)
         /\ 2 * (q * (total + more) - (exact + share)) <= q * (n + 1)
         /\ -2 * (q * (total + more) - (exact + share)) <= q * (n + 1)
    BY <1>5, <1>6, <1>7, <1>8
  <1>12. sales[s].refunded_quantity <= r + quantity /\ sales[s].tender # Comp
    BY <1>1, <1>3 DEF Refund
  <1> QED BY <1>1, <1>2, <1>9, <1>10, <1>11, <1>12, RefundedIs

\* Releasing complimentary tickets is a refund of nothing.
LEMMA ReleaseKeeps ==
    ASSUME BoxInv, NEW s \in SaleIds, NEW quantity \in Quantities, ReleaseComps(s, quantity)
    PROVE  BoxInv' /\ TakenBack
  <1>1. PICK q, r, total, n, exact :
          /\ q = sales[s].quantity /\ r = sales[s].refunded_quantity /\ total = sales[s].refund_total
          /\ n = shares[s].calls /\ exact = shares[s].exact
    OBVIOUS
  <1>2. /\ s \in Sold /\ quantity <= q - r /\ UNCHANGED bands /\ shares' = shares
        /\ sales' = [sales EXCEPT ![s].refunded_quantity = @ + quantity]
    BY <1>1 DEF ReleaseComps, ActiveQuantity
  <1>3. sales[s] \in Sale /\ shares[s] \in [calls : Nat, exact : Nat] /\ Total(s) \in Nat
    BY <1>2, PaidIs DEF BoxInv
  <1>4. /\ q \in 1..4 /\ r \in 0..q /\ total \in Nat /\ n \in Nat /\ exact \in Nat /\ quantity \in 1..4
        /\ exact <= Total(s) * r
        /\ 2 * (q * total - exact) <= q * n /\ -2 * (q * total - exact) <= q * n
    BY <1>1, <1>2, <1>3, PaidIs, BoxAssumption DEF BoxInv, Sale
  <1>5. /\ sales' = [sales EXCEPT ![s].refunded_quantity = r + quantity, ![s].refund_total = total]
        /\ shares' = [shares EXCEPT ![s] = [calls |-> n, exact |-> exact]]
    BY <1>1, <1>2, <1>3 DEF BoxInv, Sale
  <1>6. exact <= Total(s) * (r + quantity)
    <2> DEFINE paid == Total(s)
    <2>1. paid \in Nat /\ 0 \in 0..paid /\ exact <= paid * r
      BY <1>3, <1>4
    <2> HIDE DEF paid
    <2>2. quantity <= q - r
      BY <1>2
    <2>3. r \in 0..4 /\ r + quantity <= 4
      <3>1. q \in 1..4 /\ r \in 0..q /\ quantity \in 1..4
        BY <1>4
      <3> QED BY <2>2, <3>1
    <2>4. exact + 0 * quantity <= paid * (r + quantity)
      BY <1>4, <2>1, <2>3, SharesAreParts
    <2>5. exact <= paid * (r + quantity)
      BY <1>4, <2>4
    <2> QED BY <2>5 DEF paid
  <1>7. r + quantity \in Nat /\ r + quantity <= q
    BY <1>2, <1>4
  <1>8. sales[s].refunded_quantity <= r + quantity /\ total = sales[s].refund_total
    BY <1>1, <1>4
  <1> QED BY <1>1, <1>2, <1>4, <1>5, <1>6, <1>7, <1>8, RefundedIs

\* Nothing is sold at the start.
LEMMA BoxStart == BoxInit => BoxInv
  <1> SUFFICES ASSUME BoxInit PROVE BoxInv
    OBVIOUS
  <1>1. Sold = {}
    BY DEF BoxInit, Sold
  <1> QED BY <1>1 DEF BoxInit, BoxInv

\* Bands, sales, refunds and releases keep the invariant.
LEMMA BoxStep == BoxInv /\ [BoxNext]_boxVars => BoxInv'
  <1> SUFFICES ASSUME BoxInv, [BoxNext]_boxVars PROVE BoxInv'
    OBVIOUS
  <1>1. ASSUME sales' = sales, shares' = shares, bands \subseteq bands', bands' \subseteq DOMAIN Bands
        PROVE  BoxInv'
    <2>1. Sold' = Sold
      BY <1>1 DEF Sold
    <2>2. \A s : Gross(s)' = Gross(s) /\ FeeTotal(s)' = FeeTotal(s) /\ Total(s)' = Total(s)
      BY <1>1 DEF Gross, FeeTotal, Total
    <2> QED BY <1>1, <2>1, <2>2 DEF BoxInv
  <1>2. CASE UNCHANGED boxVars
    BY <1>1, <1>2 DEF boxVars, BoxInv
  <1>3. ASSUME NEW code \in DOMAIN Bands, AddBand(code) PROVE BoxInv'
    BY <1>1, <1>3 DEF AddBand, BoxInv
  <1> QED BY <1>2, <1>3, RecordSaleKeeps, RefundKeeps, ReleaseKeeps DEF BoxNext, BoxRests

\* The bound on what was paid back follows from the exact shares.
LEMMA InvBoundsRefunds == BoxInv => RefundsMatchShares
  <1> SUFFICES ASSUME BoxInv, NEW s \in Sold
               PROVE  LET off == sales[s].quantity * sales[s].refund_total - shares[s].exact
                      IN  /\ 2 * off <= sales[s].quantity * shares[s].calls
                          /\ -2 * off <= sales[s].quantity * shares[s].calls
                          /\ 2 * NetTotal(s) >= -shares[s].calls
    BY DEF RefundsMatchShares
  <1>1. PICK q, r, total, n, exact, paid :
          /\ q = sales[s].quantity /\ r = sales[s].refunded_quantity /\ total = sales[s].refund_total
          /\ n = shares[s].calls /\ exact = shares[s].exact /\ paid = Total(s)
    OBVIOUS
  <1>2. /\ q \in 1..4 /\ r \in 0..q /\ paid \in Nat /\ total \in Nat /\ exact \in Nat /\ n \in Nat
        /\ exact <= paid * r /\ 2 * (q * total - exact) <= q * n /\ -2 * (q * total - exact) <= q * n
    <2>1. sales[s] \in Sale /\ shares[s] \in [calls : Nat, exact : Nat]
      BY PaidIs DEF BoxInv
    <2> QED BY <1>1, <2>1, PaidIs DEF BoxInv, Sale
  <1>3. 2 * (paid - total) >= -n
    BY <1>2, RefundsAreCovered
  <1> QED BY <1>1, <1>2, <1>3 DEF NetTotal

\* What was given back for a sale is off from the exact share by at most half a cent per
\* refund, and exceeds what was paid by no more than that: for any prices and refunds.
THEOREM RefundsBounded == DaySpec => []RefundsMatchShares
  <1>1. DayInit => BoxInit
    BY DEF DayInit
  <1>2. [DayNext]_dayVars => [BoxNext]_boxVars
    BY DEF DayNext, dayVars, boxVars
  <1> QED BY <1>1, <1>2, BoxStart, BoxStep, InvBoundsRefunds, PTL DEF DaySpec

(***************************************************************************)
(* The reports.  Each is a sum over the sales, so what the settlement, the *)
(* bands and the tenders tell is compared by SumTheorems, for any sales.   *)
(* What has to be known of them is that they are finitely many, that no    *)
(* band is oversold, that the bands together fit the house, and that       *)
(* complimentary tickets cost nothing.                                     *)
(***************************************************************************)
SeatsInv ==
    /\ IsFiniteSet(Sold) /\ IsFiniteSet(bands)
    /\ SumOver(LAMBDA c : Bands[c].allocation, bands) <= Capacity
    /\ \A code \in bands : AvailableIn(code) >= 0
    /\ \A s \in Sold : sales[s].tender = Comp => Free(s)

BooksInv == BoxInv /\ SeatsInv

\* The numbers of a sale.
LEMMA SaleIs ==
    ASSUME BoxInv, NEW s \in Sold
    PROVE  /\ sales[s] \in Sale /\ sales[s].quantity \in 1..4
           /\ sales[s].refunded_quantity \in Nat /\ ActiveQuantity(s) \in 0..sales[s].quantity
           /\ Gross(s) \in Nat /\ FeeTotal(s) \in Nat
           /\ sales[s].discount \in Nat /\ sales[s].tax \in Nat /\ sales[s].refund_total \in Nat
           /\ Total(s) \in Nat
           /\ sales[s].band_code \in bands /\ sales[s].tender \in Tenders \cup {Comp}
  <1>1. /\ sales[s] \in Sale /\ sales[s].quantity \in 1..4 /\ Total(s) \in Nat
        /\ sales[s].refunded_quantity \in 0..sales[s].quantity /\ sales[s].band_code \in bands
    BY PaidIs DEF BoxInv
  <1>2. ActiveQuantity(s) \in 0..sales[s].quantity
    BY <1>1 DEF ActiveQuantity
  <1>3. Gross(s) \in Nat /\ FeeTotal(s) \in Nat
    BY <1>1 DEF Gross, FeeTotal, Sale
  <1> QED BY <1>1, <1>2, <1>3 DEF Sale

\* A step that adds sales and takes nothing of the others back but tickets keeps the bands.
LEMMA SeatsKept ==
    ASSUME BooksInv, BoxInv', bands' = bands, IsFiniteSet(Sold'), Sold \subseteq Sold',
           \A s \in Sold : /\ sales'[s].band_code = sales[s].band_code
                           /\ ActiveQuantity(s)' <= ActiveQuantity(s),
           \A code \in bands :
               \/ Sold' \ Sold = {}
               \/ \E s \in Sold' : /\ Sold' = Sold \cup {s} /\ s \notin Sold
                                   /\ sales'[s].band_code = code =>
                                          ActiveQuantity(s)' <= AvailableIn(code)
    PROVE  \A code \in bands : AvailableIn(code)' >= 0
  <1> SUFFICES ASSUME NEW code \in bands PROVE AvailableIn(code)' >= 0
    OBVIOUS
  <1> DEFINE old == OfBand(code)
             now == OfBand(code)'
             f == [x \in old |-> ActiveQuantity(x)]
             g == [x \in now |-> ActiveQuantity(x)']
             a == Bands[code].allocation
  <1>1. /\ AvailableIn(code) = a - SumOf(f, old) /\ AvailableIn(code)' = a - SumOf(g, now)
        /\ a \in Nat /\ AvailableIn(code) >= 0
    BY BoxAssumption DEF AvailableIn, SumOver, SumOf, BooksInv, SeatsInv, BoxInv
  <1>2. /\ IsFiniteSet(old) /\ \A x \in old : f[x] \in Nat
        /\ \A x \in old : x \in now /\ g[x] \in Int /\ g[x] <= f[x]
    <2>1. old \subseteq Sold /\ old \subseteq now /\ now \subseteq Sold'
      BY DEF OfBand
    <2>2. \A x \in Sold : ActiveQuantity(x) \in Nat
      BY SaleIs DEF BooksInv
    <2>3. \A x \in Sold' : ActiveQuantity(x)' \in Int
      <3> SUFFICES ASSUME NEW x \in Sold' PROVE ActiveQuantity(x)' \in Int
        OBVIOUS
      <3>1. sales'[x] \in Sale /\ sales'[x].refunded_quantity \in 0..sales'[x].quantity
        BY DEF BoxInv, Sold
      <3>2. sales'[x].quantity \in Int
        BY <3>1, TicketsAre
      <3> QED BY <3>1, <3>2 DEF ActiveQuantity
    <2>4. IsFiniteSet(old)
      <3>1. IsFiniteSet(Sold)
        BY DEF BooksInv, SeatsInv
      <3> HIDE DEF old
      <3> QED BY <2>1, <3>1, FS_Subset
    <2> QED BY <2>1, <2>2, <2>3, <2>4
  <1>3. \/ now = old
        \/ \E s \in now : /\ now = old \cup {s} /\ s \notin old /\ g[s] <= AvailableIn(code)
                          /\ g[s] \in Int
    <2>1. CASE Sold' \ Sold = {}
      <3>1. Sold' = Sold
        BY <2>1
      <3> QED BY <3>1 DEF OfBand
    <2>2. CASE \E s \in Sold' : /\ Sold' = Sold \cup {s} /\ s \notin Sold
                                /\ sales'[s].band_code = code =>
                                       ActiveQuantity(s)' <= AvailableIn(code)
      <3>1. PICK s \in Sold' : /\ Sold' = Sold \cup {s} /\ s \notin Sold
                               /\ sales'[s].band_code = code =>
                                      ActiveQuantity(s)' <= AvailableIn(code)
        BY <2>2
      <3>2. now = IF sales'[s].band_code = code THEN old \cup {s} ELSE old
        BY <3>1 DEF OfBand
      <3>3. s \notin old
        BY <3>1 DEF OfBand
      <3>4. ActiveQuantity(s)' \in Int
        <4>1. sales'[s] \in Sale /\ sales'[s].refunded_quantity \in 0..sales'[s].quantity
          BY DEF BoxInv, Sold
        <4>2. sales'[s].quantity \in Int
          BY <4>1, TicketsAre
        <4> QED BY <4>1, <4>2 DEF ActiveQuantity
      <3>5. CASE sales'[s].band_code = code
        <4>1. s \in now /\ g[s] = ActiveQuantity(s)'
          BY <3>1, <3>5 DEF OfBand
        <4> HIDE DEF now, old, g
        <4> QED BY <3>1, <3>2, <3>3, <3>4, <3>5, <4>1
      <3> HIDE DEF now, old, g
      <3> QED BY <3>2, <3>5
    <2> QED BY <2>1, <2>2
  <1> HIDE DEF f, g, old, now, a
  <1>4. SumOf(g, old) \in Int /\ SumOf(f, old) \in Int /\ SumOf(g, old) <= SumOf(f, old)
    BY <1>2, SumType, SumMonotone
  <1>5. CASE now = old
    BY <1>1, <1>4, <1>5
  <1>6. ASSUME NEW s \in now, now = old \cup {s}, s \notin old, g[s] <= AvailableIn(code), g[s] \in Int
        PROVE  AvailableIn(code)' >= 0
    <2>1. SumOf(g, old \cup {s}) = g[s] + SumOf(g, old)
      BY <1>2, <1>6, SumAdd
    <2> QED BY <1>1, <1>4, <1>6, <2>1
  <1> QED BY <1>3, <1>5, <1>6

\* Nothing is allotted at the start.
LEMMA BooksStart == BoxInit => BooksInv
  <1> SUFFICES ASSUME BoxInit PROVE SeatsInv
    BY BoxStart DEF BooksInv
  <1>1. Sold = {} /\ bands = {}
    BY DEF BoxInit, Sold
  <1>2. IsFiniteSet(Sold) /\ IsFiniteSet(bands)
    BY <1>1, FS_EmptySet
  <1>3. SumOver(LAMBDA c : Bands[c].allocation, bands) = 0
    BY <1>1, SumEmpty DEF SumOver, SumOf
  <1> QED BY <1>1, <1>2, <1>3, BoxAssumption DEF SeatsInv

\* Bands are added within the capacity, and sales within what is left of their band.
LEMMA BooksStep == BooksInv /\ [BoxNext]_boxVars => BooksInv'
  <1> SUFFICES ASSUME BooksInv, [BoxNext]_boxVars PROVE SeatsInv'
    BY BoxStep DEF BooksInv
  <1>0. BoxInv' /\ BoxInv
    BY BoxStep DEF BooksInv
  <1>1. CASE UNCHANGED boxVars
    BY <1>1 DEF boxVars, BooksInv, SeatsInv, Sold, Free, AvailableIn, OfBand, SumOver, ActiveQuantity
  <1>2. ASSUME NEW s \in SaleIds, Recorded(s) PROVE SeatsInv'
    <2>1. /\ bands' = bands /\ s \notin Sold /\ Sold' = Sold \cup {s}
          /\ \A t \in Sold : sales'[t] = sales[t]
          /\ ActiveQuantity(s)' <= AvailableIn(sales'[s].band_code)
          /\ sales'[s].tender = Comp => Free(s)'
      BY <1>2 DEF Recorded
    <2>2. IsFiniteSet(Sold')
      BY <2>1, FS_AddElement DEF BooksInv, SeatsInv
    <2>3. \A t \in Sold : /\ sales'[t].band_code = sales[t].band_code
                          /\ ActiveQuantity(t)' <= ActiveQuantity(t)
      <3>1. \A t \in Sold : ActiveQuantity(t) \in Int
        BY <1>0, SaleIs
      <3> QED BY <2>1, <3>1 DEF ActiveQuantity
    <2>4. \A code \in bands : AvailableIn(code)' >= 0
      BY <1>0, <2>1, <2>2, <2>3, SeatsKept
    <2>5. \A t \in Sold' : sales'[t].tender = Comp => Free(t)'
      BY <2>1 DEF BooksInv, SeatsInv, Free
    <2> QED BY <2>1, <2>2, <2>4, <2>5 DEF BooksInv, SeatsInv, SumOver
  <1>3. ASSUME TakenBack PROVE SeatsInv'
    <2>1. /\ bands' = bands /\ Sold' = Sold
          /\ \A t \in Sold : /\ sales'[t].band_code = sales[t].band_code
                             /\ sales'[t].tender = sales[t].tender
                             /\ ActiveQuantity(t)' <= ActiveQuantity(t)
                             /\ sales[t].tender = Comp /\ Free(t) => Free(t)'
      BY <1>3 DEF TakenBack
    <2>2. \A code \in bands : AvailableIn(code)' >= 0
      BY <1>0, <2>1, SeatsKept DEF BooksInv, SeatsInv
    <2>3. \A t \in Sold' : sales'[t].tender = Comp => Free(t)'
      BY <2>1 DEF BooksInv, SeatsInv
    <2> QED BY <2>1, <2>2, <2>3 DEF BooksInv, SeatsInv, SumOver
  <1>4. ASSUME NEW code \in DOMAIN Bands, AddBand(code) PROVE SeatsInv'
    <2> DEFINE f == [c \in bands |-> Bands[c].allocation]
               g == [c \in bands' |-> Bands[c].allocation]
    <2>1. /\ code \notin bands /\ bands' = bands \cup {code} /\ UNCHANGED <<sales, shares>>
          /\ SumOf(f, bands) + Bands[code].allocation <= Capacity
      BY <1>4 DEF AddBand, SumOver, SumOf
    <2>2. IsFiniteSet(bands) /\ IsFiniteSet(bands')
      BY <2>1, FS_AddElement DEF BooksInv, SeatsInv
    <2>3. /\ \A c \in bands' : Bands[c].allocation \in Nat
          /\ Bands[code].allocation \in Nat
      BY <1>0, <2>1, BoxAssumption DEF BoxInv
    <2>4. SumOf(g, bands') = Bands[code].allocation + SumOf(f, bands)
      <3>1. /\ \A c \in bands : g[c] = f[c] /\ g[c] \in Int
            /\ g[code] = Bands[code].allocation /\ g[code] \in Int
        BY <2>1, <2>3
      <3> HIDE DEF f, g
      <3>2. SumOf(g, bands \cup {code}) = g[code] + SumOf(g, bands)
        BY <2>1, <2>2, <3>1, SumAdd
      <3>3. SumOf(g, bands) = SumOf(f, bands)
        BY <2>2, <3>1, SumSame
      <3> QED BY <2>1, <3>1, <3>2, <3>3
    <2>5. (SumOver(LAMBDA c : Bands[c].allocation, bands))' <= Capacity
      <3>1. (SumOver(LAMBDA c : Bands[c].allocation, bands))' = SumOf(g, bands')
        BY DEF SumOver, SumOf
      <3>2. SumOf(f, bands) \in Int
        <4>1. \A c \in bands : f[c] \in Int
          BY <2>1, <2>3
        <4> HIDE DEF f
        <4> QED BY <2>2, <4>1, SumType
      <3> HIDE DEF f, g
      <3> QED BY <2>1, <2>3, <2>4, <3>1, <3>2, BoxAssumption
    <2>6. Sold' = Sold /\ \A s : Free(s)' = Free(s) /\ ActiveQuantity(s)' = ActiveQuantity(s)
      BY <2>1 DEF Sold, Free, ActiveQuantity
    <2>7. \A c \in bands : AvailableIn(c)' = AvailableIn(c)
      BY <2>1, <2>6 DEF AvailableIn, OfBand, SumOver
    <2>8. AvailableIn(code)' >= 0
      <3>1. OfBand(code)' = {}
        BY <1>0, <2>1, <2>6 DEF OfBand, BoxInv
      <3>2. (SumOver(ActiveQuantity, OfBand(code)))' = 0
        BY <3>1, SumEmpty DEF SumOver, SumOf
      <3> QED BY <2>3, <3>2 DEF AvailableIn
    <2> QED BY <2>1, <2>2, <2>5, <2>6, <2>7, <2>8 DEF BooksInv, SeatsInv
  <1> QED BY <1>0, <1>1, <1>2, <1>3, <1>4, RecordSaleKeeps, RefundKeeps, ReleaseKeeps
          DEF BoxNext, BoxRests, boxVars

\* What the bands, the tenders and the settlement tell of finitely many sales agrees.
LEMMA BooksAgree ==
    ASSUME BooksInv
    PROVE  BooksBalance
  <1> DEFINE qty == [s \in Sold |-> sales[s].quantity]
             back == [s \in Sold |-> sales[s].refunded_quantity]
             active == [s \in Sold |-> ActiveQuantity(s)]
             gross == [s \in Sold |-> Gross(s)]
             off == [s \in Sold |-> sales[s].discount]
             fees == [s \in Sold |-> FeeTotal(s)]
             tax == [s \in Sold |-> sales[s].tax]
             paid == [s \in Sold |-> sales[s].refund_total]
             net == [s \in Sold |-> NetTotal(s)]
             comps == {s \in Sold : sales[s].tender = Comp}
             T == Tenders \cup {Comp}
  <1>1. /\ IsFiniteSet(Sold) /\ IsFiniteSet(bands) /\ BoxInv
        /\ \A code \in bands : AvailableIn(code) >= 0
        /\ \A s \in comps : Free(s)
        /\ IsFiniteSet(Tenders) /\ IsFiniteSet(T) /\ Comp \notin Tenders
    BY BoxAssumption, FS_AddElement DEF BooksInv, SeatsInv
  <1>2. ASSUME NEW s \in Sold
        PROVE  /\ qty[s] \in Nat /\ back[s] \in Nat /\ active[s] \in Nat /\ gross[s] \in Nat
               /\ off[s] \in Nat /\ fees[s] \in Nat /\ tax[s] \in Nat /\ paid[s] \in Nat
               /\ net[s] \in Int /\ qty[s] = back[s] + active[s]
               /\ net[s] = gross[s] + fees[s] + tax[s] - off[s] - paid[s]
               /\ sales[s].band_code \in bands /\ sales[s].tender \in T
    <2>1. /\ sales[s].quantity \in Nat /\ sales[s].refunded_quantity \in Nat
          /\ ActiveQuantity(s) \in Nat /\ Gross(s) \in Nat /\ FeeTotal(s) \in Nat
          /\ sales[s].discount \in Nat /\ sales[s].tax \in Nat /\ sales[s].refund_total \in Nat
          /\ sales[s].band_code \in bands /\ sales[s].tender \in T
      BY <1>1, SaleIs
    <2>2. /\ sales[s].quantity = sales[s].refunded_quantity + ActiveQuantity(s)
          /\ NetTotal(s) = Gross(s) + FeeTotal(s) + sales[s].tax - sales[s].discount
                               - sales[s].refund_total
      BY <2>1 DEF ActiveQuantity, NetTotal, Total
    <2> QED BY <2>1, <2>2
  <1>3. BoxTypeOK
    BY <1>1, SaleIs DEF BoxTypeOK, BoxInv
  \* What the reports read, as sums of numbers of the sales.
  <1>4. /\ Settlement.attendance = SumOf(qty, Sold) - SumOf(back, Sold)
        /\ Settlement.complimentary = SumOf([s \in comps |-> ActiveQuantity(s)], comps)
        /\ Settlement.gross_sales = SumOf(gross, Sold) /\ Settlement.discounts = SumOf(off, Sold)
        /\ Settlement.fees = SumOf(fees, Sold) /\ Settlement.taxes = SumOf(tax, Sold)
        /\ Settlement.refunds = SumOf(paid, Sold) /\ Settlement.net_receipts = SumOf(net, Sold)
        /\ AvailableInAll = Capacity - SumOf(active, Sold)
    BY DEF Settlement, AvailableInAll, SumOver, SumOf
  <1>5. ASSUME NEW code \in bands
        PROVE  /\ BandSales(code).active
                      = SumOf([s \in {x \in Sold : sales[x].band_code = code} |-> ActiveQuantity(s)],
                              {x \in Sold : sales[x].band_code = code})
               /\ BandSales(code).net_receipts
                      = SumOf([s \in {x \in Sold : sales[x].band_code = code} |-> NetTotal(s)],
                              {x \in Sold : sales[x].band_code = code})
               /\ AvailableIn(code) = Bands[code].allocation - BandSales(code).active
    BY DEF BandSales, AvailableIn, OfBand, SumOver, SumOf
  <1>6. ASSUME NEW tender \in T
        PROVE  TenderTotal(tender)
                   = SumOf([s \in {x \in Sold : sales[x].tender = tender} |-> NetTotal(s)],
                           {x \in Sold : sales[x].tender = tender})
    BY DEF TenderTotal, SumOver, SumOf
  <1> DEFINE band == [s \in Sold |-> sales[s].band_code]
             tender == [s \in Sold |-> sales[s].tender]
             seats == [c \in bands |-> BandSales(c).active]
             money == [c \in bands |-> BandSales(c).net_receipts]
             totals == [t \in T |-> TenderTotal(t)]
             places == [c \in bands |-> Bands[c].allocation]
  <1>7. SumOf(seats, bands) = SumOf(active, Sold) /\ SumOf(money, bands) = SumOf(net, Sold)
    <2> DEFINE own == [c \in bands |-> {x \in Sold : sales[x].band_code = c}]
               left == [c \in bands |-> [s \in own[c] |-> ActiveQuantity(s)]]
               kept == [c \in bands |-> [s \in own[c] |-> NetTotal(s)]]
    <2>1. \A c \in bands : own[c] = {x \in Sold : band[x] = c}
      OBVIOUS
    <2>2. /\ \A c \in bands : \A x \in own[c] : left[c][x] = active[x]
          /\ \A s \in Sold : band[s] \in bands /\ active[s] \in Int
      BY <1>2
    <2>3. /\ \A c \in bands : \A x \in own[c] : kept[c][x] = net[x]
          /\ \A s \in Sold : band[s] \in bands /\ net[s] \in Int
      BY <1>2
    <2>4. \A c \in bands : seats[c] = SumOf(left[c], own[c])
      BY <1>5
    <2>5. \A c \in bands : money[c] = SumOf(kept[c], own[c])
      BY <1>5
    <2>6. IsFiniteSet(Sold) /\ IsFiniteSet(bands)
      BY <1>1
    <2> HIDE DEF seats, money, band, active, net, own, left, kept
    <2>7. SummedByKey(seats, bands, own, left, band, active, Sold)
      BY <2>1, <2>2, <2>4, <2>6 DEF SummedByKey
    <2>8. SummedByKey(money, bands, own, kept, band, net, Sold)
      BY <2>1, <2>3, <2>5, <2>6 DEF SummedByKey
    <2> QED BY <2>7, <2>8, SumByKey
  <1>8. SumOf(totals, T) = SumOf(net, Sold)
    <2> DEFINE own == [t \in T |-> {x \in Sold : sales[x].tender = t}]
               kept == [t \in T |-> [s \in own[t] |-> NetTotal(s)]]
    <2>1. \A t \in T : own[t] = {x \in Sold : tender[x] = t}
      OBVIOUS
    <2>2. /\ \A t \in T : \A x \in own[t] : kept[t][x] = net[x]
          /\ \A s \in Sold : tender[s] \in T /\ net[s] \in Int
      BY <1>2
    <2>3. \A t \in T : totals[t] = SumOf(kept[t], own[t])
      BY <1>6
    <2> HIDE DEF totals, tender, net, T, own, kept
    <2>4. SummedByKey(totals, T, own, kept, tender, net, Sold)
      BY <1>1, <2>1, <2>2, <2>3 DEF SummedByKey
    <2> QED BY <2>4, SumByKey
  <1>9. TenderTotal(Comp) = 0
    <2> DEFINE f == [s \in comps |-> NetTotal(s)]
    <2>1. \A s \in comps : f[s] = 0
      <3> SUFFICES ASSUME NEW s \in comps PROVE NetTotal(s) = 0
        OBVIOUS
      <3>1. sales[s].quantity \in Int
        BY <1>1, SaleIs
      <3> QED BY <1>1, <3>1 DEF Free, NetTotal, Total, Gross, FeeTotal
    <2>2. IsFiniteSet(comps)
      BY <1>1, FS_Subset
    <2>3. TenderTotal(Comp) = SumOf(f, comps)
      BY <1>6
    <2> HIDE DEF f, comps
    <2> QED BY <2>1, <2>2, <2>3, SumZero
  <1>10. SumOver(TenderTotal, Tenders) = SumOf(net, Sold)
    <2> DEFINE own == [t \in Tenders |-> TenderTotal(t)]
    <2>1. SumOver(TenderTotal, Tenders) = SumOf(own, Tenders)
      BY DEF SumOver, SumOf
    <2>2. \A t \in T : totals[t] \in Int
      <3> SUFFICES ASSUME NEW t \in T PROVE TenderTotal(t) \in Int
        OBVIOUS
      <3> DEFINE S == {x \in Sold : sales[x].tender = t}
                 f == [s \in S |-> NetTotal(s)]
      <3>1. IsFiniteSet(S) /\ \A s \in S : f[s] \in Int
        BY <1>1, <1>2, FS_Subset
      <3>2. TenderTotal(t) = SumOf(f, S)
        BY <1>6
      <3> HIDE DEF f, S
      <3> QED BY <3>1, <3>2, SumType
    <2>3. \A t \in Tenders : own[t] = totals[t]
      OBVIOUS
    <2>4. totals[Comp] = 0 /\ T \ {Comp} = Tenders /\ Comp \in T
      BY <1>1, <1>9
    <2> HIDE DEF own, totals, T
    <2>5. SumOf(totals, T) = totals[Comp] + SumOf(totals, T \ {Comp})
      BY <1>1, <2>2, <2>4, SumRemove
    <2>6. SumOf(totals, T \ {Comp}) = SumOf(totals, Tenders)
      BY <2>4, Zenon
    <2>7. SumOf(own, Tenders) = SumOf(totals, Tenders) /\ SumOf(totals, Tenders) \in Int
      <3>1. \A t \in Tenders : totals[t] \in Int
        BY <2>2, <2>4
      <3> QED BY <1>1, <2>3, <3>1, SumSame, SumType
    <2> QED BY <1>8, <2>1, <2>4, <2>5, <2>6, <2>7
  <1>11. SumOf(seats, bands) <= Capacity
    <2>1. SumOf(places, bands) <= Capacity
      BY DEF BooksInv, SeatsInv, SumOver, SumOf
    <2>2. \A c \in bands : seats[c] \in Int /\ places[c] \in Nat /\ seats[c] <= places[c]
      <3> SUFFICES ASSUME NEW c \in bands
                   PROVE  BandSales(c).active \in Int /\ Bands[c].allocation \in Nat
                          /\ BandSales(c).active <= Bands[c].allocation
        OBVIOUS
      <3> DEFINE S == {x \in Sold : sales[x].band_code = c}
                 f == [s \in S |-> ActiveQuantity(s)]
      <3>1. IsFiniteSet(S) /\ \A s \in S : f[s] \in Int
        BY <1>1, <1>2, FS_Subset
      <3>2. BandSales(c).active = SumOf(f, S)
        BY <1>5
      <3>3. BandSales(c).active \in Int
        <4> HIDE DEF f, S
        <4> QED BY <3>1, <3>2, SumType
      <3>4. Bands[c].allocation \in Nat
        BY BoxAssumption DEF BooksInv, BoxInv
      <3>5. AvailableIn(c) = Bands[c].allocation - BandSales(c).active /\ AvailableIn(c) >= 0
        BY <1>1, <1>5
      <3> HIDE DEF f, S
      <3> QED BY <3>3, <3>4, <3>5
    <2> HIDE DEF seats, places
    <2>3. SumOf(seats, bands) \in Int /\ SumOf(places, bands) \in Int
          /\ SumOf(seats, bands) <= SumOf(places, bands)
      BY <1>1, <2>2, SumType, SumMonotone
    <2> QED BY <2>1, <2>3, BoxAssumption
  <1>12. /\ SumOf(qty, Sold) = SumOf(back, Sold) + SumOf(active, Sold)
         /\ SumOf(back, Sold) \in Nat /\ SumOf(active, Sold) \in Nat /\ SumOf(net, Sold) \in Int
    <2>1. \A s \in Sold : /\ back[s] \in Nat /\ active[s] \in Nat /\ net[s] \in Int
                          /\ back[s] \in Int /\ active[s] \in Int /\ qty[s] = back[s] + active[s]
      BY <1>2
    <2> HIDE DEF qty, back, active, net
    <2>2. SumOf(qty, Sold) = SumOf(back, Sold) + SumOf(active, Sold)
      BY <1>1, <2>1, SumPlus
    <2>3. SumOf(back, Sold) \in Nat /\ SumOf(active, Sold) \in Nat
      BY <1>1, <2>1, SumNat
    <2>4. SumOf(net, Sold) \in Int
      BY <1>1, <2>1, SumType
    <2> QED BY <2>2, <2>3, <2>4
  <1>13. SumOf(net, Sold) = SumOf(gross, Sold) - SumOf(off, Sold) + SumOf(fees, Sold)
                                + SumOf(tax, Sold) - SumOf(paid, Sold)
    <2> DEFINE f1 == [s \in Sold |-> gross[s] + fees[s]]
               f2 == [s \in Sold |-> off[s] + paid[s]]
               f3 == [s \in Sold |-> f1[s] + tax[s]]
    <2>1. \A s \in Sold : /\ gross[s] \in Int /\ fees[s] \in Int /\ f1[s] \in Int
                          /\ off[s] \in Int /\ paid[s] \in Int /\ f2[s] \in Int /\ tax[s] \in Int
                          /\ f3[s] \in Int /\ net[s] \in Int
                          /\ f1[s] = gross[s] + fees[s] /\ f2[s] = off[s] + paid[s]
                          /\ f3[s] = f1[s] + tax[s] /\ f3[s] = net[s] + f2[s]
      <3> HIDE DEF gross, fees, off, paid, tax, net
      <3> QED BY <1>2
    <2> HIDE DEF gross, fees, off, paid, tax, net, f1, f2, f3
    <2>2. SumOf(f1, Sold) = SumOf(gross, Sold) + SumOf(fees, Sold)
      BY <1>1, <2>1, SumPlus
    <2>3. SumOf(f2, Sold) = SumOf(off, Sold) + SumOf(paid, Sold)
      BY <1>1, <2>1, SumPlus
    <2>4. SumOf(f3, Sold) = SumOf(f1, Sold) + SumOf(tax, Sold)
      BY <1>1, <2>1, SumPlus
    <2>5. SumOf(f3, Sold) = SumOf(net, Sold) + SumOf(f2, Sold)
      BY <1>1, <2>1, SumPlus
    <2>6. /\ SumOf(gross, Sold) \in Int /\ SumOf(fees, Sold) \in Int /\ SumOf(off, Sold) \in Int
          /\ SumOf(paid, Sold) \in Int /\ SumOf(tax, Sold) \in Int /\ SumOf(net, Sold) \in Int
      BY <1>1, <2>1, SumType
    <2>7. PICK a, b, c, d, e, n : /\ a = SumOf(gross, Sold) /\ b = SumOf(fees, Sold)
                                  /\ c = SumOf(tax, Sold) /\ d = SumOf(off, Sold)
                                  /\ e = SumOf(paid, Sold) /\ n = SumOf(net, Sold)
      OBVIOUS
    <2>8. /\ a \in Int /\ b \in Int /\ c \in Int /\ d \in Int /\ e \in Int /\ n \in Int
          /\ (a + b) + c = n + (d + e)
      BY <2>2, <2>3, <2>4, <2>5, <2>6, <2>7
    <2>9. n = a - d + b + c - e
      BY <2>8
    <2> QED BY <2>7, <2>9
  <1>14. Settlement.complimentary <= SumOf(active, Sold)
    <2> DEFINE f == [s \in comps |-> ActiveQuantity(s)]
    <2>1. IsFiniteSet(comps) /\ comps \in SUBSET Sold
      BY <1>1, FS_Subset
    <2>2. \A s \in comps : f[s] = active[s]
      OBVIOUS
    <2>3. Settlement.complimentary = SumOf(f, comps)
      BY <1>4
    <2>4. \A s \in Sold : active[s] \in Nat
      BY <1>2
    <2> HIDE DEF f, comps, active
    <2>5. SumOf(f, comps) = SumOf(active, comps)
      BY <2>1, <2>2, SumSame
    <2>6. SumOf(active, comps) <= SumOf(active, Sold)
      BY <1>1, <2>1, <2>4, SumSubset
    <2> QED BY <2>3, <2>5, <2>6
  <1>15. /\ SumOver(LAMBDA c : BandSales(c).active, bands) = SumOf(seats, bands)
         /\ SumOver(LAMBDA c : BandSales(c).net_receipts, bands) = SumOf(money, bands)
    BY DEF SumOver, SumOf
  <1>16. ASSUME NEW t \in Tenders, TenderTotal(t) < 0
         PROVE  \E s \in Sold : NetTotal(s) < 0
    <2> DEFINE S == {x \in Sold : sales[x].tender = t}
               f == [s \in S |-> NetTotal(s)]
    <2> SUFFICES ASSUME \A s \in Sold : ~(NetTotal(s) < 0)
                 PROVE  FALSE
      OBVIOUS
    <2>1. IsFiniteSet(S) /\ \A s \in S : f[s] \in Nat
      BY <1>1, <1>2, FS_Subset
    <2>2. TenderTotal(t) = SumOf(f, S)
      BY <1>6
    <2> HIDE DEF f, S
    <2>3. TenderTotal(t) \in Nat
      BY <2>1, <2>2, SumNat
    <2> QED BY <1>16, <2>3
  <1> HIDE DEF qty, back, active, gross, off, fees, tax, paid, net, comps, T, band, tender,
              seats, money, totals, places
  <1>17. /\ AvailableInAll >= 0 /\ Settlement.attendance = Capacity - AvailableInAll
         /\ Settlement.attendance = SumOf(seats, bands)
    BY <1>4, <1>7, <1>11, <1>12, BoxAssumption
  <1>18. Reconcile([t \in Tenders |-> TenderTotal(t)], 0) =
             IF \E s \in Sold : NetTotal(s) < 0 /\ \E t \in Tenders : TenderTotal(t) < 0
             THEN "refused" ELSE "balanced"
    <2> DEFINE own == [t \in Tenders |-> TenderTotal(t)]
    <2>1. DOMAIN own = Tenders /\ \A t \in Tenders : own[t] = TenderTotal(t)
      OBVIOUS
    <2>2. SumFunctionOnSet(own, Tenders) = SumOf(net, Sold)
      BY <1>10 DEF SumOver
    <2> HIDE DEF own
    <2>3. CASE \E t \in Tenders : TenderTotal(t) < 0
      BY <1>16, <2>1, <2>3 DEF Reconcile
    <2>4. CASE ~ \E t \in Tenders : TenderTotal(t) < 0
      <3>1. ~ \E t \in DOMAIN own : own[t] < 0
        BY <2>1, <2>4
      <3>2. SumFunctionOnSet(own, DOMAIN own) - Settlement.net_receipts = 0
        BY <1>4, <1>12, <2>1, <2>2
      <3>3. Reconcile(own, 0) = "balanced"
        BY <3>1, <3>2 DEF Reconcile
      <3> QED BY <2>4, <3>3 DEF own
    <2> QED BY <2>3, <2>4
  <1>19. Settlement.complimentary <= Settlement.attendance
    BY <1>4, <1>12, <1>14
  <1>20. Settlement.net_receipts = Settlement.gross_sales - Settlement.discounts + Settlement.fees
                                      + Settlement.taxes - Settlement.refunds
    BY <1>4, <1>13
  <1>21. /\ Settlement.attendance = SumOver(LAMBDA c : BandSales(c).active, bands)
         /\ Settlement.net_receipts = SumOver(LAMBDA c : BandSales(c).net_receipts, bands)
         /\ Settlement.net_receipts = SumOver(TenderTotal, Tenders)
    BY <1>4, <1>7, <1>10, <1>15, <1>17
  <1>22. ReportsAgree
    BY <1>1, <1>9, <1>17, <1>18, <1>19, <1>20, <1>21 DEF ReportsAgree
  <1> QED BY <1>3, <1>22 DEF BooksBalance

\* No band and no house is oversold, and the settlement, the tenders and the bands tell
\* the same money and the same seats, after any sales, refunds and releases.
THEOREM BooksStayBalanced == DaySpec => []BooksBalance
  <1>1. DayInit => BoxInit
    BY DEF DayInit
  <1>2. [DayNext]_dayVars => [BoxNext]_boxVars
    BY DEF DayNext, dayVars, boxVars
  <1>3. BooksInv => BooksBalance
    BY BooksAgree
  <1> QED BY <1>1, <1>2, <1>3, BooksStart, BooksStep, PTL DEF DaySpec

-----------------------------------------------------------------------------
(***************************************************************************)
(* The call sheet.  What has to be added to its properties is that the log *)
(* and the revisions speak of calls on the sheet only, so that a new call  *)
(* starts with none of either, and that the sheet is finite at all times,  *)
(* so that the columns of its report add up.                               *)
(***************************************************************************)
CallTerms == [call_at : CallTimes, location : Places]
Logs == [call_id : CallIds, field : {"call_at", "location", "status"},
         previous : CallTimes \cup Places \cup CallStatus,
         current : CallTimes \cup Places \cup CallStatus]

SheetInv ==
    /\ contacts \subseteq People /\ untraced \subseteq CallIds
    /\ calls \in [CallIds -> Call \cup {NoCall}]
    /\ agreed \in [CallIds -> CallTerms \cup {NotYet}]
    /\ changes \in Seq(Logs)
    /\ snapshots \in Seq(UNION {[S -> CallTerms] : S \in SUBSET CallIds})
    /\ \A n \in DOMAIN changes : changes[n].call_id \in OnSheet
    /\ \A r \in DOMAIN snapshots : DOMAIN snapshots[r] \subseteq OnSheet
    /\ snapshots # <<>> => OnSheet # {}
    /\ IsFiniteSet(OnSheet)
    /\ \A c \in OnSheet : calls[c].acknowledged => agreed[c] = Terms(c)
    /\ LogTellsTimeAndPlace

\* Saving a call puts it on the sheet and leaves the other calls alone.
LEMMA CallSaved ==
    ASSUME SheetInv, NEW c \in CallIds, NEW call \in Call, SaveCall(c, call)
    PROVE  /\ calls' \in [CallIds -> Call \cup {NoCall}]
           /\ calls'[c] = call /\ \A d \in CallIds \ {c} : calls'[d] = calls[d]
           /\ OnSheet' = OnSheet \cup {c} /\ IsFiniteSet(OnSheet')
  <1>1. /\ calls' \in [CallIds -> Call \cup {NoCall}]
        /\ calls'[c] = call /\ \A d \in CallIds \ {c} : calls'[d] = calls[d]
    BY DEF SheetInv, SaveCall
  <1>2. OnSheet' = OnSheet \cup {c}
    BY <1>1, NoCallAssumption DEF OnSheet
  <1> QED BY <1>1, <1>2, FS_AddElement DEF SheetInv

\* The terms of a call are a time and a place.
LEMMA TermsAre ==
    ASSUME NEW call \in Call
    PROVE  /\ call.call_at \in CallTimes /\ call.location \in Places /\ call.status \in CallStatus
           /\ call.acknowledged \in BOOLEAN /\ call.person \in People
           /\ call["call_at"] = call.call_at /\ call["location"] = call.location
  BY DEF Call

\* An entry of the log that a longer log still holds keeps its place.
LEMMA Appended ==
    ASSUME changes \in Seq(Logs), NEW e \in Logs, changes' = Append(changes, e)
    PROVE  /\ changes' \in Seq(Logs)
           /\ DOMAIN changes' = DOMAIN changes \cup {Len(changes) + 1}
           /\ DOMAIN changes = 1..Len(changes) /\ Len(changes) \in Nat
           /\ changes'[Len(changes) + 1] = e
           /\ \A n \in DOMAIN changes : changes'[n] = changes[n]
  OBVIOUS

\* A change that is logged keeps the sheet's account, if what is saved differs from what
\* was there in the field that is logged and in the status only, and an acknowledgement
\* outlives changes of the status alone.
LEMMA ChangeKeeps ==
    ASSUME SheetInv, NEW c \in OnSheet, NEW call \in Call, NEW traced \in BOOLEAN,
           NEW field \in {"call_at", "location", "status"},
           NEW current \in CallTimes \cup Places \cup CallStatus,
           SaveCall(c, call), Change(c, field, current, traced),
           \A g \in {"call_at", "location"} : call[g] = IF g = field THEN current ELSE calls[c][g],
           call.acknowledged => calls[c].acknowledged /\ field = "status"
    PROVE  SheetInv'
  <1>1. c \in CallIds /\ calls[c] \in Call /\ OnSheet' = OnSheet /\ IsFiniteSet(OnSheet')
    BY CallSaved DEF OnSheet, SheetInv
  <1>2. /\ calls' \in [CallIds -> Call \cup {NoCall}] /\ calls'[c] = call
        /\ \A d \in CallIds \ {c} : calls'[d] = calls[d]
    BY <1>1, CallSaved
  <1>3. UNCHANGED <<contacts, snapshots, agreed>> /\ untraced \subseteq untraced'
        /\ untraced' \subseteq CallIds /\ (~traced => c \in untraced')
    BY <1>1 DEF Change, SheetInv
  <1>4. ASSUME NEW d \in OnSheet', calls'[d].acknowledged PROVE (agreed[d] = Terms(d))'
    <2>1. CASE d = c
      <3>1. calls'[c].call_at = calls[c].call_at /\ calls'[c].location = calls[c].location
        BY <1>1, <1>2, <1>4, <2>1, TermsAre
      <3> QED BY <1>2, <1>3, <1>4, <2>1, <3>1 DEF SheetInv, Terms
    <2>2. CASE d # c
      <3>1. d \in OnSheet /\ d \in CallIds
        BY <1>1 DEF OnSheet
      <3> QED BY <1>2, <1>3, <1>4, <2>2, <3>1 DEF SheetInv, Terms
    <2> QED BY <2>1, <2>2
  <1> DEFINE entry == [call_id |-> c, field |-> field, previous |-> calls[c][field],
                       current |-> current]
  <1>5. calls[c][field] \in CallTimes \cup Places \cup CallStatus
    <2>1. CASE field = "status"
      BY <1>1, <2>1, TermsAre DEF Call
    <2>2. CASE field # "status"
      BY <1>1, <2>2, TermsAre
    <2> QED BY <2>1, <2>2
  <1>6. entry \in Logs
    BY <1>1, <1>5 DEF Logs
  <1>7. /\ changes' = (IF traced THEN Append(changes, entry) ELSE changes)
        /\ changes \in Seq(Logs)
    BY DEF Change, SheetInv
  <1> HIDE DEF entry
  <1>8. changes' \in Seq(Logs) /\ \A n \in DOMAIN changes' : changes'[n].call_id \in OnSheet'
    <2>1. CASE traced
      <3>1. entry.call_id = c
        BY DEF entry
      <3> QED BY <1>1, <1>6, <1>7, <2>1, <3>1, Appended DEF SheetInv
    <2>2. CASE ~traced
      BY <1>1, <1>7, <2>2 DEF SheetInv
    <2> QED BY <2>1, <2>2
  <1>9. LogTellsTimeAndPlace'
    <2> SUFFICES ASSUME NEW d \in OnSheet \ untraced', NEW g \in {"call_at", "location"}
                 PROVE  /\ \A n \in Logged(d, g)' :
                              \/ /\ {m \in Logged(d, g)' : m > n} = {}
                                 /\ changes'[n].current = calls'[d][g]
                              \/ \E m \in {m \in Logged(d, g)' : m > n} :
                                     /\ \A l \in {l \in Logged(d, g)' : l > n} : m <= l
                                     /\ changes'[n].current = changes'[m].previous
                        /\ \A r \in DOMAIN snapshots :
                               d \in DOMAIN snapshots[r] =>
                                   snapshots[r][d][g] \in {changes'[n].previous : n \in Logged(d, g)'}
                                                              \cup {calls'[d][g]}
      BY <1>1, <1>3 DEF LogTellsTimeAndPlace
    <2>1. /\ d \in CallIds /\ d \notin untraced
      BY <1>3 DEF OnSheet
    <2>2. /\ \A n \in Logged(d, g) :
                \/ {m \in Logged(d, g) : m > n} = {} /\ changes[n].current = calls[d][g]
                \/ \E m \in {m \in Logged(d, g) : m > n} :
                       /\ \A l \in {l \in Logged(d, g) : l > n} : m <= l
                       /\ changes[n].current = changes[m].previous
          /\ \A r \in DOMAIN snapshots :
                 d \in DOMAIN snapshots[r] =>
                     snapshots[r][d][g] \in {changes[n].previous : n \in Logged(d, g)}
                                                \cup {calls[d][g]}
      BY <2>1 DEF SheetInv, LogTellsTimeAndPlace
    <2>3. CASE ~traced
      <3>1. d # c
        BY <1>3, <2>3
      <3>2. calls'[d] = calls[d] /\ changes' = changes
        BY <1>2, <1>7, <2>1, <2>3, <3>1
      <3>3. Logged(d, g)' = Logged(d, g)
        BY <3>2 DEF Logged
      <3> QED BY <2>2, <3>2, <3>3
    <2>4. CASE traced /\ (d # c \/ g # field)
      <3>1. calls'[d][g] = calls[d][g]
        BY <1>2, <2>1, <2>4
      <3>2. /\ changes' = Append(changes, entry) /\ entry.call_id = c /\ entry.field = field
        BY <1>7, <2>4 DEF entry
      <3>3. /\ DOMAIN changes' = DOMAIN changes \cup {Len(changes) + 1}
            /\ changes'[Len(changes) + 1] = entry /\ \A n \in DOMAIN changes : changes'[n] = changes[n]
        BY <1>6, <1>7, <3>2, Appended
      <3>4. Logged(d, g)' = Logged(d, g)
        BY <2>4, <3>2, <3>3 DEF Logged
      <3>5. \A n \in Logged(d, g) : changes'[n] = changes[n]
        BY <3>3 DEF Logged
      <3>6. {changes'[n].previous : n \in Logged(d, g)} = {changes[n].previous : n \in Logged(d, g)}
        BY <3>5
      <3> QED BY <2>2, <3>1, <3>4, <3>5, <3>6
    <2>5. CASE traced /\ d = c /\ g = field
      <3>1. PICK last : last = Len(changes) + 1
        OBVIOUS
      <3>2. /\ changes' = Append(changes, entry) /\ entry.call_id = c /\ entry.field = g
            /\ entry.previous = calls[d][g] /\ entry.current = calls'[d][g]
        BY <1>2, <1>7, <2>5 DEF entry
      <3>3. /\ DOMAIN changes' = DOMAIN changes \cup {last} /\ DOMAIN changes = 1..last - 1
            /\ last \in Nat
            /\ changes'[last] = entry /\ \A n \in DOMAIN changes : changes'[n] = changes[n]
        BY <1>6, <1>7, <3>1, <3>2, Appended
      <3>4. Logged(d, g)' = Logged(d, g) \cup {last}
        BY <2>5, <3>2, <3>3 DEF Logged
      <3>5. /\ \A n \in Logged(d, g) : changes'[n] = changes[n] /\ n \in 1..last - 1
            /\ last \notin Logged(d, g)
        BY <3>3 DEF Logged
      <3>6. ASSUME NEW n \in Logged(d, g)'
            PROVE  \/ /\ {m \in Logged(d, g)' : m > n} = {}
                      /\ changes'[n].current = calls'[d][g]
                   \/ \E m \in {m \in Logged(d, g)' : m > n} :
                          /\ \A l \in {l \in Logged(d, g)' : l > n} : m <= l
                          /\ changes'[n].current = changes'[m].previous
        <4>1. CASE n = last
          <5>1. {m \in Logged(d, g)' : m > n} = {}
            BY <3>3, <3>4, <3>5, <4>1
          <5> QED BY <3>2, <3>3, <4>1, <5>1
        <4>2. CASE n \in Logged(d, g) /\ {m \in Logged(d, g) : m > n} = {}
          <5>1. changes[n].current = calls[d][g]
            BY <2>2, <4>2
          <5>2. changes'[n].current = changes'[last].previous
            BY <3>2, <3>3, <3>5, <4>2, <5>1
          <5>3. /\ last \in {m \in Logged(d, g)' : m > n}
                /\ \A l \in {l \in Logged(d, g)' : l > n} : last <= l
            BY <3>3, <3>4, <3>5, <4>2
          <5> QED BY <5>2, <5>3
        <4>3. CASE n \in Logged(d, g) /\ {m \in Logged(d, g) : m > n} # {}
          <5>1. PICK m \in Logged(d, g) :
                   /\ m > n /\ \A l \in Logged(d, g) : l > n => m <= l
                   /\ changes[n].current = changes[m].previous
            BY <2>2, <4>3
          <5>2. m \in {k \in Logged(d, g)' : k > n} /\ \A l \in {l \in Logged(d, g)' : l > n} : m <= l
            BY <3>3, <3>4, <3>5, <5>1
          <5>3. changes'[n].current = changes'[m].previous
            BY <3>5, <4>3, <5>1
          <5> QED BY <5>2, <5>3
        <4> QED BY <3>4, <4>1, <4>2, <4>3
      <3>7. {changes[n].previous : n \in Logged(d, g)} \cup {calls[d][g]}
                \subseteq {changes'[n].previous : n \in Logged(d, g)'}
        BY <3>2, <3>3, <3>4, <3>5
      <3> QED BY <2>2, <3>6, <3>7
    <2> QED BY <2>3, <2>4, <2>5
  <1> QED BY <1>1, <1>2, <1>3, <1>4, <1>8, <1>9 DEF SheetInv
\* A step that leaves the log alone keeps it telling, if the calls it had an entry or a
\* published place for stand where they stood.
LEMMA LogKept ==
    ASSUME SheetInv, UNCHANGED <<changes, snapshots, untraced>>, OnSheet \subseteq OnSheet',
           \A d \in OnSheet : /\ calls'[d].call_at = calls[d].call_at
                              /\ calls'[d].location = calls[d].location,
           \A d \in OnSheet' : calls'[d] \in Call,
           \A d \in OnSheet : calls[d] \in Call
    PROVE  LogTellsTimeAndPlace'
  <1> SUFFICES ASSUME NEW d \in OnSheet' \ untraced, NEW g \in {"call_at", "location"}
               PROVE  /\ \A n \in Logged(d, g) :
                            \/ /\ {m \in Logged(d, g) : m > n} = {}
                               /\ changes[n].current = calls'[d][g]
                            \/ \E m \in {m \in Logged(d, g) : m > n} :
                                   /\ \A l \in {l \in Logged(d, g) : l > n} : m <= l
                                   /\ changes[n].current = changes[m].previous
                      /\ \A r \in DOMAIN snapshots :
                             d \in DOMAIN snapshots[r] =>
                                 snapshots[r][d][g] \in {changes[n].previous : n \in Logged(d, g)}
                                                            \cup {calls'[d][g]}
    BY DEF LogTellsTimeAndPlace, Logged
  <1>1. CASE d \in OnSheet
    <2>1. calls'[d][g] = calls[d][g]
      BY <1>1, TermsAre
    <2> QED BY <1>1, <2>1 DEF SheetInv, LogTellsTimeAndPlace
  <1>2. CASE d \notin OnSheet
    <2>1. Logged(d, g) = {}
      BY <1>2 DEF Logged, SheetInv
    <2>2. \A r \in DOMAIN snapshots : d \notin DOMAIN snapshots[r]
      BY <1>2 DEF SheetInv
    <2> QED BY <2>1, <2>2
  <1> QED BY <1>1, <1>2

\* What is on the sheet is a call.
LEMMA OnSheetAreCalls ==
    ASSUME SheetInv, NEW c \in OnSheet
    PROVE  c \in CallIds /\ calls[c] \in Call
  BY DEF SheetInv, OnSheet

\* A new call has neither entries nor revisions, and whoever has acknowledged it agreed to
\* its own terms.
LEMMA AddCallKeeps ==
    ASSUME SheetInv, NEW c \in CallIds, NEW call \in Call, AddCall(c, call)
    PROVE  SheetInv'
  <1> DEFINE terms == [call_at |-> call.call_at, location |-> call.location]
  <1>1. /\ c \notin OnSheet /\ SaveCall(c, call)
        /\ agreed' = [agreed EXCEPT ![c] = IF call.acknowledged THEN terms ELSE @]
        /\ UNCHANGED <<contacts, changes, snapshots, untraced>>
    BY DEF AddCall
  <1>2. /\ agreed' \in [CallIds -> CallTerms \cup {NotYet}]
        /\ call.acknowledged => agreed'[c] = terms
        /\ \A d \in CallIds \ {c} : agreed'[d] = agreed[d]
    <2>1. terms \in CallTerms
      BY TermsAre DEF CallTerms
    <2> HIDE DEF terms
    <2> QED BY <1>1, <2>1 DEF SheetInv
  <1>3. /\ calls' \in [CallIds -> Call \cup {NoCall}] /\ calls'[c] = call
        /\ \A d \in CallIds \ {c} : calls'[d] = calls[d]
        /\ OnSheet' = OnSheet \cup {c} /\ IsFiniteSet(OnSheet')
    BY <1>1, CallSaved
  <1>4. \A d \in OnSheet : d # c /\ d \in CallIds /\ calls'[d] = calls[d] /\ calls[d] \in Call
    BY <1>1, <1>3, OnSheetAreCalls
  <1>5. \A d \in OnSheet' : calls'[d].acknowledged => (agreed[d] = Terms(d))'
    BY <1>2, <1>3, <1>4 DEF SheetInv, Terms
  <1>6. LogTellsTimeAndPlace'
    BY <1>1, <1>3, <1>4, LogKept
  <1> QED BY <1>1, <1>2, <1>3, <1>5, <1>6 DEF SheetInv

\* What is acknowledged are the terms of now.
LEMMA AcknowledgeKeeps ==
    ASSUME SheetInv, NEW c \in CallIds, NEW p \in People, Acknowledge(c, p)
    PROVE  SheetInv'
  <1> DEFINE call == [calls[c] EXCEPT !.status = "acknowledged", !.acknowledged = TRUE]
  <1>1. /\ c \in OnSheet /\ SaveCall(c, call) /\ agreed' = [agreed EXCEPT ![c] = Terms(c)]
        /\ UNCHANGED <<contacts, changes, snapshots, untraced>>
    BY DEF Acknowledge
  <1>2. calls[c] \in Call
    BY <1>1, OnSheetAreCalls
  <1>3. call \in Call
    BY <1>2 DEF Call, CallStatus
  <1>4. call.call_at = calls[c].call_at /\ call.location = calls[c].location
    BY <1>2 DEF Call
  <1> HIDE DEF call
  <1>5. /\ calls' \in [CallIds -> Call \cup {NoCall}] /\ calls'[c] = call
        /\ \A d \in CallIds \ {c} : calls'[d] = calls[d]
        /\ OnSheet' = OnSheet /\ IsFiniteSet(OnSheet')
    BY <1>1, <1>3, CallSaved
  <1>6. /\ Terms(c) \in CallTerms /\ agreed' \in [CallIds -> CallTerms \cup {NotYet}]
        /\ agreed'[c] = Terms(c) /\ \A d \in CallIds \ {c} : agreed'[d] = agreed[d]
    <2>1. Terms(c) \in CallTerms
      BY <1>2, TermsAre DEF Terms, CallTerms
    <2> QED BY <1>1, <2>1 DEF SheetInv
  <1>7. \A d \in OnSheet : d \in CallIds /\ calls[d] \in Call
    BY OnSheetAreCalls
  <1>8. ASSUME NEW d \in OnSheet', calls'[d].acknowledged PROVE (agreed[d] = Terms(d))'
    BY <1>4, <1>5, <1>6, <1>7, <1>8 DEF SheetInv, Terms
  <1>9. LogTellsTimeAndPlace'
    <2>1. \A d \in OnSheet : /\ calls'[d].call_at = calls[d].call_at
                             /\ calls'[d].location = calls[d].location
      BY <1>4, <1>5, <1>7
    <2>2. \A d \in OnSheet' : calls'[d] \in Call
      BY <1>3, <1>5, <1>7
    <2> QED BY <1>1, <1>5, <1>7, <2>1, <2>2, LogKept
  <1> QED BY <1>1, <1>5, <1>6, <1>8, <1>9 DEF SheetInv

\* Changing a call's terms asks for a new acknowledgement; an answer leaves them.
LEMMA LoggedChangesKeep ==
    ASSUME SheetInv, NEW c \in CallIds, NEW traced \in BOOLEAN
    PROVE  /\ MarkArrived(c, traced) => SheetInv'
           /\ Excuse(c, traced) => SheetInv'
           /\ \A location \in Places : ChangeLocation(c, location, traced) => SheetInv'
           /\ \A call_at \in CallTimes : Reschedule(c, call_at, traced) => SheetInv'
  <1>1. ASSUME NEW status \in {"arrived", "excused"}, c \in OnSheet,
               SaveCall(c, [calls[c] EXCEPT !.status = status]),
               Change(c, "status", status, traced)
        PROVE  SheetInv'
    <2> DEFINE call == [calls[c] EXCEPT !.status = status]
    <2>1. calls[c] \in Call
      BY <1>1, OnSheetAreCalls
    <2>2. /\ call \in Call /\ call["call_at"] = calls[c]["call_at"]
          /\ call["location"] = calls[c]["location"] /\ call.acknowledged = calls[c].acknowledged
      BY <2>1 DEF Call, CallStatus
    <2>3. SaveCall(c, call) /\ status \in CallStatus
      BY <1>1 DEF CallStatus
    <2> HIDE DEF call
    <2> QED BY <1>1, <2>2, <2>3, ChangeKeeps
  <1>2. ASSUME NEW location \in Places, ChangeLocation(c, location, traced) PROVE SheetInv'
    <2> DEFINE call == [calls[c] EXCEPT !.location = location, !.status = "called",
                                        !.acknowledged = FALSE]
    <2>1. c \in OnSheet /\ SaveCall(c, call) /\ Change(c, "location", location, traced)
      BY <1>2 DEF ChangeLocation
    <2>2. calls[c] \in Call
      BY <2>1, OnSheetAreCalls
    <2>3. call \in Call
      BY <2>2 DEF Call, CallStatus
    <2>4. call["call_at"] = calls[c]["call_at"] /\ call["location"] = location
      BY <2>2 DEF Call
    <2>5. call.acknowledged = FALSE
      BY <2>2 DEF Call
    <2> HIDE DEF call
    <2> QED BY <2>1, <2>3, <2>4, <2>5, ChangeKeeps
  <1>3. ASSUME NEW call_at \in CallTimes, Reschedule(c, call_at, traced) PROVE SheetInv'
    <2> DEFINE call == [calls[c] EXCEPT !.call_at = call_at, !.status = "called",
                                        !.acknowledged = FALSE]
    <2>1. c \in OnSheet /\ SaveCall(c, call) /\ Change(c, "call_at", call_at, traced)
      BY <1>3 DEF Reschedule
    <2>2. calls[c] \in Call
      BY <2>1, OnSheetAreCalls
    <2>3. call \in Call
      BY <2>2 DEF Call, CallStatus
    <2>4. call["call_at"] = call_at /\ call["location"] = calls[c]["location"]
      BY <2>2 DEF Call
    <2>5. call.acknowledged = FALSE
      BY <2>2 DEF Call
    <2> HIDE DEF call
    <2> QED BY <2>1, <2>3, <2>4, <2>5, ChangeKeeps
  <1>4. MarkArrived(c, traced) => SheetInv'
    BY <1>1 DEF MarkArrived
  <1>5. Excuse(c, traced) => SheetInv'
    BY <1>1 DEF Excuse
  <1> QED BY <1>2, <1>3, <1>4, <1>5

\* A published revision shows the terms of now.
LEMMA PublishKeeps == ASSUME SheetInv, Publish PROVE SheetInv'
  <1> DEFINE published == [c \in OnSheet |-> Terms(c)]
  <1>1. /\ OnSheet # {} /\ snapshots' = Append(snapshots, published)
        /\ UNCHANGED <<contacts, calls, changes, agreed, untraced>>
    BY DEF Publish
  <1>2. OnSheet \in SUBSET CallIds /\ \A c \in OnSheet : Terms(c) \in CallTerms
    BY OnSheetAreCalls, TermsAre DEF OnSheet, Terms, CallTerms
  <1>3. published \in UNION {[S -> CallTerms] : S \in SUBSET CallIds} /\ DOMAIN published = OnSheet
    <2>1. published \in [OnSheet -> CallTerms]
      BY <1>2
    <2> QED BY <1>2, <2>1
  <1>4. \A c \in OnSheet, g \in {"call_at", "location"} : published[c][g] = calls[c][g]
    BY OnSheetAreCalls, TermsAre DEF Terms
  <1> HIDE DEF published
  <1>5. /\ snapshots' \in Seq(UNION {[S -> CallTerms] : S \in SUBSET CallIds})
        /\ \A r \in DOMAIN snapshots' : \/ r \in DOMAIN snapshots /\ snapshots'[r] = snapshots[r]
                                        \/ snapshots'[r] = published
    BY <1>1, <1>3 DEF SheetInv
  <1>6. OnSheet' = OnSheet /\ \A c \in OnSheet : Terms(c)' = Terms(c)
    BY <1>1 DEF OnSheet, Terms
  <1>7. LogTellsTimeAndPlace'
    <2> SUFFICES ASSUME NEW d \in OnSheet \ untraced, NEW g \in {"call_at", "location"}
                 PROVE  /\ \A n \in Logged(d, g) :
                              \/ /\ {m \in Logged(d, g) : m > n} = {}
                                 /\ changes[n].current = calls[d][g]
                              \/ \E m \in {m \in Logged(d, g) : m > n} :
                                     /\ \A l \in {l \in Logged(d, g) : l > n} : m <= l
                                     /\ changes[n].current = changes[m].previous
                        /\ \A r \in DOMAIN snapshots' :
                               d \in DOMAIN snapshots'[r] =>
                                   snapshots'[r][d][g] \in
                                       {changes[n].previous : n \in Logged(d, g)} \cup {calls[d][g]}
      BY <1>1, <1>6 DEF LogTellsTimeAndPlace, Logged
    <2>1. /\ \A n \in Logged(d, g) :
                \/ {m \in Logged(d, g) : m > n} = {} /\ changes[n].current = calls[d][g]
                \/ \E m \in {m \in Logged(d, g) : m > n} :
                       /\ \A l \in {l \in Logged(d, g) : l > n} : m <= l
                       /\ changes[n].current = changes[m].previous
          /\ \A r \in DOMAIN snapshots :
                 d \in DOMAIN snapshots[r] =>
                     snapshots[r][d][g] \in {changes[n].previous : n \in Logged(d, g)}
                                                \cup {calls[d][g]}
      BY DEF SheetInv, LogTellsTimeAndPlace
    <2> QED BY <1>4, <1>5, <2>1
  <1>8. \A r \in DOMAIN snapshots' : DOMAIN snapshots'[r] \subseteq OnSheet
    BY <1>3, <1>5 DEF SheetInv
  <1> QED BY <1>1, <1>5, <1>6, <1>7, <1>8 DEF SheetInv

\* Nobody is called at the start.
LEMMA SheetStart == SheetInit => SheetInv
  <1> SUFFICES ASSUME SheetInit PROVE SheetInv
    OBVIOUS
  <1>1. OnSheet = {} /\ IsFiniteSet({})
    BY FS_EmptySet DEF SheetInit, OnSheet
  <1>2. changes = <<>> /\ snapshots = <<>>
    BY DEF SheetInit
  <1> QED BY <1>1, <1>2 DEF SheetInit, SheetInv, LogTellsTimeAndPlace

\* Every call on the sheet keeps its invariant.
LEMMA SheetStep == SheetInv /\ [SheetNext]_sheetVars => SheetInv'
  <1> SUFFICES ASSUME SheetInv, [SheetNext]_sheetVars PROVE SheetInv'
    OBVIOUS
  <1>1. ASSUME UNCHANGED <<calls, changes, snapshots, agreed, untraced>>, contacts' \subseteq People
        PROVE  SheetInv'
    <2>1. OnSheet' = OnSheet /\ \A c : Terms(c)' = Terms(c)
      BY <1>1 DEF OnSheet, Terms
    <2>2. LogTellsTimeAndPlace'
      BY <1>1, <2>1, OnSheetAreCalls, LogKept
    <2> QED BY <1>1, <2>1, <2>2 DEF SheetInv
  <1>2. CASE UNCHANGED sheetVars
    BY <1>1, <1>2 DEF sheetVars, SheetInv
  <1>3. ASSUME NEW p \in People, AddContact(p) PROVE SheetInv'
    BY <1>1, <1>3 DEF AddContact, SheetInv
  <1> QED BY <1>2, <1>3, AddCallKeeps, AcknowledgeKeeps, LoggedChangesKeep, PublishKeeps
          DEF SheetNext, SheetRests

\* The three columns of the report have every call once.
LEMMA ColumnsAddUp ==
    ASSUME SheetInv
    PROVE  SheetReport.acknowledged + SheetReport.excused
               + Cardinality(SheetReport.unacknowledged) = SheetReport.total
  <1> DEFINE Answered == WithStatus({"acknowledged", "arrived"})
             Excused == WithStatus({"excused"})
             Called == WithStatus({"called"})
  <1>1. /\ SheetReport.acknowledged = Cardinality(Answered)
        /\ SheetReport.excused = Cardinality(Excused)
        /\ SheetReport.unacknowledged = Called /\ SheetReport.total = Cardinality(OnSheet)
    BY DEF SheetReport
  <1>2. /\ OnSheet = (Answered \cup Excused) \cup Called /\ Answered \cap Excused = {}
        /\ (Answered \cup Excused) \cap Called = {}
        /\ Answered \subseteq OnSheet /\ Excused \subseteq OnSheet /\ Called \subseteq OnSheet
        /\ Answered \cup Excused \subseteq OnSheet
    <2>1. \A c \in OnSheet : calls[c].status \in CallStatus
      BY OnSheetAreCalls, TermsAre
    <2> QED BY <2>1 DEF CallStatus, WithStatus
  <1> HIDE DEF Answered, Excused, Called
  <1>3. /\ IsFiniteSet(Answered) /\ IsFiniteSet(Excused) /\ IsFiniteSet(Called)
        /\ IsFiniteSet(Answered \cup Excused)
    BY <1>2, FS_Subset DEF SheetInv
  <1>4. /\ Cardinality(Answered \cup Excused) = Cardinality(Answered) + Cardinality(Excused)
        /\ Cardinality(OnSheet) = Cardinality(Answered \cup Excused) + Cardinality(Called)
    <2>1. Cardinality({}) = 0
      BY FS_EmptySet
    <2>2. /\ Cardinality(Answered) \in Nat /\ Cardinality(Excused) \in Nat
          /\ Cardinality(Called) \in Nat /\ Cardinality(Answered \cup Excused) \in Nat
      BY <1>3, FS_CardinalityType
    <2>3. Cardinality(Answered \cup Excused)
              = Cardinality(Answered) + Cardinality(Excused) - Cardinality(Answered \cap Excused)
      BY <1>3, FS_Union
    <2>4. Cardinality((Answered \cup Excused) \cup Called)
              = Cardinality(Answered \cup Excused) + Cardinality(Called)
                  - Cardinality((Answered \cup Excused) \cap Called)
      BY <1>3, FS_Union
    <2>5. /\ Cardinality(Answered \cap Excused) = 0
          /\ Cardinality((Answered \cup Excused) \cap Called) = 0
      BY <1>2, <2>1
    <2>6. Cardinality(OnSheet) = Cardinality((Answered \cup Excused) \cup Called)
      BY <1>2
    <2> QED BY <2>2, <2>3, <2>4, <2>5, <2>6
  <1>5. Cardinality(Called) \in Nat /\ Cardinality(Answered) \in Nat /\ Cardinality(Excused) \in Nat
    BY <1>3, FS_CardinalityType
  <1> QED BY <1>1, <1>4, <1>5

\* What is promised of the sheet follows from its invariant.
LEMMA InvTellsTerms == SheetInv => SheetTellsTerms
  <1> SUFFICES ASSUME SheetInv PROVE SheetTellsTerms
    OBVIOUS
  <1>1. SheetTypeOK
    <2>1. \A n \in DOMAIN changes : changes[n].call_id \in CallIds
      BY DEF SheetInv, OnSheet
    <2> QED BY <2>1 DEF SheetInv, SheetTypeOK, CallTerms
  <1>2. \A c \in OnSheet : \/ calls[c].status = "excused"
                           \/ c \in Dispatches[calls[c].person].call_ids
    BY DEF Dispatches
  <1>3. SheetReport.revision > 0 => SheetReport.total > 0
    <2> SUFFICES ASSUME Len(snapshots) > 0 PROVE Cardinality(OnSheet) > 0
      BY DEF SheetReport
    <2>1. snapshots # <<>>
      BY DEF SheetInv
    <2>2. OnSheet # {} /\ IsFiniteSet(OnSheet)
      BY <2>1 DEF SheetInv
    <2> QED BY <2>2, FS_EmptySet, FS_CardinalityType
  <1>4. \A c \in OnSheet : calls[c].acknowledged => agreed[c] = Terms(c)
    BY DEF SheetInv
  <1>5. LogTellsTimeAndPlace
    BY DEF SheetInv
  <1> QED BY <1>1, <1>2, <1>3, <1>4, <1>5, ColumnsAddUp DEF SheetTellsTerms

\* Whoever counts as having acknowledged agreed to the terms of now, dispatches and report
\* leave nobody out, and the log leads from every published time and place to those of now,
\* but for calls a change of which was refused its entry: for any people and changes.
THEOREM SheetTells == DaySpec => []SheetTellsTerms
  <1>1. DayInit => SheetInit
    BY DEF DayInit
  <1>2. [DayNext]_dayVars => [SheetNext]_sheetVars
    BY DEF DayNext, dayVars, sheetVars
  <1> QED BY <1>1, <1>2, SheetStart, SheetStep, InvTellsTerms, PTL DEF DaySpec

-----------------------------------------------------------------------------
\* What is computed when a ledger is read is what its records say: settlement, band sales
\* and tender totals, exposure, replay, free time and dependency order, on every day.
THEOREM ReadsStayTrue == DaySpec => []ReadsAreTrue
  <1>1. BooksBalance /\ ExposureIsComplete /\ ReplayFindsLastEffect /\ FreeTimeIsTrue
            /\ ValidSheetsHaveAnOrder => ReadsAreTrue
    BY DEF ReadsAreTrue
  <1> QED BY <1>1, BooksStayBalanced, ExposureStaysComplete, ReplayStaysTrue,
             FreeTimeStaysTrue, OrderStays, PTL

=============================================================================
