------------------------------- MODULE CueSheet -------------------------------
(***************************************************************************)
(* domain/cue_engine.py, the CueSheet: cues are added, renumbered and      *)
(* removed, and name the cues they require by their numbers.               *)
(*                                                                         *)
(* A call is one action.  Adding does not validate the sheet, and          *)
(* renumbering validates it last: an error that is raised then leaves the  *)
(* change in place.  A cue keeps its identity when its number changes, as  *)
(* the object does.  What a cue does, its kind, its department and the     *)
(* delays are left out; its run is CueRuntime.                             *)
(***************************************************************************)
EXTENDS Naturals, FiniteSets, SequencesExt, Sorting

CONSTANTS CueIds,        \* the cues there are
          CueNumbers,    \* numbers given to cues, valid and not
          MaxRequired,   \* bound: numbers a new cue requires
          NoCue

ASSUME CueSheetAssumption ==
    /\ IsFiniteSet(CueIds) /\ CueNumbers \subseteq Nat /\ MaxRequired \in Nat
    /\ NoCue \notin [number : Nat, requires : Seq(Nat)]

VARIABLES sheetCues,     \* id -> NoCue or [number, requires]
          everRequired,  \* history: id -> the cues it has come to require
          strayed        \* history: a cue was added that required a missing number

cueSheetVars == <<sheetCues, everRequired, strayed>>

OnCueSheet == {c \in CueIds : sheetCues[c] # NoCue}
Numbers == {sheetCues[c].number : c \in OnCueSheet}
CueOf(number) == CHOOSE c \in OnCueSheet : sheetCues[c].number = number
Required(c) == {d \in OnCueSheet : sheetCues[d].number \in ToSet(sheetCues[c].requires)}

\* Cue.__post_init__: requirements differ, and none of them is the cue itself (AddCue).
RequirementLists ==
    {requires \in UNION {[1..n -> CueNumbers \ {0}] : n \in 0..MaxRequired} :
        \A i, j \in DOMAIN requires : requires[i] = requires[j] => i = j}

\* The history of a step: what the cues on the sheet require after it.
Remember ==
    everRequired' = [c \in CueIds |->
        IF c \notin OnCueSheet' THEN {}
        ELSE Required(c)' \cup (IF c \in OnCueSheet THEN everRequired[c] ELSE {})]

(***************************************************************************)
(* validate: no required number is missing, and no cues require one        *)
(* another in a circle.                                                    *)
(***************************************************************************)
SheetValid ==
    /\ \A c \in OnCueSheet : ToSet(sheetCues[c].requires) \subseteq Numbers
    /\ \A circle \in (SUBSET OnCueSheet) \ {{}} :
           \E c \in circle : Required(c) \cap circle = {}

\* for each of the numbers: collect(number)
CollectEach(collect, numbers, result) ==
    LET after[k \in 0..Len(numbers)] ==
            IF k = 0 THEN result ELSE collect[numbers[k]][after[k - 1]]
    IN  after[Len(numbers)]

\* Mutant: a cue is collected before what it requires.
CollectOwnFirst(collect, number, result) ==
    IF number \in ToSet(result) THEN result
    ELSE CollectEach(collect, sheetCues[CueOf(number)].requires, Append(result, number))

Collect(collect, number, result) ==
    IF number \in ToSet(result) THEN result
    ELSE Append(CollectEach(collect, sheetCues[CueOf(number)].requires, result), number)

\* dependency_order, of a valid sheet: the numbers in the order the cues are
\* collected in.  No call of collect is within more of them than there are cues.
DependencyOrder ==
    LET within[depth \in 0..Cardinality(Numbers)] ==
            [number \in Nat |-> [result \in Seq(Nat) |->
                IF depth = 0 THEN result ELSE Collect(within[depth - 1], number, result)]]
        inOrder == InOrder(Numbers, {ab \in Numbers \X Numbers : ab[1] < ab[2]})
    IN  CollectEach(within[Cardinality(Numbers)], inOrder, <<>>)

(***************************************************************************)
(* The calls.                                                              *)
(***************************************************************************)
AddCue(c, number, requires) ==
    /\ c \notin OnCueSheet
    /\ number >= 1 /\ number \notin ToSet(requires)
    /\ number \notin Numbers
    /\ sheetCues' = [sheetCues EXCEPT ![c] = [number |-> number, requires |-> requires]]
    /\ strayed' = (strayed \/ ~(ToSet(requires) \subseteq Numbers))
    /\ Remember

RemoveCue(c) ==
    /\ c \in OnCueSheet
    /\ \A d \in OnCueSheet : sheetCues[c].number \notin ToSet(sheetCues[d].requires)
    /\ sheetCues' = [sheetCues EXCEPT ![c] = NoCue]
    /\ Remember
    /\ UNCHANGED strayed

\* Mutant: of what a cue requires, only the first number is looked at.
RenamedAtFirst(requires, old_number, new_number) ==
    [i \in DOMAIN requires |->
        IF i = 1 /\ requires[i] = old_number THEN new_number ELSE requires[i]]

Renamed(requires, old_number, new_number) ==
    [i \in DOMAIN requires |-> IF requires[i] = old_number THEN new_number ELSE requires[i]]

\* Also when validate refuses the sheet in the end.
Renumber(c, new_number) ==
    LET old_number == sheetCues[c].number
    IN  /\ c \in OnCueSheet
        /\ \A d \in OnCueSheet \ {c} : sheetCues[d].number # new_number
        /\ new_number >= 1
        /\ sheetCues' = [d \in CueIds |->
               IF d \notin OnCueSheet THEN NoCue
               ELSE [number |-> IF d = c THEN new_number ELSE sheetCues[d].number,
                     requires |-> Renamed(sheetCues[d].requires, old_number, new_number)]]
        /\ Remember
        /\ UNCHANGED strayed

CueSheetInit ==
    /\ sheetCues = [c \in CueIds |-> NoCue]
    /\ everRequired = [c \in CueIds |-> {}]
    /\ strayed = FALSE

CueSheetNext ==
    \/ \E c \in CueIds \ OnCueSheet, number \in CueNumbers, requires \in RequirementLists :
           AddCue(c, number, requires)
    \/ \E c \in OnCueSheet :
           \/ \E number \in CueNumbers : Renumber(c, number)
           \/ RemoveCue(c)

(***************************************************************************)
(* Properties.                                                             *)
(***************************************************************************)
CueSheetTypeOK ==
    \A c \in OnCueSheet :
        /\ sheetCues[c].number \in CueNumbers \ {0}
        /\ ToSet(sheetCues[c].requires) \subseteq CueNumbers
        /\ \A d \in OnCueSheet \ {c} : sheetCues[d].number # sheetCues[c].number

\* A valid sheet has an order, in which each cue comes once, after all it requires.
ValidSheetsHaveAnOrder ==
    SheetValid =>
        LET order == DependencyOrder
        IN  /\ Len(order) = Cardinality(OnCueSheet) /\ ToSet(order) = Numbers
            /\ \A i \in DOMAIN order :
                   ToSet(sheetCues[CueOf(order[i])].requires) \subseteq ToSet(SubSeq(order, 1, i - 1))

\* A cue that requires another requires it for as long as it is on the sheet,
\* whatever is renumbered, also when the renumbering is refused, and whatever is
\* removed.  A sheet whose cues were all added after what they require stays
\* valid, so only an early add can keep a run from being made of it.
RequirementsFollowCues ==
    /\ CueSheetTypeOK
    /\ \A c \in OnCueSheet : Required(c) = everRequired[c]
    /\ ~strayed => SheetValid
=============================================================================
