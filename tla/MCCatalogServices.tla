------------------------- MODULE MCCatalogServices --------------------------
(***************************************************************************)
(* An instance of CatalogServices for TLC.                                 *)
(***************************************************************************)
EXTENDS CatalogServices, TLC

CONSTANTS hamlet, lear,        \* slugs
          studio, ada, bo      \* a rehearsal room and two people

\* Two of the collections a build reads (performances before role tracks, as in
\* build) are enough to tell sections read at different moments apart.
MCSources == <<"performances", "role_tracks">>

\* The migrations of the tests: the collection is renamed; then a field is added and
\* archived rows are dropped, in one migration composed of both.
StepOf(kind, source) == [kind |-> kind, source |-> source, destination |-> "productions"]
MCRegistry == <<
    <<StepOf("rename", "shows")>>,
    <<StepOf("add_field", "productions"), StepOf("transform", "productions")>> >>

\* A store from before the renaming, and one the services have worked on already.
OldRow == NewRow(0, hamlet, 2)
ClosedRow == [NewRow(1, lear, 1) EXCEPT !.status = "archived", !.version = 2]
MCShelves == {"shows" :> <<OldRow>>, "productions" :> <<OldRow, ClosedRow>>}

\* An update of all a request can give, and with a note: five touches the first time,
\* four when the tags are those the row has.
MCChanges == {[name |-> 1, status |-> "inactive", tags |-> {"new"}, season |-> 1, note |-> 1]}

\* Predicates of each kind, and sorts by the metadata that some rows lack, by the name,
\* by both, and by none.
Season(d, m) == [path |-> "season", descending |-> d, missing_last |-> m]
Name(d) == [path |-> "name", descending |-> d, missing_last |-> TRUE]
MCQueries ==
    {[predicates |-> p, sort_keys |-> keys, offset |-> 0, limit |-> Missing] :
        p \in {{}, {[kind |-> "between", path |-> "name", minimum |-> 2, maximum |-> Missing,
                     negate |-> TRUE],
                    [kind |-> "exists", path |-> "season", negate |-> FALSE]}},
        keys \in {<<>>, <<Season(TRUE, FALSE), Name(TRUE)>>, <<Season(TRUE, TRUE), Name(FALSE)>>,
                  <<Season(FALSE, FALSE), Name(FALSE)>>, <<Season(FALSE, TRUE), Name(TRUE)>>,
                  <<Name(FALSE), Season(TRUE, TRUE)>>, <<Name(TRUE), Season(FALSE, FALSE)>>}}

RequestSymmetry == Permutations(Requests)

\* Three zones: one whose first day is shorter, and one whose first two days are
\* longer, than a day in UTC.
MCZones == {"UTC", "spring", "autumn"}
MCMidnight ==
    "UTC" :> (1 :> 4 @@ 2 :> 8 @@ 3 :> 12) @@
    "spring" :> (1 :> 3 @@ 2 :> 6 @@ 3 :> 10) @@
    "autumn" :> (1 :> 5 @@ 2 :> 10 @@ 3 :> 15)

\* Performances before and after, and rehearsals across, the midnights.
ShowAt(t) == [starts_at |-> t, linked |-> TRUE]
MCShowRows == {ShowAt(NoTime), ShowAt(6), ShowAt(8), ShowAt(9),
               [starts_at |-> 9, linked |-> FALSE]}
SlotOf(from, to, room, people, linked) ==
    [starts_at |-> from, ends_at |-> to, room |-> room, people |-> people, linked |-> linked]
MCSlotRows == {SlotOf(NoTime, NoTime, studio, {ada}, TRUE), SlotOf(5, 7, studio, {ada}, TRUE),
               SlotOf(7, 9, studio, {bo}, TRUE), SlotOf(6, 11, NoText, {ada, bo}, TRUE),
               SlotOf(6, 11, studio, {}, TRUE), SlotOf(6, 8, studio, {ada}, FALSE)}
MCTrackRows == [primary : {ada, NoText}, linked : BOOLEAN]

\* A production that has no stage yet, one that runs with its preview hold, and a record
\* of each other kind; a workflow that leaves stages out; and requests that edit what
\* the operations look at.
MCStarts ==
    {"production" :> [stage |-> Absent, status |-> "active"],
     "production" :> [stage |-> "running", status |-> "active"] @@
     "preview_hold" :> [lift_at |-> Absent, manually_lifted |-> FALSE],
     "performance" :> [capacity |-> 3, sold |-> 0, held |-> 1],
     "prop_asset" :> [condition |-> "good", checked_out_to |-> Nobody],
     "program" :> [sections |-> <<>>, credits |-> {}, published |-> FALSE],
     "showbook" :> [sections |-> {}, revision |-> 0, locked |-> FALSE],
     "role_track" :> [primary_cast_id |-> Nobody, understudy_ids |-> {}]}
MCUpdates ==
    "production" :> {[status |-> "archived"], [stage |-> "rehearsal", status |-> "active"]} @@
    "preview_hold" :> {[lift_at |-> 1]} @@
    "performance" :> {[capacity |-> 1], [held |-> 0]} @@
    "prop_asset" :> {[checked_out_to |-> "ada"], [condition |-> "good"]} @@
    "program" :> {[published |-> FALSE], [sections |-> <<"one">>, credits |-> {"one"}]} @@
    "showbook" :> {[sections |-> {"one"}]} @@
    "role_track" :> {[primary_cast_id |-> "ada"], [understudy_ids |-> {}]}
MCWorkflow == <<"draft", "planning", "preview", "running">>
=============================================================================
