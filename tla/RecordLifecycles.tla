--------------------------- MODULE RecordLifecycles ---------------------------
(***************************************************************************)
(* The lifecycles of catalog records (models/production.py, preview_hold,  *)
(* performance, prop_asset, program, showbook, role_track) as their        *)
(* services run them, and the content pipeline over a production and its   *)
(* preview hold (domain/show_pipeline.py).                                 *)
(*                                                                         *)
(* Every operation gets the record in one store call, checks and changes   *)
(* its copy, and saves the copy whole in another; other callers work in    *)
(* between.  A record has the metadata its operations look at.  A field of *)
(* the metadata that is not there has the value Absent.                   *)
(***************************************************************************)
EXTENDS Integers, Sequences, FiniteSets

CONSTANTS Callers,
          Cast,          \* ids of people
          Titles,        \* of sections and credits
          LiftTimes,     \* moments to hold a production until
          CreatedAt,     \* the moment the preview hold was created
          Workflow,      \* the names of the pipeline's stages, in order
          RequiredStages,\* those of them that are required
          Starts,        \* the records a behaviour may start with: kind -> metadata
          Updates,       \* kind -> metadata merged by update requests
          Absent,
          NoCopy,
          MaxSaves,      \* bound: saves of one record
          MaxSections    \* bound: sections of a program

VARIABLES entity,        \* kind -> the stored record of that kind
          copy,          \* caller -> NoCopy or what it is about to save
          saves,         \* kind -> the number of saves
          promised,      \* history: kind -> what callers were told
          outrun,        \* history: kinds saved over a save of another caller
          overruled      \* history: kinds an update request gave a promised field of

recordVars == <<entity, copy, saves, promised, outrun, overruled>>

Nobody == ""
ALLOWED_STAGES == <<"planning", "rehearsal", "preview", "running", "closed">>
StageNames == {ALLOWED_STAGES[i] : i \in DOMAIN ALLOWED_STAGES}
StageOf(row) == IF row.stage = Absent THEN "planning" ELSE row.stage
StageIndex(stage) == CHOOSE i \in DOMAIN ALLOWED_STAGES : ALLOWED_STAGES[i] = stage

ASSUME LifecycleAssumption ==
    /\ LiftTimes \subseteq Nat \ {0} /\ CreatedAt \in Nat
    /\ Workflow \in Seq(STRING)
    /\ \A i, j \in DOMAIN Workflow : Workflow[i] = Workflow[j] => i = j
    /\ Nobody \notin Cast
    /\ MaxSaves \in Nat /\ MaxSections \in Nat

\* validate_metadata, of the kinds that relate a field to others or to a list.
ValidProduction(row) == row.stage \in StageNames \cup {Absent}
ValidPerformance(row) == row.capacity = 0 \/ row.sold + row.held <= row.capacity
ValidRoleTrack(row) == row.primary_cast_id \notin row.understudy_ids
ValidMetadata(kind, row) ==
    /\ kind = "production" => ValidProduction(row)
    /\ kind = "performance" => ValidPerformance(row)
    /\ kind = "role_track" => ValidRoleTrack(row)

\* The metadata of each kind: field -> its values.
Fields ==
    [production |-> [stage |-> StageNames \cup {Absent}, status |-> {"active", "archived"}],
     preview_hold |-> [lift_at |-> LiftTimes \cup {Absent}, manually_lifted |-> BOOLEAN],
     performance |-> [capacity |-> Nat, sold |-> Nat, held |-> Nat],
     prop_asset |-> [condition |-> {"good", "retired"}, checked_out_to |-> Cast \cup {Nobody}],
     program |-> [sections |-> Seq(Titles), credits |-> SUBSET Titles, published |-> BOOLEAN],
     showbook |-> [sections |-> SUBSET Titles, revision |-> Nat, locked |-> BOOLEAN],
     role_track |-> [primary_cast_id |-> Cast \cup {Nobody}, understudy_ids |-> SUBSET Cast]]

IsRecord(kind, row) ==
    /\ row = [f \in DOMAIN Fields[kind] |-> row[f]]
    /\ \A f \in DOMAIN Fields[kind] : row[f] \in Fields[kind][f]

\* What is stored at the start was validated, and requests give fields values of theirs.
ASSUME RecordsAssumption ==
    /\ Absent \notin StageNames /\ Absent \notin LiftTimes
    /\ \A i \in DOMAIN Workflow : Workflow[i] # Absent
    /\ \A records \in Starts :
          /\ records = [kind \in DOMAIN records |-> records[kind]]
          /\ \A kind \in DOMAIN records :
                /\ kind \in DOMAIN Fields
                /\ IsRecord(kind, records[kind]) /\ ValidMetadata(kind, records[kind])
    /\ \A kind \in DOMAIN Fields : \A values \in Updates[kind] :
          \A f \in DOMAIN values \cap DOMAIN Fields[kind] : values[f] \in Fields[kind][f]

(***************************************************************************)
(* A call: the copy it is about to save, and the save.                     *)
(***************************************************************************)
\* get, and merge_metadata of the copy; told is what the caller learns of it.
Change(c, kind, operation, told, row) ==
    /\ copy[c] = NoCopy
    /\ ValidMetadata(kind, row)
    /\ copy' = [copy EXCEPT ![c] = [kind |-> kind, operation |-> operation, told |-> told,
                                    row |-> row, base |-> saves[kind]]]
    /\ UNCHANGED <<entity, saves, promised, outrun, overruled>>

On(kind) == kind \in DOMAIN entity

\* update, with the metadata of a request: whatever it gives is merged.
Update(c, kind, values) ==
    Change(c, kind, "update", DOMAIN values,
           [f \in DOMAIN entity[kind] |->
               IF f \in DOMAIN values THEN values[f] ELSE entity[kind][f]])

\* The process or the store fails before the save.
CopyLost(c) ==
    /\ copy[c] # NoCopy
    /\ copy' = [copy EXCEPT ![c] = NoCopy]
    /\ UNCHANGED <<entity, saves, promised, outrun, overruled>>

(***************************************************************************)
(* Production, alone and in the pipeline, and the preview hold.            *)
(***************************************************************************)
SetStage(c, stage) ==
    /\ On("production")
    /\ StageIndex(stage) >= StageIndex(StageOf(entity["production"]))
    /\ Change(c, "production", "set_stage", stage, [entity["production"] EXCEPT !.stage = stage])

\* next_stage; validate_transition never refuses it.
NextStage(stage) == {Workflow[i + 1] : i \in {j \in 1..(Len(Workflow) - 1) : Workflow[j] = stage}}

\* To the pipeline a production without a stage is a draft.
PipelineStage(row) == IF row.stage = Absent THEN "draft" ELSE row.stage

\* ContentPipeline.advance
Advance(c) ==
    /\ On("production")
    /\ \E stage \in NextStage(PipelineStage(entity["production"])) :
          Change(c, "production", "set_stage", stage,
                 [entity["production"] EXCEPT !.stage = stage])

ExtendUntil(c, moment) ==
    /\ On("preview_hold")
    /\ ~(entity["preview_hold"].lift_at # Absent /\ moment <= entity["preview_hold"].lift_at)
    /\ Change(c, "preview_hold", "extend_until", moment,
              [lift_at |-> moment, manually_lifted |-> FALSE])

Lift(c) ==
    /\ On("preview_hold")
    /\ Change(c, "preview_hold", "lift", Absent,
              [entity["preview_hold"] EXCEPT !.manually_lifted = TRUE])

\* PreviewHold.is_lifted
HoldIsLifted(hold, now) ==
    hold.manually_lifted \/ (hold.lift_at # Absent /\ now >= hold.lift_at)

\* PreviewHoldChecker.is_lifted: the date alone; without one, since it was created.
LiftTime(hold) == IF hold.lift_at = Absent THEN CreatedAt ELSE hold.lift_at
CheckerIsLifted(hold, now) == now >= LiftTime(hold)

\* is_complete
WorkflowIsComplete(completed) == RequiredStages \subseteq completed

\* ContentPipeline.evaluate of the production and its hold.
Publishable(completed, now) ==
    /\ WorkflowIsComplete(completed)
    /\ CheckerIsLifted(entity["preview_hold"], now)
    /\ entity["production"].status = "active"

(***************************************************************************)
(* Performance and prop asset.                                             *)
(***************************************************************************)
AvailableSeats(row) ==
    LET free == row.capacity - row.sold - row.held IN IF free > 0 THEN free ELSE 0

RecordSales(c, quantity) ==
    /\ On("performance")
    /\ quantity <= AvailableSeats(entity["performance"])
    /\ Change(c, "performance", "record_sales", quantity,
              [entity["performance"] EXCEPT !.sold = @ + quantity])

\* Mutant: an asset that is out is checked out to another.
CheckOutTwice(c, person) ==
    /\ On("prop_asset")
    /\ entity["prop_asset"].condition # "retired"
    /\ Change(c, "prop_asset", "check_out", person,
              [entity["prop_asset"] EXCEPT !.checked_out_to = person])

CheckOut(c, person) ==
    /\ On("prop_asset")
    /\ entity["prop_asset"].condition # "retired"
    /\ entity["prop_asset"].checked_out_to = Nobody
    /\ Change(c, "prop_asset", "check_out", person,
              [entity["prop_asset"] EXCEPT !.checked_out_to = person])

ReturnTo(c) ==
    /\ On("prop_asset")
    /\ Change(c, "prop_asset", "return_to", Absent,
              [entity["prop_asset"] EXCEPT !.checked_out_to = Nobody])

SetCondition(c, condition) ==
    /\ On("prop_asset")
    /\ Change(c, "prop_asset", "set_condition", condition,
              [entity["prop_asset"] EXCEPT !.condition = condition])

(***************************************************************************)
(* Program, showbook and role track.                                       *)
(***************************************************************************)
AddProgramSection(c, title) ==
    /\ On("program")
    /\ ~entity["program"].published
    /\ Len(entity["program"].sections) < MaxSections
    /\ Change(c, "program", "add", title, [entity["program"] EXCEPT !.sections = Append(@, title)])

AddCredit(c, title) ==
    /\ On("program")
    /\ ~entity["program"].published
    /\ Change(c, "program", "add", title, [entity["program"] EXCEPT !.credits = @ \cup {title}])

Publish(c) ==
    /\ On("program")
    /\ entity["program"].sections # <<>>
    /\ entity["program"].credits # {}
    /\ Change(c, "program", "publish", Absent, [entity["program"] EXCEPT !.published = TRUE])

AddSection(c, title) ==
    /\ On("showbook")
    /\ ~entity["showbook"].locked
    /\ title \notin entity["showbook"].sections
    /\ Change(c, "showbook", "add", title,
              [entity["showbook"] EXCEPT !.sections = @ \cup {title}, !.revision = @ + 1])

Lock(c, locked) ==
    /\ On("showbook")
    /\ Change(c, "showbook", IF locked THEN "lock" ELSE "unlock", Absent,
              [entity["showbook"] EXCEPT !.locked = locked])

AssignPrimary(c, person) ==
    /\ On("role_track")
    /\ person \notin entity["role_track"].understudy_ids
    /\ Change(c, "role_track", "assign_primary", person,
              [entity["role_track"] EXCEPT !.primary_cast_id = person])

AddUnderstudy(c, person) ==
    /\ On("role_track")
    /\ person # entity["role_track"].primary_cast_id
    /\ Change(c, "role_track", "add_understudy", person,
              [entity["role_track"] EXCEPT !.understudy_ids = @ \cup {person}])

(***************************************************************************)
(* The save, and with it the history of what callers were told:            *)
(*   production    the furthest stage it has reached                       *)
(*   preview_hold  the moment it is held until, 0 for none                 *)
(*   performance   the seats sold                                          *)
(*   prop_asset    the people who have it                                  *)
(*   program       the program as published, Absent before                *)
(*   showbook      the sections when locked, Absent while unlocked        *)
(*   role_track    the understudies                                        *)
(***************************************************************************)
PromiseOf(kind, row) ==
    CASE kind = "production" -> StageIndex(StageOf(row))
      [] kind = "preview_hold" ->
            IF row.manually_lifted \/ row.lift_at = Absent THEN 0 ELSE row.lift_at
      [] kind = "performance" -> row.sold
      [] kind = "prop_asset" -> {row.checked_out_to} \ {Nobody}
      [] kind = "program" -> IF row.published THEN <<row.sections, row.credits>> ELSE Absent
      [] kind = "showbook" -> IF row.locked THEN row.sections ELSE Absent
      [] kind = "role_track" -> row.understudy_ids

Later(a, b) == IF a > b THEN a ELSE b

Promise(old, call) ==
    CASE call.operation = "set_stage" -> Later(old, StageIndex(call.told))
      [] call.operation = "extend_until" -> Later(old, call.told)
      [] call.operation = "record_sales" -> old + call.told
      [] call.operation \in {"check_out", "add_understudy"} -> old \cup {call.told}
      [] call.operation = "return_to" -> {}
      [] call.operation \in {"lift", "publish", "lock", "unlock"} -> PromiseOf(call.kind, call.row)
      [] call.operation \in {"update", "add", "set_condition", "assign_primary"} -> old

\* The fields a promise is about.
PromisedFields ==
    [production |-> {"stage"}, preview_hold |-> {"lift_at", "manually_lifted"},
     performance |-> {"sold"}, prop_asset |-> {"checked_out_to"},
     program |-> {"sections", "credits", "published"}, showbook |-> {"sections", "locked"},
     role_track |-> {"understudy_ids"}]

\* A request that gives one of them a value: update asks none of the guards above.
Overrules(call) ==
    call.operation = "update" /\ call.told \cap PromisedFields[call.kind] # {}

\* repo.save: whatever has been saved since the copy was made.
SaveCopy(c) ==
    /\ copy[c] # NoCopy
    /\ LET call == copy[c]
       IN  /\ saves[call.kind] < MaxSaves
           /\ entity' = [entity EXCEPT ![call.kind] = call.row]
           /\ saves' = [saves EXCEPT ![call.kind] = @ + 1]
           /\ promised' = [promised EXCEPT ![call.kind] = Promise(@, call)]
           /\ outrun' = outrun \cup (IF call.base = saves[call.kind] THEN {} ELSE {call.kind})
           /\ overruled' = overruled \cup (IF Overrules(call) THEN {call.kind} ELSE {})
    /\ copy' = [copy EXCEPT ![c] = NoCopy]

RecordInit ==
    /\ entity \in Starts
    /\ copy = [c \in Callers |-> NoCopy]
    /\ saves = [kind \in DOMAIN entity |-> 0]
    /\ promised = [kind \in DOMAIN entity |-> PromiseOf(kind, entity[kind])]
    /\ outrun = {} /\ overruled = {}

RecordNext ==
    \E c \in Callers :
        \/ \E kind \in DOMAIN entity : \E values \in Updates[kind] : Update(c, kind, values)
        \/ \E stage \in StageNames : SetStage(c, stage)
        \/ Advance(c) \/ Lift(c) \/ ReturnTo(c) \/ Publish(c)
        \/ \E moment \in LiftTimes : ExtendUntil(c, moment)
        \/ \E quantity \in 1..2 : RecordSales(c, quantity)
        \/ \E condition \in {"good", "retired"} : SetCondition(c, condition)
        \/ \E title \in Titles :
              AddProgramSection(c, title) \/ AddCredit(c, title) \/ AddSection(c, title)
        \/ \E locked \in BOOLEAN : Lock(c, locked)
        \/ \E person \in Cast : CheckOut(c, person) \/ AddUnderstudy(c, person)
        \/ \E person \in Cast \cup {Nobody} : AssignPrimary(c, person)
        \/ SaveCopy(c) \/ CopyLost(c)

(***************************************************************************)
(* Properties.                                                             *)
(***************************************************************************)
\* The stages of a production that the workflow names are in their order.
WorkflowAscends ==
    \A i, j \in DOMAIN Workflow :
        i < j /\ {Workflow[i], Workflow[j]} \subseteq StageNames
        => StageIndex(Workflow[i]) < StageIndex(Workflow[j])

\* What was promised of a kind is in its record.
Kept(kind) ==
    LET row == entity[kind]
    IN  /\ kind = "preview_hold" =>
              \A now \in 0..(promised[kind] - 1) : ~HoldIsLifted(row, now)
        /\ kind = "production" /\ WorkflowAscends =>
              StageIndex(StageOf(row)) = promised[kind]
        /\ kind \in {"performance", "prop_asset", "role_track"} =>
              promised[kind] = PromiseOf(kind, row)
        /\ kind \in {"program", "showbook"} /\ promised[kind] # Absent =>
              promised[kind] = PromiseOf(kind, row)

\* Two things break what a caller was told: a save over the save of another, and an
\* update request that gives the very field, past the guard of the operation that
\* made the promise.  Without them the seats recorded as sold are all there, an asset
\* is with the one person it was checked out to until it is returned, a published
\* program and a locked showbook keep their contents, a hold lasts as long as it was
\* extended to, and nothing is publishable before, a production does not go back, and
\* an understudy stays one.  Even with them every record that is stored passes the
\* validation it is loaded with.
PromisesAreKept ==
    /\ \A kind \in DOMAIN entity :
          /\ ValidMetadata(kind, entity[kind])
          /\ kind \notin outrun \cup overruled => Kept(kind)
    /\ On("production") /\ On("preview_hold") /\ "preview_hold" \notin outrun \cup overruled =>
          \A now \in LiftTimes \cup {0} :
              Publishable(RequiredStages, now) => promised["preview_hold"] <= now
=============================================================================
