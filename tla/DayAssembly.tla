---------------------------- MODULE DayAssembly -----------------------------
(***************************************************************************)
(* domain/day_pack.py: what DayPackAssembler puts into the pack of one day *)
(* out of the rows of the catalog.  (How a build reads those rows and      *)
(* keeps the pack is DayPackService.)                                      *)
(*                                                                         *)
(* Assembling is one pure computation: the state is the rows, edited by    *)
(* the catalog routes.  Ids are numbers in their order, instants are       *)
(* numbers in UTC.  A row is linked when it is active and names the        *)
(* production.  Sound cues and props, a flag each in the pack, are left    *)
(* out but for the props that stop a build.                                *)
(***************************************************************************)
EXTENDS Integers, SequencesExt, Sorting

CONSTANTS Dates,            \* the days packs are built for, following each other
          Zones,            \* time zones the code can resolve, "UTC" among them
          ZoneNames,        \* what a production gives as its timezone
          Midnight,         \* zone -> date -> instant its local day begins
          UtcDay,           \* length of a day in UTC
          CallOffset,       \* _CALL_OFFSET_MINUTES
          ShowIds, ShowRows,     \* performances
          SlotIds, SlotRows,     \* rehearsal slots
          TrackIds, TrackRows,   \* role tracks
          NoTime,           \* a row without a time
          NoText            \* an empty text

VARIABLES zoneName,         \* metadata.timezone of the production
          shows, slots, tracks,  \* id -> row
          strayProp         \* some prop row is checked out without checked_out_at

assemblyVars == <<zoneName, shows, slots, tracks, strayProp>>

ASSUME AssemblyAssumption ==
    /\ Dates # {} /\ Dates = Min(Dates)..Max(Dates) /\ {Min(Dates), Max(Dates)} \subseteq Nat
    /\ "UTC" \in ZoneNames /\ UtcDay \in Nat \ {0} /\ CallOffset \in Nat
    /\ \A z \in Zones : \A d \in Dates :
          /\ {Midnight[z][d], Midnight[z][d + 1]} \subseteq Int
          /\ Midnight[z][d] < Midnight[z][d + 1]
    /\ \A ids \in {ShowIds, SlotIds, TrackIds} : ids \subseteq Nat /\ IsFiniteSet(ids)

\* What the models accept: a rehearsal that has a time has both, and ends after it starts.
ASSUME RowsAssumption ==
    /\ NoTime \notin Int
    /\ \A row \in ShowRows \cup SlotRows : row.starts_at \in Int \cup {NoTime}
    /\ \A row \in SlotRows : row.starts_at # NoTime =>
          row.ends_at \in Int /\ row.starts_at < row.ends_at
    /\ \E row \in ShowRows : row.starts_at = NoTime
    /\ \E row \in SlotRows : row.starts_at = NoTime
    /\ \E row \in TrackRows : ~row.linked

(***************************************************************************)
(* The window of a day.                                                    *)
(***************************************************************************)
ResolveTimezone(name) == IF name \in Zones THEN name ELSE "UTC"

\* Mutant: the day ends a fixed time after it begins.
DayWindowFixed(date, zone) ==
    IF zone = "UTC" THEN [start |-> date * UtcDay, end |-> date * UtcDay + UtcDay]
    ELSE [start |-> Midnight[zone][date], end |-> Midnight[zone][date] + UtcDay]

\* A day is added to the local midnight: it ends when the next local day begins.
DayWindow(date, zone) ==
    IF zone = "UTC" THEN [start |-> date * UtcDay, end |-> date * UtcDay + UtcDay]
    ELSE [start |-> Midnight[zone][date], end |-> Midnight[zone][date + 1]]

InHalfOpen(moment, window) == window.start <= moment /\ moment < window.end
Intersects(start, end, window) == start < window.end /\ end > window.start

(***************************************************************************)
(* assemble                                                                *)
(***************************************************************************)
Smaller(ids) == {ab \in ids \X ids : ab[1] < ab[2]}

Earlier(rows, ids) ==
    {ab \in ids \X ids : \/ rows[ab[1]].starts_at < rows[ab[2]].starts_at
                         \/ rows[ab[1]].starts_at = rows[ab[2]].starts_at /\ ab[1] < ab[2]}

ByTime(rows, ids) == InOrder(ids, Earlier(rows, ids))

DayPerformances(window) ==
    ByTime(shows, {p \in ShowIds : /\ shows[p].linked /\ shows[p].starts_at # NoTime
                                   /\ InHalfOpen(shows[p].starts_at, window)})

DayRehearsals(window) ==
    ByTime(slots, {s \in SlotIds : /\ slots[s].linked /\ slots[s].starts_at # NoTime
                                   /\ Intersects(slots[s].starts_at, slots[s].ends_at, window)})

LinkedTracks == {t \in TrackIds : tracks[t].linked}

SlotsOverlap(a, b) ==
    slots[a].starts_at < slots[b].ends_at /\ slots[b].starts_at < slots[a].ends_at

RehearsalConflicts(ordered) ==
    LET Refs(ij) == <<ordered[ij[1]], ordered[ij[2]]>>
        pairs == {Refs(ij) : ij \in {k \in (DOMAIN ordered) \X (DOMAIN ordered) :
                        k[1] < k[2] /\ SlotsOverlap(ordered[k[1]], ordered[k[2]])}}
        sameRoom == {p \in pairs : /\ slots[p[1]].room # NoText
                                   /\ slots[p[1]].room = slots[p[2]].room}
        samePeople == {p \in pairs : slots[p[1]].people \cap slots[p[2]].people # {}}
    IN  {[code |-> "room", refs |-> p] : p \in sameRoom}
        \cup {[code |-> "people", refs |-> p] : p \in samePeople}

CallTimeline(performances) ==
    LET called == {t \in LinkedTracks : tracks[t].primary # NoText}
        order == InOrder(called, Smaller(called))
    IN  FlattenSeq([i \in DOMAIN performances |->
            [k \in DOMAIN order |->
                [performance |-> performances[i], track |-> order[k],
                 call_at |-> shows[performances[i]].starts_at - CallOffset]]])

Gaps(performances, rehearsals) ==
    (IF performances = <<>> /\ rehearsals = <<>> THEN {<<"empty_schedule">>} ELSE {})
    \cup {<<"uncovered_role", t>> : t \in {u \in LinkedTracks : tracks[u].primary = NoText}}

PackContent(date) ==
    LET window == DayWindow(date, ResolveTimezone(zoneName))
        performances == DayPerformances(window)
        rehearsals == DayRehearsals(window)
    IN  [performances |-> performances, rehearsals |-> rehearsals,
         call_timeline |-> CallTimeline(performances),
         gaps |-> Gaps(performances, rehearsals),
         warnings |-> RehearsalConflicts(rehearsals)]

\* A prop row that is checked out without a time is refused when the collection is
\* read, whatever production it belongs to: nothing is assembled.
CanAssemble == ~strayProp

(***************************************************************************)
(* Edits of the catalog between builds, external to this code.             *)
(***************************************************************************)
MoveProduction(name) ==
    /\ zoneName' = name
    /\ UNCHANGED <<shows, slots, tracks, strayProp>>

EditShow(p, row) ==
    /\ shows' = [shows EXCEPT ![p] = row]
    /\ UNCHANGED <<zoneName, slots, tracks, strayProp>>

EditSlot(s, row) ==
    /\ slots' = [slots EXCEPT ![s] = row]
    /\ UNCHANGED <<zoneName, shows, tracks, strayProp>>

EditTrack(t, row) ==
    /\ tracks' = [tracks EXCEPT ![t] = row]
    /\ UNCHANGED <<zoneName, shows, slots, strayProp>>

EditProp(stray) ==
    /\ strayProp' = stray
    /\ UNCHANGED <<zoneName, shows, slots, tracks>>

AssemblyInit ==
    /\ zoneName = "UTC"
    /\ shows = [p \in ShowIds |-> CHOOSE row \in ShowRows : row.starts_at = NoTime]
    /\ slots = [s \in SlotIds |-> CHOOSE row \in SlotRows : row.starts_at = NoTime]
    /\ tracks = [t \in TrackIds |-> CHOOSE row \in TrackRows : ~row.linked]
    /\ strayProp = FALSE

AssemblyNext ==
    \/ \E name \in ZoneNames : MoveProduction(name)
    \/ \E p \in ShowIds, row \in ShowRows : EditShow(p, row)
    \/ \E s \in SlotIds, row \in SlotRows : EditSlot(s, row)
    \/ \E t \in TrackIds, row \in TrackRows : EditTrack(t, row)
    \/ \E stray \in BOOLEAN : EditProp(stray)

-----------------------------------------------------------------------------
AssemblyTypeOK ==
    /\ zoneName \in ZoneNames /\ strayProp \in BOOLEAN
    /\ shows \in [ShowIds -> ShowRows] /\ slots \in [SlotIds -> SlotRows]
    /\ tracks \in [TrackIds -> TrackRows]

LocalMidnight(date) ==
    LET zone == ResolveTimezone(zoneName)
    IN  IF zone = "UTC" THEN date * UtcDay ELSE Midnight[zone][date]

\* The instants of all days packs are built for, and the day an instant is part of.
Covered == LocalMidnight(Min(Dates))..LocalMidnight(Max(Dates) + 1) - 1
DayOf(moment) == Max({d \in Dates : LocalMidnight(d) <= moment})

Instants(s) == slots[s].starts_at..slots[s].ends_at - 1

\* What two rehearsals of a day are warned about.
Clash(a, b) ==
    IF Instants(a) \cap Instants(b) = {} THEN {}
    ELSE (IF slots[a].room = slots[b].room /\ slots[a].room # NoText THEN {"room"} ELSE {})
         \cup (IF slots[a].people \cap slots[b].people # {} THEN {"people"} ELSE {})

\* The packs of days that follow each other tell the schedule of the production: each
\* performance is in the pack of exactly one day, also where the clocks change; a
\* rehearsal is in the pack of every day it reaches into; two rehearsals of a pack are
\* warned about, once for the room and once for the people, exactly if they meet; and
\* the calls of all cast roles are in the timeline in the order they come.
PacksTellTheSchedule ==
    /\ AssemblyTypeOK
    /\ CanAssemble =>
        LET pack == [d \in Dates |-> PackContent(d)]
        IN  /\ \A p \in ShowIds : shows[p].linked /\ shows[p].starts_at \in Covered =>
                  {d \in Dates : p \in ToSet(pack[d].performances)} = {DayOf(shows[p].starts_at)}
            /\ \A s \in SlotIds : slots[s].linked /\ slots[s].starts_at # NoTime =>
                  {d \in Dates : s \in ToSet(pack[d].rehearsals)}
                    = {DayOf(m) : m \in Instants(s) \cap Covered}
            /\ \A d \in Dates : \A a, b \in ToSet(pack[d].rehearsals) : a < b =>
                  LET about == {w \in pack[d].warnings : ToSet(w.refs) = {a, b}}
                  IN  {w.code : w \in about} = Clash(a, b)
                      /\ Cardinality(about) = Cardinality(Clash(a, b))
            /\ \A d \in Dates :
                  LET calls == pack[d].call_timeline
                  IN  /\ {<<calls[i].performance, calls[i].track>> : i \in DOMAIN calls}
                           = ToSet(pack[d].performances)
                               \X {t \in LinkedTracks : tracks[t].primary # NoText}
                      /\ \A i, j \in DOMAIN calls : i < j => calls[i].call_at <= calls[j].call_at
=============================================================================
