------------------------------ MODULE Scheduling ------------------------------
(***************************************************************************)
(* domain/scheduling.py: bookings of rooms and people, the conflicts they  *)
(* are refused for, series of bookings, and the time that is left free.    *)
(*                                                                         *)
(* A call is one action; times are numbers, a day has DayLength of them.   *)
(* All resources are rooms, the only kind with a capacity.  Names, labels, *)
(* tags, metadata and the wording of conflicts are left out.               *)
(***************************************************************************)
EXTENDS Integers, FiniteSets, SequencesExt, Sorting

CONSTANTS BookingIds, Rooms, Performers,
          Templates,     \* name -> what a booking asks for, a Template
          Slots,         \* slots proposed for bookings, pairs of times
          Statuses,      \* statuses bookings are given
          WindowSets,    \* availability that is set, sets of slots
          Views,         \* windows free time is computed for
          Capacities, Turnaround, DayLength,
          Rules,         \* recurrence rules
          SeriesRules,   \* those a series is scheduled by
          SeriesIds,     \* the ids a series takes, in order
          Unbounded,     \* a rule without count or without until
          LastDay,       \* bound: occurrences are looked at up to this day
          NoRoom, NoBooking,
          NeverSet       \* a room without an entry for its availability

TimeRanges == {slot \in Nat \X Nat : slot[1] < slot[2]}

ASSUME SchedulingAssumption ==
    /\ Turnaround \in Nat /\ DayLength \in Nat \ {0} /\ LastDay \in Nat
    /\ Slots \cup Views \cup UNION WindowSets \subseteq TimeRanges
    /\ IsFiniteSet(BookingIds) /\ \A windows \in WindowSets : IsFiniteSet(windows)
    /\ SeriesRules \subseteq Rules /\ Unbounded \notin Int /\ NeverSet # {}
    /\ Statuses \subseteq {"tentative", "confirmed", "cancelled"}

VARIABLES rooms,         \* id -> NoRoom or [active, capacity]
          availability,  \* id -> NeverSet or a set of windows
          bookings,      \* id -> NoBooking or Booking
          unchecked      \* history: pairs of bookings whose clash was allowed, or that
                         \* were not compared when they came to be

schedVars == <<rooms, availability, bookings, unchecked>>

Template == [rooms : SUBSET Rooms, performers : SUBSET Performers, attendees : Nat]
ASSUME TemplateAssumption == \A name \in DOMAIN Templates : Templates[name] \in Template

BookingStatus == {"tentative", "confirmed", "cancelled"}

Smaller(a, b) == IF a < b THEN a ELSE b
Larger(a, b) == IF a < b THEN b ELSE a

(***************************************************************************)
(* TimeRange: <<start, end>>, the end excluded.                            *)
(***************************************************************************)
Overlaps(a, b) == a[1] < b[2] /\ b[1] < a[2]
ContainsRange(a, b) == a[1] <= b[1] /\ b[2] <= a[2]
Expand(slot) == <<slot[1] - Turnaround, slot[2] + Turnaround>>
Shift(slot, days) == <<slot[1] + days * DayLength, slot[2] + days * DayLength>>
Meet(a, b) == <<Larger(a[1], b[1]), Smaller(a[2], b[2])>>
Cuts(S, window) == {Meet(slot, window) : slot \in {s \in S : Overlaps(s, window)}}

Active(b) == bookings[b] # NoBooking /\ bookings[b].status # "cancelled"
Wants(booking) == Templates[booking.template]
Disjoint(windows) == \A a, b \in windows : a # b => ~Overlaps(a, b)

(***************************************************************************)
(* find_conflicts.  Both slots are widened by the turnaround, and a room   *)
(* whose availability was set to no window at all is not restricted.       *)
(***************************************************************************)
Windows(r) == IF availability[r] = NeverSet THEN {} ELSE availability[r]

RoomConflicts(slot, wants) ==
    {<<"availability", r>> : r \in {q \in wants.rooms :
        \/ ~rooms[q].active
        \/ /\ Windows(q) # {}
           /\ \A window \in Windows(q) : ~ContainsRange(window, slot)}}
    \cup {<<"capacity", r>> : r \in {q \in wants.rooms :
              rooms[q].active /\ wants.attendees > rooms[q].capacity}}

Shared(a, b) == (a.rooms \cap b.rooms) \cup (a.performers \cap b.performers)

BookingConflicts(slot, wants, ignored) ==
    {<<"booked", b>> : b \in {c \in BookingIds \ ignored :
        /\ Active(c)
        /\ Overlaps(Expand(slot), Expand(bookings[c].slot))
        /\ Shared(wants, Wants(bookings[c])) # {}}}

\* Mutant: only the new slot is widened.
ConflictsOneSided(slot, wants, ignored) ==
    RoomConflicts(slot, wants) \cup
    {<<"booked", b>> : b \in {c \in BookingIds \ ignored :
        /\ Active(c)
        /\ Overlaps(slot, bookings[c].slot)
        /\ Shared(wants, Wants(bookings[c])) # {}}}

FindConflicts(slot, wants, ignored) ==
    RoomConflicts(slot, wants) \cup BookingConflicts(slot, wants, ignored)

Known(wants) == \A r \in wants.rooms : rooms[r] # NoRoom

(***************************************************************************)
(* Rooms and their availability.                                           *)
(***************************************************************************)
RegisterRoom(r, capacity) ==
    /\ rooms[r] = NoRoom
    /\ rooms' = [rooms EXCEPT ![r] = [active |-> TRUE, capacity |-> capacity]]
    /\ UNCHANGED <<availability, bookings, unchecked>>

ReplaceRoom(r, active, capacity) ==
    /\ rooms[r] # NoRoom
    /\ rooms' = [rooms EXCEPT ![r] = [active |-> active, capacity |-> capacity]]
    /\ UNCHANGED <<availability, bookings, unchecked>>

SetAvailability(r, windows) ==
    /\ rooms[r] # NoRoom
    /\ Disjoint(windows)
    /\ availability' = [availability EXCEPT ![r] = windows]
    /\ UNCHANGED <<rooms, bookings, unchecked>>

\* The list is looked up first, which makes an empty entry for a room that has
\* none: it stays when the room turns out not to be known.
AddAvailability(r, window) ==
    /\ IF rooms[r] = NoRoom
       THEN availability' = [availability EXCEPT ![r] = Windows(r)]
       ELSE /\ \A other \in Windows(r) : ~Overlaps(other, window)
            /\ availability' = [availability EXCEPT ![r] = Windows(r) \cup {window}]
    /\ UNCHANGED <<rooms, bookings, unchecked>>

(***************************************************************************)
(* Bookings.                                                               *)
(***************************************************************************)
NewBooking(template, slot, status) == [template |-> template, slot |-> slot, status |-> status]

PairsOf(b) == {{b, c} : c \in BookingIds \ {b}}

Admitted(b, slot, wants) ==
    {pair \in PairsOf(b) : \E c \in pair : <<"booked", c>> \in FindConflicts(slot, wants, {})}

\* Mutant: the conflicts are found, and none is refused.
ScheduleAnyway(b, template, slot, status, allow_conflicts) ==
    /\ bookings[b] = NoBooking
    /\ Known(Templates[template])
    /\ bookings' = [bookings EXCEPT ![b] = NewBooking(template, slot, status)]
    /\ unchecked' = unchecked \cup (IF allow_conflicts
                                    THEN Admitted(b, slot, Templates[template]) ELSE {})
    /\ UNCHANGED <<rooms, availability>>

Schedule(b, template, slot, status, allow_conflicts) ==
    /\ bookings[b] = NoBooking
    /\ Known(Templates[template])
    /\ ~allow_conflicts => FindConflicts(slot, Templates[template], {}) = {}
    /\ bookings' = [bookings EXCEPT ![b] = NewBooking(template, slot, status)]
    /\ unchecked' = unchecked \cup (IF allow_conflicts
                                    THEN Admitted(b, slot, Templates[template]) ELSE {})
    /\ UNCHANGED <<rooms, availability>>

RescheduleBooking(b, slot) ==
    /\ bookings[b] # NoBooking
    /\ FindConflicts(slot, Wants(bookings[b]), {b}) = {}
    /\ bookings' = [bookings EXCEPT ![b].slot = slot]
    /\ unchecked' = unchecked \ PairsOf(b)
    /\ UNCHANGED <<rooms, availability>>

\* set_status and cancel: nothing is looked at.
SetStatus(b, status) ==
    /\ bookings[b] # NoBooking
    /\ bookings' = [bookings EXCEPT ![b].status = status]
    /\ unchecked' = unchecked \cup (IF Active(b) \/ status = "cancelled" THEN {} ELSE PairsOf(b))
    /\ UNCHANGED <<rooms, availability>>

RemoveBooking(b) ==
    /\ bookings[b] # NoBooking
    /\ bookings' = [bookings EXCEPT ![b] = NoBooking]
    /\ unchecked' = unchecked \ PairsOf(b)
    /\ UNCHANGED <<rooms, availability>>

(***************************************************************************)
(* RecurrenceRule.occurrences: the days that a series which begins on the  *)
(* given day falls on.  Day 0 is a Monday.                                 *)
(***************************************************************************)
Weekday(day) == day % 7
FirstOf(weekdays) == CHOOSE d \in weekdays : \A e \in weekdays : d <= e

\* Mutant: the weeks between are left out whenever any of the weekdays comes.
StepAtEveryWeekday(rule, day) ==
    IF rule.frequency = "daily" THEN day + rule.interval
    ELSE IF rule.weekdays = {} THEN day + 7 * rule.interval
    ELSE IF Weekday(day + 1) \in rule.weekdays THEN day + 1 + 7 * (rule.interval - 1)
    ELSE day + 1

Step(rule, day) ==
    IF rule.frequency = "daily" THEN day + rule.interval
    ELSE IF rule.weekdays = {} THEN day + 7 * rule.interval
    ELSE IF Weekday(day + 1) = FirstOf(rule.weekdays) THEN day + 1 + 7 * (rule.interval - 1)
    ELSE day + 1

\* RecurrenceRule.__post_init__
RuleAllowed(rule) ==
    /\ rule.interval >= 1
    /\ rule.count # Unbounded => rule.count >= 1
    /\ rule.count # Unbounded \/ rule.until # Unbounded
    /\ rule.weekdays \subseteq 0..6

ASSUME RuleAssumption ==
    \A rule \in Rules :
        /\ rule \in [frequency : {"daily", "weekly"}, interval : Nat, count : Nat \cup {Unbounded},
                     until : Int \cup {Unbounded}, weekdays : SUBSET (0..6)]
        /\ RuleAllowed(rule)

Falls(rule, day) == rule.weekdays = {} \/ Weekday(day) \in rule.weekdays

Over(rule, day, yielded) ==
    \/ yielded = rule.count
    \/ day > LastDay \/ (rule.until # Unbounded /\ day > rule.until)

\* The loop: every time around comes at least a day later, or it is over.
Occurrences(rule, first) ==
    LET walk[n \in 0..(LastDay + 1)] ==
            IF n = 0 THEN [day |-> first, yielded |-> <<>>]
            ELSE LET at == walk[n - 1]
                 IN  IF Over(rule, at.day, Len(at.yielded)) THEN at
                     ELSE [day |-> Step(rule, at.day),
                           yielded |-> IF Falls(rule, at.day) THEN Append(at.yielded, at.day)
                                       ELSE at.yielded]
    IN  walk[LastDay + 1].yielded

\* The days of a series, by its rule and the day its slot begins on.
DayOf(slot) == slot[1] \div DayLength
SeriesDays ==
    [rule \in SeriesRules |-> [first \in {DayOf(slot) : slot \in Slots} |-> Occurrences(rule, first)]]

(***************************************************************************)
(* schedule_series.  Every occurrence is checked against the bookings of   *)
(* before, not against the other occurrences, and bookings that have one   *)
(* of the ids are replaced.                                                *)
(***************************************************************************)
ScheduleSeries(template, slot, status, rule, all_or_nothing) ==
    LET days == SeriesDays[rule][DayOf(slot)]
        proposed == [n \in DOMAIN days |-> Shift(slot, days[n] - DayOf(slot))]
    IN  /\ Known(Templates[template])
        /\ DOMAIN days \subseteq DOMAIN SeriesIds
        /\ \E staged \in {{n \in DOMAIN days :
                               FindConflicts(proposed[n], Templates[template], {}) = {}}} :
              LET placed == {SeriesIds[n] : n \in staged}
                  touched == UNION {PairsOf(b) : b \in placed}
              IN  /\ all_or_nothing => staged = DOMAIN days
                  /\ bookings' = [b \in BookingIds |->
                          IF b \in placed
                          THEN NewBooking(template,
                                   proposed[CHOOSE n \in staged : SeriesIds[n] = b], status)
                          ELSE bookings[b]]
                  /\ unchecked' = (unchecked \ touched)
                                      \cup {pair \in touched : pair \subseteq placed}
        /\ UNCHANGED <<rooms, availability>>

(***************************************************************************)
(* available_resources, free_intervals, utilization, daily_timeline and    *)
(* conflict_matrix, most of them over between.                             *)
(***************************************************************************)
Between(window, r) ==
    {b \in BookingIds : Active(b) /\ Overlaps(bookings[b].slot, window)
                        /\ r \in Wants(bookings[b]).rooms}

AvailableRooms(slot, attendees) ==
    {r \in Rooms :
        /\ rooms[r] # NoRoom /\ rooms[r].active
        /\ attendees <= rooms[r].capacity
        /\ FindConflicts(slot, [rooms |-> {r}, performers |-> {}, attendees |-> attendees],
                         {}) = {}}

DailyTimeline(day) ==
    LET today == <<day * DayLength, (day + 1) * DayLength>>
    IN  [r \in {q \in Rooms : Between(today, q) # {}} |-> Between(today, r)]

\* sorted, of slots: by start, then by end.
ByStart(slots) ==
    InOrder(slots, {ab \in slots \X slots :
                       ab[1][1] < ab[2][1] \/ (ab[1][1] = ab[2][1] /\ ab[1][2] < ab[2][2])})

AvailableSegments(r, window) ==
    Cuts(IF availability[r] = NeverSet THEN {window} ELSE availability[r], window)

\* What is free between the places of a cursor that is moved along a segment.
Left(segment, busy, cursor) ==
    {<<cursor[n - 1], Meet(segment, busy[n])[1]>> : n \in
        {m \in 1..Len(busy) : /\ Overlaps(segment, busy[m])
                              /\ cursor[m - 1] < Meet(segment, busy[m])[1]}}
    \cup (IF cursor[Len(busy)] < segment[2] THEN {<<cursor[Len(busy)], segment[2]>>} ELSE {})

\* The part of a segment that the busy slots, in order, leave free.
\* Mutant: the cursor goes back to the end of a shorter busy slot.
FreeOfBackwards(segment, busy) ==
    LET cursor[n \in 0..Len(busy)] ==
            IF n = 0 THEN segment[1]
            ELSE IF Overlaps(segment, busy[n]) THEN Meet(segment, busy[n])[2]
            ELSE cursor[n - 1]
    IN  Left(segment, busy, cursor)

FreeOf(segment, busy) ==
    LET cursor[n \in 0..Len(busy)] ==
            IF n = 0 THEN segment[1]
            ELSE IF Overlaps(segment, busy[n])
                 THEN Larger(cursor[n - 1], Meet(segment, busy[n])[2])
            ELSE cursor[n - 1]
    IN  Left(segment, busy, cursor)

FreeIntervals(r, window) ==
    LET occupied == Cuts({Expand(bookings[b].slot) : b \in Between(window, r)}, window)
    IN  UNION {FreeOf(segment, ByStart(occupied)) : segment \in AvailableSegments(r, window)}

\* duration_minutes of slots that differ, added up.
Minutes(slots) == SumFunctionOnSet([slot \in slots |-> slot[2] - slot[1]], slots)

Utilization(r, window) ==
    LET available == Minutes(AvailableSegments(r, window))
    IN  [available |-> available,
         booked |-> Larger(0, available - Minutes(FreeIntervals(r, window)))]

ConflictMatrix ==
    {pair \in BookingIds \X BookingIds :
        /\ pair[1] # pair[2] /\ Active(pair[1]) /\ Active(pair[2])
        /\ LET a == bookings[pair[1]] b == bookings[pair[2]]
           IN  Overlaps(Expand(a.slot), Expand(b.slot)) /\ Shared(Wants(a), Wants(b)) # {}}

SchedInit ==
    /\ rooms = [r \in Rooms |-> NoRoom]
    /\ availability = [r \in Rooms |-> NeverSet]
    /\ bookings = [b \in BookingIds |-> NoBooking]
    /\ unchecked = {}

SchedNext ==
    \/ \E r \in Rooms, capacity \in Capacities :
           \/ RegisterRoom(r, capacity)
           \/ \E active \in BOOLEAN : ReplaceRoom(r, active, capacity)
    \/ \E r \in Rooms, windows \in WindowSets : SetAvailability(r, windows)
    \/ \E r \in Rooms, window \in UNION WindowSets : AddAvailability(r, window)
    \/ \E b \in BookingIds :
           \/ \E template \in DOMAIN Templates, slot \in Slots, status \in Statuses,
                 allow \in BOOLEAN : Schedule(b, template, slot, status, allow)
           \/ \E slot \in Slots : RescheduleBooking(b, slot)
           \/ \E status \in Statuses : SetStatus(b, status)
           \/ RemoveBooking(b)
    \/ \E template \in DOMAIN Templates, slot \in Slots, status \in Statuses,
          rule \in SeriesRules, all \in BOOLEAN : ScheduleSeries(template, slot, status, rule, all)

(***************************************************************************)
(* Properties.                                                             *)
(***************************************************************************)
SchedTypeOK ==
    /\ rooms \in [Rooms -> [active : BOOLEAN, capacity : Capacities] \cup {NoRoom}]
    /\ \A r \in Rooms : availability[r] = NeverSet \/ Disjoint(availability[r])
    /\ \A b \in BookingIds : \/ bookings[b] = NoBooking
                             \/ bookings[b].status \in BookingStatus

\* What a rule says of a series, day by day, by the weeks of the calendar: every
\* interval-th is due, from the one the series begins in; but a series that begins
\* before the first of its weekdays has that week for the one before its first.
WeekOf(day) == day \div 7
WeeksSince(rule, first, day) ==
    WeekOf(day) - WeekOf(first) + (IF Weekday(first) < FirstOf(rule.weekdays) THEN 1 ELSE 0)

Due(rule, first, day) ==
    /\ Falls(rule, day)
    /\ rule.until = Unbounded \/ day <= rule.until
    /\ IF rule.frequency = "daily" THEN (day - first) % rule.interval = 0
       ELSE IF rule.weekdays = {} THEN (day - first) % (7 * rule.interval) = 0
       ELSE WeeksSince(rule, first, day) % rule.interval = 0

DaysFollowRules ==
    \A rule \in Rules, first \in 0..6 :
        LET days == Occurrences(rule, first)
            all == {d \in first..LastDay : Due(rule, first, d)}
        IN  /\ \A n \in 1..Len(days) - 1 : days[n] < days[n + 1]
            /\ IF rule.count # Unbounded /\ rule.count < Cardinality(all)
               THEN /\ Len(days) = rule.count /\ ToSet(days) \subseteq all
                    /\ \A d \in all : d \in ToSet(days) \/ d > days[rule.count]
               ELSE ToSet(days) = all

\* A series that begins on any day of a week falls on the days its rule says, in order,
\* up to its last day and no more often than its count.  By the calendar that is on its
\* weekdays in every interval-th week from the one it begins in; only one that begins
\* before the first of its weekdays waits interval - 1 weeks longer, and so has none
\* in the week it begins in (every second Wednesday from a Monday begins with the
\* Wednesday of the week after).  The rooms, windows and bookings it is placed among
\* have their types.
OccurrencesFollowRule == SchedTypeOK /\ DaysFollowRules

Instants(slots) == UNION {slot[1]..slot[2] - 1 : slot \in slots}

\* The instants at which a room is in use, and those it is kept for a booking, the
\* turnaround before and after it included.
InUse(r) ==
    Instants({bookings[b].slot :
                 b \in {c \in BookingIds : Active(c) /\ r \in Wants(bookings[c]).rooms}})
Busy(r) ==
    Instants({Expand(bookings[b].slot) :
                 b \in {c \in BookingIds : Active(c) /\ r \in Wants(bookings[c]).rooms}})

FreeIntervalsExact ==
    \A r \in Rooms, window \in Views :
        LET free == FreeIntervals(r, window)
            available == Instants(AvailableSegments(r, window))
        IN  /\ available \ Busy(r) \subseteq Instants(free)
            /\ Instants(free) \subseteq available \ InUse(r)
            /\ \A t \in (window[1] + Turnaround)..(window[2] - Turnaround - 1) :
                   t \in Instants(free) <=> t \in available \ Busy(r)
            /\ Disjoint(free)
            /\ \A a, b \in free :
                   a[2] = b[1] => \E s \in AvailableSegments(r, window) : s[2] = a[2]
            /\ Utilization(r, window).booked = Cardinality(available \ Instants(free))

AvailableIsFree ==
    \A r \in Rooms, window \in Views :
        LET free == FreeIntervals(r, window)
        IN  \A slot \in Slots :
                r \in AvailableRooms(slot, 0) /\ ContainsRange(window, slot) =>
                    IF availability[r] = {} THEN free = {}
                    ELSE \E interval \in free : ContainsRange(interval, slot)

TimelineHasEveryBooking ==
    \A b \in BookingIds : Active(b) =>
        \A r \in Wants(bookings[b]).rooms, moment \in Instants({bookings[b].slot}) :
            LET today == DailyTimeline(moment \div DayLength)
            IN  r \in DOMAIN today /\ b \in today[r]

\* The free time of a room in a window is what is available and not kept for any of its
\* bookings, in as few intervals as the availability allows, and utilization counts
\* the rest.  Within a turnaround of the window's ends that is one-sided: no instant in
\* use is called free and no free one is left out, but the turnaround of a booking
\* that lies just outside the window may be called free.  A room that is offered for
\* a slot has the slot in its free time, unless its availability was set to nothing:
\* it is offered for any slot then, and has no free time at all.  A booking is on the
\* timeline of every day it touches, not only of the day it starts on.
FreeTimeIsTrue == FreeIntervalsExact /\ AvailableIsFree /\ TimelineHasEveryBooking

\* Whatever calls came before, two active bookings that clash are a pair that a caller
\* scheduled knowing of it (allow_conflicts), that one of them was reactivated into, or
\* that was placed by one series: schedule and reschedule let in no other, and no
\* series clashes with what was booked before.
ClashesOnlyWhereAllowed ==
    \A pair \in ConflictMatrix : {pair[1], pair[2]} \in unchecked
=============================================================================
