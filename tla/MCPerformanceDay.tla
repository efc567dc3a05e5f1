-------------------------- MODULE MCPerformanceDay --------------------------
(***************************************************************************)
(* An instance of PerformanceDay for TLC.                                  *)
(***************************************************************************)
EXTENDS PerformanceDay, TLC

CONSTANTS rigging, programme,                  \* readiness items
          prod, show, draft, secret, active,   \* audited resources and states
          room1, ada, b1, b2, b3,              \* a room, a performer, bookings
          g1, g2,                              \* grants
          stalls, circle                       \* price bands

\* Two items: one that blocks and needs two pieces of evidence, and one that does
\* not block and needs one.
MCProfile ==
    rigging :> [blocking |-> TRUE, minimum_evidence |-> 2] @@
    programme :> [blocking |-> FALSE, minimum_evidence |-> 1]

\* A life of a resource with a denied update and an update that redaction hides, a
\* text of two lines, and a second resource.
AuditEntry(a, o, r, b, c, w) ==
    [action |-> a, outcome |-> o, resource |-> r, before |-> b, after |-> c, reason |-> w]
MCEntries ==
    {AuditEntry("create", "success", prod, NoState, draft, "one line"),
     AuditEntry("update", "success", prod, draft, active, "one line"),
     AuditEntry("update", "denied", prod, active, draft, "one line"),
     AuditEntry("update", "success", prod, draft, secret, "one line"),
     AuditEntry("delete", "success", prod, draft, NoState, "one line"),
     AuditEntry("login", "success", show, NoState, NoState, "two lines"),
     AuditEntry("create", "success", show, NoState, active, "one line")}
MCRedact == draft :> draft @@ secret :> draft @@ active :> active

\* One room, two kinds of bookings, slots one of which lies within another, that
\* meet, and that leave less than the turnaround of both between them.
MCTemplates == [show |-> [rooms |-> {room1}, performers |-> {ada}, attendees |-> 1],
                class |-> [rooms |-> {room1}, performers |-> {}, attendees |-> 2]]
MCSlots == {<<1, 4>>, <<2, 3>>, <<4, 5>>}
MCWindowSets == {{}, {<<0, 2>>, <<2, 6>>}}
MCViews == {<<0, 6>>, <<2, 5>>}
RuleOf(f, i, c, u, w) == [frequency |-> f, interval |-> i, count |-> c, until |-> u, weekdays |-> w]
MCRules ==
    {rule \in [frequency : {"daily", "weekly"}, interval : 1..3, count : {1, 2, 5, Unbounded},
               until : {13, Unbounded}, weekdays : {{}, {2}, {0, 1}, {2, 5, 6}}] :
        RuleAllowed(rule)}
\* On Mondays and Tuesdays, twice: a slot of the Monday comes again the day after, one
\* of the Tuesday the Monday after.
MCSeriesRules == {RuleOf("weekly", 1, 2, Unbounded, {0, 1})}
MCSeriesIds == <<b1, b2>>

\* Grants that differ in territory, window, limits, royalty, currency and activity.
BaseGrant == [production_id |-> "hamlet", right_type |-> "live", territories |-> {"GB"},
              valid_from |-> 1, valid_until |-> 2, currency |-> "GBP", royalty_rate |-> 10,
              minimum_royalty |-> 5, max_performances |-> 1, max_audience |-> Unlimited,
              active |-> TRUE]
MCGrantIds == <<g1, g2>>
MCGrantTerms ==
    {BaseGrant,
     [BaseGrant EXCEPT !.royalty_rate = 15, !.max_performances = 2, !.max_audience = 3,
                       !.territories = {"GB", "US"}],
     [BaseGrant EXCEPT !.currency = "USD", !.valid_until = 3, !.minimum_royalty = 2,
                       !.max_performances = Unlimited, !.royalty_rate = 7],
     [BaseGrant EXCEPT !.active = FALSE, !.right_type = "recording"],
     [BaseGrant EXCEPT !.right_type = "recording", !.royalty_rate = 0]}
UseOf(p, k, t, w, a, m) ==
    [performance_id |-> p, production_id |-> "hamlet", right_type |-> k, territory |-> t,
     occurs_at |-> w, audience |-> a, gross_receipts |-> m]
MCRequests ==
    {UseOf("p1", "live", "GB", 1, 2, 55), UseOf("p1", "live", "US", 2, 4, 10),
     UseOf("p1", "recording", "GB", 2, 4, 90), UseOf("p2", "live", "GB", 2, 4, 90),
     UseOf("p3", "live", "GB", 3, 1, 0),
     [UseOf("p2", "live", "GB", 2, 4, 90) EXCEPT !.production_id = "lear"]}

\* Prices and taxes that leave half cents, with and without a fee.
MCBands == stalls :> [face_value |-> 10, service_fee |-> 2, tax_rate |-> 5, allocation |-> 3] @@
           circle :> [face_value |-> 7, service_fee |-> 0, tax_rate |-> 20, allocation |-> 2]
=============================================================================
