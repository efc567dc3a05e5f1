-------------------------- MODULE SerializedAssets -------------------------
(***************************************************************************)
(* domain/inventory.py, the InventoryLedger for serialized stock: asset    *)
(* units with a location, a condition and a status, reservations that name *)
(* units for a time window, and maintenance tickets.  Each of the three    *)
(* writes the units' status.  Bulk stock is BulkStock.                     *)
(*                                                                         *)
(* Every method is one synchronous call and one action; a call that raises *)
(* changes nothing, except fulfill_reservation (FulfillRaises) and         *)
(* complete_maintenance (CompletionRaises).  The units are of one active   *)
(* item; the movement log is modelled in BulkStock.                        *)
(***************************************************************************)
EXTENDS Naturals, Sequences, FiniteSets

CONSTANTS Units,         \* asset unit ids; their order is the code's sort
          Locations, Reservations, Tickets,
          Windows,       \* [from, to] periods with from < to
          None

ASSUME AssetAssumption ==
    /\ Units \subseteq Nat /\ IsFiniteSet(Units)
    /\ \A w \in Windows : w.from \in Nat /\ w.to \in Nat /\ w.from < w.to
    /\ None \notin Locations

VARIABLES units,         \* id -> None or AssetUnit
          reservations,  \* id -> None or StockReservation
          maintenance    \* ticket id -> None or MaintenanceTicket

vars == <<units, reservations, maintenance>>

Conditions == {"good", "damaged", "unsafe"}
Bad == {"damaged", "unsafe"}
AssetUnit == [location : Locations, condition : Conditions,
              status : {"available", "reserved", "issued", "maintenance", "retired"}]
Reservation == [location : Locations, window : Windows, unit_ids : Seq(Units),
                status : {"held", "fulfilled", "released", "expired"}]
Ticket == [unit : Units, status : {"open", "in_progress", "completed"}]

ASSUME NoneAssumption == None \notin AssetUnit \cup Reservation \cup Ticket

Overlaps(v, w) == v.from < w.to /\ w.from < v.to

Known == {u \in Units : units[u] # None}
UnitsOf(r) == {reservations[r].unit_ids[i] : i \in 1..Len(reservations[r].unit_ids)}
Held == {r \in Reservations :
            reservations[r] # None /\ reservations[r].status = "held"}
OpenTickets == {k \in Tickets :
                  maintenance[k] # None /\ maintenance[k].status # "completed"}

SetStatus(ids, status) ==
    [u \in Units |-> IF u \in ids THEN [units[u] EXCEPT !.status = status] ELSE units[u]]

(***************************************************************************)
(* Movements of units.                                                     *)
(***************************************************************************)
Receive(u, l) ==
    /\ u \notin Known
    /\ units' = [units EXCEPT ![u] =
           [location |-> l, condition |-> "good", status |-> "available"]]
    /\ UNCHANGED <<reservations, maintenance>>

\* _validate_units with AssetStatus.AVAILABLE.
Movable(ids, l) ==
    /\ ids # {} /\ ids \subseteq Known
    /\ \A u \in ids : /\ units[u].location = l
                      /\ units[u].status = "available"
                      /\ units[u].condition \notin Bad

Transfer(ids, source, destination) ==
    /\ source # destination
    /\ Movable(ids, source)
    /\ units' = [u \in Units |-> IF u \in ids
                    THEN [units[u] EXCEPT !.location = destination] ELSE units[u]]
    /\ UNCHANGED <<reservations, maintenance>>

Issue(ids, l) ==
    /\ Movable(ids, l)
    /\ units' = SetStatus(ids, "issued")
    /\ UNCHANGED <<reservations, maintenance>>

ReturnUnits(ids, l, condition) ==
    /\ ids # {} /\ ids \subseteq Known
    /\ \A u \in ids : units[u].status = "issued"
    /\ units' = [u \in Units |-> IF u \in ids
                    THEN [location |-> l, condition |-> condition,
                          status |-> IF condition \in Bad THEN "maintenance"
                                                          ELSE "available"]
                    ELSE units[u]]
    /\ UNCHANGED <<reservations, maintenance>>

Retire(u) ==
    /\ u \in Known
    /\ units[u].status \notin {"issued", "reserved"}
    /\ units' = SetStatus({u}, "retired")
    /\ UNCHANGED <<reservations, maintenance>>

(***************************************************************************)
(* Reservations.                                                           *)
(***************************************************************************)
\* Mutant: other holds are not taken out.
UsableInStock(l, window) ==
    {u \in Known : /\ units[u].location = l
                   /\ units[u].status \in {"available", "reserved"}
                   /\ units[u].condition \notin Bad}

\* availability(...).usable_units at a location for a period.
Usable(l, window) ==
    LET taken == UNION {UnitsOf(r) : r \in
                    {r \in Held : /\ reservations[r].location = l
                                  /\ Overlaps(reservations[r].window, window)}}
    IN  {u \in Known \ taken : /\ units[u].location = l
                               /\ units[u].status \in {"available", "reserved"}
                               /\ units[u].condition \notin Bad}

\* ids: the units asked for.  Asking for none lets reserve assign the first
\* usable ones, which is one of these choices.
Reserve(r, ids, l, window) ==
    /\ reservations[r] = None
    /\ ids # <<>>
    /\ Len(ids) <= Cardinality(Usable(l, window))
    /\ \A i \in 1..Len(ids) : ids[i] \in Usable(l, window)
    /\ units' = SetStatus({ids[i] : i \in 1..Len(ids)}, "reserved")
    /\ reservations' = [reservations EXCEPT ![r] =
           [location |-> l, window |-> window, unit_ids |-> ids, status |-> "held"]]
    /\ UNCHANGED maintenance

\* Mutant: the units are not asked for their status.
FirstNotReservedUnchecked(r) == Len(reservations[r].unit_ids) + 1

\* fulfill_reservation makes the units available one after the other, up to
\* the first that is no longer reserved (an id named twice is one), and then
\* issues them all.
FirstNotReserved(r) ==
    LET ids == reservations[r].unit_ids
        blocked == {i \in 1..Len(ids) : \/ units[ids[i]].status # "reserved"
                                        \/ \E j \in 1..(i - 1) : ids[j] = ids[i]}
    IN  IF blocked = {} THEN Len(ids) + 1
        ELSE CHOOSE i \in blocked : \A j \in blocked : i <= j

Freed(r) == {reservations[r].unit_ids[i] : i \in 1..(FirstNotReserved(r) - 1)}

Issuable(r) ==
    /\ FirstNotReserved(r) > Len(reservations[r].unit_ids)
    /\ \A u \in UnitsOf(r) : /\ units[u].location = reservations[r].location
                             /\ units[u].condition \notin Bad

Fulfill(r) ==
    /\ r \in Held
    /\ Issuable(r)
    /\ units' = SetStatus(UnitsOf(r), "issued")
    /\ reservations' = [reservations EXCEPT ![r].status = "fulfilled"]
    /\ UNCHANGED maintenance

\* A unit that is not reserved any more, or an actor that the movement
\* rejects, raises half way: what was made available stays so.
FulfillRaises(r) ==
    /\ r \in Held
    /\ units' = SetStatus(Freed(r), "available")
    /\ UNCHANGED <<reservations, maintenance>>

\* Mutant: the units stay as they are.
FreedByNothing(ids) == {}

\* release_reservation for the reservations that end together: a unit that no
\* other held reservation names is available again.
FreedBy(ids) ==
    LET still == UNION {UnitsOf(r) : r \in Held \ ids}
        named == UNION {UnitsOf(r) : r \in ids}
    IN  {u \in named \ still : units[u].status = "reserved"}

Release(r) ==
    /\ r \in Held
    /\ units' = SetStatus(FreedBy({r}), "available")
    /\ reservations' = [reservations EXCEPT ![r].status = "released"]
    /\ UNCHANGED maintenance

Expire(moment) ==
    LET expired == {r \in Held : reservations[r].window.to < moment}
    IN  /\ expired # {}
        /\ units' = SetStatus(FreedBy(expired), "available")
        /\ reservations' = [r \in Reservations |->
               IF r \in expired THEN [reservations[r] EXCEPT !.status = "expired"]
                                ELSE reservations[r]]
        /\ UNCHANGED maintenance

(***************************************************************************)
(* Maintenance.                                                            *)
(***************************************************************************)
OpenMaintenance(k, u) ==
    /\ maintenance[k] = None
    /\ u \in Known
    /\ units[u].status \notin {"issued", "retired"}
    /\ \A j \in OpenTickets : maintenance[j].unit # u
    /\ units' = SetStatus({u}, "maintenance")
    /\ maintenance' = [maintenance EXCEPT ![k] = [unit |-> u, status |-> "open"]]
    /\ UNCHANGED reservations

StartMaintenance(k) ==
    /\ maintenance[k] # None
    /\ maintenance[k].status = "open"
    /\ maintenance' = [maintenance EXCEPT ![k].status = "in_progress"]
    /\ UNCHANGED <<units, reservations>>

CompleteMaintenance(k, condition) ==
    /\ k \in OpenTickets
    /\ condition # "unsafe"
    /\ maintenance' = [maintenance EXCEPT ![k].status = "completed"]
    /\ units' = [units EXCEPT ![maintenance[k].unit].condition = condition,
                              ![maintenance[k].unit].status = "available"]
    /\ UNCHANGED reservations

\* The unit refuses a next due date without a time zone when the ticket is
\* already completed: the unit stays as it was.
CompletionRaises(k, condition) ==
    /\ k \in OpenTickets
    /\ condition # "unsafe"
    /\ maintenance' = [maintenance EXCEPT ![k].status = "completed"]
    /\ UNCHANGED <<units, reservations>>

Init ==
    /\ units = [u \in Units |-> None]
    /\ reservations = [r \in Reservations |-> None]
    /\ maintenance = [k \in Tickets |-> None]

UnitLists == UNION {[1..n -> Units] : n \in 1..Cardinality(Units)}
Moments == {w.to + 1 : w \in Windows}

Next ==
    \/ \E l \in Locations :
         \/ \E u \in Units : Receive(u, l)
         \/ \E ids \in SUBSET Units :
              \/ Issue(ids, l)
              \/ \E d \in Locations : Transfer(ids, l, d)
              \/ \E c \in Conditions : ReturnUnits(ids, l, c)
         \/ \E r \in Reservations, ids \in UnitLists, w \in Windows :
              Reserve(r, ids, l, w)
    \/ \E u \in Units : Retire(u) \/ \E k \in Tickets : OpenMaintenance(k, u)
    \/ \E r \in Reservations : Fulfill(r) \/ FulfillRaises(r) \/ Release(r)
    \/ \E moment \in Moments : Expire(moment)
    \/ \E k \in Tickets : \/ StartMaintenance(k)
                          \/ \E c \in Conditions : \/ CompleteMaintenance(k, c)
                                                 \/ CompletionRaises(k, c)

Spec == Init /\ [][Next]_vars

-----------------------------------------------------------------------------
TypeOK ==
    /\ units \in [Units -> AssetUnit \cup {None}]
    /\ reservations \in [Reservations -> Reservation \cup {None}]
    /\ maintenance \in [Tickets -> Ticket \cup {None}]

TicketedUnitsAreOut ==
    \A k \in OpenTickets :
        /\ maintenance[k].unit \in Known
        /\ units[maintenance[k].unit].status \in {"maintenance", "retired"}

IssuedUnitsAreSound ==
    \A u \in Known : units[u].status = "issued" => units[u].condition \notin Bad

\* A unit with an open ticket is out of circulation: whatever was reserved,
\* fulfilled, released or returned meanwhile, it is in maintenance or retired.
\* What is out on stage is safe to use: no path hands out a damaged or an
\* unsafe unit, and none makes a unit so while it is out.
CirculationIsSafe == TypeOK /\ TicketedUnitsAreOut /\ IssuedUnitsAreSound

\* No unit is stuck as reserved: some reservation that is still held names it.
ReservedUnitsAreHeld ==
    \A u \in Known : units[u].status = "reserved" =>
        \E r \in Held : u \in UnitsOf(r)

\* Two reservations of one location never hold a unit for the same moment.
NoDoubleBookingAtLocation ==
    \A q, r \in Held :
        /\ q # r
        /\ reservations[q].location = reservations[r].location
        /\ Overlaps(reservations[q].window, reservations[r].window)
        => UnitsOf(q) \cap UnitsOf(r) = {}
=============================================================================
