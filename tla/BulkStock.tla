----------------------------- MODULE BulkStock -----------------------------
(***************************************************************************)
(* domain/inventory.py, the InventoryLedger for bulk and consumable stock: *)
(* a balance per item and location, reservations of a quantity for a time  *)
(* window, and the log of movements.  Serialized stock, which the same     *)
(* methods treat in their other branch, is SerializedAssets.               *)
(*                                                                         *)
(* Every method is one synchronous call and one action here; a call that   *)
(* raises changes nothing unless an action below says so.  Items share     *)
(* nothing but the log, so the model follows one item.                     *)
(***************************************************************************)
EXTENDS Integers, Sequences, FiniteSets, Functions

CONSTANTS Locations,     \* named places that hold stock
          Reservations,  \* reservation ids
          Windows,       \* [from, to] periods with from < to
          Kind,          \* "bulk" or "consumable"
          ReorderPoint,  \* StockItem.reorder_point, 0 for an item never reordered
          None,
          MaxBalance,    \* bound: stock at a location
          MaxMovements   \* bound: length of the log

\* The words the log uses for the far end of a movement.
Outside == {"", "issued", "adjustment"}

ASSUME StockAssumption ==
    /\ Kind \in {"bulk", "consumable"}
    /\ \A w \in Windows : w.from \in Nat /\ w.to \in Nat /\ w.from < w.to
    /\ Locations \cap Outside = {} /\ IsFiniteSet(Locations)
    /\ ReorderPoint \in Nat
    /\ MaxBalance \in Nat /\ MaxMovements \in Nat

VARIABLES active,        \* StockItem.active
          balances,      \* location -> quantity
          reservations,  \* id -> None or StockReservation
          movements      \* the StockMovements, oldest first

vars == <<active, balances, reservations, movements>>

Quantities == 1..MaxBalance
\* reference is the reservation that a movement fulfils; the code writes the
\* production of the reservation there.
Movement == [type : {"receive", "transfer", "issue", "consume", "adjust"},
             quantity : Nat \ {0}, source : Locations \cup Outside,
             destination : Locations \cup Outside,
             reference : Reservations \cup {None}]
Reservation == [quantity : Quantities, location : Locations, window : Windows,
                status : {"held", "fulfilled", "released", "expired"}]

ASSUME NoneAssumption == None \notin Reservation /\ None \notin Reservations

\* Mutant: the second period is overlapped only where it starts.
OverlapsAtStart(v, w) == v.from <= w.from /\ w.from < v.to

\* StockReservation.overlaps: half-open periods.
Overlaps(v, w) == v.from < w.to /\ w.from < v.to

Held == {r \in Reservations :
            reservations[r] # None /\ reservations[r].status = "held"}

QuantityOf(ids) == SumFunctionOnSet([r \in ids |-> reservations[r].quantity], ids)

\* _reserved_quantity: all holds on the location, whenever they are.
ReservedQuantity(l) == QuantityOf({r \in Held : reservations[r].location = l})

\* availability, for the period of a window.
Available(l, window) ==
    LET overlapping == {r \in Held : /\ reservations[r].location = l
                                     /\ Overlaps(reservations[r].window, window)}
        free == balances[l] - QuantityOf(overlapping)
    IN  IF free > 0 THEN free ELSE 0

Log(type, quantity, source, destination, reference) ==
    /\ Len(movements) < MaxMovements
    /\ movements' = Append(movements,
          [type |-> type, quantity |-> quantity, source |-> source,
           destination |-> destination, reference |-> reference])

(***************************************************************************)
(* Movements.                                                              *)
(***************************************************************************)
Receive(l, q) ==
    /\ active
    /\ balances[l] + q <= MaxBalance
    /\ Log("receive", q, "", l, None)
    /\ balances' = [balances EXCEPT ![l] = @ + q]
    /\ UNCHANGED <<active, reservations>>

Transfer(source, destination, q) ==
    /\ source # destination
    /\ balances[source] - q >= ReservedQuantity(source)
    /\ balances[destination] + q <= MaxBalance
    /\ Log("transfer", q, source, destination, None)
    /\ balances' = [balances EXCEPT ![source] = @ - q, ![destination] = @ + q]
    /\ UNCHANGED <<active, reservations>>

\* issue: the balance must cover the quantity; holds are not looked at.
IssueStock(l, q, consume, reference) ==
    /\ balances[l] >= q
    /\ consume => Kind = "consumable"
    /\ Log(IF consume THEN "consume" ELSE "issue", q, l, "issued", reference)
    /\ balances' = [balances EXCEPT ![l] = @ - q]

Issue(l, q, consume) ==
    /\ IssueStock(l, q, consume, None)
    /\ UNCHANGED <<active, reservations>>

\* adjust with authorization, by a non-zero delta.
Adjust(l, delta) ==
    /\ delta # 0
    /\ balances[l] + delta \in 0..MaxBalance
    /\ IF delta < 0 THEN Log("adjust", -delta, l, "adjustment", None)
                    ELSE Log("adjust", delta, "adjustment", l, None)
    /\ balances' = [balances EXCEPT ![l] = @ + delta]
    /\ UNCHANGED <<active, reservations>>

\* cycle_count adjusts by the variance between the count and the balance.
CycleCount(l, counted) == Adjust(l, counted - balances[l])

(***************************************************************************)
(* Reservations.                                                           *)
(***************************************************************************)
Reserve(r, q, l, w) ==
    /\ reservations[r] = None
    /\ active
    /\ q <= Available(l, w)
    /\ reservations' = [reservations EXCEPT ![r] =
            [quantity |-> q, location |-> l, window |-> w, status |-> "held"]]
    /\ UNCHANGED <<active, balances, movements>>

\* Mutant: the reservation stays held.
FulfillUnmarked(r) ==
    /\ r \in Held
    /\ IssueStock(reservations[r].location, reservations[r].quantity,
                  Kind = "consumable", r)
    /\ UNCHANGED <<active, reservations>>

\* fulfill_reservation issues the quantity and then marks the reservation.
Fulfill(r) ==
    /\ r \in Held
    /\ IssueStock(reservations[r].location, reservations[r].quantity,
                  Kind = "consumable", r)
    /\ reservations' = [reservations EXCEPT ![r].status = "fulfilled"]
    /\ UNCHANGED active

Release(r) ==
    /\ r \in Held
    /\ reservations' = [reservations EXCEPT ![r].status = "released"]
    /\ UNCHANGED <<active, balances, movements>>

\* expire_reservations at any moment the caller names.
Expire(moment) ==
    LET expired == {r \in Held : reservations[r].window.to < moment}
    IN  /\ expired # {}
        /\ reservations' = [r \in Reservations |->
               IF r \in expired THEN [reservations[r] EXCEPT !.status = "expired"]
                                ELSE reservations[r]]
        /\ UNCHANGED <<active, balances, movements>>

\* replace_item with another value of active.
ReplaceItem ==
    /\ active' = ~active
    /\ UNCHANGED <<balances, reservations, movements>>

(***************************************************************************)
(* What the ledger tells: the history of a location, and what to reorder.  *)
(***************************************************************************)
\* movement_history of a location: the positions in the log of its movements.
MovementHistory(l) ==
    {n \in DOMAIN movements : l \in {movements[n].source, movements[n].destination}}

OnHand == SumFunctionOnSet(balances, Locations)

\* reorder_suggestions at a moment: the quantity suggested, 0 for no suggestion.
\* Every hold that has not ended by the moment counts, at whatever location.
ReorderSuggestion(moment) ==
    LET reserved == QuantityOf({r \in Held : reservations[r].window.to >= moment})
        projected == OnHand - reserved
        topUp == 2 * ReorderPoint - projected
    IN  IF active /\ ReorderPoint # 0 /\ projected <= ReorderPoint
        THEN IF topUp > 1 THEN topUp ELSE 1
        ELSE 0

Init ==
    /\ active = TRUE
    /\ balances = [l \in Locations |-> 0]
    /\ reservations = [r \in Reservations |-> None]
    /\ movements = <<>>

Moments == {w.to + 1 : w \in Windows}

Next ==
    \/ \E l \in Locations, q \in Quantities :
         \/ Receive(l, q)
         \/ \E d \in Locations : Transfer(l, d, q)
         \/ \E consume \in BOOLEAN : Issue(l, q, consume)
         \/ \E r \in Reservations, w \in Windows : Reserve(r, q, l, w)
    \/ \E l \in Locations, counted \in 0..MaxBalance : CycleCount(l, counted)
    \/ \E r \in Reservations : Fulfill(r) \/ Release(r)
    \/ \E moment \in Moments : Expire(moment)
    \/ ReplaceItem

Spec == Init /\ [][Next]_vars

-----------------------------------------------------------------------------
TypeOK ==
    /\ active \in BOOLEAN
    /\ balances \in [Locations -> 0..MaxBalance]
    /\ reservations \in [Reservations -> Reservation \cup {None}]
    /\ movements \in Seq(Movement)

\* What a movement adds to a location.
Added(m, l) == (IF m.destination = l THEN m.quantity ELSE 0)
                   - (IF m.source = l THEN m.quantity ELSE 0)

\* What the history of a location says is there: everything moved to it less
\* everything moved from it.
Replayed(l) == SumFunctionOnSet([n \in DOMAIN movements |-> Added(movements[n], l)],
                                MovementHistory(l))

\* The movement log accounts for every balance: replaying the history of a
\* location gives the stock on hand there, which is never negative.
LogAccountsForStock == \A l \in Locations : balances[l] = Replayed(l)

\* A reservation has left the stock exactly once if it is fulfilled, and not
\* at all otherwise, whatever was released, expired or tried again.
FulfilledExactlyOnce ==
    \A r \in Reservations :
        LET issues == {i \in 1..Len(movements) : movements[i].reference = r}
        IN  IF reservations[r] # None /\ reservations[r].status = "fulfilled"
            THEN /\ Cardinality(issues) = 1
                 /\ \A i \in issues :
                      /\ movements[i].quantity = reservations[r].quantity
                      /\ movements[i].source = reservations[r].location
            ELSE issues = {}

\* Stock held at a location at one moment.
HeldAt(l, moment) ==
    QuantityOf({r \in Held : /\ reservations[r].location = l
                             /\ reservations[r].window.from <= moment
                             /\ moment < reservations[r].window.to})
Instants == UNION {w.from..(w.to - 1) : w \in Windows}

\* Buying what is suggested at a moment covers all that is held at that moment
\* or at any later one, also where a hold is overbooked: the suggestion counts
\* each hold that can still be drawn.
SuggestionCoversHolds ==
    active /\ ReorderPoint # 0 =>
        \A moment, i \in Instants :
            moment <= i =>
                QuantityOf({r \in Held : /\ reservations[r].window.from <= i
                                         /\ i < reservations[r].window.to})
                    <= OnHand + ReorderSuggestion(moment)

\* Whatever was received, moved, issued, counted, reserved and released, the
\* log explains the stock, a reservation was drawn once or never, and what
\* the ledger suggests to buy is enough for what it has promised.
LedgerIsSound ==
    TypeOK /\ LogAccountsForStock /\ FulfilledExactlyOnce /\ SuggestionCoversHolds

Overbooked == {p \in Locations \X Instants : HeldAt(p[1], p[2]) > balances[p[1]]}

\* The ledger never holds more than is on hand at any moment ("Track stock
\* without allowing reservations or maintenance to overbook it").
NeverOverbooked == Overbooked = {}

\* Reserving stock and moving it between locations never overbook a moment
\* that was not overbooked before, whatever windows the holds have.
HoldsNeverOverbook ==
    [][(\/ \E r \in Reservations, q \in Quantities, l \in Locations, w \in Windows :
             Reserve(r, q, l, w)
        \/ \E l, d \in Locations, q \in Quantities : Transfer(l, d, q))
       => Overbooked' \subseteq Overbooked]_vars
=============================================================================
