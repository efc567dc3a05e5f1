----------------------- MODULE SerializedAssetsProofs ----------------------
(***************************************************************************)
(* Proofs about SerializedAssets, for any units, locations, reservations,  *)
(* tickets and periods.  The three properties of the run need one another, *)
(* and two facts that the ledger's guards keep: the units of a reservation *)
(* are known ones, and a unit has at most one open ticket.                 *)
(***************************************************************************)
EXTENDS SerializedAssets, FiniteSetTheorems, SequenceTheorems,
        WellFoundedInduction, TLAPS

NamedUnitsAreKnown ==
    \A r \in Reservations : reservations[r] # None => UnitsOf(r) \subseteq Known

OneOpenTicket ==
    \A j, k \in OpenTickets : maintenance[j].unit = maintenance[k].unit => j = k

AssetInv ==
    /\ TypeOK
    /\ NamedUnitsAreKnown
    /\ OneOpenTicket
    /\ TicketedUnitsAreOut
    /\ IssuedUnitsAreSound
    /\ ReservedUnitsAreHeld
    /\ NoDoubleBookingAtLocation

-----------------------------------------------------------------------------
\* The order of the natural numbers is well founded, so a set of them that is
\* not empty has a least one.
LEMMA LeastNat ==
    ASSUME NEW S \in SUBSET Nat, S # {}
    PROVE  \E m \in S : \A n \in S : m <= n
  <1> DEFINE Less == {p \in Nat \X Nat : p[1] < p[2]}
  <1>1. Less = OpToRel(<, Nat)
    BY DEF OpToRel
  <1>2. IsWellFoundedOn(Less, Nat)
    BY <1>1, NatLessThanWellFounded
  <1>3. PICK x \in S : \A y \in S : <<y, x>> \notin Less
    <2> HIDE DEF Less
    <2> QED BY <1>2, WFMin
  <1>4. ASSUME NEW n \in S PROVE x <= n
    <2>1. <<n, x>> \in Nat \X Nat
      OBVIOUS
    <2>2. ~(n < x)
      BY <1>3, <2>1
    <2> QED BY <2>2
  <1> QED BY <1>4

\* The lists reserve is asked for are sequences of units.
LEMMA UnitListsAreSequences == UnitLists \subseteq Seq(Units)
  <1> SUFFICES ASSUME NEW n \in 1..Cardinality(Units), NEW f \in [1..n -> Units]
               PROVE  f \in Seq(Units)
    BY DEF UnitLists
  <1>1. n \in Nat
    BY AssetAssumption, FS_CardinalityType
  <1> QED BY <1>1, SeqDef

\* The units a reservation names are units.
LEMMA NamedAreUnits ==
    ASSUME TypeOK, NEW r \in Reservations, reservations[r] # None
    PROVE  /\ reservations[r] \in Reservation
           /\ reservations[r].unit_ids \in Seq(Units)
           /\ UnitsOf(r) \subseteq Units
           /\ \A i \in 1..Len(reservations[r].unit_ids) :
                 reservations[r].unit_ids[i] \in UnitsOf(r)
  <1>1. reservations[r] \in Reservation
    BY DEF TypeOK
  <1>2. reservations[r].unit_ids \in Seq(Units)
    BY <1>1 DEF Reservation
  <1>3. \A i \in 1..Len(reservations[r].unit_ids) : reservations[r].unit_ids[i] \in Units
    BY <1>2
  <1> QED BY <1>1, <1>2, <1>3 DEF UnitsOf

\* fulfill_reservation: every unit before the first that blocks it is
\* reserved, whether one does or none.
LEMMA BeforeFirstNotReserved ==
    ASSUME TypeOK, NEW r \in Reservations, reservations[r] # None
    PROVE  /\ FirstNotReserved(r) \in 1..(Len(reservations[r].unit_ids) + 1)
           /\ \A i \in 1..(FirstNotReserved(r) - 1) :
                 units[reservations[r].unit_ids[i]].status = "reserved"
  <1> DEFINE ids == reservations[r].unit_ids
             blocked == {i \in 1..Len(ids) : \/ units[ids[i]].status # "reserved"
                                             \/ \E j \in 1..(i - 1) : ids[j] = ids[i]}
             first == CHOOSE i \in blocked : \A j \in blocked : i <= j
  <1>1. Len(ids) \in Nat
    BY NamedAreUnits
  <1>2. CASE blocked = {}
    <2>1. FirstNotReserved(r) = Len(ids) + 1
      BY <1>2 DEF FirstNotReserved
    <2>2. \A i \in 1..Len(ids) : units[ids[i]].status = "reserved"
      BY <1>2
    <2> QED BY <1>1, <2>1, <2>2
  <1>3. CASE blocked # {}
    <2>1. FirstNotReserved(r) = first
      BY <1>3 DEF FirstNotReserved
    <2>2. blocked \in SUBSET Nat
      BY <1>1
    <2>3. first \in blocked /\ \A j \in blocked : first <= j
      <3> HIDE DEF blocked
      <3> QED BY <1>3, <2>2, LeastNat
    <2>4. first \in 1..Len(ids)
      BY <2>3
    <2>5. ASSUME NEW i \in 1..(first - 1) PROVE units[ids[i]].status = "reserved"
      <3>1. i \in 1..Len(ids) /\ ~(first <= i)
        BY <1>1, <2>4, SMTT(30)
      <3>2. i \notin blocked
        BY <2>3, <3>1
      <3> QED BY <3>1, <3>2
    <2> HIDE DEF first
    <2> QED BY <1>1, <2>1, <2>4, <2>5
  <1> QED BY <1>2, <1>3

\* What a fulfilment frees is reserved; what it issues is reserved, in place
\* and sound.
LEMMA FreedAreReserved ==
    ASSUME TypeOK, NamedUnitsAreKnown, NEW r \in Held
    PROVE  /\ Freed(r) \subseteq Known
           /\ \A u \in Freed(r) : units[u].status = "reserved"
           /\ Issuable(r) => \A u \in UnitsOf(r) : /\ u \in Known
                                                   /\ units[u].status = "reserved"
                                                   /\ units[u].condition \notin Bad
  <1> DEFINE ids == reservations[r].unit_ids
  <1>1. r \in Reservations /\ reservations[r] # None
    BY DEF Held
  <1>2. UnitsOf(r) \subseteq Known
    BY <1>1 DEF NamedUnitsAreKnown
  <1>3. Len(ids) \in Nat
    BY <1>1, NamedAreUnits
  <1>4. /\ FirstNotReserved(r) \in 1..(Len(ids) + 1)
        /\ \A i \in 1..(FirstNotReserved(r) - 1) : units[ids[i]].status = "reserved"
    BY <1>1, BeforeFirstNotReserved
  <1>5. \A i \in 1..(FirstNotReserved(r) - 1) : i \in 1..Len(ids)
    BY <1>3, <1>4
  <1>6. Freed(r) \subseteq Known /\ \A u \in Freed(r) : units[u].status = "reserved"
    BY <1>2, <1>4, <1>5 DEF Freed, UnitsOf
  <1>7. ASSUME Issuable(r), NEW u \in UnitsOf(r)
        PROVE  /\ u \in Known
               /\ units[u].status = "reserved"
               /\ units[u].condition \notin Bad
    <2>1. FirstNotReserved(r) = Len(ids) + 1
      BY <1>3, <1>4, <1>7 DEF Issuable
    <2>2. PICK i \in 1..Len(ids) : u = ids[i]
      BY DEF UnitsOf
    <2>3. i \in 1..(FirstNotReserved(r) - 1)
      BY <1>3, <2>1
    <2> QED BY <1>2, <1>4, <1>7, <2>2, <2>3 DEF Issuable
  <1> QED BY <1>6, <1>7

\* What a release or an expiry frees is reserved and known.
LEMMA FreedByAreReserved ==
    ASSUME TypeOK, NamedUnitsAreKnown, NEW ids \in SUBSET Held
    PROVE  FreedBy(ids) \subseteq {u \in Known : units[u].status = "reserved"}
  BY DEF FreedBy, NamedUnitsAreKnown, Held

\* Setting the status of known units changes nothing else about them.
LEMMA SetStatusIs ==
    ASSUME TypeOK, NEW ids \in SUBSET Known,
           NEW status \in {"available", "reserved", "issued", "maintenance", "retired"},
           units' = SetStatus(ids, status)
    PROVE  /\ units' \in [Units -> AssetUnit \cup {None}]
           /\ Known' = Known
           /\ \A u \in Known : /\ units'[u].condition = units[u].condition
                               /\ units'[u].status = IF u \in ids THEN status
                                                                  ELSE units[u].status
  <1>1. ASSUME NEW u \in Units
        PROVE  /\ u \in ids => /\ units[u] \in AssetUnit
                               /\ units'[u] = [units[u] EXCEPT !.status = status]
               /\ u \notin ids => units'[u] = units[u]
    BY DEF SetStatus, TypeOK, Known
  <1>2. ASSUME NEW u \in ids
        PROVE  /\ units'[u] \in AssetUnit
               /\ units'[u] # None
               /\ units'[u].condition = units[u].condition
               /\ units'[u].status = status
    <2>1. u \in Units
      BY DEF Known
    <2>2. units'[u] = [units[u] EXCEPT !.status = status] /\ units[u] \in AssetUnit
      BY <1>1, <2>1
    <2>3. units'[u] \in AssetUnit
      BY <2>2 DEF AssetUnit
    <2> QED BY <2>2, <2>3, NoneAssumption DEF AssetUnit
  <1>3. units' \in [Units -> AssetUnit \cup {None}]
    <2>1. units' = [u \in Units |-> units'[u]]
      BY DEF SetStatus
    <2>2. \A u \in Units : units'[u] \in AssetUnit \cup {None}
      BY <1>1, <1>2 DEF TypeOK
    <2> QED BY <2>1, <2>2
  <1>4. Known' = Known
    BY <1>1, <1>2 DEF Known
  <1> QED BY <1>1, <1>2, <1>3, <1>4 DEF Known

\* A call that writes no ticket and puts no unit that is out back keeps the
\* tickets' invariants.
LEMMA TicketsKept ==
    ASSUME TypeOK, OneOpenTicket, TicketedUnitsAreOut, UNCHANGED maintenance,
           Known \subseteq Known',
           \A u \in Known : units[u].status \in {"maintenance", "retired"}
                              => units'[u].status \in {"maintenance", "retired"}
    PROVE  OneOpenTicket' /\ TicketedUnitsAreOut'
  <1>1. OpenTickets' = OpenTickets
    BY DEF OpenTickets
  <1> QED BY <1>1 DEF OneOpenTicket, TicketedUnitsAreOut

\* A call that writes no reservation and reserves no unit keeps the
\* reservations' invariants.
LEMMA HoldsKept ==
    ASSUME TypeOK, NamedUnitsAreKnown, ReservedUnitsAreHeld, NoDoubleBookingAtLocation,
           UNCHANGED reservations, Known \subseteq Known',
           \A u \in Known' : units'[u].status = "reserved"
                               => u \in Known /\ units[u].status = "reserved"
    PROVE  NamedUnitsAreKnown' /\ ReservedUnitsAreHeld' /\ NoDoubleBookingAtLocation'
  <1>1. Held' = Held /\ \A r \in Reservations : UnitsOf(r)' = UnitsOf(r)
    BY DEF Held, UnitsOf
  <1>2. Held \subseteq Reservations
    BY DEF Held
  <1>3. NamedUnitsAreKnown'
    BY <1>1 DEF NamedUnitsAreKnown
  <1>4. ReservedUnitsAreHeld'
    BY <1>1, <1>2 DEF ReservedUnitsAreHeld
  <1>5. NoDoubleBookingAtLocation'
    BY <1>1, <1>2 DEF NoDoubleBookingAtLocation
  <1> QED BY <1>3, <1>4, <1>5

-----------------------------------------------------------------------------
\* Receiving, moving, handing out, taking back and retiring units.
LEMMA MovementsKeep ==
    ASSUME AssetInv,
           \/ \E u \in Units : Retire(u)
           \/ \E l \in Locations :
                \/ \E u \in Units : Receive(u, l)
                \/ \E ids \in SUBSET Units :
                     \/ Issue(ids, l)
                     \/ \E d \in Locations : Transfer(ids, l, d)
                     \/ \E c \in Conditions : ReturnUnits(ids, l, c)
    PROVE  AssetInv'
  <1> USE DEF AssetInv
  <1>1. ASSUME NEW u \in Units, NEW l \in Locations, Receive(u, l) PROVE AssetInv'
    <2> DEFINE new == [location |-> l, condition |-> "good", status |-> "available"]
    <2>1. new \in AssetUnit
      BY DEF AssetUnit, Conditions
    <2>2. units' = [units EXCEPT ![u] = new] /\ u \notin Known
          /\ UNCHANGED <<reservations, maintenance>>
      BY <1>1 DEF Receive
    <2>3. /\ TypeOK'
          /\ Known' = Known \cup {u}
          /\ units'[u] = new
          /\ \A v \in Known : units'[v] = units[v]
      BY <2>1, <2>2, NoneAssumption DEF TypeOK, Known
    <2>4. OneOpenTicket' /\ TicketedUnitsAreOut'
      BY <2>2, <2>3, TicketsKept
    <2>5. NamedUnitsAreKnown' /\ ReservedUnitsAreHeld' /\ NoDoubleBookingAtLocation'
      BY <2>2, <2>3, HoldsKept
    <2>6. IssuedUnitsAreSound'
      BY <2>3 DEF IssuedUnitsAreSound
    <2> QED BY <2>3, <2>4, <2>5, <2>6
  <1>2. ASSUME NEW u \in Units, Retire(u) PROVE AssetInv'
    <2>1. /\ {u} \in SUBSET Known
          /\ units' = SetStatus({u}, "retired")
          /\ units[u].status \notin {"issued", "reserved"}
          /\ UNCHANGED <<reservations, maintenance>>
      BY <1>2 DEF Retire
    <2>2. /\ units' \in [Units -> AssetUnit \cup {None}]
          /\ Known' = Known
          /\ \A v \in Known : /\ units'[v].condition = units[v].condition
                              /\ units'[v].status = IF v \in {u} THEN "retired"
                                                                 ELSE units[v].status
      BY <2>1, SetStatusIs
    <2>3. TypeOK'
      BY <2>1, <2>2 DEF TypeOK
    <2>4. OneOpenTicket' /\ TicketedUnitsAreOut'
      BY <2>1, <2>2, TicketsKept
    <2>5. NamedUnitsAreKnown' /\ ReservedUnitsAreHeld' /\ NoDoubleBookingAtLocation'
      BY <2>1, <2>2, HoldsKept
    <2>6. IssuedUnitsAreSound'
      BY <2>2 DEF IssuedUnitsAreSound
    <2> QED BY <2>3, <2>4, <2>5, <2>6
  <1>3. ASSUME NEW ids \in SUBSET Units, NEW l \in Locations, Issue(ids, l)
        PROVE  AssetInv'
    <2>1. /\ ids \in SUBSET Known
          /\ units' = SetStatus(ids, "issued")
          /\ \A u \in ids : units[u].status = "available" /\ units[u].condition \notin Bad
          /\ UNCHANGED <<reservations, maintenance>>
      BY <1>3 DEF Issue, Movable
    <2>2. /\ units' \in [Units -> AssetUnit \cup {None}]
          /\ Known' = Known
          /\ \A v \in Known : /\ units'[v].condition = units[v].condition
                              /\ units'[v].status = IF v \in ids THEN "issued"
                                                                 ELSE units[v].status
      BY <2>1, SetStatusIs
    <2>3. TypeOK'
      BY <2>1, <2>2 DEF TypeOK
    <2>4. OneOpenTicket' /\ TicketedUnitsAreOut'
      BY <2>1, <2>2, TicketsKept
    <2>5. NamedUnitsAreKnown' /\ ReservedUnitsAreHeld' /\ NoDoubleBookingAtLocation'
      BY <2>1, <2>2, HoldsKept
    <2>6. IssuedUnitsAreSound'
      BY <2>1, <2>2 DEF IssuedUnitsAreSound
    <2> QED BY <2>3, <2>4, <2>5, <2>6
  <1>4. ASSUME NEW ids \in SUBSET Units, NEW l \in Locations, NEW d \in Locations,
               Transfer(ids, l, d)
        PROVE  AssetInv'
    <2>1. /\ ids \subseteq Known
          /\ units' = [u \in Units |-> IF u \in ids
                          THEN [units[u] EXCEPT !.location = d] ELSE units[u]]
          /\ UNCHANGED <<reservations, maintenance>>
      BY <1>4 DEF Transfer, Movable
    <2>2. ASSUME NEW u \in Known
          PROVE  /\ units'[u] \in AssetUnit
                 /\ units'[u].condition = units[u].condition
                 /\ units'[u].status = units[u].status
      BY <2>1 DEF Known, TypeOK, AssetUnit
    <2>3. \A u \in Units : u \notin Known => units'[u] = None
      BY <2>1 DEF Known
    <2>4. Known' = Known
      BY <2>2, <2>3, NoneAssumption DEF Known
    <2>5. TypeOK'
      <3>1. \A u \in Units : units'[u] \in AssetUnit \cup {None}
        BY <2>2, <2>3
      <3>2. units' = [u \in Units |-> units'[u]]
        BY <2>1
      <3> QED BY <2>1, <3>1, <3>2 DEF TypeOK
    <2>6. OneOpenTicket' /\ TicketedUnitsAreOut'
      BY <2>1, <2>2, <2>4, TicketsKept
    <2>7. NamedUnitsAreKnown' /\ ReservedUnitsAreHeld' /\ NoDoubleBookingAtLocation'
      BY <2>1, <2>2, <2>4, HoldsKept
    <2>8. IssuedUnitsAreSound'
      BY <2>2, <2>4 DEF IssuedUnitsAreSound
    <2> QED BY <2>5, <2>6, <2>7, <2>8
  <1>5. ASSUME NEW ids \in SUBSET Units, NEW l \in Locations, NEW c \in Conditions,
               ReturnUnits(ids, l, c)
        PROVE  AssetInv'
    <2> DEFINE new == [location |-> l, condition |-> c,
                       status |-> IF c \in Bad THEN "maintenance" ELSE "available"]
    <2>1. /\ ids \subseteq Known
          /\ \A u \in ids : units[u].status = "issued"
          /\ units' = [u \in Units |-> IF u \in ids THEN new ELSE units[u]]
          /\ UNCHANGED <<reservations, maintenance>>
      BY <1>5 DEF ReturnUnits
    <2>2. new \in AssetUnit /\ new # None
      BY NoneAssumption DEF AssetUnit
    <2>3. TypeOK' /\ Known' = Known
      BY <2>1, <2>2 DEF TypeOK, Known
    <2>4. \A u \in Known : units'[u] = IF u \in ids THEN new ELSE units[u]
      BY <2>1 DEF Known
    <2>5. new.status \in {"maintenance", "available"}
      OBVIOUS
    <2> HIDE DEF new
    <2>6. OneOpenTicket' /\ TicketedUnitsAreOut'
      BY <2>1, <2>3, <2>4, TicketsKept
    <2>7. NamedUnitsAreKnown' /\ ReservedUnitsAreHeld' /\ NoDoubleBookingAtLocation'
      BY <2>1, <2>3, <2>4, <2>5, HoldsKept
    <2>8. IssuedUnitsAreSound'
      BY <2>3, <2>4, <2>5 DEF IssuedUnitsAreSound
    <2> QED BY <2>3, <2>6, <2>7, <2>8
  <1> QED BY <1>1, <1>2, <1>3, <1>4, <1>5

\* Making reserved units available keeps the units' invariants, and leaves
\* reserved only what was.
LEMMA FreeingKeeps ==
    ASSUME AssetInv, NEW ids \in SUBSET Known,
           \A u \in ids : units[u].status = "reserved",
           units' = SetStatus(ids, "available"), UNCHANGED maintenance
    PROVE  /\ units' \in [Units -> AssetUnit \cup {None}]
           /\ Known' = Known
           /\ \A u \in Known : units'[u].status = "reserved"
                                 => units[u].status = "reserved" /\ u \notin ids
           /\ OneOpenTicket' /\ TicketedUnitsAreOut' /\ IssuedUnitsAreSound'
  <1>1. /\ units' \in [Units -> AssetUnit \cup {None}]
        /\ Known' = Known
        /\ \A u \in Known : /\ units'[u].condition = units[u].condition
                            /\ units'[u].status = IF u \in ids THEN "available"
                                                               ELSE units[u].status
    BY SetStatusIs DEF AssetInv
  <1>2. OneOpenTicket' /\ TicketedUnitsAreOut'
    BY <1>1, TicketsKept DEF AssetInv
  <1>3. IssuedUnitsAreSound'
    BY <1>1 DEF IssuedUnitsAreSound, AssetInv
  <1> QED BY <1>1, <1>2, <1>3

\* Ending held reservations together keeps the invariant: what stays reserved
\* is named by a reservation that stays held.
LEMMA EndingKeeps ==
    ASSUME AssetInv, NEW ended \in SUBSET Held,
           NEW status \in {"released", "expired"},
           units' = SetStatus(FreedBy(ended), "available"),
           reservations' = [r \in Reservations |->
               IF r \in ended THEN [reservations[r] EXCEPT !.status = status]
                              ELSE reservations[r]],
           UNCHANGED maintenance
    PROVE  AssetInv'
  <1>1. FreedBy(ended) \subseteq {u \in Known : units[u].status = "reserved"}
    BY FreedByAreReserved DEF AssetInv
  <1>2. /\ units' \in [Units -> AssetUnit \cup {None}]
        /\ Known' = Known
        /\ \A u \in Known : units'[u].status = "reserved"
                              => units[u].status = "reserved" /\ u \notin FreedBy(ended)
        /\ OneOpenTicket' /\ TicketedUnitsAreOut' /\ IssuedUnitsAreSound'
    BY <1>1, FreeingKeeps
  <1>3. ASSUME NEW r \in Reservations
        PROVE  /\ reservations'[r] \in Reservation \cup {None}
               /\ reservations'[r] # None =>
                    /\ reservations[r] # None
                    /\ UnitsOf(r)' = UnitsOf(r)
                    /\ reservations'[r].location = reservations[r].location
                    /\ reservations'[r].window = reservations[r].window
               /\ r \in Held' <=> r \in Held \ ended
    <2>1. CASE r \in ended
      <3>1. reservations[r] \in Reservation /\ reservations[r] # None
        BY <2>1 DEF Held, AssetInv, TypeOK
      <3>2. reservations'[r] = [reservations[r] EXCEPT !.status = status]
        BY <2>1
      <3>3. /\ reservations'[r] \in Reservation
            /\ reservations'[r].status = status
            /\ reservations'[r].unit_ids = reservations[r].unit_ids
            /\ reservations'[r].location = reservations[r].location
            /\ reservations'[r].window = reservations[r].window
        BY <3>1, <3>2 DEF Reservation
      <3> QED BY <2>1, <3>1, <3>3 DEF Held, UnitsOf
    <2>2. CASE r \notin ended
      <3>1. reservations'[r] = reservations[r]
        BY <2>2
      <3> QED BY <2>2, <3>1 DEF Held, UnitsOf, AssetInv, TypeOK
    <2> QED BY <2>1, <2>2
  <1>4. TypeOK'
    BY <1>2, <1>3 DEF AssetInv, TypeOK
  <1>5. NamedUnitsAreKnown'
    BY <1>2, <1>3 DEF AssetInv, NamedUnitsAreKnown
  <1>6. Held' = Held \ ended
    BY <1>3 DEF Held
  <1>7. ASSUME NEW u \in Known', units'[u].status = "reserved"
        PROVE  \E r \in Held' : u \in UnitsOf(r)'
    <2>1. u \in Known /\ units[u].status = "reserved" /\ u \notin FreedBy(ended)
      BY <1>2, <1>7
    <2>2. PICK q \in Held : u \in UnitsOf(q)
      BY <2>1 DEF AssetInv, ReservedUnitsAreHeld
    <2>3. PICK r \in Held \ ended : u \in UnitsOf(r)
      BY <2>1, <2>2 DEF FreedBy
    <2>4. r \in Reservations /\ reservations'[r] # None
      BY <2>3 DEF Held
    <2> QED BY <1>3, <1>6, <2>3, <2>4
  <1>8. ReservedUnitsAreHeld'
    BY <1>7 DEF ReservedUnitsAreHeld
  <1>9. NoDoubleBookingAtLocation'
    <2>1. \A r \in Held' : /\ r \in Held /\ UnitsOf(r)' = UnitsOf(r)
                           /\ reservations'[r].location = reservations[r].location
                           /\ reservations'[r].window = reservations[r].window
      BY <1>3, <1>6 DEF Held
    <2> QED BY <2>1 DEF AssetInv, NoDoubleBookingAtLocation
  <1> QED BY <1>2, <1>4, <1>5, <1>8, <1>9 DEF AssetInv

\* Reserving: the units were usable, so no other held reservation of the
\* location has them in the period, and none of them has an open ticket.
LEMMA ReserveKeeps ==
    ASSUME AssetInv, NEW r \in Reservations, NEW ids \in UnitLists,
           NEW l \in Locations, NEW w \in Windows, Reserve(r, ids, l, w)
    PROVE  AssetInv'
  <1> DEFINE named == {ids[i] : i \in 1..Len(ids)}
             new == [location |-> l, window |-> w, unit_ids |-> ids, status |-> "held"]
  <1>1. /\ reservations[r] = None
        /\ named \subseteq Usable(l, w)
        /\ units' = SetStatus(named, "reserved")
        /\ reservations' = [reservations EXCEPT ![r] = new]
        /\ UNCHANGED maintenance
    BY DEF Reserve
  <1>2. new \in Reservation /\ new # None
    BY UnitListsAreSequences, NoneAssumption DEF Reservation
  <1>3. \A u \in named : /\ u \in Known
                         /\ units[u].status \in {"available", "reserved"}
    BY <1>1 DEF Usable
  <1>4. /\ units' \in [Units -> AssetUnit \cup {None}]
        /\ Known' = Known
        /\ \A u \in Known : /\ units'[u].condition = units[u].condition
                            /\ units'[u].status = IF u \in named THEN "reserved"
                                                                 ELSE units[u].status
    <2>1. named \in SUBSET Known
      BY <1>3
    <2> HIDE DEF named
    <2> QED BY <1>1, <2>1, SetStatusIs DEF AssetInv
  <1>5. TypeOK'
    BY <1>1, <1>2, <1>4 DEF AssetInv, TypeOK
  <1>6. /\ \A q \in Reservations : q # r => reservations'[q] = reservations[q]
        /\ reservations'[r] = new
    BY <1>1 DEF AssetInv, TypeOK
  <1>7. /\ Held' = Held \cup {r} /\ r \notin Held
        /\ UnitsOf(r)' = named
        /\ \A q \in Reservations : q # r => UnitsOf(q)' = UnitsOf(q)
    BY <1>1, <1>2, <1>6 DEF Held, UnitsOf
  <1>8. OneOpenTicket' /\ TicketedUnitsAreOut'
    <2> HIDE DEF named
    <2> QED BY <1>1, <1>3, <1>4, TicketsKept DEF AssetInv
  <1>9. NamedUnitsAreKnown'
    BY <1>3, <1>4, <1>6, <1>7 DEF AssetInv, NamedUnitsAreKnown
  <1>10. IssuedUnitsAreSound'
    BY <1>4 DEF AssetInv, IssuedUnitsAreSound
  <1>11. ReservedUnitsAreHeld'
    <2> SUFFICES ASSUME NEW u \in Known', units'[u].status = "reserved"
                 PROVE  \E q \in Held' : u \in UnitsOf(q)'
      BY DEF ReservedUnitsAreHeld
    <2>1. CASE u \in named
      BY <1>7, <2>1
    <2>2. CASE u \notin named
      <3>1. PICK q \in Held : u \in UnitsOf(q)
        BY <1>4, <2>2 DEF AssetInv, ReservedUnitsAreHeld
      <3> QED BY <1>7, <3>1 DEF Held
    <2> QED BY <2>1, <2>2
  <1>12. NoDoubleBookingAtLocation'
    <2>1. ASSUME NEW q \in Held, reservations[q].location = l,
                 Overlaps(reservations[q].window, w)
          PROVE  UnitsOf(q) \cap named = {}
      BY <1>1, <2>1 DEF Usable
    <2>2. \A v \in Windows : Overlaps(v, w) <=> Overlaps(w, v)
      BY DEF Overlaps
    <2>3. \A q \in Held : /\ q \in Reservations /\ q # r
                          /\ reservations[q].window \in Windows
      BY <1>7 DEF AssetInv, TypeOK, Held, Reservation
    <2>4. new.location = l /\ new.window = w
      OBVIOUS
    <2> HIDE DEF named, new
    <2> QED BY <1>6, <1>7, <2>1, <2>2, <2>3, <2>4
            DEF AssetInv, NoDoubleBookingAtLocation
  <1> QED BY <1>5, <1>8, <1>9, <1>10, <1>11, <1>12 DEF AssetInv

\* Fulfilling issues units that are all reserved, in place and sound.
LEMMA FulfillKeeps ==
    ASSUME AssetInv, NEW r \in Reservations, Fulfill(r)
    PROVE  AssetInv'
  <1> DEFINE named == UnitsOf(r)
  <1>1. /\ r \in Held /\ Issuable(r)
        /\ units' = SetStatus(named, "issued")
        /\ reservations' = [reservations EXCEPT ![r].status = "fulfilled"]
        /\ UNCHANGED maintenance
    BY DEF Fulfill
  <1>2. \A u \in named : /\ u \in Known
                         /\ units[u].status = "reserved"
                         /\ units[u].condition \notin Bad
    BY <1>1, FreedAreReserved DEF AssetInv
  <1> HIDE DEF named
  <1>3. /\ units' \in [Units -> AssetUnit \cup {None}]
        /\ Known' = Known
        /\ \A u \in Known : /\ units'[u].condition = units[u].condition
                            /\ units'[u].status = IF u \in named THEN "issued"
                                                                 ELSE units[u].status
    BY <1>1, <1>2, SetStatusIs DEF AssetInv
  <1>4. reservations[r] \in Reservation /\ reservations[r] # None
    BY <1>1 DEF AssetInv, TypeOK, Held
  <1>5. /\ reservations'[r] = [reservations[r] EXCEPT !.status = "fulfilled"]
        /\ \A q \in Reservations : q # r => reservations'[q] = reservations[q]
    BY <1>1 DEF AssetInv, TypeOK
  <1>6. /\ reservations'[r] \in Reservation
        /\ reservations'[r].status = "fulfilled"
        /\ reservations'[r].unit_ids = reservations[r].unit_ids
    BY <1>4, <1>5 DEF Reservation
  <1>7. Held' = Held \ {r} /\ \A q \in Reservations : UnitsOf(q)' = UnitsOf(q)
    <2>1. Held' = Held \ {r}
      BY <1>5, <1>6 DEF Held
    <2>2. \A q \in Reservations : q # r => UnitsOf(q)' = UnitsOf(q)
      BY <1>5 DEF UnitsOf
    <2>3. UnitsOf(r)' = UnitsOf(r)
      BY <1>6 DEF UnitsOf
    <2> QED BY <2>1, <2>2, <2>3
  <1>8. TypeOK'
    BY <1>1, <1>3, <1>6 DEF AssetInv, TypeOK
  <1>9. OneOpenTicket' /\ TicketedUnitsAreOut'
    BY <1>1, <1>2, <1>3, TicketsKept DEF AssetInv
  <1>10. NamedUnitsAreKnown'
    BY <1>3, <1>4, <1>5, <1>7 DEF AssetInv, NamedUnitsAreKnown
  <1>11. IssuedUnitsAreSound'
    BY <1>2, <1>3 DEF AssetInv, IssuedUnitsAreSound
  <1>12. ReservedUnitsAreHeld'
    <2> SUFFICES ASSUME NEW u \in Known', units'[u].status = "reserved"
                 PROVE  \E q \in Held' : u \in UnitsOf(q)'
      BY DEF ReservedUnitsAreHeld
    <2>1. u \in Known /\ u \notin named /\ units[u].status = "reserved"
      BY <1>3
    <2>2. PICK q \in Held : u \in UnitsOf(q)
      BY <2>1 DEF AssetInv, ReservedUnitsAreHeld
    <2>3. q # r
      BY <2>1, <2>2 DEF named
    <2> QED BY <1>7, <2>2, <2>3 DEF Held
  <1>13. NoDoubleBookingAtLocation'
    <2>1. \A q \in Held' : q \in Held /\ reservations'[q] = reservations[q]
                             /\ UnitsOf(q)' = UnitsOf(q)
      BY <1>5, <1>7 DEF Held
    <2> QED BY <2>1 DEF AssetInv, NoDoubleBookingAtLocation
  <1> QED BY <1>8, <1>9, <1>10, <1>11, <1>12, <1>13 DEF AssetInv

\* A fulfilment that raises half way makes reserved units available.
LEMMA FulfillRaisesKeeps ==
    ASSUME AssetInv, NEW r \in Reservations, FulfillRaises(r)
    PROVE  AssetInv'
  <1>1. /\ Freed(r) \in SUBSET Known
        /\ \A u \in Freed(r) : units[u].status = "reserved"
    BY FreedAreReserved DEF FulfillRaises, AssetInv
  <1>2. /\ units' \in [Units -> AssetUnit \cup {None}]
        /\ Known' = Known
        /\ \A u \in Known : units'[u].status = "reserved" => units[u].status = "reserved"
        /\ OneOpenTicket' /\ TicketedUnitsAreOut' /\ IssuedUnitsAreSound'
    BY <1>1, FreeingKeeps DEF FulfillRaises
  <1>3. TypeOK'
    BY <1>2 DEF FulfillRaises, AssetInv, TypeOK
  <1>4. NamedUnitsAreKnown' /\ ReservedUnitsAreHeld' /\ NoDoubleBookingAtLocation'
    BY <1>2, HoldsKept DEF FulfillRaises, AssetInv
  <1> QED BY <1>2, <1>3, <1>4 DEF AssetInv

\* Reservations made, fulfilled, released and expired.
LEMMA ReservationsKeep ==
    ASSUME AssetInv,
           \/ \E r \in Reservations, ids \in UnitLists, l \in Locations, w \in Windows :
                Reserve(r, ids, l, w)
           \/ \E r \in Reservations : Fulfill(r) \/ FulfillRaises(r) \/ Release(r)
           \/ \E moment \in Moments : Expire(moment)
    PROVE  AssetInv'
  <1>1. ASSUME NEW r \in Reservations, Release(r) PROVE AssetInv'
    <2>1. /\ {r} \in SUBSET Held
          /\ units' = SetStatus(FreedBy({r}), "available")
          /\ reservations' = [reservations EXCEPT ![r].status = "released"]
          /\ UNCHANGED maintenance
      BY <1>1 DEF Release
    <2>2. reservations' = [q \in Reservations |->
              IF q \in {r} THEN [reservations[q] EXCEPT !.status = "released"]
                           ELSE reservations[q]]
      BY <2>1 DEF AssetInv, TypeOK
    <2> QED BY <2>1, <2>2, EndingKeeps
  <1>2. ASSUME NEW moment \in Moments, Expire(moment) PROVE AssetInv'
    <2> DEFINE expired == {r \in Held : reservations[r].window.to < moment}
    <2>1. /\ units' = SetStatus(FreedBy(expired), "available")
          /\ reservations' = [r \in Reservations |->
               IF r \in expired THEN [reservations[r] EXCEPT !.status = "expired"]
                                ELSE reservations[r]]
          /\ UNCHANGED maintenance
      BY <1>2 DEF Expire
    <2>2. expired \in SUBSET Held
      OBVIOUS
    <2> HIDE DEF expired
    <2> QED BY <2>1, <2>2, EndingKeeps
  <1> QED BY <1>1, <1>2, ReserveKeeps, FulfillKeeps, FulfillRaisesKeeps

-----------------------------------------------------------------------------
\* Tickets opened, started and completed: a unit's one open ticket is closed
\* when the unit is available again.
LEMMA MaintenanceKeeps ==
    ASSUME AssetInv, NEW k \in Tickets,
           \/ \E u \in Units : OpenMaintenance(k, u)
           \/ StartMaintenance(k)
           \/ \E c \in Conditions : CompleteMaintenance(k, c) \/ CompletionRaises(k, c)
    PROVE  AssetInv'
  <1> USE DEF AssetInv
  <1>1. ASSUME NEW u \in Units, OpenMaintenance(k, u) PROVE AssetInv'
    <2> DEFINE new == [unit |-> u, status |-> "open"]
    <2>1. /\ {u} \in SUBSET Known
          /\ units' = SetStatus({u}, "maintenance")
          /\ maintenance[k] = None
          /\ \A j \in OpenTickets : maintenance[j].unit # u
          /\ maintenance' = [maintenance EXCEPT ![k] = new]
          /\ units[u].status # "issued"
          /\ UNCHANGED reservations
      BY <1>1 DEF OpenMaintenance
    <2>2. /\ units' \in [Units -> AssetUnit \cup {None}]
          /\ Known' = Known
          /\ \A v \in Known : /\ units'[v].condition = units[v].condition
                              /\ units'[v].status = IF v \in {u} THEN "maintenance"
                                                                 ELSE units[v].status
      BY <2>1, SetStatusIs
    <2>3. new \in Ticket /\ new # None
      BY NoneAssumption DEF Ticket
    <2>4. TypeOK'
      BY <2>1, <2>2, <2>3 DEF TypeOK
    <2>5. /\ OpenTickets' = OpenTickets \cup {k}
          /\ maintenance'[k] = new
          /\ \A j \in OpenTickets : j # k /\ maintenance'[j] = maintenance[j]
      BY <2>1, <2>3 DEF TypeOK, OpenTickets
    <2>6. OneOpenTicket'
      BY <2>1, <2>5 DEF OneOpenTicket
    <2>7. TicketedUnitsAreOut'
      <3>1. maintenance'[k].unit = u
        BY <2>5
      <3>2. \A j \in OpenTickets :
               /\ maintenance'[j].unit \in Known'
               /\ units'[maintenance'[j].unit].status \in {"maintenance", "retired"}
        BY <2>2, <2>5 DEF TicketedUnitsAreOut
      <3>3. u \in Known' /\ units'[u].status = "maintenance"
        BY <2>1, <2>2
      <3> QED BY <2>5, <3>1, <3>2, <3>3 DEF TicketedUnitsAreOut
    <2>8. NamedUnitsAreKnown' /\ ReservedUnitsAreHeld' /\ NoDoubleBookingAtLocation'
      BY <2>1, <2>2, HoldsKept
    <2>9. IssuedUnitsAreSound'
      BY <2>2 DEF IssuedUnitsAreSound
    <2> QED BY <2>4, <2>6, <2>7, <2>8, <2>9
  <1>2. ASSUME NEW status \in {"in_progress", "completed"},
               maintenance[k] # None, maintenance[k].status # "completed",
               maintenance' = [maintenance EXCEPT ![k].status = status]
        PROVE  /\ maintenance' \in [Tickets -> Ticket \cup {None}]
               /\ OpenTickets' = IF status = "completed" THEN OpenTickets \ {k}
                                                         ELSE OpenTickets
               /\ \A j \in OpenTickets : maintenance'[j].unit = maintenance[j].unit
    <2>1. maintenance[k] \in Ticket
      BY <1>2 DEF TypeOK
    <2>2. /\ maintenance'[k] = [maintenance[k] EXCEPT !.status = status]
          /\ \A j \in Tickets : j # k => maintenance'[j] = maintenance[j]
      BY <1>2 DEF TypeOK
    <2>3. /\ maintenance'[k] \in Ticket
          /\ maintenance'[k] # None
          /\ maintenance'[k].status = status
          /\ maintenance'[k].unit = maintenance[k].unit
      BY <2>1, <2>2, NoneAssumption DEF Ticket
    <2>4. maintenance' \in [Tickets -> Ticket \cup {None}]
      BY <1>2, <2>3 DEF TypeOK
    <2> QED BY <1>2, <2>2, <2>3, <2>4 DEF OpenTickets
  <1>3. ASSUME StartMaintenance(k) PROVE AssetInv'
    <2>1. /\ maintenance' \in [Tickets -> Ticket \cup {None}]
          /\ OpenTickets' = OpenTickets
          /\ \A j \in OpenTickets : maintenance'[j].unit = maintenance[j].unit
          /\ UNCHANGED <<units, reservations>>
      BY <1>2, <1>3 DEF StartMaintenance
    <2>2. Known' = Known
      BY <2>1 DEF Known
    <2>3. TypeOK' /\ OneOpenTicket' /\ TicketedUnitsAreOut' /\ IssuedUnitsAreSound'
      BY <2>1, <2>2 DEF TypeOK, OneOpenTicket, TicketedUnitsAreOut, IssuedUnitsAreSound
    <2>4. NamedUnitsAreKnown' /\ ReservedUnitsAreHeld' /\ NoDoubleBookingAtLocation'
      BY <2>1, <2>2, HoldsKept
    <2> QED BY <2>3, <2>4
  <1>4. ASSUME NEW c \in Conditions, CompletionRaises(k, c) PROVE AssetInv'
    <2>1. /\ maintenance' \in [Tickets -> Ticket \cup {None}]
          /\ OpenTickets' = OpenTickets \ {k}
          /\ \A j \in OpenTickets : maintenance'[j].unit = maintenance[j].unit
          /\ UNCHANGED <<units, reservations>>
      BY <1>2, <1>4 DEF CompletionRaises, OpenTickets
    <2>2. Known' = Known
      BY <2>1 DEF Known
    <2>3. TypeOK' /\ OneOpenTicket' /\ TicketedUnitsAreOut' /\ IssuedUnitsAreSound'
      BY <2>1, <2>2 DEF TypeOK, OneOpenTicket, TicketedUnitsAreOut, IssuedUnitsAreSound
    <2>4. NamedUnitsAreKnown' /\ ReservedUnitsAreHeld' /\ NoDoubleBookingAtLocation'
      BY <2>1, <2>2, HoldsKept
    <2> QED BY <2>3, <2>4
  <1>5. ASSUME NEW c \in Conditions, CompleteMaintenance(k, c) PROVE AssetInv'
    <2> DEFINE u == maintenance[k].unit
               new == [units[u] EXCEPT !.condition = c, !.status = "available"]
    <2>1. /\ k \in OpenTickets
          /\ maintenance' \in [Tickets -> Ticket \cup {None}]
          /\ OpenTickets' = OpenTickets \ {k}
          /\ \A j \in OpenTickets : maintenance'[j].unit = maintenance[j].unit
          /\ UNCHANGED reservations
      BY <1>2, <1>5 DEF CompleteMaintenance, OpenTickets
    <2>2. u \in Known
      BY <2>1 DEF TicketedUnitsAreOut
    <2>3. units[u] \in AssetUnit
      BY <2>2 DEF Known, TypeOK
    <2>4. new \in AssetUnit /\ new # None /\ new.status = "available"
      BY <2>3, NoneAssumption DEF AssetUnit
    <2>5. units' = [units EXCEPT ![u] = new]
      BY <1>5, <2>2 DEF CompleteMaintenance, TypeOK, Known
    <2> HIDE DEF new
    <2>6. /\ TypeOK'
          /\ Known' = Known
          /\ \A v \in Known : units'[v] = IF v = u THEN new ELSE units[v]
      BY <2>1, <2>2, <2>4, <2>5 DEF TypeOK, Known
    <2>7. OneOpenTicket'
      BY <2>1 DEF OneOpenTicket
    <2>8. TicketedUnitsAreOut'
      <3>1. \A j \in OpenTickets \ {k} : maintenance[j].unit # u
        BY <2>1 DEF OneOpenTicket
      <3> QED BY <2>1, <2>6, <3>1 DEF TicketedUnitsAreOut
    <2>9. NamedUnitsAreKnown' /\ ReservedUnitsAreHeld' /\ NoDoubleBookingAtLocation'
      BY <2>1, <2>4, <2>6, HoldsKept
    <2>10. IssuedUnitsAreSound'
      BY <2>4, <2>6 DEF IssuedUnitsAreSound
    <2> QED BY <2>6, <2>7, <2>8, <2>9, <2>10
  <1> QED BY <1>1, <1>3, <1>4, <1>5

\* The ledger starts empty.
LEMMA AssetInit == Init => AssetInv
  <1> SUFFICES ASSUME Init PROVE AssetInv
    OBVIOUS
  <1>1. Known = {} /\ Held = {} /\ OpenTickets = {}
    BY DEF Init, Known, Held, OpenTickets
  <1>2. TypeOK /\ \A r \in Reservations : reservations[r] = None
    BY DEF Init, TypeOK
  <1> QED BY <1>1, <1>2 DEF AssetInv, NamedUnitsAreKnown, OneOpenTicket,
             TicketedUnitsAreOut, IssuedUnitsAreSound, ReservedUnitsAreHeld,
             NoDoubleBookingAtLocation

\* Every call of the ledger keeps the invariant.
LEMMA AssetStep == AssetInv /\ [Next]_vars => AssetInv'
  <1> SUFFICES ASSUME AssetInv, [Next]_vars PROVE AssetInv'
    OBVIOUS
  <1>1. CASE Next
    <2>1. ASSUME \/ \E u \in Units : Retire(u)
                 \/ \E l \in Locations :
                      \/ \E u \in Units : Receive(u, l)
                      \/ \E ids \in SUBSET Units :
                           \/ Issue(ids, l)
                           \/ \E d \in Locations : Transfer(ids, l, d)
                           \/ \E c \in Conditions : ReturnUnits(ids, l, c)
          PROVE  AssetInv'
      BY <2>1, MovementsKeep
    <2>2. ASSUME NEW l \in Locations, NEW r \in Reservations, NEW ids \in UnitLists,
                 NEW w \in Windows, Reserve(r, ids, l, w)
          PROVE  AssetInv'
      BY <2>2, ReserveKeeps
    <2>3. ASSUME NEW k \in Tickets,
                 \/ \E u \in Units : OpenMaintenance(k, u)
                 \/ StartMaintenance(k)
                 \/ \E c \in Conditions : CompleteMaintenance(k, c)
                                            \/ CompletionRaises(k, c)
          PROVE  AssetInv'
      BY <2>3, MaintenanceKeeps
    <2>4. ASSUME \/ \E r \in Reservations : Fulfill(r) \/ FulfillRaises(r) \/ Release(r)
                 \/ \E moment \in Moments : Expire(moment)
          PROVE  AssetInv'
      BY <2>4, ReservationsKeep
    <2> QED BY <1>1, <2>1, <2>2, <2>3, <2>4 DEF Next
  <1>2. CASE UNCHANGED vars
    <2>1. /\ UNCHANGED <<units, reservations, maintenance>>
          /\ Known' = Known
      BY <1>2 DEF vars, Known
    <2>2. OneOpenTicket' /\ TicketedUnitsAreOut'
      BY <2>1, TicketsKept DEF AssetInv
    <2>3. NamedUnitsAreKnown' /\ ReservedUnitsAreHeld' /\ NoDoubleBookingAtLocation'
      BY <2>1, HoldsKept DEF AssetInv
    <2>4. TypeOK' /\ IssuedUnitsAreSound'
      BY <2>1 DEF AssetInv, TypeOK, IssuedUnitsAreSound
    <2> QED BY <2>2, <2>3, <2>4 DEF AssetInv
  <1> QED BY <1>1, <1>2

\* Whatever is reserved, fulfilled, released, returned, sent to repair and scheduled, the
\* units, the reservations and the tickets agree: what the theorems below rest on.
THEOREM AssetInvariance == Spec => []AssetInv
  <1> QED BY AssetInit, AssetStep, PTL DEF Spec

\* Whatever is reserved, fulfilled, released, returned and repaired in
\* whatever order, a unit with an open ticket is out of circulation and an
\* issued unit is sound.
THEOREM CirculationStaysSafe == Spec => []CirculationIsSafe
  <1>1. AssetInv => CirculationIsSafe
    BY DEF AssetInv, CirculationIsSafe
  <1> QED BY <1>1, AssetInvariance, PTL

\* No unit is ever stuck as reserved.
THEOREM ReservedStayHeld == Spec => []ReservedUnitsAreHeld
  <1>1. AssetInv => ReservedUnitsAreHeld
    BY DEF AssetInv
  <1> QED BY <1>1, AssetInvariance, PTL

\* Two reservations of one location never hold a unit for the same moment.
THEOREM NeverDoubleBooked == Spec => []NoDoubleBookingAtLocation
  <1>1. AssetInv => NoDoubleBookingAtLocation
    BY DEF AssetInv
  <1> QED BY <1>1, AssetInvariance, PTL
=============================================================================
