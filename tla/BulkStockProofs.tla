--------------------------- MODULE BulkStockProofs ---------------------------
(***************************************************************************)
(* What holds of bulk and consumable stock for any locations, windows,     *)
(* reservations and quantities: the log accounts for the stock, a          *)
(* reservation is drawn once or never, suggestions cover what is held, and *)
(* reserving and moving stock overbook no moment.                          *)
(*                                                                         *)
(* Quantities are sums over the log and over the reservations, so the      *)
(* proofs rest on SumTheorems.  What is added to LedgerIsSound to make it  *)
(* inductive is that finitely many reservations have been made: the ids    *)
(* may be any set.                                                         *)
(***************************************************************************)
EXTENDS BulkStock, SumTheorems, SequenceTheorems

Made == {r \in Reservations : reservations[r] # None}

StockInv ==
    /\ TypeOK
    /\ IsFiniteSet(Made)
    /\ LogAccountsForStock
    /\ FulfilledExactlyOnce

-----------------------------------------------------------------------------
(***************************************************************************)
(* Quantities.                                                             *)
(***************************************************************************)
LEMMA HeldAre ==
    ASSUME TypeOK
    PROVE  \A r \in Held : reservations[r] \in Reservation
  BY NoneAssumption DEF TypeOK, Held

\* What a set of held reservations adds up to is a quantity, which only what the
\* reservations are for determines, and no more than that of a larger set.
LEMMA QuantityType ==
    ASSUME TypeOK, IsFiniteSet(Made), NEW ids \in SUBSET Held
    PROVE  /\ IsFiniteSet(ids) /\ QuantityOf(ids) \in Nat
           /\ QuantityOf(ids) = SumOf([r \in Held |-> reservations[r].quantity], ids)
           /\ \A r \in ids : reservations[r].quantity \in Nat
  <1> DEFINE own == [r \in ids |-> reservations[r].quantity]
             all == [r \in Held |-> reservations[r].quantity]
  <1>1. Held \in SUBSET Made
    BY DEF Held, Made
  <1>2. IsFiniteSet(ids)
    BY <1>1, FS_Subset
  <1>3. \A r \in ids : reservations[r].quantity \in Nat
    BY HeldAre, StockAssumption DEF Reservation, Quantities
  <1>4. QuantityOf(ids) = SumOf(own, ids)
    BY DEF QuantityOf, SumOf
  <1>5. \A r \in ids : own[r] \in Nat /\ own[r] = all[r]
    BY <1>3
  <1> HIDE DEF own, all
  <1>6. SumOf(own, ids) \in Nat /\ SumOf(own, ids) = SumOf(all, ids)
    BY <1>2, <1>5, SumNat, SumSame
  <1> QED BY <1>2, <1>3, <1>4, <1>6 DEF all

\* Fewer reservations hold no more.
LEMMA QuantityMonotone ==
    ASSUME TypeOK, IsFiniteSet(Made), NEW ids \in SUBSET Held, NEW part \in SUBSET ids
    PROVE  QuantityOf(part) <= QuantityOf(ids)
  <1> DEFINE all == [r \in Held |-> reservations[r].quantity]
  <1>1. /\ IsFiniteSet(ids)
        /\ QuantityOf(ids) = SumOf(all, ids) /\ QuantityOf(part) = SumOf(all, part)
    BY QuantityType
  <1>2. \A r \in ids : all[r] \in Nat
    BY QuantityType
  <1> HIDE DEF all
  <1> QED BY <1>1, <1>2, SumSubset

\* Buying what is suggested covers what is held, whatever is on hand.
LEMMA SuggestionsCover ==
    ASSUME TypeOK, IsFiniteSet(Made)
    PROVE  SuggestionCoversHolds
  <1> SUFFICES ASSUME active, ReorderPoint # 0, NEW moment \in Instants, NEW i \in Instants,
                      moment <= i
               PROVE  QuantityOf({r \in Held : /\ reservations[r].window.from <= i
                                               /\ i < reservations[r].window.to})
                          <= OnHand + ReorderSuggestion(moment)
    BY DEF SuggestionCoversHolds
  <1> DEFINE now == {r \in Held : /\ reservations[r].window.from <= i
                                  /\ i < reservations[r].window.to}
             later == {r \in Held : reservations[r].window.to >= moment}
  <1>1. moment \in Int /\ i \in Int
    BY StockAssumption DEF Instants
  <1>2. now \in SUBSET later /\ later \in SUBSET Held
    <2>1. \A r \in Held : reservations[r].window.to \in Nat
      BY HeldAre, StockAssumption DEF Reservation
    <2> QED BY <1>1, <2>1
  <1>3. OnHand \in Int
    <2>1. \A l \in Locations : balances[l] \in Int
      BY StockAssumption DEF TypeOK
    <2>2. IsFiniteSet(Locations) /\ OnHand = SumOf(balances, Locations)
      BY StockAssumption DEF OnHand, SumOf
    <2> QED BY <2>1, <2>2, SumType
  <1>4. QuantityOf(now) \in Nat /\ QuantityOf(later) \in Nat /\ QuantityOf(now) <= QuantityOf(later)
    <2>1. now \in SUBSET Held
      OBVIOUS
    <2> HIDE DEF now, later
    <2> QED BY <1>2, <2>1, QuantityType, QuantityMonotone
  <1> DEFINE reserved == QuantityOf(later)
             projected == OnHand - reserved
             topUp == 2 * ReorderPoint - projected
  <1>5. ReorderSuggestion(moment) =
            IF projected <= ReorderPoint THEN IF topUp > 1 THEN topUp ELSE 1 ELSE 0
    BY DEF ReorderSuggestion
  <1> HIDE DEF now, later
  <1>6. QuantityOf(now) <= OnHand + ReorderSuggestion(moment)
    BY <1>3, <1>4, <1>5, StockAssumption
  <1> QED BY <1>6 DEF now

-----------------------------------------------------------------------------
(***************************************************************************)
(* The log.                                                                *)
(***************************************************************************)
\* A movement more adds to a location what it moves there.
LEMMA LogReplays ==
    ASSUME movements \in Seq(Movement), NEW m \in Movement,
           movements' = Append(movements, m), NEW l \in Locations
    PROVE  /\ Replayed(l) \in Int /\ Added(m, l) \in Int
           /\ Replayed(l)' = Replayed(l) + Added(m, l)
  <1> DEFINE n == Len(movements) + 1
             f == [k \in DOMAIN movements |-> Added(movements[k], l)]
             g == [k \in DOMAIN movements' |-> Added(movements'[k], l)]
             old == MovementHistory(l)
             new == MovementHistory(l)'
  <1>1. /\ Len(movements) \in Nat /\ n \in Nat
        /\ DOMAIN movements = 1..Len(movements)
        /\ DOMAIN movements' = 1..n
        /\ \A k \in 1..Len(movements) : movements'[k] = movements[k] /\ movements[k] \in Movement
        /\ movements'[n] = m
    BY AppendProperties, LenProperties
  <1>2. \A p \in Movement : Added(p, l) \in Int
    BY DEF Added, Movement
  <1>3. /\ old \in SUBSET (1..Len(movements)) /\ IsFiniteSet(old) /\ n \notin old
        /\ new = IF l \in {m.source, m.destination} THEN old \cup {n} ELSE old
    <2>1. old \in SUBSET (1..Len(movements)) /\ n \notin old
      BY <1>1 DEF MovementHistory
    <2>2. IsFiniteSet(old)
      <3>1. IsFiniteSet(1..Len(movements))
        BY <1>1, FS_Interval
      <3> HIDE DEF old
      <3> QED BY <2>1, <3>1, FS_Subset
    <2>3. new = IF l \in {m.source, m.destination} THEN old \cup {n} ELSE old
      BY <1>1 DEF MovementHistory
    <2> QED BY <2>1, <2>2, <2>3
  <1>4. Replayed(l) = SumOf(f, old) /\ Replayed(l)' = SumOf(g, new)
    BY DEF Replayed, SumOf
  <1>5. \A k \in old : f[k] \in Int /\ g[k] = f[k]
    BY <1>1, <1>2, <1>3
  <1>6. g[n] = Added(m, l)
    BY <1>1
  <1> HIDE DEF f, g, old, new, n
  <1>7. SumOf(f, old) \in Int /\ SumOf(g, old) = SumOf(f, old)
    BY <1>3, <1>5, SumType, SumSame
  <1>8. CASE l \in {m.source, m.destination}
    <2>1. SumOf(g, old \cup {n}) = g[n] + SumOf(g, old)
      BY <1>2, <1>3, <1>5, <1>6, SumAdd
    <2> QED BY <1>2, <1>3, <1>4, <1>6, <1>7, <1>8, <2>1
  <1>9. CASE l \notin {m.source, m.destination}
    <2>1. Added(m, l) = 0
      BY <1>9 DEF Added
    <2> QED BY <1>3, <1>4, <1>7, <1>9, <2>1
  <1> QED BY <1>8, <1>9

\* Of a reservation the log tells as before, if the new movement is not one of it.
LEMMA IssuesKept ==
    ASSUME movements \in Seq(Movement), NEW m \in Movement,
           movements' = Append(movements, m), NEW r \in Reservations
    PROVE  LET before == {i \in 1..Len(movements) : movements[i].reference = r}
               after == {i \in 1..Len(movements') : movements'[i].reference = r}
           IN  /\ after = IF m.reference = r THEN before \cup {Len(movements) + 1} ELSE before
               /\ \A i \in before : movements'[i] = movements[i]
               /\ movements'[Len(movements) + 1] = m
  <1>1. /\ Len(movements) \in Nat /\ Len(movements') = Len(movements) + 1
        /\ \A k \in 1..Len(movements) : movements'[k] = movements[k]
        /\ movements'[Len(movements) + 1] = m
    BY AppendProperties, LenProperties
  <1> QED BY <1>1

\* A call that moves stock, and touches no reservation, leaves the ledger sound if the
\* balances change by what it logs.
LEMMA MovementKeeps ==
    ASSUME StockInv, NEW m \in Movement, m.reference = None,
           movements' = Append(movements, m), UNCHANGED <<active, reservations>>,
           balances' \in [Locations -> 0..MaxBalance],
           \A l \in Locations : balances'[l] = balances[l] + Added(m, l)
    PROVE  StockInv'
  <1>1. TypeOK'
    BY AppendProperties DEF StockInv, TypeOK
  <1>2. IsFiniteSet(Made)'
    BY DEF StockInv, Made
  <1>3. LogAccountsForStock'
    <2> SUFFICES ASSUME NEW l \in Locations PROVE balances'[l] = Replayed(l)'
      BY DEF LogAccountsForStock
    <2>1. balances[l] = Replayed(l)
      BY DEF StockInv, LogAccountsForStock
    <2>2. Replayed(l)' = Replayed(l) + Added(m, l)
      BY LogReplays DEF StockInv, TypeOK
    <2> QED BY <2>1, <2>2
  <1>4. FulfilledExactlyOnce'
    <2> SUFFICES ASSUME NEW r \in Reservations
                 PROVE  (LET issues == {i \in 1..Len(movements) : movements[i].reference = r}
                         IN  IF reservations[r] # None /\ reservations[r].status = "fulfilled"
                             THEN /\ Cardinality(issues) = 1
                                  /\ \A i \in issues :
                                       /\ movements[i].quantity = reservations[r].quantity
                                       /\ movements[i].source = reservations[r].location
                             ELSE issues = {})'
      BY DEF FulfilledExactlyOnce
    <2> DEFINE before == {i \in 1..Len(movements) : movements[i].reference = r}
               after == {i \in 1..Len(movements') : movements'[i].reference = r}
    <2>1. after = before /\ \A i \in before : movements'[i] = movements[i]
      BY IssuesKept, NoneAssumption DEF StockInv, TypeOK
    <2>2. IF reservations[r] # None /\ reservations[r].status = "fulfilled"
          THEN /\ Cardinality(before) = 1
               /\ \A i \in before : /\ movements[i].quantity = reservations[r].quantity
                                    /\ movements[i].source = reservations[r].location
          ELSE before = {}
      BY DEF StockInv, FulfilledExactlyOnce
    <2>3. Cardinality(after) = Cardinality(before)
      BY <2>1, Zenon
    <2> HIDE DEF before
    <2> QED BY <2>1, <2>2, <2>3
  <1> QED BY <1>1, <1>2, <1>3, <1>4 DEF StockInv

\* A call that changes reservations other than to fulfilled leaves the ledger sound.
LEMMA ReservationsKeep ==
    ASSUME StockInv, UNCHANGED <<balances, movements>>, active' \in BOOLEAN,
           reservations' \in [Reservations -> Reservation \cup {None}],
           IsFiniteSet(Made)',
           \A r \in Reservations :
               reservations'[r] # reservations[r] =>
                   /\ reservations[r] = None \/ reservations[r].status # "fulfilled"
                   /\ reservations'[r] # None /\ reservations'[r].status # "fulfilled"
    PROVE  StockInv'
  <1>1. TypeOK'
    BY DEF StockInv, TypeOK
  <1>2. LogAccountsForStock'
    BY DEF StockInv, LogAccountsForStock, Replayed, MovementHistory
  <1>3. FulfilledExactlyOnce'
    BY SMTT(30) DEF StockInv, FulfilledExactlyOnce
  <1> QED BY <1>1, <1>2, <1>3 DEF StockInv

-----------------------------------------------------------------------------
(***************************************************************************)
(* The calls.                                                              *)
(***************************************************************************)
\* The movement that a call logs.
Moved(type, quantity, source, destination, reference) ==
    [type |-> type, quantity |-> quantity, source |-> source,
     destination |-> destination, reference |-> reference]

\* What the movement that a call logs adds to each location.
LEMMA MovedIs ==
    ASSUME NEW type \in {"receive", "transfer", "issue", "consume", "adjust"},
           NEW q \in Nat \ {0}, NEW source \in Locations \cup Outside,
           NEW destination \in Locations \cup Outside,
           NEW reference \in Reservations \cup {None}
    PROVE  LET m == Moved(type, q, source, destination, reference)
           IN  /\ m \in Movement /\ m.reference = reference
               /\ \A l : Added(m, l) = (IF destination = l THEN q ELSE 0)
                                        - (IF source = l THEN q ELSE 0)
  BY DEF Moved, Movement, Added

\* The far ends of movements are no locations, and quantities are positive.
LEMMA FarEnds ==
    /\ Quantities \in SUBSET (Nat \ {0})
    /\ \A end \in {"", "issued", "adjustment"} : end \in Outside /\ end \notin Locations
  <1>1. Quantities \in SUBSET (Nat \ {0})
    BY StockAssumption DEF Quantities
  <1>2. \A end \in Outside : end \notin Locations
    BY StockAssumption
  <1>3. Outside = {"", "issued", "adjustment"}
    BY DEF Outside
  <1> QED BY <1>1, <1>2, <1>3, Zenon

\* receive: stock comes from outside.
LEMMA ReceiveKeeps ==
    ASSUME StockInv, NEW l \in Locations, NEW q \in Quantities, Receive(l, q)
    PROVE  StockInv'
  <1>1. q \in Nat \ {0}
    BY FarEnds
  <1> DEFINE m == Moved("receive", q, "", l, None)
  <1>2. /\ m \in Movement /\ m.reference = None
        /\ \A k \in Locations : Added(m, k) = IF k = l THEN q ELSE 0
    <2> DEFINE empty == ""
    <2>1. empty \in Outside /\ empty \notin Locations
      BY FarEnds, Zenon
    <2>2. m = Moved("receive", q, empty, l, None)
      BY Zenon
    <2> HIDE DEF empty, m
    <2> QED BY <1>1, <2>1, <2>2, MovedIs
  <1>3. movements' = Append(movements, m) /\ UNCHANGED <<active, reservations>>
    BY DEF Receive, Log, Moved
  <1>4. /\ balances' \in [Locations -> 0..MaxBalance]
        /\ \A k \in Locations : balances'[k] = balances[k] + IF k = l THEN q ELSE 0
    <2>1. /\ balances' = [balances EXCEPT ![l] = @ + q] /\ balances[l] + q <= MaxBalance
          /\ balances \in [Locations -> 0..MaxBalance]
      BY DEF Receive, StockInv, TypeOK
    <2> HIDE DEF m
    <2> QED BY <1>1, <2>1, StockAssumption
  <1> HIDE DEF m
  <1>5. \A k \in Locations : balances'[k] = balances[k] + Added(m, k)
    BY <1>2, <1>4
  <1> QED BY <1>2, <1>3, <1>4, <1>5, MovementKeeps

\* transfer: what the source had free arrives at the destination.
LEMMA TransferKeeps ==
    ASSUME StockInv, NEW s \in Locations, NEW d \in Locations, NEW q \in Quantities,
           Transfer(s, d, q)
    PROVE  StockInv'
  <1>1. q \in Nat \ {0}
    BY FarEnds
  <1> DEFINE m == Moved("transfer", q, s, d, None)
  <1>2. /\ m \in Movement /\ m.reference = None
        /\ \A k \in Locations : Added(m, k) = (IF d = k THEN q ELSE 0) - (IF s = k THEN q ELSE 0)
    BY <1>1, MovedIs
  <1>3. movements' = Append(movements, m) /\ UNCHANGED <<active, reservations>>
    BY DEF Transfer, Log, Moved
  <1>4. ReservedQuantity(s) \in Nat
    <2>1. {r \in Held : reservations[r].location = s} \in SUBSET Held
      OBVIOUS
    <2> QED BY <2>1, QuantityType DEF ReservedQuantity, StockInv
  <1>5. /\ balances \in [Locations -> Int] /\ s # d
        /\ balances[s] - q \in 0..MaxBalance /\ balances[d] + q \in 0..MaxBalance
    BY <1>1, <1>4, StockAssumption DEF Transfer, StockInv, TypeOK
  <1>6. balances' = [balances EXCEPT ![s] = @ - q, ![d] = @ + q]
    BY DEF Transfer
  <1>7. ASSUME NEW k \in Locations
        PROVE  balances'[k] = IF k = s THEN balances[s] - q ELSE
                              IF k = d THEN balances[d] + q ELSE balances[k]
    BY <1>5, <1>6
  <1>8. balances' \in [Locations -> 0..MaxBalance]
    <2>1. balances' = [k \in Locations |-> balances'[k]]
      BY <1>6 DEF StockInv, TypeOK
    <2>2. \A k \in Locations : balances'[k] \in 0..MaxBalance
      BY <1>5, <1>7 DEF StockInv, TypeOK
    <2> QED BY <2>1, <2>2
  <1> HIDE DEF m
  <1>9. \A k \in Locations : balances'[k] = balances[k] + Added(m, k)
    BY <1>1, <1>2, <1>5, <1>7
  <1> QED BY <1>2, <1>3, <1>8, <1>9, MovementKeeps

\* What an issue logs, and what it leaves of the balances.
LEMMA IssueIs ==
    ASSUME TypeOK, NEW l \in Locations, NEW q \in Quantities, NEW consume \in BOOLEAN,
           NEW reference \in Reservations \cup {None}, IssueStock(l, q, consume, reference)
    PROVE  LET m == Moved(IF consume THEN "consume" ELSE "issue", q, l, "issued", reference)
           IN  /\ m \in Movement /\ movements' = Append(movements, m)
               /\ balances' \in [Locations -> 0..MaxBalance]
               /\ \A k \in Locations : balances'[k] = balances[k] + Added(m, k)
  <1>1. /\ q \in Nat \ {0} /\ "issued" \in Outside /\ "issued" \notin Locations
        /\ (IF consume THEN "consume" ELSE "issue")
               \in {"receive", "transfer", "issue", "consume", "adjust"}
    BY FarEnds, Zenon
  <1> DEFINE m == Moved(IF consume THEN "consume" ELSE "issue", q, l, "issued", reference)
  <1>2. /\ m \in Movement
        /\ \A k \in Locations :
               Added(m, k) = (IF "issued" = k THEN q ELSE 0) - (IF l = k THEN q ELSE 0)
    BY <1>1, MovedIs
  <1>3. movements' = Append(movements, m)
    BY DEF IssueStock, Log, Moved
  <1>4. /\ balances' \in [Locations -> 0..MaxBalance]
        /\ \A k \in Locations : balances'[k] = balances[k] - IF k = l THEN q ELSE 0
    BY <1>1, StockAssumption DEF IssueStock, TypeOK
  <1>5. \A k \in Locations : balances[k] \in Int
    BY StockAssumption DEF TypeOK
  <1> HIDE DEF m
  <1>6. \A k \in Locations : balances'[k] = balances[k] + Added(m, k)
    BY <1>1, <1>2, <1>4, <1>5
  <1> QED BY <1>2, <1>3, <1>4, <1>6 DEF m

\* issue and consume: the balance covers what leaves for outside.
LEMMA IssueKeeps ==
    ASSUME StockInv, NEW l \in Locations, NEW q \in Quantities, NEW consume \in BOOLEAN,
           Issue(l, q, consume)
    PROVE  StockInv'
  <1> DEFINE m == Moved(IF consume THEN "consume" ELSE "issue", q, l, "issued", None)
  <1>1. IssueStock(l, q, consume, None) /\ UNCHANGED <<active, reservations>>
    BY DEF Issue
  <1>2. /\ m \in Movement /\ movements' = Append(movements, m)
        /\ balances' \in [Locations -> 0..MaxBalance]
        /\ \A k \in Locations : balances'[k] = balances[k] + Added(m, k)
    BY <1>1, IssueIs DEF StockInv
  <1>3. m.reference = None
    BY DEF Moved
  <1> HIDE DEF m
  <1> QED BY <1>1, <1>2, <1>3, MovementKeeps

\* adjust: a correction comes from outside or goes there, and no balance is negative.
LEMMA AdjustKeeps ==
    ASSUME StockInv, NEW l \in Locations, NEW delta \in Int, Adjust(l, delta)
    PROVE  StockInv'
  <1>1. "adjustment" \in Outside /\ "adjustment" \notin Locations
    BY FarEnds
  <1>2. PICK m \in Movement :
            /\ m.reference = None /\ movements' = Append(movements, m)
            /\ \A k \in Locations : Added(m, k) = IF k = l THEN delta ELSE 0
    <2>1. CASE delta < 0
      <3>1. -delta \in Nat \ {0}
        BY <2>1
      <3> DEFINE m == Moved("adjust", -delta, l, "adjustment", None)
      <3>2. /\ m \in Movement /\ m.reference = None
            /\ \A k \in Locations : Added(m, k) = (IF "adjustment" = k THEN -delta ELSE 0)
                                                - (IF l = k THEN -delta ELSE 0)
        BY <1>1, <3>1, MovedIs
      <3>3. movements' = Append(movements, m)
        BY <2>1 DEF Adjust, Log, Moved
      <3> HIDE DEF m
      <3> QED BY <1>1, <3>2, <3>3
    <2>2. CASE ~(delta < 0)
      <3>1. delta \in Nat \ {0}
        BY <2>2 DEF Adjust
      <3> DEFINE m == Moved("adjust", delta, "adjustment", l, None)
      <3>2. /\ m \in Movement /\ m.reference = None
            /\ \A k \in Locations : Added(m, k) = (IF l = k THEN delta ELSE 0)
                                                - (IF "adjustment" = k THEN delta ELSE 0)
        BY <1>1, <3>1, MovedIs
      <3>3. movements' = Append(movements, m)
        BY <2>2 DEF Adjust, Log, Moved
      <3> HIDE DEF m
      <3> QED BY <1>1, <3>2, <3>3
    <2> QED BY <2>1, <2>2
  <1>3. /\ balances' \in [Locations -> 0..MaxBalance]
        /\ \A k \in Locations : balances'[k] = balances[k] + IF k = l THEN delta ELSE 0
    BY StockAssumption DEF Adjust, StockInv, TypeOK
  <1>4. \A k \in Locations : balances'[k] = balances[k] + Added(m, k)
    BY <1>2, <1>3
  <1> QED BY <1>2, <1>3, <1>4, MovementKeeps DEF Adjust

\* reserve: what the holds of its time and the new one ask for is within what was counted.
LEMMA ReserveKeeps ==
    ASSUME StockInv, NEW r \in Reservations, NEW q \in Quantities, NEW l \in Locations,
           NEW w \in Windows, Reserve(r, q, l, w)
    PROVE  StockInv'
  <1> DEFINE new == [quantity |-> q, location |-> l, window |-> w, status |-> "held"]
  <1>1. new \in Reservation /\ new.status = "held" /\ new # None
    BY NoneAssumption DEF Reservation
  <1>2. /\ reservations[r] = None /\ reservations' = [reservations EXCEPT ![r] = new]
        /\ UNCHANGED <<active, balances, movements>>
    BY DEF Reserve
  <1> HIDE DEF new
  <1>3. reservations' \in [Reservations -> Reservation \cup {None}]
    BY <1>1, <1>2 DEF StockInv, TypeOK
  <1>4. IsFiniteSet(Made)'
    <2>1. Made' = Made \cup {r}
      BY <1>1, <1>2 DEF Made, StockInv, TypeOK
    <2> QED BY <2>1, FS_AddElement DEF StockInv
  <1>5. \A s \in Reservations : reservations'[s] # reservations[s] =>
            reservations[s] = None /\ reservations'[s] = new
    BY <1>2 DEF StockInv, TypeOK
  <1> QED BY <1>1, <1>2, <1>3, <1>4, <1>5, ReservationsKeep DEF StockInv, TypeOK

\* Held reservations that are closed, without being fulfilled.
LEMMA ClosingKeeps ==
    ASSUME StockInv, NEW closed \in SUBSET Held, NEW status \in {"released", "expired"},
           reservations' = [r \in Reservations |->
               IF r \in closed THEN [reservations[r] EXCEPT !.status = status]
                               ELSE reservations[r]],
           UNCHANGED <<active, balances, movements>>
    PROVE  StockInv'
  <1>1. ASSUME NEW r \in closed
        PROVE  /\ r \in Reservations /\ reservations[r] # None /\ reservations[r].status = "held"
               /\ reservations'[r] \in Reservation /\ reservations'[r].status = status
    <2>1. /\ r \in Reservations /\ r \in Held /\ reservations[r] \in Reservation
          /\ reservations'[r] = [reservations[r] EXCEPT !.status = status]
      BY HeldAre DEF StockInv, Held
    <2> QED BY <2>1 DEF Reservation, Held
  <1>2. \A r \in Reservations \ closed : reservations'[r] = reservations[r]
    OBVIOUS
  <1>3. reservations' \in [Reservations -> Reservation \cup {None}]
    BY <1>1, <1>2 DEF StockInv, TypeOK
  <1>4. Made' = Made
    BY <1>1, <1>2, NoneAssumption DEF Made
  <1>5. \A r \in Reservations :
            reservations'[r] # reservations[r] =>
                /\ reservations[r] = None \/ reservations[r].status # "fulfilled"
                /\ reservations'[r] # None /\ reservations'[r].status # "fulfilled"
    BY <1>1, <1>2, NoneAssumption
  <1> QED BY <1>3, <1>4, <1>5, ReservationsKeep DEF StockInv, TypeOK

\* fulfill: the hold ends and what it held leaves, in one step.
LEMMA FulfillKeeps ==
    ASSUME StockInv, NEW r \in Reservations, Fulfill(r)
    PROVE  StockInv'
  <1> DEFINE old == reservations[r]
             m == Moved(IF Kind = "consumable" THEN "consume" ELSE "issue",
                        old.quantity, old.location, "issued", r)
             n == Len(movements) + 1
             new == [old EXCEPT !.status = "fulfilled"]
  <1>1. r \in Held /\ old \in Reservation /\ old # None
    BY HeldAre DEF Fulfill, StockInv, Held
  <1>2. /\ m \in Movement /\ movements' = Append(movements, m)
        /\ balances' \in [Locations -> 0..MaxBalance]
        /\ \A k \in Locations : balances'[k] = balances[k] + Added(m, k)
    <2>1. /\ old.quantity \in Quantities /\ old.location \in Locations
          /\ r \in Reservations \cup {None} /\ (Kind = "consumable") \in BOOLEAN
          /\ IssueStock(old.location, old.quantity, Kind = "consumable", r)
      BY <1>1 DEF Reservation, Fulfill
    <2> HIDE DEF old
    <2> QED BY <2>1, IssueIs DEF StockInv
  <1>3. /\ new \in Reservation /\ new.status = "fulfilled" /\ new # None
        /\ new.quantity = old.quantity /\ new.location = old.location
    BY <1>1, NoneAssumption DEF Reservation
  <1>4. /\ reservations' = [reservations EXCEPT ![r] = new] /\ active' = active
        /\ reservations' \in [Reservations -> Reservation \cup {None}]
    BY <1>3 DEF Fulfill, StockInv, TypeOK
  <1>5. m.reference = r /\ m.quantity = old.quantity /\ m.source = old.location
    BY DEF Moved
  <1>6. old.status = "held"
    BY <1>1 DEF Held
  <1> HIDE DEF m, new, old
  <1>7. TypeOK'
    BY <1>2, <1>4, AppendProperties DEF StockInv, TypeOK
  <1>8. IsFiniteSet(Made)'
    <2>1. Made' = Made
      BY <1>1, <1>3, <1>4 DEF Made, StockInv, TypeOK, old
    <2> QED BY <2>1 DEF StockInv
  <1>9. LogAccountsForStock'
    <2> SUFFICES ASSUME NEW l \in Locations PROVE balances'[l] = Replayed(l)'
      BY DEF LogAccountsForStock
    <2>1. balances[l] = Replayed(l)
      BY DEF StockInv, LogAccountsForStock
    <2>2. Replayed(l)' = Replayed(l) + Added(m, l)
      BY <1>2, LogReplays DEF StockInv, TypeOK
    <2> QED BY <1>2, <2>1, <2>2
  <1>10. ASSUME NEW s \in Reservations
         PROVE  (LET issues == {i \in 1..Len(movements) : movements[i].reference = s}
                 IN  IF reservations[s] # None /\ reservations[s].status = "fulfilled"
                     THEN /\ Cardinality(issues) = 1
                          /\ \A i \in issues :
                               /\ movements[i].quantity = reservations[s].quantity
                               /\ movements[i].source = reservations[s].location
                     ELSE issues = {})'
    <2> DEFINE before == {i \in 1..Len(movements) : movements[i].reference = s}
               after == {i \in 1..Len(movements') : movements'[i].reference = s}
    <2>1. /\ after = IF m.reference = s THEN before \cup {n} ELSE before
          /\ \A i \in before : movements'[i] = movements[i]
          /\ movements'[n] = m
      BY <1>2, IssuesKept DEF StockInv, TypeOK
    <2>2. IF reservations[s] # None /\ reservations[s].status = "fulfilled"
          THEN /\ Cardinality(before) = 1
               /\ \A i \in before : /\ movements[i].quantity = reservations[s].quantity
                                    /\ movements[i].source = reservations[s].location
          ELSE before = {}
      BY DEF StockInv, FulfilledExactlyOnce
    <2>3. CASE s = r
      <3>1. before = {}
        BY <1>6, <2>2, <2>3 DEF old
      <3>2. after = {n}
        BY <1>5, <2>1, <2>3, <3>1
      <3>3. Cardinality(after) = 1
        BY <3>2, FS_Singleton
      <3>4. reservations'[s] = new
        BY <1>4, <2>3 DEF StockInv, TypeOK
      <3> HIDE DEF before, after, n
      <3>5. \A i \in after : /\ movements'[i].quantity = new.quantity
                             /\ movements'[i].source = new.location
        BY <1>3, <1>5, <2>1, <3>2
      <3> QED BY <1>3, <3>3, <3>4, <3>5 DEF after
    <2>4. CASE s # r
      <3>1. after = before
        BY <1>5, <2>1, <2>4
      <3>2. Cardinality(after) = Cardinality(before)
        BY <3>1, Zenon
      <3>3. reservations'[s] = reservations[s]
        BY <1>4, <2>4 DEF StockInv, TypeOK
      <3> HIDE DEF before
      <3> QED BY <2>1, <2>2, <3>1, <3>2, <3>3
    <2> QED BY <2>3, <2>4
  <1> QED BY <1>7, <1>8, <1>9, <1>10 DEF StockInv, FulfilledExactlyOnce

-----------------------------------------------------------------------------
(***************************************************************************)
(* The theorems.                                                           *)
(***************************************************************************)
LEMMA StockStart == Init => StockInv
  <1> SUFFICES ASSUME Init PROVE StockInv
    OBVIOUS
  <1>1. TypeOK
    BY StockAssumption DEF Init, TypeOK
  <1>2. IsFiniteSet(Made)
    <2>1. Made = {}
      BY DEF Init, Made
    <2> QED BY <2>1, FS_EmptySet
  <1>3. LogAccountsForStock
    <2> SUFFICES ASSUME NEW l \in Locations PROVE Replayed(l) = 0
      BY DEF Init, LogAccountsForStock
    <2>1. MovementHistory(l) = {}
      BY DEF Init, MovementHistory
    <2> QED BY <2>1, SumEmpty DEF Replayed, SumOf
  <1>4. FulfilledExactlyOnce
    BY DEF Init, FulfilledExactlyOnce
  <1> QED BY <1>1, <1>2, <1>3, <1>4 DEF StockInv

\* Every operation keeps the invariant; cycle counts and releases are the rest.
LEMMA StockStep ==
    ASSUME StockInv, [Next]_vars
    PROVE  StockInv'
  <1>1. ASSUME NEW l \in Locations, NEW counted \in 0..MaxBalance, CycleCount(l, counted)
        PROVE  StockInv'
    <2>1. counted - balances[l] \in Int
      BY StockAssumption DEF StockInv, TypeOK
    <2> QED BY <1>1, <2>1, AdjustKeeps DEF CycleCount
  <1>2. ASSUME NEW r \in Reservations, Release(r)
        PROVE  StockInv'
    <2>1. {r} \in SUBSET Held /\ UNCHANGED <<active, balances, movements>>
      BY <1>2 DEF Release
    <2>2. reservations' = [s \in Reservations |->
              IF s \in {r} THEN [reservations[s] EXCEPT !.status = "released"]
                           ELSE reservations[s]]
      BY <1>2 DEF Release, StockInv, TypeOK
    <2> QED BY <2>1, <2>2, ClosingKeeps
  <1>3. ASSUME NEW moment \in Moments, Expire(moment)
        PROVE  StockInv'
    <2> DEFINE expired == {r \in Held : reservations[r].window.to < moment}
    <2>1. expired \in SUBSET Held
      OBVIOUS
    <2>2. /\ UNCHANGED <<active, balances, movements>>
          /\ reservations' = [r \in Reservations |->
                IF r \in expired THEN [reservations[r] EXCEPT !.status = "expired"]
                                 ELSE reservations[r]]
      BY <1>3 DEF Expire
    <2> HIDE DEF expired
    <2> QED BY <2>1, <2>2, ClosingKeeps
  <1>4. CASE ReplaceItem
    <2>1. UNCHANGED <<balances, reservations, movements>> /\ active' \in BOOLEAN /\ Made' = Made
      BY <1>4 DEF ReplaceItem, StockInv, TypeOK, Made
    <2> QED BY <2>1, ReservationsKeep DEF StockInv, TypeOK
  <1>5. CASE UNCHANGED vars
    BY <1>5 DEF vars, StockInv, TypeOK, Made, LogAccountsForStock, Replayed, MovementHistory,
                FulfilledExactlyOnce
  <1> QED BY <1>1, <1>2, <1>3, <1>4, <1>5, ReceiveKeeps, TransferKeeps, IssueKeeps,
             ReserveKeeps, FulfillKeeps DEF Next

\* The ledger is sound whatever is received, moved, issued, counted and reserved.
THEOREM StockInvariance == Spec => []StockInv
  BY StockStart, StockStep, PTL DEF Spec

\* The log explains the stock, a reservation was drawn once if it is fulfilled and never
\* otherwise, and what the ledger suggests to buy covers what it has promised.
THEOREM LedgerStaysSound == Spec => []LedgerIsSound
  <1>1. StockInv => LedgerIsSound
    BY SuggestionsCover DEF StockInv, LedgerIsSound
  <1> QED BY <1>1, StockInvariance, PTL
-----------------------------------------------------------------------------
(***************************************************************************)
(* Overbooking.                                                            *)
(***************************************************************************)
\* A reservation holds at no moment of its window more than was available there.
LEMMA ReserveOverbooksNothing ==
    ASSUME StockInv, NEW r \in Reservations, NEW q \in Quantities, NEW l \in Locations,
           NEW w \in Windows, Reserve(r, q, l, w)
    PROVE  Overbooked' \subseteq Overbooked
  <1> DEFINE new == [quantity |-> q, location |-> l, window |-> w, status |-> "held"]
  <1>1. /\ new.status = "held" /\ new # None /\ new.quantity = q /\ new.location = l
        /\ new.window = w
    BY NoneAssumption DEF Reservation
  <1>2. /\ reservations[r] = None /\ reservations' = [reservations EXCEPT ![r] = new]
        /\ balances' = balances /\ TypeOK /\ IsFiniteSet(Made)
    BY DEF Reserve, StockInv
  <1> HIDE DEF new
  <1>1a. q \in Nat \ {0}
    BY FarEnds
  <1>1b. balances[l] \in Int
    BY <1>2, StockAssumption DEF TypeOK
  <1>3. /\ Held' = Held \cup {r} /\ r \notin Held
        /\ reservations'[r] = new /\ \A s \in Held : reservations'[s] = reservations[s]
    BY <1>1, <1>2 DEF Held, TypeOK
  <1>4. ASSUME NEW k \in Locations, NEW i \in Instants, HeldAt(k, i)' > balances[k]
        PROVE  HeldAt(k, i) > balances[k]
    <2> DEFINE At(s) == /\ reservations[s].location = k
                        /\ reservations[s].window.from <= i
                        /\ i < reservations[s].window.to
               old == {s \in Held : At(s)}
               now == {s \in Held' : At(s)'}
               f == [s \in old |-> reservations[s].quantity]
               g == [s \in now |-> reservations'[s].quantity]
               booked == k = l /\ w.from <= i /\ i < w.to
    <2>1. HeldAt(k, i) = QuantityOf(old)
      BY DEF HeldAt
    <2>2. QuantityOf(old) = SumOf(f, old) /\ HeldAt(k, i)' = SumOf(g, now)
      BY DEF HeldAt, QuantityOf, SumOf
    <2>3. /\ now = IF booked THEN old \cup {r} ELSE old
          /\ old \in SUBSET Held /\ r \notin old
      BY <1>1, <1>3
    <2>4. IsFiniteSet(old) /\ SumOf(f, old) \in Nat /\ \A s \in old : reservations[s].quantity \in Nat
      <3> HIDE DEF old, f
      <3> QED BY <1>2, <2>2, <2>3, QuantityType
    <2>5. /\ \A s \in old : f[s] \in Nat /\ g[s] = f[s]
          /\ booked => g[r] = q
      BY <1>1, <1>3, <2>3, <2>4
    <2>6. SumOf(g, old) = SumOf(f, old)
      <3> HIDE DEF f, g, old
      <3> QED BY <2>4, <2>5, SumSame
    <2>7. CASE ~booked
      <3> HIDE DEF f, g, old, now, booked
      <3> QED BY <1>4, <2>1, <2>2, <2>3, <2>6, <2>7
    <2>8. CASE booked
      <3> DEFINE overlapping == {s \in Held : /\ reservations[s].location = l
                                              /\ Overlaps(reservations[s].window, w)}
      <3>1. overlapping \in SUBSET Held /\ old \in SUBSET overlapping
        <4>1. /\ \A s \in Held : /\ reservations[s].window.from \in Nat
                                 /\ reservations[s].window.to \in Nat
              /\ w.from \in Nat /\ w.to \in Nat /\ i \in Int
          BY <1>2, HeldAre, StockAssumption DEF Reservation, Instants
        <4> QED BY <2>8, <4>1 DEF Overlaps
      <3>2. QuantityOf(overlapping) \in Nat /\ QuantityOf(old) <= QuantityOf(overlapping)
        <4> HIDE DEF overlapping, old
        <4> QED BY <1>2, <3>1, QuantityType, QuantityMonotone
      <3>3. q + QuantityOf(overlapping) <= balances[l]
        <4>1. q \in Nat \ {0} /\ balances[l] \in Int
          BY <1>1a, <1>1b
        <4>2. q <= Available(l, w)
          BY DEF Reserve
        <4> DEFINE free == balances[l] - QuantityOf(overlapping)
        <4>3. Available(l, w) = IF free > 0 THEN free ELSE 0
          BY DEF Available
        <4> HIDE DEF overlapping
        <4> QED BY <3>2, <4>1, <4>2, <4>3
      <3>4. SumOf(g, now) = q + SumOf(f, old)
        <4>1. q \in Int
          BY <1>1a
        <4> HIDE DEF f, g, old, now, booked
        <4>2. SumOf(g, old \cup {r}) = g[r] + SumOf(g, old)
          BY <2>3, <2>4, <2>5, <2>8, <4>1, SumAdd
        <4> QED BY <2>3, <2>5, <2>6, <2>8, <4>2
      <3>5. q \in Int /\ balances[l] \in Int /\ k = l
        BY <1>1a, <1>1b, <2>8
      <3> HIDE DEF f, g, old, now, booked, overlapping
      <3> QED BY <1>4, <2>2, <2>4, <3>2, <3>3, <3>4, <3>5
    <2> QED BY <2>7, <2>8
  <1> QED BY <1>2, <1>4 DEF Overbooked

\* What is held at a location leaves it with no transfer.
LEMMA TransferOverbooksNothing ==
    ASSUME StockInv, NEW s \in Locations, NEW d \in Locations, NEW q \in Quantities,
           Transfer(s, d, q)
    PROVE  Overbooked' \subseteq Overbooked
  <1>1. /\ s # d /\ balances[s] - q >= ReservedQuantity(s) /\ reservations' = reservations
        /\ balances' = [balances EXCEPT ![s] = @ - q, ![d] = @ + q]
        /\ TypeOK /\ IsFiniteSet(Made) /\ q \in Nat
    BY FarEnds DEF Transfer, StockInv
  <1>2. balances \in [Locations -> Int]
    BY <1>1, StockAssumption DEF TypeOK
  <1>3. /\ balances'[s] = balances[s] - q
        /\ \A k \in Locations \ {s} : balances'[k] >= balances[k] /\ balances'[k] \in Int
    BY <1>1, <1>2
  <1>4. ASSUME NEW k \in Locations, NEW i \in Instants
        PROVE  HeldAt(k, i)' = HeldAt(k, i) /\ HeldAt(k, i) \in Nat
    <2>1. HeldAt(k, i)' = HeldAt(k, i)
      BY <1>1 DEF HeldAt, QuantityOf, Held
    <2> DEFINE at == {r \in Held : /\ reservations[r].location = k
                                   /\ reservations[r].window.from <= i
                                   /\ i < reservations[r].window.to}
    <2>2. at \in SUBSET Held /\ HeldAt(k, i) = QuantityOf(at)
      BY DEF HeldAt
    <2> HIDE DEF at
    <2> QED BY <1>1, <2>1, <2>2, QuantityType
  <1>5. ASSUME NEW i \in Instants
        PROVE  HeldAt(s, i) <= ReservedQuantity(s) /\ ReservedQuantity(s) \in Nat
    <2> DEFINE at == {r \in Held : /\ reservations[r].location = s
                                   /\ reservations[r].window.from <= i
                                   /\ i < reservations[r].window.to}
               there == {r \in Held : reservations[r].location = s}
    <2>1. /\ at \in SUBSET there /\ there \in SUBSET Held
          /\ HeldAt(s, i) = QuantityOf(at) /\ ReservedQuantity(s) = QuantityOf(there)
      BY DEF HeldAt, ReservedQuantity
    <2> HIDE DEF at, there
    <2> QED BY <1>1, <2>1, QuantityType, QuantityMonotone
  <1>6. ASSUME NEW k \in Locations, NEW i \in Instants, HeldAt(k, i)' > balances'[k]
        PROVE  HeldAt(k, i) > balances[k]
    <2>1. CASE k = s
      BY <1>1, <1>2, <1>3, <1>4, <1>5, <1>6, <2>1
    <2>2. CASE k # s
      BY <1>2, <1>3, <1>4, <1>6, <2>2
    <2> QED BY <2>1, <2>2
  <1> QED BY <1>6 DEF Overbooked

\* Neither reserving stock nor moving it between locations overbooks a moment that was
\* not overbooked before.
THEOREM HoldsStayCovered == Spec => HoldsNeverOverbook
  <1>1. ASSUME StockInv, [Next]_vars
        PROVE  [(\/ \E r \in Reservations, q \in Quantities, l \in Locations, w \in Windows :
                      Reserve(r, q, l, w)
                 \/ \E l, d \in Locations, q \in Quantities : Transfer(l, d, q))
                => Overbooked' \subseteq Overbooked]_vars
    BY <1>1, ReserveOverbooksNothing, TransferOverbooksNothing
  <1> QED BY <1>1, StockInvariance, PTL DEF Spec, HoldsNeverOverbook
=============================================================================
