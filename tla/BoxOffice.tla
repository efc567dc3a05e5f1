------------------------------ MODULE BoxOffice ------------------------------
(***************************************************************************)
(* domain/box_office_ledger.py: the tickets and the money of a performance.*)
(*                                                                         *)
(* A call is one action.  Money is in cents and a tax rate in percent.     *)
(* What the code computes in decimal fractions is computed exactly here:   *)
(* the two agree for sales of up to four tickets, whose shares have no     *)
(* half cent that a repeating fraction could miss.  Names, currencies and  *)
(* times are left out.                                                     *)
(***************************************************************************)
EXTENDS Integers, FiniteSets, Functions

CONSTANTS SaleIds,
          Bands,       \* code -> [face_value, service_fee, tax_rate, allocation]
          Tenders,     \* how paid sales are paid for
          Comp,        \* the tender of complimentary tickets
          Quantities,  \* tickets sold at once
          Discounts,
          Capacity,
          NoSale

ASSUME BoxAssumption ==
    /\ Capacity \in Nat \ {0} /\ Quantities \subseteq 1..4 /\ Discounts \subseteq Nat
    /\ Comp \notin Tenders /\ IsFiniteSet(Tenders)
    /\ \A code \in DOMAIN Bands :
           /\ {Bands[code].face_value, Bands[code].service_fee, Bands[code].tax_rate} \subseteq Nat
           /\ Bands[code].allocation \in Nat \ {0} /\ Bands[code].tax_rate <= 100

\* TicketSale, its money in cents.
Sale == [band_code : DOMAIN Bands, quantity : Quantities, tender : Tenders \cup {Comp},
         unit_price : Nat, service_fee : Nat, tax : Nat, discount : Nat,
         refunded_quantity : Nat, refund_total : Nat]

ASSUME NoSaleAssumption == NoSale \notin Sale

VARIABLES bands,   \* codes of the bands added
          sales,   \* id -> NoSale or Sale
          shares   \* id -> how often the sale was refunded, and its exact share

boxVars == <<bands, sales, shares>>

Sold == {s \in SaleIds : sales[s] # NoSale}
SumOver(F(_), S) == SumFunctionOnSet([x \in S |-> F(x)], S)
HalfUp(numerator, denominator) == (2 * numerator + denominator) \div (2 * denominator)

(***************************************************************************)
(* TicketSale.                                                             *)
(***************************************************************************)
Gross(s) == sales[s].unit_price * sales[s].quantity
FeeTotal(s) == sales[s].service_fee * sales[s].quantity
Total(s) == Gross(s) + FeeTotal(s) + sales[s].tax - sales[s].discount
NetTotal(s) == Total(s) - sales[s].refund_total
ActiveQuantity(s) == sales[s].quantity - sales[s].refunded_quantity

OfBand(code) == {s \in Sold : sales[s].band_code = code}
AvailableIn(code) == Bands[code].allocation - SumOver(ActiveQuantity, OfBand(code))
AvailableInAll == Capacity - SumOver(ActiveQuantity, Sold)

(***************************************************************************)
(* The calls.                                                              *)
(***************************************************************************)
AddBand(code) ==
    /\ code \notin bands
    /\ SumOver(LAMBDA c : Bands[c].allocation, bands) + Bands[code].allocation <= Capacity
    /\ bands' = bands \cup {code}
    /\ UNCHANGED <<sales, shares>>

RecordSale(s, code, quantity, tender, discount) ==
    /\ s \notin Sold /\ code \in bands
    /\ quantity <= AvailableIn(code)
    /\ IF tender = Comp THEN discount = 0 ELSE discount <= Bands[code].face_value * quantity
    /\ LET paid == IF tender = Comp THEN 0 ELSE 1
           taxed == Bands[code].face_value * quantity - discount
       IN  sales' = [sales EXCEPT ![s] =
                        [band_code |-> code, quantity |-> quantity, tender |-> tender,
                         unit_price |-> paid * Bands[code].face_value,
                         service_fee |-> paid * Bands[code].service_fee,
                         tax |-> paid * HalfUp(taxed * Bands[code].tax_rate, 100),
                         discount |-> discount,
                         refunded_quantity |-> 0, refund_total |-> 0]]
    /\ UNCHANGED <<bands, shares>>

\* What a refund owes, times the tickets of the sale.
RefundShare(s, quantity, refund_fees) ==
    (Gross(s) - sales[s].discount + sales[s].tax + (IF refund_fees THEN FeeTotal(s) ELSE 0))
        * quantity

\* Mutant: the whole tax goes back with every refund.
RefundWithTax(s, quantity, refund_fees) ==
    /\ s \in Sold /\ sales[s].tender # Comp
    /\ quantity <= ActiveQuantity(s)
    /\ LET share == RefundShare(s, quantity, refund_fees)
       IN  /\ sales' = [sales EXCEPT ![s].refunded_quantity = @ + quantity,
                                     ![s].refund_total = @ + sales[s].tax
                                        + HalfUp(share - sales[s].tax * quantity, sales[s].quantity)]
           /\ shares' = [shares EXCEPT ![s] = [calls |-> @.calls + 1, exact |-> @.exact + share]]
    /\ UNCHANGED bands

\* Every refund is rounded by itself.
Refund(s, quantity, refund_fees) ==
    /\ s \in Sold /\ sales[s].tender # Comp
    /\ quantity <= ActiveQuantity(s)
    /\ LET share == RefundShare(s, quantity, refund_fees)
       IN  /\ sales' = [sales EXCEPT ![s].refunded_quantity = @ + quantity,
                                     ![s].refund_total = @ + HalfUp(share, sales[s].quantity)]
           /\ shares' = [shares EXCEPT ![s] = [calls |-> @.calls + 1, exact |-> @.exact + share]]
    /\ UNCHANGED bands

ReleaseComps(s, quantity) ==
    /\ s \in Sold /\ sales[s].tender = Comp
    /\ quantity <= ActiveQuantity(s)
    /\ sales' = [sales EXCEPT ![s].refunded_quantity = @ + quantity]
    /\ UNCHANGED <<bands, shares>>

(***************************************************************************)
(* The reports.                                                            *)
(***************************************************************************)
BandSales(code) ==
    [sold |-> SumOver(LAMBDA s : sales[s].quantity, OfBand(code)),
     active |-> SumOver(ActiveQuantity, OfBand(code)),
     net_receipts |-> SumOver(NetTotal, OfBand(code))]

Settlement ==
    LET sold == SumOver(LAMBDA s : sales[s].quantity, Sold)
        refunded == SumOver(LAMBDA s : sales[s].refunded_quantity, Sold)
    IN  [attendance |-> sold - refunded,
         complimentary |-> SumOver(ActiveQuantity, {s \in Sold : sales[s].tender = Comp}),
         gross_sales |-> SumOver(Gross, Sold),
         discounts |-> SumOver(LAMBDA s : sales[s].discount, Sold),
         fees |-> SumOver(FeeTotal, Sold),
         taxes |-> SumOver(LAMBDA s : sales[s].tax, Sold),
         refunds |-> SumOver(LAMBDA s : sales[s].refund_total, Sold),
         net_receipts |-> SumOver(NetTotal, Sold)]

\* Mutant: what was refunded is still counted with its tender.
TenderTotalUnrefunded(tender) == SumOver(Total, {s \in Sold : sales[s].tender = tender})

TenderTotal(tender) == SumOver(NetTotal, {s \in Sold : sales[s].tender = tender})

\* Declared is what was counted by tender; an amount below zero is refused.
Reconcile(declared, tolerance) ==
    LET variance == SumFunctionOnSet(declared, DOMAIN declared) - Settlement.net_receipts
    IN  IF \E tender \in DOMAIN declared : declared[tender] < 0 THEN "refused"
        ELSE IF -tolerance <= variance /\ variance <= tolerance THEN "balanced"
        ELSE "off"

\* No call is made: all sales the bound allows are made.
BoxRests == Sold = SaleIds /\ UNCHANGED boxVars

BoxInit ==
    /\ bands = {}
    /\ sales = [s \in SaleIds |-> NoSale]
    /\ shares = [s \in SaleIds |-> [calls |-> 0, exact |-> 0]]

BoxNext ==
    \/ \E code \in DOMAIN Bands : AddBand(code)
    \/ \E s \in SaleIds, quantity \in Quantities :
           \/ \E code \in DOMAIN Bands, tender \in Tenders \cup {Comp}, discount \in Discounts :
                  RecordSale(s, code, quantity, tender, discount)
           \/ \E refund_fees \in BOOLEAN : Refund(s, quantity, refund_fees)
           \/ ReleaseComps(s, quantity)
    \/ BoxRests

(***************************************************************************)
(* Properties.                                                             *)
(***************************************************************************)
BoxTypeOK ==
    /\ bands \subseteq DOMAIN Bands
    /\ \A s \in Sold : /\ sales[s].band_code \in bands
                       /\ sales[s].tender \in Tenders \cup {Comp}
                       /\ sales[s].refunded_quantity \in 0..sales[s].quantity

ReportsAgree ==
    LET report == Settlement
    IN  /\ \A code \in bands : AvailableIn(code) >= 0
        /\ AvailableInAll >= 0 /\ report.attendance = Capacity - AvailableInAll
        /\ report.complimentary <= report.attendance
        /\ report.attendance = SumOver(LAMBDA c : BandSales(c).active, bands)
        /\ report.net_receipts = SumOver(LAMBDA c : BandSales(c).net_receipts, bands)
        /\ report.net_receipts = SumOver(TenderTotal, Tenders) /\ TenderTotal(Comp) = 0
        /\ report.net_receipts = report.gross_sales - report.discounts + report.fees
                                     + report.taxes - report.refunds
        /\ Reconcile([tender \in Tenders |-> TenderTotal(tender)], 0) =
               IF \E s \in Sold : NetTotal(s) < 0
                   /\ \E tender \in Tenders : TenderTotal(tender) < 0
               THEN "refused" ELSE "balanced"

\* No band and no house is oversold, refunds and released tickets included, and
\* the settlement, the tenders and the bands tell the same money and the same
\* seats, to the cent: its own tender totals reconcile with the ledger, except that
\* reconcile refuses them when a sale whose refunds were rounded up beyond what was
\* paid for it leaves a tender below nothing.
BooksBalance == BoxTypeOK /\ ReportsAgree

\* What was given back for a sale is off from the exact share of the tickets given
\* back by at most half a cent per refund: refunds one by one can exceed what was
\* paid, but by no more than that.
RefundsMatchShares ==
    \A s \in Sold :
        LET off == sales[s].quantity * sales[s].refund_total - shares[s].exact
        IN  /\ 2 * off <= sales[s].quantity * shares[s].calls
            /\ -2 * off <= sales[s].quantity * shares[s].calls
            /\ 2 * NetTotal(s) >= -shares[s].calls
=============================================================================
