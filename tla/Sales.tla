------------------------------- MODULE Sales -------------------------------
(***************************************************************************)
(* SalesService of one tenant: createSale with its totals, and refundSale. *)
(*                                                                         *)
(* A request reads first and writes in one transaction later; requests     *)
(* interleave between the two, and may end there.  Sales are named by      *)
(* their clientMutationId, which is unique.  Money is counted in quarters  *)
(* of a cent.  voidSale changes nothing: it asks for a sale that is OPEN,  *)
(* and no code ever writes that status.                                    *)
(***************************************************************************)
EXTENDS Integers, SequencesExt

CONSTANTS
  SaleIds,       \* clientMutationIds
  SaleCalls,     \* slots for concurrent requests
  Carts,         \* sequences of [price, quantity, discount, rate], of distinct
                 \* variants (repeated ones are a matter of InventoryLedger)
  Tenders,       \* [cash, credit, customer]: the payments offered, and whether
                 \* the sale names a customer
  RefundAmounts, \* amounts asked for; 0 stands for "omitted", the whole rest
  MaxRefunded    \* bound: the sum refunded for a sale

ASSUME SalesAssumption ==
  /\ IsFiniteSet(SaleIds)
  /\ RefundAmounts \subseteq Nat
  /\ MaxRefunded \in Nat
  /\ \A t \in Tenders : t.cash \in Nat /\ t.credit \in Nat /\ t.cash + t.credit > 0

VARIABLES
  sale,        \* the Sale rows, with what their lines and payments add up to
  refunded,    \* the sum of the Refund rows of a sale
  returned,    \* units the refunds of a sale have put back in stock
  owed,        \* Customer.balance
  shelf,       \* units in stock, from the level at the start
  saleCall,    \* the requests
  refundRace,  \* history: sales with a refund that had not read another one
  fractional   \* history: sales with a refund that was not whole cents

salesVars == <<sale, refunded, returned, owed, shelf, saleCall, refundRace,
               fractional>>

\* decimal.js, ROUND_HALF_UP: n / d to the nearest, halves away from zero.
RoundQuotient(n, d) ==
  IF n >= 0 THEN (2 * n + d) \div (2 * d) ELSE -((d - 2 * n) \div (2 * d))

\* Money.round, Money.toDecimalString: to the cent.
Cents(x) == 4 * RoundQuotient(x, 4)

\* Money.add over a sequence of amounts.
Adding(amounts) == FoldLeft(LAMBDA sum, x : sum + x, 0, amounts)

Gross(line) == line.price * line.quantity

\* percentage(taxRate).round()
Tax(line) == 4 * RoundQuotient((Gross(line) - line.discount) * line.rate, 400)

LineTotal(line) == Gross(line) - line.discount + Tax(line)

\* subtotal - discountTotal + taxTotal, none of them rounded yet.
CartTotal(cart) ==
  Adding([n \in DOMAIN cart |-> Gross(cart[n])])
    - Adding([n \in DOMAIN cart |-> cart[n].discount])
    + Adding([n \in DOMAIN cart |-> Tax(cart[n])])

Units(cart) == Adding([n \in DOMAIN cart |-> cart[n].quantity])

\* createSaleSchema: at least one line, of at least one unit, and nothing negative.
CartLines == [price : Nat, quantity : Nat \ {0}, discount : Nat, rate : Nat]

ASSUME CartsAssumption == \A cart \in Carts : cart \in Seq(CartLines) /\ cart # <<>>

NoSale == [status |-> "absent", total |-> 0, lineTotals |-> 0, paid |-> 0,
           credit |-> 0, units |-> 0, lines |-> 0]

\* What createSale stores: amounts rounded each by itself, payments as they are.
SaleRow(cart, tender) ==
  [status |-> "COMPLETED", total |-> Cents(CartTotal(cart)),
   lineTotals |-> Adding([n \in DOMAIN cart |-> Cents(LineTotal(cart[n]))]),
   paid |-> tender.cash + tender.credit,
   credit |-> IF tender.customer THEN Cents(tender.credit) ELSE 0,
   units |-> Units(cart), lines |-> Len(cart)]

SaleIdle == [step |-> "idle", id |-> "none", cart |-> <<>>, tender |-> <<>>,
             amount |-> 0, read |-> 0, restock |-> FALSE]

\* No sales yet.
SalesInit ==
  /\ sale = [m \in SaleIds |-> NoSale]
  /\ refunded = [m \in SaleIds |-> 0] /\ returned = [m \in SaleIds |-> 0]
  /\ owed = 0 /\ shelf = 0
  /\ saleCall = [c \in SaleCalls |-> SaleIdle]
  /\ refundRace = {} /\ fractional = {}

SaleDone(c) == saleCall' = [saleCall EXCEPT ![c] = SaleIdle]
-----------------------------------------------------------------------------
(* createSale *)

\* The sale is not there yet and the payments equal the total, before rounding.
\* (A sale that is there is returned as it is.)
StartSale(c) ==
  /\ saleCall[c].step = "idle"
  /\ \E m \in SaleIds, cart \in Carts, tender \in Tenders :
       /\ sale[m].status = "absent"
       /\ tender.cash + tender.credit = CartTotal(cart)
       /\ saleCall' = [saleCall EXCEPT ![c] =
                         [SaleIdle EXCEPT !.step = "create", !.id = m,
                                          !.cart = cart, !.tender = tender]]
  /\ UNCHANGED <<sale, refunded, returned, owed, shelf, refundRace, fractional>>

\* Mutant: no unique index on clientMutationId.
InsertableAlways(m) == TRUE

\* @@unique([tenantId, clientMutationId])
Insertable(m) == sale[m].status = "absent"

\* One transaction: the sale with lines and payments, a SALE movement per line,
\* the customer's balance, the audit row and the sale.created event.
CommitSale(c) ==
  LET m == saleCall[c].id
      row == SaleRow(saleCall[c].cart, saleCall[c].tender)
  IN  /\ saleCall[c].step = "create"
      /\ Insertable(m)
      /\ sale' = [sale EXCEPT ![m] = row]
      /\ owed' = owed + row.credit
      /\ shelf' = shelf - row.units
      /\ SaleDone(c)
      /\ UNCHANGED <<refunded, returned, refundRace, fractional>>
-----------------------------------------------------------------------------
(* refundSale *)

\* Mutant: each refund is held against the total alone.
RefundableAlone(m, a) ==
  /\ sale[m].status \in {"COMPLETED", "PARTIALLY_REFUNDED"}
  /\ a > 0
  /\ a <= sale[m].total

\* Status, a positive amount, and not more than what is left.
Refundable(m, a) ==
  /\ sale[m].status \in {"COMPLETED", "PARTIALLY_REFUNDED"}
  /\ a > 0
  /\ refunded[m] + a <= sale[m].total

\* The sale and its refunds are read, outside the transaction.
StartRefund(c) ==
  /\ saleCall[c].step = "idle"
  /\ \E m \in SaleIds, asked \in RefundAmounts, restock \in BOOLEAN :
       LET a == IF asked = 0 THEN sale[m].total - refunded[m] ELSE asked
       IN  /\ Refundable(m, a)
           /\ refunded[m] + a <= MaxRefunded
           /\ saleCall' = [saleCall EXCEPT ![c] =
                             [SaleIdle EXCEPT !.step = "refund", !.id = m,
                                !.amount = a, !.read = refunded[m],
                                !.restock = restock]]
  /\ UNCHANGED <<sale, refunded, returned, owed, shelf, refundRace, fractional>>

\* isFullRefund, from what was read.
InFull(c) ==
  saleCall[c].read + saleCall[c].amount = sale[saleCall[c].id].total

Restocks(c) == saleCall[c].restock /\ InFull(c)

\* One transaction: the Refund row, the status, the returned goods (of every
\* line, to the branch's default location), the audit row and the event.
CommitRefund(c) ==
  LET m == saleCall[c].id
  IN  /\ saleCall[c].step = "refund"
      /\ refunded' = [refunded EXCEPT ![m] = @ + Cents(saleCall[c].amount)]
      /\ sale' = [sale EXCEPT ![m].status =
                    IF InFull(c) THEN "REFUNDED" ELSE "PARTIALLY_REFUNDED"]
      /\ IF Restocks(c)
           THEN /\ returned' = [returned EXCEPT ![m] = @ + sale[m].units]
                /\ shelf' = shelf + sale[m].units
           ELSE UNCHANGED <<returned, shelf>>
      /\ refundRace' = IF refunded[m] # saleCall[c].read
                         THEN refundRace \union {m} ELSE refundRace
      /\ fractional' = IF Cents(saleCall[c].amount) # saleCall[c].amount
                         THEN fractional \union {m} ELSE fractional
      /\ SaleDone(c)
      /\ UNCHANGED owed

\* A request ends without a commit: the database fails, a movement is refused,
\* or the insert meets the unique index.
EndSaleCall(c) ==
  /\ saleCall[c].step # "idle"
  /\ SaleDone(c)
  /\ UNCHANGED <<sale, refunded, returned, owed, shelf, refundRace, fractional>>

SalesNext == \E c \in SaleCalls : \/ StartSale(c) \/ CommitSale(c)
                                  \/ StartRefund(c) \/ CommitRefund(c)
                                  \/ EndSaleCall(c)

SalesSpec == SalesInit /\ [][SalesNext]_salesVars
-----------------------------------------------------------------------------
(* Properties *)

\* Refunds never add up to more than the sale ("Refund amount exceeds the
\* remaining refundable balance"), rounding included, unless two of them read
\* the sale before either was written.
RefundsWithinTotal ==
  \A m \in SaleIds \ refundRace : refunded[m] > 0 => refunded[m] <= sale[m].total

\* The status tells how much was refunded: all of it, or some.  It may be told
\* wrong by refunds that overlap, and by one that is rounded up to the whole
\* rest or down to nothing.
StatusTellsRefunds ==
  \A m \in SaleIds \ refundRace :
    /\ sale[m].status \in {"absent", "COMPLETED"} => refunded[m] = 0
    /\ sale[m].status = "REFUNDED" => refunded[m] = sale[m].total
    /\ sale[m].status = "PARTIALLY_REFUNDED" /\ m \notin fractional
         => 0 < refunded[m] /\ refunded[m] < sale[m].total

\* The goods of a sale go back once, all of them, and only with the refund that
\* completes it, unless refunds overlap.
ReturnedOnce ==
  \A m \in SaleIds \ refundRace :
    returned[m] # 0 => returned[m] = sale[m].units /\ sale[m].status = "REFUNDED"

\* However often a clientMutationId is sent, and by overlapping requests, the
\* customer owes the credit of the sales that exist, and stock is down by their
\* units, less those returned.
CountedOnce ==
  LET ids == SetToSeq(SaleIds)
  IN  /\ owed = Adding([n \in DOMAIN ids |-> sale[ids[n]].credit])
      /\ shelf = Adding([n \in DOMAIN ids |-> returned[ids[n]] - sale[ids[n]].units])

\* Lines and total are rounded each by itself and payments not at all, and still
\* agree with the total to half a cent per rounded amount.
TotalsAgree ==
  \A m \in SaleIds :
    LET row == sale[m]
        Within(x, n) == -2 * n <= x /\ x <= 2 * n
    IN  /\ Within(row.lineTotals - row.total, row.lines + 1)
        /\ Within(row.paid - row.total, 1)

\* Refunds fit the sale: in amount, in the status they leave and in the goods
\* that go back, unless refunds of one sale overlapped or were rounded.
RefundsFit == RefundsWithinTotal /\ StatusTellsRefunds /\ ReturnedOnce

\* Sales add up: lines, payments and total of each, and over all of them what
\* the customer owes and what is left on the shelf.
SalesAddUp == CountedOnce /\ TotalsAgree
=============================================================================
