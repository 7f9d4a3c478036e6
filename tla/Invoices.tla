------------------------------ MODULE Invoices ------------------------------
(***************************************************************************)
(* InvoicesService of one tenant: numbering, payments, void, delivery, the *)
(* public link, and quotes that become invoices.                           *)
(*                                                                         *)
(* Each request reads first and writes later, in statements of their own,  *)
(* so requests interleave between the two.  A transaction takes effect     *)
(* when it commits.  A request may be cut off at any step by a failing     *)
(* database or by the end of the process.                                  *)
(*                                                                         *)
(* Money is counted in quarters of a cent, so that rounding to the cent    *)
(* goes both ways.  The id of an invoice is its rank in order of creation: *)
(* row i exists when i <= count.                                           *)
(***************************************************************************)
EXTENDS Integers, FiniteSets

CONSTANTS
  Calls,         \* slots for concurrent requests
  Quotes,        \* Quote rows
  NoSource,      \* no quote
  Totals,        \* what the lines of a new invoice may add up to
  Prices,        \* unitPrice of a quote's line
  LineQuantities, \* its quantity
  Amounts,       \* payments that may be offered
  MaxTries,      \* attempts at an invoice number (3 in the code)
  MaxInvoices,   \* bound: invoices created
  Touched,       \* bound: invoices that are paid, voided, sent or revoked
  MaxPayments,   \* bound: the sum of the payments taken for an invoice
  FirstYear,     \* the year at the start
  LastYear       \* bound: the year at the end

ASSUME InvoicesAssumption ==
  /\ NoSource \notin Quotes
  /\ Totals \subseteq Int
  /\ Prices \subseteq Nat /\ LineQuantities \subseteq Nat \ {0}
  /\ Amounts \subseteq Nat \ {0}
  /\ MaxTries \in Nat \ {0} /\ MaxInvoices \in Nat
  /\ Touched \subseteq Nat /\ MaxPayments \in Nat
  /\ FirstYear \in Nat /\ LastYear \in Nat

Ids == 1..MaxInvoices

VARIABLES
  count,       \* how many Invoice rows there are
  numberYear, numberSeq,   \* Invoice.number: INV-<year>-<seq>
  status, total, amountPaid,
  payments,    \* the sum of the invoice's Payment rows
  receipt,     \* an invoice.paid event was published
  source,      \* history: the quote the invoice was made from
  voidedAt,    \* voidedAt is set
  revoked,     \* publicTokenRevokedAt is set
  delivered,   \* the mail or SMS provider reported a delivery
  audit,       \* AuditEvent rows: <<invoice, action>>
  quote,       \* the Quote rows
  year,        \* the calendar
  callPc, inv, read, readYear, amount, src, tries, act,   \* the requests
  begun,       \* history: count when the request began
  overlapped,  \* history: invoices with a payment written over another one
  raced        \* history: quotes with overlapping or unfinished conversions

numberVars == <<count, numberYear, numberSeq, total, source>>
payVars    == <<amountPaid, payments, receipt, overlapped>>
stateVars  == <<status, voidedAt, revoked, delivered>>
quoteVars  == <<quote, raced>>
callVars   == <<callPc, inv, read, readYear, amount, src, tries, act, begun>>
invoicesVars == <<count, numberYear, numberSeq, total, source, amountPaid, payments,
          receipt, overlapped, status, voidedAt, revoked, delivered, audit,
          quote, raced, year, callPc, inv, read, readYear, amount, src, tries,
          act, begun>>

Statuses == {"absent", "ISSUED", "PARTIALLY_PAID", "PAID", "VOID"}
Actions == {"created", "payment_recorded", "voided", "public_link_revoked",
            "sent_delivered"}
Steps == {"idle", "count", "insert", "failed", "link", "pay", "void", "send",
          "audit"}

RowsOK ==
  /\ count \in 0..MaxInvoices
  /\ numberYear \in [Ids -> Nat] /\ numberSeq \in [Ids -> Nat]
  /\ status \in [Ids -> Statuses]
  /\ total \in [Ids -> Int]
  /\ amountPaid \in [Ids -> Nat] /\ payments \in [Ids -> Nat]
  /\ receipt \in [Ids -> BOOLEAN]
  /\ source \in [Ids -> Quotes \union {NoSource}]
  /\ voidedAt \in [Ids -> BOOLEAN] /\ revoked \in [Ids -> BOOLEAN]
  /\ delivered \in [Ids -> BOOLEAN]
  /\ audit \subseteq Ids \X Actions
  /\ overlapped \subseteq Ids
  /\ year \in Nat

QuotesOK ==
  /\ quote \in [Quotes -> [status : {"absent", "DRAFT", "CONVERTED"},
                           unitPrice : Nat, quantity : Nat, total : Nat,
                           convertedInvoice : 0..MaxInvoices]]
  /\ raced \subseteq Quotes

CallsOK ==
  /\ callPc \in [Calls -> Steps]
  /\ inv \in [Calls -> 0..MaxInvoices]
  /\ read \in [Calls -> Nat] /\ readYear \in [Calls -> Nat]
  /\ amount \in [Calls -> Int]
  /\ src \in [Calls -> Quotes \union {NoSource}]
  /\ tries \in [Calls -> 0..MaxTries]
  /\ act \in [Calls -> Actions]
  /\ begun \in [Calls -> Nat]

InvoicesTypeOK == RowsOK /\ QuotesOK /\ CallsOK

NoQuote == [status |-> "absent", unitPrice |-> 0, quantity |-> 0, total |-> 0,
            convertedInvoice |-> 0]

\* A tenant without invoices or quotes.
InvoicesInit ==
  /\ count = 0
  /\ numberYear = [i \in Ids |-> 0] /\ numberSeq = [i \in Ids |-> 0]
  /\ status = [i \in Ids |-> "absent"]
  /\ total = [i \in Ids |-> 0]
  /\ amountPaid = [i \in Ids |-> 0] /\ payments = [i \in Ids |-> 0]
  /\ receipt = [i \in Ids |-> FALSE]
  /\ source = [i \in Ids |-> NoSource]
  /\ voidedAt = [i \in Ids |-> FALSE] /\ revoked = [i \in Ids |-> FALSE]
  /\ delivered = [i \in Ids |-> FALSE]
  /\ audit = {}
  /\ quote = [q \in Quotes |-> NoQuote]
  /\ year = FirstYear
  /\ callPc = [c \in Calls |-> "idle"]
  /\ inv = [c \in Calls |-> 0]
  /\ read = [c \in Calls |-> 0] /\ readYear = [c \in Calls |-> 0]
  /\ amount = [c \in Calls |-> 0]
  /\ src = [c \in Calls |-> NoSource]
  /\ tries = [c \in Calls |-> 0]
  /\ act = [c \in Calls |-> "created"]
  /\ begun = [c \in Calls |-> 0]
  /\ overlapped = {} /\ raced = {}

\* Money.toDecimalString: to the nearest cent, halves away from zero.
ToCents(x) == IF x >= 0 THEN 4 * ((x + 2) \div 4) ELSE -(4 * ((2 - x) \div 4))

Exists(i) == i \in Ids /\ i <= count

\* The request ends, whatever its outcome, and its slot is free again.
Finish(c) ==
  /\ callPc' = [callPc EXCEPT ![c] = "idle"]
  /\ inv' = [inv EXCEPT ![c] = 0]
  /\ read' = [read EXCEPT ![c] = 0]
  /\ readYear' = [readYear EXCEPT ![c] = 0]
  /\ amount' = [amount EXCEPT ![c] = 0]
  /\ src' = [src EXCEPT ![c] = NoSource]
  /\ tries' = [tries EXCEPT ![c] = 0]
  /\ act' = [act EXCEPT ![c] = "created"]
  /\ begun' = [begun EXCEPT ![c] = 0]
-----------------------------------------------------------------------------
(* createInvoice *)

\* What the allocation loop starts from: a total, perhaps a quote.
BeginCreate(c, t, q) ==
  /\ callPc[c] = "idle"
  /\ callPc' = [callPc EXCEPT ![c] = "count"]
  /\ amount' = [amount EXCEPT ![c] = t]
  /\ src' = [src EXCEPT ![c] = q]
  /\ begun' = [begun EXCEPT ![c] = count]
  /\ UNCHANGED <<inv, read, readYear, tries, act>>

\* Branch and customer are found and the lines added up (without rounding).
CreateInvoice(c) ==
  /\ \E t \in Totals : BeginCreate(c, t, NoSource)
  /\ UNCHANGED <<numberVars, payVars, stateVars, audit, quoteVars, year>>

\* The transaction begins: generateInvoiceNumber counts the committed rows.
Count(c) ==
  /\ callPc[c] = "count"
  /\ callPc' = [callPc EXCEPT ![c] = "insert"]
  /\ read' = [read EXCEPT ![c] = count]
  /\ readYear' = [readYear EXCEPT ![c] = year]
  /\ UNCHANGED <<numberVars, payVars, stateVars, audit, quoteVars, year, inv,
                 amount, src, tries, act, begun>>

\* @@unique([tenantId, number])
Taken(y, n) == \E i \in Ids : i <= count /\ numberYear[i] = y /\ numberSeq[i] = n

\* count + 1
NumberAfter(n) == n + 1

\* Mutant: a conflict tries the same number again.
RetrySameNumber(c) ==
  IF tries[c] + 1 < MaxTries THEN callPc' = callPc
                             ELSE callPc' = [callPc EXCEPT ![c] = "failed"]

\* P2002 rolls the transaction back: the loop counts again, MaxTries times.
Retry(c) ==
  callPc' = [callPc EXCEPT ![c] =
               IF tries[c] + 1 < MaxTries THEN "count" ELSE "failed"]

\* The insert meets its own number, committed by another request.
InsertConflict(c) ==
  /\ callPc[c] = "insert"
  /\ \E y \in readYear[c]..year : Taken(y, NumberAfter(read[c]))
  /\ Retry(c)
  /\ tries' = [tries EXCEPT ![c] = @ + 1]
  /\ UNCHANGED <<numberVars, payVars, stateVars, audit, quoteVars, year, inv,
                 read, readYear, amount, src, act, begun>>

\* The insert commits with its audit row (and its invoice.issued event).  The
\* year of the number was read some time after the count.
Insert(c) ==
  /\ callPc[c] = "insert"
  /\ count < MaxInvoices
  /\ \E y \in readYear[c]..year :
       /\ ~Taken(y, NumberAfter(read[c]))
       /\ numberYear' = [numberYear EXCEPT ![count + 1] = y]
  /\ count' = count + 1
  /\ numberSeq' = [numberSeq EXCEPT ![count + 1] = NumberAfter(read[c])]
  /\ total' = [total EXCEPT ![count + 1] = ToCents(amount[c])]
  /\ source' = [source EXCEPT ![count + 1] = src[c]]
  /\ status' = [status EXCEPT ![count + 1] = "ISSUED"]
  /\ audit' = audit \union {<<count + 1, "created">>}
  /\ IF src[c] = NoSource
       THEN Finish(c)
       ELSE /\ callPc' = [callPc EXCEPT ![c] = "link"]
            /\ inv' = [inv EXCEPT ![c] = count + 1]
            /\ UNCHANGED <<read, readYear, amount, src, tries, act, begun>>
  /\ UNCHANGED <<payVars, voidedAt, revoked, delivered, quoteVars, year>>

\* The third conflict is thrown to the client.
GiveUp(c) ==
  /\ callPc[c] = "failed"
  /\ Finish(c)
  /\ UNCHANGED <<numberVars, payVars, stateVars, audit, quoteVars, year>>
-----------------------------------------------------------------------------
(* Quotes *)

\* createQuote stores the price of a unit and the total, each rounded.
CreateQuote(q) ==
  /\ quote[q].status = "absent"
  /\ \E p \in Prices, n \in LineQuantities :
       quote' = [quote EXCEPT ![q] =
                   [status |-> "DRAFT", unitPrice |-> ToCents(p), quantity |-> n,
                    total |-> ToCents(p * n), convertedInvoice |-> 0]]
  /\ UNCHANGED <<numberVars, payVars, stateVars, audit, raced, year, callVars>>

\* Mutant: the status of the quote is not looked at.
ConvertAnyQuote(c) ==
  /\ \E q \in Quotes :
       /\ quote[q].status # "absent"
       /\ BeginCreate(c, quote[q].unitPrice * quote[q].quantity, q)
       /\ raced' = IF \E d \in Calls : src[d] = q THEN raced \union {q} ELSE raced
  /\ UNCHANGED <<numberVars, payVars, stateVars, audit, quote, year>>

\* convertQuoteToInvoice reads a quote that is not converted yet; the invoice's
\* lines carry the rounded price of a unit.
ConvertQuote(c) ==
  /\ \E q \in Quotes :
       /\ quote[q].status = "DRAFT"
       /\ BeginCreate(c, quote[q].unitPrice * quote[q].quantity, q)
       /\ raced' = IF \E d \in Calls : src[d] = q THEN raced \union {q} ELSE raced
  /\ UNCHANGED <<numberVars, payVars, stateVars, audit, quote, year>>

\* Mutant: convertedInvoiceId is not written.
LinkQuoteStatusOnly(c) ==
  /\ callPc[c] = "link"
  /\ quote' = [quote EXCEPT ![src[c]].status = "CONVERTED"]
  /\ Finish(c)
  /\ UNCHANGED <<numberVars, payVars, stateVars, audit, raced, year>>

\* ... and is marked after the invoice's transaction.
LinkQuote(c) ==
  /\ callPc[c] = "link"
  /\ quote' = [quote EXCEPT ![src[c]].status = "CONVERTED",
                            ![src[c]].convertedInvoice = inv[c]]
  /\ Finish(c)
  /\ UNCHANGED <<numberVars, payVars, stateVars, audit, raced, year>>
-----------------------------------------------------------------------------
(* recordPayment *)

\* Mutant: a voided invoice is paid like any other.
PayableVoided(i, a) == amountPaid[i] + a <= total[i]

\* The checks: not void, and not more than what is outstanding.
Payable(i, a) == status[i] # "VOID" /\ amountPaid[i] + a <= total[i]

\* The invoice is read and checked.
StartPayment(c) ==
  /\ callPc[c] = "idle"
  /\ \E i \in Touched, a \in Amounts :
       /\ Exists(i) /\ Payable(i, a)
       /\ payments[i] < MaxPayments
       /\ inv' = [inv EXCEPT ![c] = i]
       /\ amount' = [amount EXCEPT ![c] = a]
       /\ read' = [read EXCEPT ![c] = amountPaid[i]]
  /\ callPc' = [callPc EXCEPT ![c] = "pay"]
  /\ UNCHANGED <<numberVars, payVars, stateVars, audit, quoteVars, year,
                 readYear, src, tries, act, begun>>

\* Mutant: the new balance is cut off, not rounded, to the cent.
NewPaidCutOff(c) == 4 * ((read[c] + amount[c]) \div 4)

\* The new amountPaid, from the balance that was read.
NewPaid(c) == ToCents(read[c] + amount[c])

\* Compared before rounding.
PaysInFull(c) == read[c] + amount[c] = total[inv[c]]

\* One transaction: the Payment row, the invoice's balance and status, the
\* audit row and, for an invoice now paid, the invoice.paid event.
Pay(c) ==
  /\ callPc[c] = "pay"
  /\ payments' = [payments EXCEPT ![inv[c]] = @ + ToCents(amount[c])]
  /\ amountPaid' = [amountPaid EXCEPT ![inv[c]] = NewPaid(c)]
  /\ status' = [status EXCEPT ![inv[c]] =
                  IF PaysInFull(c) THEN "PAID" ELSE "PARTIALLY_PAID"]
  /\ receipt' = [receipt EXCEPT ![inv[c]] = @ \/ PaysInFull(c)]
  /\ audit' = audit \union {<<inv[c], "payment_recorded">>}
  /\ overlapped' = IF amountPaid[inv[c]] # read[c]
                     THEN overlapped \union {inv[c]} ELSE overlapped
  /\ Finish(c)
  /\ UNCHANGED <<numberVars, voidedAt, revoked, delivered, quoteVars, year>>
-----------------------------------------------------------------------------
(* voidInvoice, revokePublicLink and send: the audit row is a statement of *)
(* its own, after the change it tells of.                                  *)

\* voidInvoice reads an invoice that is not paid in full.
StartVoid(c) ==
  /\ callPc[c] = "idle"
  /\ \E i \in Touched : /\ Exists(i) /\ status[i] # "PAID"
                        /\ inv' = [inv EXCEPT ![c] = i]
  /\ callPc' = [callPc EXCEPT ![c] = "void"]
  /\ UNCHANGED <<numberVars, payVars, stateVars, audit, quoteVars, year, read,
                 readYear, amount, src, tries, act, begun>>

\* The change is made; its audit row is to be written.
ThenAudit(c, action) ==
  /\ callPc' = [callPc EXCEPT ![c] = "audit"]
  /\ act' = [act EXCEPT ![c] = action]
  /\ UNCHANGED <<read, readYear, amount, src, tries, begun>>

Void(c) ==
  /\ callPc[c] = "void"
  /\ status' = [status EXCEPT ![inv[c]] = "VOID"]
  /\ voidedAt' = [voidedAt EXCEPT ![inv[c]] = TRUE]
  /\ ThenAudit(c, "voided")
  /\ UNCHANGED <<numberVars, payVars, revoked, delivered, audit, quoteVars,
                 year, inv>>

\* revokePublicLink
Revoke(c) ==
  /\ callPc[c] = "idle"
  /\ \E i \in Touched : /\ Exists(i)
                        /\ revoked' = [revoked EXCEPT ![i] = TRUE]
                        /\ inv' = [inv EXCEPT ![c] = i]
  /\ ThenAudit(c, "public_link_revoked")
  /\ UNCHANGED <<numberVars, payVars, status, voidedAt, delivered, audit,
                 quoteVars, year>>

\* send reads an invoice whose link is not revoked.
StartSend(c) ==
  /\ callPc[c] = "idle"
  /\ \E i \in Touched : /\ Exists(i) /\ ~revoked[i]
                        /\ inv' = [inv EXCEPT ![c] = i]
  /\ callPc' = [callPc EXCEPT ![c] = "send"]
  /\ UNCHANGED <<numberVars, payVars, stateVars, audit, quoteVars, year, read,
                 readYear, amount, src, tries, act, begun>>

\* The adapter answers with what became of the message.  (The audit row of one
\* that was not delivered claims nothing, and is left out.)
Send(c) ==
  /\ callPc[c] = "send"
  /\ \/ /\ delivered' = [delivered EXCEPT ![inv[c]] = TRUE]
        /\ ThenAudit(c, "sent_delivered")
        /\ UNCHANGED inv
     \/ /\ UNCHANGED delivered
        /\ Finish(c)
  /\ UNCHANGED <<numberVars, payVars, status, voidedAt, revoked, audit,
                 quoteVars, year>>

\* audit.record outside a transaction.
RecordAudit(c) ==
  /\ callPc[c] = "audit"
  /\ audit' = audit \union {<<inv[c], act[c]>>}
  /\ Finish(c)
  /\ UNCHANGED <<numberVars, payVars, stateVars, quoteVars, year>>
-----------------------------------------------------------------------------
\* A request ends before its next statement.  A conversion that has made its
\* invoice leaves its quote as it was.
CutOff(c) ==
  /\ callPc[c] # "idle"
  /\ raced' = IF callPc[c] = "link" THEN raced \union {src[c]} ELSE raced
  /\ Finish(c)
  /\ UNCHANGED <<numberVars, payVars, stateVars, audit, quote, year>>

NewYear ==
  /\ year < LastYear
  /\ year' = year + 1
  /\ UNCHANGED <<numberVars, payVars, stateVars, audit, quoteVars, callVars>>

InvoicesNext ==
  \/ \E c \in Calls :
       \/ CreateInvoice(c) \/ Count(c) \/ InsertConflict(c) \/ Insert(c) \/ GiveUp(c)
       \/ ConvertQuote(c) \/ LinkQuote(c)
       \/ StartPayment(c) \/ Pay(c)
       \/ StartVoid(c) \/ Void(c) \/ Revoke(c) \/ StartSend(c) \/ Send(c)
       \/ RecordAudit(c) \/ CutOff(c)
  \/ \E q \in Quotes : CreateQuote(q)
  \/ NewYear

InvoicesSpec == InvoicesInit /\ [][InvoicesNext]_invoicesVars
-----------------------------------------------------------------------------
(* Properties *)

\* Numbering by count never locks itself out: whatever requests overlapped, and
\* across the turn of a year, the number after the present count is free, so
\* that a createInvoice that runs alone gets its number at the first attempt.
NextNumberFree == \A i \in Ids : i <= count => numberSeq[i] <= count

\* createInvoice reports a conflict only when MaxTries other invoices were
\* created while it ran.
FailsOnlyUnderContention ==
  \A c \in Calls : callPc[c] = "failed" => count >= begun[c] + MaxTries

\* However payments overlap and are rounded, amountPaid never says more than
\* the payments that were taken nor more than the total, and neither PAID nor
\* the receipt in invoice.paid is given before they cover the total.
PaidIsBacked ==
  \A i \in Ids :
    /\ amountPaid[i] <= payments[i]
    /\ amountPaid[i] > 0 => amountPaid[i] <= total[i]
    /\ status[i] = "PAID" \/ receipt[i] => payments[i] >= total[i]

\* Rounding alone never puts amountPaid and the Payment rows apart, nor lets an
\* invoice be overpaid ("Payment exceeds the outstanding invoice balance"): that
\* takes a payment written over one it had not read.
BooksBalance ==
  \A i \in Ids \ overlapped :
    /\ amountPaid[i] = payments[i]
    /\ payments[i] > 0 => payments[i] <= total[i]

\* Nobody who read the invoice earlier is still about to write its status.
Settled(i) ==
  \/ status[i] = "VOID" /\ ~\E c \in Calls : inv[c] = i /\ callPc[c] = "pay"
  \/ status[i] = "PAID" /\ ~\E c \in Calls : inv[c] = i /\ callPc[c] \in {"pay", "void"}

\* VOID and PAID are final once payments and voids that had read the invoice
\* before are over: it keeps its status and takes no more money.  (Until then a
\* void is written over a payment, and a payment over a void.)
SettledStays ==
  [][\A i \in Ids : Settled(i) =>
       Settled(i)' /\ status'[i] = status[i] /\ payments'[i] = payments[i]]_invoicesVars

\* A quote yields a second invoice only when two conversions overlapped or one
\* was cut off between the invoice and the quote's update.
OneInvoicePerQuote ==
  \A q \in Quotes \ raced : \A i, j \in Ids : source[i] = q /\ source[j] = q => i = j

\* A converted quote names an invoice that was made from it, and whose total is
\* off by no more than the rounding of the unit price and of the total.
ConversionFaithful ==
  \A q \in Quotes : quote[q].status = "CONVERTED" =>
    LET i == quote[q].convertedInvoice
    IN  /\ Exists(i) /\ source[i] = q
        /\ total[i] - quote[q].total \in
             -(2 * quote[q].quantity + 2)..(2 * quote[q].quantity + 2)

\* What is written in one transaction with its audit row is audited, and no
\* audit row tells of something that did not happen, although those of a void,
\* a revocation and a message are written afterwards and may be lost.
AuditTellsTheTruth ==
  /\ \A i \in Ids : i <= count <=> <<i, "created">> \in audit
  /\ \A i \in Ids : payments[i] > 0 => <<i, "payment_recorded">> \in audit
  /\ \A i \in Ids : <<i, "voided">> \in audit => voidedAt[i]
  /\ \A i \in Ids : <<i, "public_link_revoked">> \in audit => revoked[i]
  /\ \A i \in Ids : <<i, "sent_delivered">> \in audit => delivered[i]

\* Numbering never locks itself out: the next number is free, and a creation
\* gives up only when it was overtaken as often as it has attempts.
NumberingProgresses == NextNumberFree /\ FailsOnlyUnderContention

\* The books are true: balances, receipts and audit rows tell nothing that did
\* not happen, and balance and payments agree to the cent unless they raced.
BooksAreTrue == PaidIsBacked /\ BooksBalance /\ AuditTellsTheTruth
=============================================================================
