--------------------------- MODULE InvoicesProofs ---------------------------
(***************************************************************************)
(* Proofs about Invoices, for any number of requests, invoices and         *)
(* attempts, any amounts and any value of the bounds.                      *)
(***************************************************************************)
EXTENDS Invoices, TLAPS

\* What a request holds at each of its steps.
CallInv ==
  \A c \in Calls :
    /\ callPc[c] = "idle" => tries[c] = 0 /\ src[c] = NoSource
    /\ callPc[c] \in {"count", "insert"} => tries[c] < MaxTries
    /\ callPc[c] = "failed" => tries[c] = MaxTries
    /\ callPc[c] \in {"link", "pay", "void", "send", "audit"} => Exists(inv[c])
    /\ callPc[c] = "link" => src[c] \in Quotes
    /\ callPc[c] \notin {"count", "insert", "failed", "link"} => src[c] = NoSource

\* A count is never above the present one, and each failed attempt of a request
\* stands for an invoice that others have created since it began.
NumberInv ==
  /\ NextNumberFree
  /\ \A c \in Calls :
       /\ callPc[c] = "insert" => read[c] <= count /\ begun[c] + tries[c] <= read[c]
       /\ callPc[c] \in {"count", "failed"} => begun[c] + tries[c] <= count

\* Totals and balances are whole cents.
WholeCents ==
  \A i \in Ids : total[i] % 4 = 0 /\ amountPaid[i] % 4 = 0

\* The balance a payment has read is covered by Payment rows.
PayInv ==
  /\ PaidIsBacked
  /\ BooksBalance
  /\ WholeCents
  /\ \A c \in Calls : callPc[c] = "pay" =>
       /\ read[c] <= payments[inv[c]]
       /\ read[c] % 4 = 0
       /\ amount[c] > 0
       /\ read[c] + amount[c] <= total[inv[c]]
  /\ \A i \in Ids : i > count => /\ status[i] = "absent" /\ ~receipt[i]
                                 /\ amountPaid[i] = 0 /\ payments[i] = 0

\* An audit row to be written tells of something that has happened.
AuditInv ==
  /\ AuditTellsTheTruth
  /\ \A c \in Calls : callPc[c] = "audit" =>
       /\ act[c] # "created" /\ act[c] # "payment_recorded"
       /\ act[c] = "voided" => voidedAt[inv[c]]
       /\ act[c] = "public_link_revoked" => revoked[inv[c]]
       /\ act[c] = "sent_delivered" => delivered[inv[c]]

\* A quote without overlapping or unfinished conversions is in the hands of one
\* request, and has an invoice only when that request is about to say so or it
\* is marked CONVERTED.
QuoteInv ==
  /\ \A i \in Ids : i > count => source[i] = NoSource
  /\ OneInvoicePerQuote
  /\ \A q \in Quotes \ raced :
       /\ \A c, d \in Calls : src[c] = q /\ src[d] = q => c = d
       /\ \A c \in Calls, i \in Ids :
            src[c] = q /\ callPc[c] \in {"count", "insert", "failed"} => source[i] # q
       /\ \A i \in Ids : source[i] = q =>
            \/ quote[q].status = "CONVERTED"
            \/ \E c \in Calls : src[c] = q /\ callPc[c] = "link"

Inv == InvoicesTypeOK /\ CallInv /\ NumberInv /\ PayInv /\ AuditInv /\ QuoteInv
-----------------------------------------------------------------------------
\* Rounding gives whole cents and leaves whole cents alone.
LEMMA ToCentsInt ==
  ASSUME NEW x \in Int
  PROVE  /\ ToCents(x) \in Int
         /\ ToCents(x) % 4 = 0
         /\ x >= 0 => ToCents(x) \in Nat
  BY DEF ToCents

\* Rounding goes no further than a whole number of cents above.
LEMMA ToCentsBelow ==
  ASSUME NEW x \in Nat, NEW t \in Int, t % 4 = 0, x <= t
  PROVE  ToCents(x) <= t
  BY DEF ToCents

\* Rounding a whole number of cents and a payment rounds the payment.
LEMMA ToCentsAdds ==
  ASSUME NEW x \in Nat, NEW a \in Nat, x % 4 = 0
  PROVE  ToCents(x + a) = x + ToCents(a)
  BY DEF ToCents

\* A tenant without invoices satisfies the invariant.
LEMMA InitInv == InvoicesInit => Inv
  BY InvoicesAssumption
  DEF InvoicesInit, Inv, InvoicesTypeOK, RowsOK, QuotesOK, CallsOK, CallInv, NumberInv,
      PayInv, AuditInv, QuoteInv, NextNumberFree, PaidIsBacked, BooksBalance, WholeCents,
      AuditTellsTheTruth, OneInvoicePerQuote, Ids, NoQuote, Statuses, Actions,
      Steps, Exists
-----------------------------------------------------------------------------
(* The types, and what the requests hold. *)

\* A step that leaves the tables alone keeps their types.
LEMMA RowsUnchanged ==
  RowsOK /\ UNCHANGED <<numberVars, payVars, stateVars, audit, year>> => RowsOK'
  BY DEF RowsOK, numberVars, payVars, stateVars

\* Every step keeps the types of the invoice rows.
LEMMA NextRows == Inv /\ [InvoicesNext]_invoicesVars => RowsOK'
<1> SUFFICES ASSUME Inv, [InvoicesNext]_invoicesVars PROVE RowsOK'
  OBVIOUS
<1> USE InvoicesAssumption
<1>0. RowsOK /\ CallsOK /\ CallInv
  BY DEF Inv, InvoicesTypeOK
<1>1. ASSUME NEW c \in Calls, Insert(c) PROVE RowsOK'
  <2>1. PICK y \in readYear[c]..year :
          numberYear' = [numberYear EXCEPT ![count + 1] = y]
    BY <1>1 DEF Insert
  <2>2. count' = count + 1 /\ count < MaxInvoices /\ count \in Nat /\ y \in Nat
    BY <1>0, <1>1, <2>1 DEF Insert, RowsOK, CallsOK
  <2>3. count + 1 \in Ids /\ count' \in 0..MaxInvoices
    BY <2>2 DEF Ids
  <2>4. ToCents(amount[c]) \in Int /\ NumberAfter(read[c]) \in Nat
    BY <1>0, ToCentsInt DEF NumberAfter, CallsOK
  <2> QED
    BY <1>0, <1>1, <2>1, <2>2, <2>3, <2>4
    DEF Insert, RowsOK, CallsOK, Statuses, Actions, payVars
<1>2. ASSUME NEW c \in Calls, Pay(c) PROVE RowsOK'
  <2>1. inv[c] \in Ids /\ read[c] \in Nat /\ amount[c] \in Nat
    BY <1>0, <1>2 DEF Pay, Inv, PayInv, CallsOK, CallInv, Exists
  <2>2. ToCents(amount[c]) \in Nat /\ NewPaid(c) \in Nat
    BY <2>1, ToCentsInt DEF NewPaid
  <2>3. PaysInFull(c) \in BOOLEAN
    BY DEF PaysInFull
  <2>4. receipt' \in [Ids -> BOOLEAN]
    BY <1>0, <1>2, <2>1, <2>3 DEF Pay, RowsOK
  <2> QED
    BY <1>0, <1>2, <2>1, <2>2, <2>4
    DEF Pay, RowsOK, Statuses, Actions, numberVars
<1>3. ASSUME NEW c \in Calls, Void(c) PROVE RowsOK'
  BY <1>0, <1>3 DEF Void, RowsOK, CallInv, Exists, Statuses, numberVars, payVars
<1>4. ASSUME NEW c \in Calls, Revoke(c) PROVE RowsOK'
  BY <1>0, <1>4 DEF Revoke, RowsOK, numberVars, payVars
<1>5. ASSUME NEW c \in Calls, Send(c) PROVE RowsOK'
  BY <1>0, <1>5 DEF Send, RowsOK, CallInv, Exists, numberVars, payVars
<1>6. ASSUME NEW c \in Calls, RecordAudit(c) PROVE RowsOK'
  BY <1>0, <1>6
  DEF RecordAudit, RowsOK, CallsOK, CallInv, Exists, numberVars, payVars, stateVars
<1>7. CASE NewYear
  BY <1>0, <1>7 DEF NewYear, RowsOK, numberVars, payVars, stateVars
<1>8. ASSUME NEW c \in Calls,
             \/ CreateInvoice(c) \/ Count(c) \/ InsertConflict(c) \/ GiveUp(c)
             \/ ConvertQuote(c) \/ LinkQuote(c) \/ StartPayment(c)
             \/ StartVoid(c) \/ StartSend(c) \/ CutOff(c)
      PROVE  RowsOK'
  BY <1>0, <1>8, RowsUnchanged
  DEF CreateInvoice, Count, InsertConflict, GiveUp, ConvertQuote, LinkQuote,
      StartPayment, StartVoid, StartSend, CutOff
<1>9. ASSUME NEW q \in Quotes, CreateQuote(q) PROVE RowsOK'
  BY <1>0, <1>9, RowsUnchanged DEF CreateQuote
<1>10. CASE UNCHANGED invoicesVars
  BY <1>0, <1>10 DEF invoicesVars, RowsOK
<1> QED
  BY <1>1, <1>2, <1>3, <1>4, <1>5, <1>6, <1>7, <1>8, <1>9, <1>10 DEF InvoicesNext

\* Every step keeps the types of the quotes.
LEMMA NextQuotes == Inv /\ [InvoicesNext]_invoicesVars => QuotesOK'
<1> SUFFICES ASSUME Inv, [InvoicesNext]_invoicesVars PROVE QuotesOK'
  OBVIOUS
<1> USE InvoicesAssumption
<1>0. QuotesOK /\ CallsOK /\ CallInv
  BY DEF Inv, InvoicesTypeOK
<1>1. ASSUME NEW c \in Calls, ConvertQuote(c) PROVE QuotesOK'
  BY <1>0, <1>1 DEF ConvertQuote, QuotesOK
<1>2. ASSUME NEW c \in Calls, LinkQuote(c) PROVE QuotesOK'
  BY <1>0, <1>2 DEF LinkQuote, QuotesOK, CallsOK, CallInv
<1>3. ASSUME NEW c \in Calls, CutOff(c) PROVE QuotesOK'
  BY <1>0, <1>3 DEF CutOff, QuotesOK, CallInv
<1>4. ASSUME NEW q \in Quotes, CreateQuote(q) PROVE QuotesOK'
  <2>1. PICK p \in Prices, n \in LineQuantities :
          quote' = [quote EXCEPT ![q] =
                     [status |-> "DRAFT", unitPrice |-> ToCents(p), quantity |-> n,
                      total |-> ToCents(p * n), convertedInvoice |-> 0]]
    BY <1>4 DEF CreateQuote
  <2>2. p \in Nat /\ n \in Nat /\ p * n \in Nat
    OBVIOUS
  <2>3. ToCents(p) \in Nat /\ ToCents(p * n) \in Nat
    BY <2>2, ToCentsInt
  <2> QED
    BY <1>0, <1>4, <2>1, <2>2, <2>3 DEF CreateQuote, QuotesOK
<1>5. ASSUME NEW c \in Calls,
             \/ CreateInvoice(c) \/ Count(c) \/ InsertConflict(c) \/ Insert(c)
             \/ GiveUp(c) \/ StartPayment(c) \/ Pay(c) \/ StartVoid(c) \/ Void(c)
             \/ Revoke(c) \/ StartSend(c) \/ Send(c) \/ RecordAudit(c)
      PROVE  QuotesOK'
  <2>1. UNCHANGED quoteVars
    BY <1>5
    DEF CreateInvoice, Count, InsertConflict, Insert, GiveUp, StartPayment, Pay,
        StartVoid, Void, Revoke, StartSend, Send, RecordAudit
  <2> QED
    BY <1>0, <2>1 DEF quoteVars, QuotesOK
<1>6. CASE NewYear
  BY <1>0, <1>6 DEF NewYear, quoteVars, QuotesOK
<1>7. CASE UNCHANGED invoicesVars
  BY <1>0, <1>7 DEF invoicesVars, QuotesOK
<1> QED
  BY <1>1, <1>2, <1>3, <1>4, <1>5, <1>6, <1>7 DEF InvoicesNext

\* A request that ends leaves its slot empty and the others alone.
LEMMA FinishResult ==
  ASSUME CallsOK, NEW c \in Calls, Finish(c)
  PROVE  /\ CallsOK'
         /\ callPc'[c] = "idle" /\ tries'[c] = 0 /\ src'[c] = NoSource
         /\ \A d \in Calls \ {c} :
              /\ callPc'[d] = callPc[d] /\ inv'[d] = inv[d] /\ read'[d] = read[d]
              /\ amount'[d] = amount[d] /\ src'[d] = src[d]
              /\ tries'[d] = tries[d] /\ act'[d] = act[d] /\ begun'[d] = begun[d]
  BY InvoicesAssumption DEF Finish, CallsOK, Steps, Actions

\* A request that begins to create an invoice.
LEMMA BeginResult ==
  ASSUME CallsOK, RowsOK, NEW c \in Calls, NEW t \in Int,
         NEW q \in Quotes \union {NoSource}, BeginCreate(c, t, q)
  PROVE  /\ CallsOK'
         /\ callPc[c] = "idle"
         /\ callPc'[c] = "count" /\ src'[c] = q /\ begun'[c] = count
         /\ \A d \in Calls \ {c} : /\ callPc'[d] = callPc[d] /\ src'[d] = src[d]
                                   /\ amount'[d] = amount[d] /\ begun'[d] = begun[d]
         /\ UNCHANGED <<inv, read, readYear, tries, act>>
  BY DEF BeginCreate, CallsOK, RowsOK, Steps

\* A message that was sent: its request goes on to the audit row or ends.
LEMMA SendResult ==
  ASSUME CallsOK, NEW c \in Calls, Send(c)
  PROVE  /\ callPc[c] = "send" /\ callPc'[c] \in {"audit", "idle"}
         /\ src'[c] \in {src[c], NoSource}
         /\ \A d \in Calls \ {c} :
              /\ callPc'[d] = callPc[d] /\ inv'[d] = inv[d] /\ read'[d] = read[d]
              /\ amount'[d] = amount[d] /\ src'[d] = src[d]
              /\ tries'[d] = tries[d] /\ act'[d] = act[d] /\ begun'[d] = begun[d]
         /\ UNCHANGED <<numberVars, payVars, status, quoteVars>>
<1>1. CASE Finish(c)
  BY <1>1, FinishResult DEF Send
<1>2. CASE ThenAudit(c, "sent_delivered") /\ UNCHANGED inv
  BY <1>2 DEF Send, ThenAudit, CallsOK
<1> QED
  BY <1>1, <1>2 DEF Send

\* The total a conversion starts from.
LEMMA QuoteAmount ==
  ASSUME QuotesOK, NEW q \in Quotes
  PROVE  quote[q].unitPrice * quote[q].quantity \in Int
<1>1. quote[q].unitPrice \in Nat /\ quote[q].quantity \in Nat
  BY DEF QuotesOK
<1> QED
  BY <1>1

\* Every step keeps what the requests hold.
LEMMA NextCalls == Inv /\ [InvoicesNext]_invoicesVars => CallsOK' /\ CallInv'
<1> SUFFICES ASSUME Inv, [InvoicesNext]_invoicesVars PROVE CallsOK' /\ CallInv'
  OBVIOUS
<1> USE InvoicesAssumption
<1>0. RowsOK /\ QuotesOK /\ CallsOK /\ CallInv
  BY DEF Inv, InvoicesTypeOK
<1>1. ASSUME NEW c \in Calls, CreateInvoice(c) PROVE CallsOK' /\ CallInv'
  <2>1. PICK t \in Totals : BeginCreate(c, t, NoSource)
    BY <1>1 DEF CreateInvoice
  <2>2. t \in Int /\ UNCHANGED count
    BY <1>1 DEF CreateInvoice, numberVars
  <2> QED
    BY <1>0, <2>1, <2>2, BeginResult DEF CallInv, Exists
<1>2. ASSUME NEW c \in Calls, Count(c) PROVE CallsOK' /\ CallInv'
  BY <1>0, <1>2 DEF Count, CallsOK, CallInv, Exists, RowsOK, Steps, numberVars
<1>3. ASSUME NEW c \in Calls, InsertConflict(c) PROVE CallsOK' /\ CallInv'
  BY <1>0, <1>3
  DEF InsertConflict, Retry, CallsOK, CallInv, Exists, Steps, numberVars
<1>4. ASSUME NEW c \in Calls, Insert(c) PROVE CallsOK' /\ CallInv'
  <2>1. count \in Nat /\ count' = count + 1 /\ count + 1 \in Ids
    BY <1>0, <1>4 DEF Insert, RowsOK, Ids
  <2>2. CASE src[c] = NoSource
    <3>1. Finish(c)
      BY <1>4, <2>2 DEF Insert
    <3> QED
      BY <1>0, <2>1, <3>1, FinishResult DEF CallInv, Exists, Ids
  <2>3. CASE src[c] # NoSource
    BY <1>0, <1>4, <2>1, <2>3 DEF Insert, CallsOK, CallInv, Exists, Ids, Steps
  <2> QED
    BY <2>2, <2>3
<1>5. ASSUME NEW c \in Calls,
             \/ GiveUp(c) \/ LinkQuote(c) \/ Pay(c) \/ RecordAudit(c) \/ CutOff(c)
      PROVE  CallsOK' /\ CallInv'
  <2>1. Finish(c) /\ UNCHANGED count
    BY <1>5 DEF GiveUp, LinkQuote, Pay, RecordAudit, CutOff, numberVars
  <2> QED
    BY <1>0, <2>1, FinishResult DEF CallInv, Exists
<1>6. ASSUME NEW c \in Calls, ConvertQuote(c) PROVE CallsOK' /\ CallInv'
  <2>1. PICK q \in Quotes :
          BeginCreate(c, quote[q].unitPrice * quote[q].quantity, q)
    BY <1>6 DEF ConvertQuote
  <2>2. UNCHANGED count
    BY <1>6 DEF ConvertQuote, numberVars
  <2>3. quote[q].unitPrice * quote[q].quantity \in Int
    BY <1>0, QuoteAmount
  <2> QED
    BY <1>0, <2>1, <2>2, <2>3, BeginResult DEF CallInv, Exists
<1>7. ASSUME NEW c \in Calls, StartPayment(c) PROVE CallsOK' /\ CallInv'
  <2>1. PICK i \in Touched, a \in Amounts :
          /\ Exists(i)
          /\ inv' = [inv EXCEPT ![c] = i]
          /\ amount' = [amount EXCEPT ![c] = a]
          /\ read' = [read EXCEPT ![c] = amountPaid[i]]
    BY <1>7 DEF StartPayment
  <2>2. i \in Ids /\ i \in 0..MaxInvoices /\ a \in Int /\ amountPaid[i] \in Nat
    BY <1>0, <2>1 DEF Exists, Ids, RowsOK
  <2> QED
    BY <1>0, <1>7, <2>1, <2>2
    DEF StartPayment, CallsOK, CallInv, Exists, Steps, numberVars
<1>8. ASSUME NEW c \in Calls, StartVoid(c) \/ StartSend(c)
      PROVE  CallsOK' /\ CallInv'
  BY <1>0, <1>8
  DEF StartVoid, StartSend, CallsOK, CallInv, Exists, Ids, Steps, numberVars
<1>9. ASSUME NEW c \in Calls, Void(c) \/ Revoke(c) \/ Send(c)
      PROVE  CallsOK' /\ CallInv'
  <2>1. CASE Void(c)
    BY <1>0, <2>1
    DEF Void, ThenAudit, CallsOK, CallInv, Exists, Steps, Actions, numberVars
  <2>2. CASE Revoke(c)
    BY <1>0, <2>2
    DEF Revoke, ThenAudit, CallsOK, CallInv, Exists, Ids, Steps, Actions, numberVars
  <2>3. CASE Send(c)
    <3>1. UNCHANGED count
      BY <2>3 DEF Send, numberVars
    <3>2. CASE Finish(c)
      BY <1>0, <3>1, <3>2, FinishResult DEF CallInv, Exists
    <3>3. CASE ThenAudit(c, "sent_delivered") /\ UNCHANGED inv
      BY <1>0, <2>3, <3>1, <3>3
      DEF Send, ThenAudit, CallsOK, CallInv, Exists, Steps, Actions
    <3> QED
      BY <2>3, <3>2, <3>3 DEF Send
  <2> QED
    BY <1>9, <2>1, <2>2, <2>3
<1>10. ASSUME NEW q \in Quotes, CreateQuote(q) PROVE CallsOK' /\ CallInv'
  BY <1>0, <1>10 DEF CreateQuote, callVars, numberVars, CallsOK, CallInv, Exists
<1>11. CASE NewYear
  BY <1>0, <1>11 DEF NewYear, callVars, numberVars, CallsOK, CallInv, Exists
<1>12. CASE UNCHANGED invoicesVars
  BY <1>0, <1>12 DEF invoicesVars, CallsOK, CallInv, Exists
<1> QED
  BY <1>1, <1>2, <1>3, <1>4, <1>5, <1>6, <1>7, <1>8, <1>9, <1>10, <1>11, <1>12
  DEF InvoicesNext
-----------------------------------------------------------------------------
(* Numbers *)

\* A step that creates nothing and leaves the allocation loops alone.
LEMMA NumbersUnchanged ==
  ASSUME NumberInv, NEW c \in Calls, UNCHANGED numberVars,
         callPc'[c] \notin {"count", "insert", "failed"},
         \A d \in Calls \ {c} : /\ callPc'[d] = callPc[d] /\ read'[d] = read[d]
                                /\ tries'[d] = tries[d] /\ begun'[d] = begun[d]
  PROVE  NumberInv'
  BY DEF NumberInv, NextNumberFree, numberVars

\* Every step keeps the numbers within the count.
LEMMA NextNumbers == Inv /\ [InvoicesNext]_invoicesVars => NumberInv'
<1> SUFFICES ASSUME Inv, [InvoicesNext]_invoicesVars PROVE NumberInv'
  OBVIOUS
<1> USE InvoicesAssumption
<1>0. RowsOK /\ QuotesOK /\ CallsOK /\ CallInv /\ NumberInv
  BY DEF Inv, InvoicesTypeOK
<1>1. ASSUME NEW c \in Calls, CreateInvoice(c) PROVE NumberInv'
  <2>1. PICK t \in Totals : BeginCreate(c, t, NoSource)
    BY <1>1 DEF CreateInvoice
  <2>2. t \in Int /\ UNCHANGED numberVars
    BY <1>1 DEF CreateInvoice
  <2> QED
    BY <1>0, <2>1, <2>2, BeginResult
    DEF NumberInv, NextNumberFree, CallInv, RowsOK, numberVars
<1>2. ASSUME NEW c \in Calls, ConvertQuote(c) PROVE NumberInv'
  <2>1. PICK q \in Quotes :
          BeginCreate(c, quote[q].unitPrice * quote[q].quantity, q)
    BY <1>2 DEF ConvertQuote
  <2>2. quote[q].unitPrice * quote[q].quantity \in Int
    BY <1>0, QuoteAmount
  <2>3. UNCHANGED numberVars
    BY <1>2 DEF ConvertQuote
  <2> QED
    BY <1>0, <2>1, <2>2, <2>3, BeginResult
    DEF NumberInv, NextNumberFree, CallInv, RowsOK, numberVars
<1>3. ASSUME NEW c \in Calls, Count(c) PROVE NumberInv'
  BY <1>0, <1>3 DEF Count, NumberInv, NextNumberFree, CallsOK, RowsOK, numberVars
<1>4. ASSUME NEW c \in Calls, InsertConflict(c) PROVE NumberInv'
  <2>1. PICK i \in Ids : i <= count /\ numberSeq[i] = read[c] + 1
    BY <1>4 DEF InsertConflict, Taken, NumberAfter
  \* The number that is taken lies within the count, so that the count has grown.
  <2>2. read[c] + 1 <= count
    BY <1>0, <2>1 DEF NumberInv, NextNumberFree
  <2>3. begun[c] + (tries[c] + 1) <= count
    BY <1>0, <1>4, <2>2 DEF InsertConflict, NumberInv, CallsOK, RowsOK
  <2> QED
    BY <1>0, <1>4, <2>3
    DEF InsertConflict, Retry, NumberInv, NextNumberFree, CallsOK, numberVars
<1>5. ASSUME NEW c \in Calls, Insert(c) PROVE NumberInv'
  <2>1. count \in Nat /\ count' = count + 1 /\ read[c] + 1 <= count'
    BY <1>0, <1>5 DEF Insert, RowsOK, CallsOK, NumberInv
  <2>2. numberSeq' = [numberSeq EXCEPT ![count + 1] = read[c] + 1]
    BY <1>5 DEF Insert, NumberAfter
  <2>3. NextNumberFree'
    <3>1. numberSeq \in [Ids -> Nat] /\ NextNumberFree
      BY <1>0 DEF RowsOK, NumberInv
    <3>2. SUFFICES ASSUME NEW i \in Ids, i <= count + 1
                   PROVE  numberSeq'[i] <= count + 1
      BY <2>1 DEF NextNumberFree
    <3>3. CASE i = count + 1
      BY <2>1, <2>2, <3>1, <3>3
    <3>4. CASE i # count + 1
      BY <2>1, <2>2, <3>1, <3>2, <3>4 DEF NextNumberFree, Ids
    <3> QED
      BY <3>3, <3>4
  <2>4. /\ callPc'[c] \in {"idle", "link"}
        /\ \A d \in Calls \ {c} : /\ callPc'[d] = callPc[d] /\ read'[d] = read[d]
                                  /\ tries'[d] = tries[d] /\ begun'[d] = begun[d]
    <3>1. CASE src[c] = NoSource
      BY <1>0, <1>5, <3>1, FinishResult DEF Insert
    <3>2. CASE src[c] # NoSource
      BY <1>0, <1>5, <3>2 DEF Insert, CallsOK
    <3> QED
      BY <3>1, <3>2
  <2> QED
    BY <1>0, <2>1, <2>3, <2>4 DEF NumberInv, CallsOK
<1>6. ASSUME NEW c \in Calls,
             \/ GiveUp(c) \/ LinkQuote(c) \/ Pay(c) \/ RecordAudit(c) \/ CutOff(c)
      PROVE  NumberInv'
  <2>1. Finish(c) /\ UNCHANGED numberVars
    BY <1>6 DEF GiveUp, LinkQuote, Pay, RecordAudit, CutOff
  <2> QED
    BY <1>0, <2>1, FinishResult, NumbersUnchanged
<1>7. ASSUME NEW c \in Calls,
             \/ StartPayment(c) \/ StartVoid(c) \/ StartSend(c)
             \/ Void(c) \/ Revoke(c)
      PROVE  NumberInv'
  <2>1. /\ UNCHANGED numberVars
        /\ callPc'[c] \in {"pay", "void", "send", "audit"}
        /\ \A d \in Calls \ {c} : /\ callPc'[d] = callPc[d] /\ read'[d] = read[d]
                                  /\ tries'[d] = tries[d] /\ begun'[d] = begun[d]
    BY <1>0, <1>7
    DEF StartPayment, StartVoid, StartSend, Void, Revoke, ThenAudit, CallsOK
  <2> QED
    BY <1>0, <2>1, NumbersUnchanged
<1>8. ASSUME NEW q \in Quotes, CreateQuote(q) PROVE NumberInv'
  BY <1>0, <1>8 DEF CreateQuote, callVars, numberVars, NumberInv, NextNumberFree
<1>9. CASE NewYear
  BY <1>0, <1>9 DEF NewYear, callVars, numberVars, NumberInv, NextNumberFree
<1>10. CASE UNCHANGED invoicesVars
  BY <1>0, <1>10 DEF invoicesVars, NumberInv, NextNumberFree
<1>11. ASSUME NEW c \in Calls, Send(c) PROVE NumberInv'
  BY <1>0, <1>11, SendResult, NumbersUnchanged
<1> QED
  BY <1>1, <1>2, <1>3, <1>4, <1>5, <1>6, <1>7, <1>8, <1>9, <1>10, <1>11 DEF InvoicesNext
-----------------------------------------------------------------------------
(* Payments *)

\* A step that changes no balance or status, and no payment under way but that
\* of one request, which is not at "pay" afterwards.
LEMMA PaymentsUnchanged ==
  ASSUME PayInv, NEW c \in Calls, UNCHANGED <<count, total, payVars, status>>,
         callPc'[c] # "pay",
         \A d \in Calls \ {c} : /\ callPc'[d] = callPc[d] /\ inv'[d] = inv[d]
                                /\ read'[d] = read[d] /\ amount'[d] = amount[d]
  PROVE  PayInv'
  BY DEF PayInv, PaidIsBacked, BooksBalance, WholeCents, payVars

\* Every step keeps the balances backed by payments.
LEMMA NextPayments == Inv /\ [InvoicesNext]_invoicesVars => PayInv'
<1> SUFFICES ASSUME Inv, [InvoicesNext]_invoicesVars PROVE PayInv'
  OBVIOUS
<1> USE InvoicesAssumption
<1>0. RowsOK /\ QuotesOK /\ CallsOK /\ CallInv /\ PayInv
  BY DEF Inv, InvoicesTypeOK
<1>1. ASSUME NEW c \in Calls, CreateInvoice(c) PROVE PayInv'
  <2>1. PICK t \in Totals : BeginCreate(c, t, NoSource)
    BY <1>1 DEF CreateInvoice
  <2>2. t \in Int /\ UNCHANGED <<count, total, payVars, status>>
    BY <1>1 DEF CreateInvoice, numberVars, stateVars
  <2> QED
    BY <1>0, <2>1, <2>2, BeginResult, PaymentsUnchanged
<1>2. ASSUME NEW c \in Calls, ConvertQuote(c) PROVE PayInv'
  <2>1. PICK q \in Quotes :
          BeginCreate(c, quote[q].unitPrice * quote[q].quantity, q)
    BY <1>2 DEF ConvertQuote
  <2>2. quote[q].unitPrice * quote[q].quantity \in Int
    BY <1>0, QuoteAmount
  <2>3. UNCHANGED <<count, total, payVars, status>>
    BY <1>2 DEF ConvertQuote, numberVars, stateVars
  <2> QED
    BY <1>0, <2>1, <2>2, <2>3, BeginResult, PaymentsUnchanged
<1>3. ASSUME NEW c \in Calls, Insert(c) PROVE PayInv'
  <2>1. count \in Nat /\ count' = count + 1 /\ count + 1 \in Ids
    BY <1>0, <1>3 DEF Insert, RowsOK, Ids
  <2>2. /\ total' = [total EXCEPT ![count + 1] = ToCents(amount[c])]
        /\ status' = [status EXCEPT ![count + 1] = "ISSUED"]
        /\ UNCHANGED <<amountPaid, payments, receipt, overlapped>>
    BY <1>3 DEF Insert, payVars
  <2>3. ToCents(amount[c]) % 4 = 0
    BY <1>0, ToCentsInt DEF CallsOK
  <2>4. /\ callPc'[c] # "pay"
        /\ \A d \in Calls \ {c} : /\ callPc'[d] = callPc[d] /\ inv'[d] = inv[d]
                                  /\ read'[d] = read[d] /\ amount'[d] = amount[d]
    <3>1. CASE src[c] = NoSource
      BY <1>0, <1>3, <3>1, FinishResult DEF Insert
    <3>2. CASE src[c] # NoSource
      BY <1>0, <1>3, <3>2 DEF Insert, CallsOK
    <3> QED
      BY <3>1, <3>2
  \* The new row has no payments yet.
  <2>5. /\ amountPaid[count + 1] = 0 /\ payments[count + 1] = 0
        /\ ~receipt[count + 1]
    BY <1>0, <2>1 DEF PayInv
  <2>6. \A i \in Ids \ {count + 1} : total'[i] = total[i] /\ status'[i] = status[i]
    BY <1>0, <2>2 DEF RowsOK
  <2>7. total'[count + 1] % 4 = 0 /\ status'[count + 1] = "ISSUED"
    BY <1>0, <2>1, <2>2, <2>3 DEF RowsOK
  <2>8. PaidIsBacked'
    BY <1>0, <2>2, <2>5, <2>6, <2>7 DEF PayInv, PaidIsBacked
  <2>9. BooksBalance'
    BY <1>0, <2>2, <2>5, <2>6 DEF PayInv, BooksBalance
  <2>10. WholeCents'
    BY <1>0, <2>2, <2>6, <2>7 DEF PayInv, WholeCents
  <2>11. \A d \in Calls : callPc'[d] = "pay" =>
            /\ read'[d] <= payments'[inv'[d]] /\ read'[d] % 4 = 0
            /\ amount'[d] > 0 /\ read'[d] + amount'[d] <= total'[inv'[d]]
    BY <1>0, <2>1, <2>2, <2>4, <2>6 DEF PayInv, CallInv, Exists, Ids
  <2>12. \A i \in Ids : i > count' =>
            /\ status'[i] = "absent" /\ ~receipt'[i]
            /\ amountPaid'[i] = 0 /\ payments'[i] = 0
    BY <1>0, <2>1, <2>2, <2>6 DEF PayInv, Ids
  <2> QED
    BY <2>8, <2>9, <2>10, <2>11, <2>12 DEF PayInv
<1>4. ASSUME NEW c \in Calls, StartPayment(c) PROVE PayInv'
  <2>1. PICK i \in Touched, a \in Amounts :
          /\ Exists(i) /\ Payable(i, a)
          /\ inv' = [inv EXCEPT ![c] = i]
          /\ amount' = [amount EXCEPT ![c] = a]
          /\ read' = [read EXCEPT ![c] = amountPaid[i]]
    BY <1>4 DEF StartPayment
  <2>2. /\ i \in Ids /\ a \in Nat /\ a > 0 /\ amountPaid[i] % 4 = 0
        /\ amountPaid[i] <= payments[i] /\ amountPaid[i] + a <= total[i]
    BY <1>0, <2>1 DEF Exists, Payable, PayInv, PaidIsBacked, WholeCents
  <2>3. /\ UNCHANGED <<count, total, amountPaid, payments, receipt, overlapped, status>>
        /\ callPc' = [callPc EXCEPT ![c] = "pay"]
    BY <1>4 DEF StartPayment, numberVars, payVars, stateVars
  <2>4. /\ inv'[c] = i /\ amount'[c] = a /\ read'[c] = amountPaid[i]
        /\ \A d \in Calls \ {c} : /\ callPc'[d] = callPc[d] /\ inv'[d] = inv[d]
                                  /\ read'[d] = read[d] /\ amount'[d] = amount[d]
    BY <1>0, <2>1, <2>3 DEF CallsOK
  <2> QED
    BY <1>0, <2>2, <2>3, <2>4 DEF PayInv, PaidIsBacked, BooksBalance, WholeCents
<1>5. ASSUME NEW c \in Calls, Pay(c) PROVE PayInv'
  <2> DEFINE i == inv[c]
  <2>1. /\ i \in Ids /\ i <= count /\ read[c] \in Nat /\ amount[c] \in Nat
        /\ read[c] <= payments[i] /\ read[c] % 4 = 0
        /\ amount[c] > 0 /\ read[c] + amount[c] <= total[i]
        /\ total[i] \in Int /\ total[i] % 4 = 0 /\ payments[i] \in Nat
    BY <1>0, <1>5
    DEF Pay, PayInv, CallsOK, CallInv, Exists, WholeCents, RowsOK
  <2> DEFINE paid == ToCents(amount[c])
  <2>2. paid \in Nat /\ NewPaid(c) = read[c] + paid /\ NewPaid(c) % 4 = 0
    <3>1. read[c] + amount[c] \in Int /\ amount[c] \in Int /\ amount[c] >= 0
      BY <2>1
    <3>2. paid \in Nat /\ NewPaid(c) % 4 = 0
      BY <3>1, ToCentsInt DEF NewPaid
    <3> QED
      BY <2>1, <3>2, ToCentsAdds DEF NewPaid
  <2>3. NewPaid(c) <= total[i]
    BY <2>1, ToCentsBelow DEF NewPaid
  \* A payment that settles the invoice is itself a whole number of cents.
  <2>4. PaysInFull(c) => payments[i] + paid >= total[i]
    BY <2>1, <2>2, ToCentsAdds DEF PaysInFull, ToCents
  <2>5. /\ payments'[i] = payments[i] + paid
        /\ amountPaid'[i] = read[c] + paid
        /\ status'[i] = IF PaysInFull(c) THEN "PAID" ELSE "PARTIALLY_PAID"
        /\ receipt'[i] <=> receipt[i] \/ PaysInFull(c)
        /\ UNCHANGED <<count, total>>
    BY <1>0, <1>5, <2>1, <2>2 DEF Pay, RowsOK, numberVars
  <2>6. \A j \in Ids \ {i} :
          /\ payments'[j] = payments[j] /\ amountPaid'[j] = amountPaid[j]
          /\ status'[j] = status[j] /\ receipt'[j] = receipt[j]
    BY <1>0, <1>5 DEF Pay, RowsOK
  <2>7. overlapped' = IF amountPaid[i] # read[c] THEN overlapped \union {i}
                                                 ELSE overlapped
    BY <1>5 DEF Pay
  <2>8. PaidIsBacked'
    <3>1. payments[i] >= total[i] \/ ~receipt[i]
      BY <1>0, <2>1 DEF PayInv, PaidIsBacked
    <3>2. /\ amountPaid'[i] <= payments'[i]
          /\ amountPaid'[i] <= total'[i]
          /\ status'[i] = "PAID" \/ receipt'[i] => payments'[i] >= total'[i]
      BY <2>1, <2>2, <2>3, <2>4, <2>5, <3>1
    <3> QED
      BY <1>0, <2>5, <2>6, <3>2 DEF PayInv, PaidIsBacked
  <2>9. BooksBalance'
    <3>1. ASSUME i \notin overlapped'
          PROVE  amountPaid'[i] = payments'[i] /\ payments'[i] <= total'[i]
      <4>1. amountPaid[i] = read[c] /\ i \notin overlapped
        BY <2>7, <3>1
      <4>2. amountPaid[i] = payments[i]
        BY <1>0, <2>1, <4>1 DEF PayInv, BooksBalance
      <4> QED
        BY <2>1, <2>2, <2>3, <2>5, <4>1, <4>2
    <3>2. \A j \in Ids \ {i} : j \notin overlapped' => j \notin overlapped
      BY <2>7
    <3> QED
      BY <1>0, <2>5, <2>6, <3>1, <3>2 DEF PayInv, BooksBalance
  <2>10. WholeCents'
    BY <1>0, <2>2, <2>5, <2>6 DEF PayInv, WholeCents
  <2>11. \A d \in Calls : callPc'[d] = "pay" =>
           /\ read'[d] <= payments'[inv'[d]] /\ read'[d] % 4 = 0
           /\ amount'[d] > 0 /\ read'[d] + amount'[d] <= total'[inv'[d]]
    <3>1. SUFFICES ASSUME NEW d \in Calls, callPc'[d] = "pay"
                   PROVE  /\ read'[d] <= payments'[inv'[d]] /\ read'[d] % 4 = 0
                          /\ amount'[d] > 0
                          /\ read'[d] + amount'[d] <= total'[inv'[d]]
      OBVIOUS
    <3>2. d # c /\ callPc[d] = "pay" /\ inv'[d] = inv[d] /\ read'[d] = read[d]
          /\ amount'[d] = amount[d]
      BY <1>0, <1>5, <3>1, FinishResult DEF Pay
    <3>3. inv[d] \in Ids /\ payments[inv[d]] \in Nat /\ read[d] \in Nat
      BY <1>0, <3>2 DEF CallInv, Exists, RowsOK, CallsOK
    <3>4. payments'[inv[d]] >= payments[inv[d]]
      BY <2>1, <2>2, <2>5, <2>6, <3>3
    <3>5. payments'[inv[d]] \in Nat
      BY <2>1, <2>2, <2>5, <2>6, <3>3
    <3> QED
      BY <1>0, <2>5, <3>2, <3>3, <3>4, <3>5 DEF PayInv
  <2>12. \A j \in Ids : j > count' =>
           /\ status'[j] = "absent" /\ ~receipt'[j]
           /\ amountPaid'[j] = 0 /\ payments'[j] = 0
    <3>1. \A j \in Ids : j > count => j # i
      BY <1>0, <2>1 DEF RowsOK, Ids
    <3> QED
      BY <1>0, <2>5, <2>6, <3>1 DEF PayInv
  <2> QED
    BY <2>8, <2>9, <2>10, <2>11, <2>12 DEF PayInv
<1>6. ASSUME NEW c \in Calls, Void(c) PROVE PayInv'
  <2>1. inv[c] \in Ids /\ inv[c] <= count
    BY <1>0, <1>6 DEF Void, CallInv, Exists
  <2>2. /\ UNCHANGED <<count, total, amountPaid, payments, receipt, overlapped>>
        /\ status' = [status EXCEPT ![inv[c]] = "VOID"]
        /\ UNCHANGED <<inv, read, amount>> /\ callPc' = [callPc EXCEPT ![c] = "audit"]
    BY <1>6 DEF Void, ThenAudit, numberVars, payVars
  <2>3. \A j \in Ids : status'[j] = IF j = inv[c] THEN "VOID" ELSE status[j]
    BY <1>0, <2>2 DEF RowsOK
  <2>4. \A d \in Calls : callPc'[d] = "pay" => callPc[d] = "pay"
    BY <1>0, <2>2 DEF CallsOK
  <2>5. PaidIsBacked'
    BY <1>0, <2>2, <2>3 DEF PayInv, PaidIsBacked
  <2>6. BooksBalance' /\ WholeCents'
    BY <1>0, <2>2 DEF PayInv, BooksBalance, WholeCents
  <2>7. \A j \in Ids : j > count => status'[j] = "absent"
    <3>1. \A j \in Ids : j > count => j # inv[c]
      BY <1>0, <2>1 DEF RowsOK, Ids
    <3> QED
      BY <1>0, <2>3, <3>1 DEF PayInv
  <2> QED
    BY <1>0, <2>2, <2>4, <2>5, <2>6, <2>7 DEF PayInv
<1>7. ASSUME NEW c \in Calls,
             \/ GiveUp(c) \/ LinkQuote(c) \/ RecordAudit(c) \/ CutOff(c)
      PROVE  PayInv'
  <2>1. Finish(c) /\ UNCHANGED <<count, total, payVars, status>>
    BY <1>7 DEF GiveUp, LinkQuote, RecordAudit, CutOff, numberVars, stateVars
  <2> QED
    BY <1>0, <2>1, FinishResult, PaymentsUnchanged
<1>8. ASSUME NEW c \in Calls,
             \/ Count(c) \/ InsertConflict(c) \/ StartVoid(c) \/ StartSend(c)
             \/ Revoke(c)
      PROVE  PayInv'
  <2>1. /\ UNCHANGED <<count, total, payVars, status>>
        /\ callPc'[c] # "pay"
        /\ \A d \in Calls \ {c} : /\ callPc'[d] = callPc[d] /\ inv'[d] = inv[d]
                                  /\ read'[d] = read[d] /\ amount'[d] = amount[d]
    BY <1>0, <1>8
    DEF Count, InsertConflict, Retry, StartVoid, StartSend, Revoke, ThenAudit,
        CallsOK, numberVars, stateVars
  <2> QED
    BY <1>0, <2>1, PaymentsUnchanged
<1>9. ASSUME NEW q \in Quotes, CreateQuote(q) PROVE PayInv'
  BY <1>0, <1>9
  DEF CreateQuote, callVars, numberVars, payVars, stateVars, PayInv, PaidIsBacked,
      BooksBalance, WholeCents
<1>10. CASE NewYear
  BY <1>0, <1>10
  DEF NewYear, callVars, numberVars, payVars, stateVars, PayInv, PaidIsBacked,
      BooksBalance, WholeCents
<1>11. CASE UNCHANGED invoicesVars
  BY <1>0, <1>11 DEF invoicesVars, PayInv, PaidIsBacked, BooksBalance, WholeCents
<1>12. ASSUME NEW c \in Calls, Send(c) PROVE PayInv'
  BY <1>0, <1>12, SendResult, PaymentsUnchanged DEF numberVars
<1> QED
  BY <1>1, <1>2, <1>3, <1>4, <1>5, <1>6, <1>7, <1>8, <1>9, <1>10, <1>11, <1>12
  DEF InvoicesNext
-----------------------------------------------------------------------------
(* The audit trail *)

\* A step that changes nothing the audit trail tells of, and no audit row to be
\* written but that of one request, which is not at "audit" afterwards.
LEMMA AuditUnchanged ==
  ASSUME AuditInv, NEW c \in Calls,
         UNCHANGED <<count, payments, voidedAt, revoked, delivered, audit>>,
         callPc'[c] # "audit",
         \A d \in Calls \ {c} : /\ callPc'[d] = callPc[d] /\ inv'[d] = inv[d]
                                /\ act'[d] = act[d]
  PROVE  AuditInv'
  BY DEF AuditInv, AuditTellsTheTruth

\* Every step keeps the audit trail true.
LEMMA NextAudit == Inv /\ [InvoicesNext]_invoicesVars => AuditInv'
<1> SUFFICES ASSUME Inv, [InvoicesNext]_invoicesVars PROVE AuditInv'
  OBVIOUS
<1> USE InvoicesAssumption
<1>0. RowsOK /\ QuotesOK /\ CallsOK /\ CallInv /\ PayInv /\ AuditInv
  BY DEF Inv, InvoicesTypeOK
<1>1. ASSUME NEW c \in Calls, CreateInvoice(c) PROVE AuditInv'
  <2>1. PICK t \in Totals : BeginCreate(c, t, NoSource)
    BY <1>1 DEF CreateInvoice
  <2>2. t \in Int /\ UNCHANGED <<count, payments, voidedAt, revoked, delivered, audit>>
    BY <1>1 DEF CreateInvoice, numberVars, payVars, stateVars
  <2> QED
    BY <1>0, <2>1, <2>2, BeginResult, AuditUnchanged
<1>2. ASSUME NEW c \in Calls, ConvertQuote(c) PROVE AuditInv'
  <2>1. PICK q \in Quotes :
          BeginCreate(c, quote[q].unitPrice * quote[q].quantity, q)
    BY <1>2 DEF ConvertQuote
  <2>2. quote[q].unitPrice * quote[q].quantity \in Int
    BY <1>0, QuoteAmount
  <2>3. UNCHANGED <<count, payments, voidedAt, revoked, delivered, audit>>
    BY <1>2 DEF ConvertQuote, numberVars, payVars, stateVars
  <2> QED
    BY <1>0, <2>1, <2>2, <2>3, BeginResult, AuditUnchanged
<1>3. ASSUME NEW c \in Calls, Insert(c) PROVE AuditInv'
  <2>1. count \in Nat /\ count' = count + 1
    BY <1>0, <1>3 DEF Insert, RowsOK
  <2>2. /\ audit' = audit \union {<<count + 1, "created">>}
        /\ UNCHANGED <<payments, voidedAt, revoked, delivered>>
    BY <1>3 DEF Insert, payVars
  <2>3. /\ callPc'[c] # "audit"
        /\ \A d \in Calls \ {c} : /\ callPc'[d] = callPc[d] /\ inv'[d] = inv[d]
                                  /\ act'[d] = act[d]
    <3>1. CASE src[c] = NoSource
      BY <1>0, <1>3, <3>1, FinishResult DEF Insert
    <3>2. CASE src[c] # NoSource
      BY <1>0, <1>3, <3>2 DEF Insert, CallsOK
    <3> QED
      BY <3>1, <3>2
  <2>4. \A i \in Ids : i <= count' <=> i <= count \/ i = count + 1
    BY <2>1 DEF Ids
  <2>5. AuditTellsTheTruth'
    BY <1>0, <2>2, <2>4 DEF AuditInv, AuditTellsTheTruth
  <2> QED
    BY <1>0, <2>2, <2>3, <2>5 DEF AuditInv
<1>4. ASSUME NEW c \in Calls, Pay(c) PROVE AuditInv'
  <2>1. /\ inv[c] \in Ids
        /\ audit' = audit \union {<<inv[c], "payment_recorded">>}
        /\ UNCHANGED <<count, voidedAt, revoked, delivered>>
        /\ \A i \in Ids \ {inv[c]} : payments'[i] = payments[i]
    BY <1>0, <1>4 DEF Pay, numberVars, CallInv, Exists, RowsOK
  <2>2. AuditTellsTheTruth'
    BY <1>0, <2>1 DEF AuditInv, AuditTellsTheTruth
  <2>3. Finish(c)
    BY <1>4 DEF Pay
  <2> QED
    BY <1>0, <2>1, <2>2, <2>3, FinishResult DEF AuditInv
<1>5. ASSUME NEW c \in Calls, Void(c) PROVE AuditInv'
  BY <1>0, <1>5
  DEF Void, ThenAudit, AuditInv, AuditTellsTheTruth, RowsOK, CallsOK, CallInv,
      Exists, numberVars, payVars
<1>6. ASSUME NEW c \in Calls, Revoke(c) PROVE AuditInv'
  <2>1. PICK i \in Touched : /\ Exists(i)
                             /\ revoked' = [revoked EXCEPT ![i] = TRUE]
                             /\ inv' = [inv EXCEPT ![c] = i]
    BY <1>6 DEF Revoke
  <2> QED
    BY <1>0, <1>6, <2>1
    DEF Revoke, ThenAudit, AuditInv, AuditTellsTheTruth, RowsOK, CallsOK,
        Exists, numberVars, payVars
<1>7. ASSUME NEW c \in Calls, Send(c) PROVE AuditInv'
  <2>1. UNCHANGED <<count, payments, voidedAt, revoked, audit>>
    BY <1>7 DEF Send, numberVars, payVars
  <2>2. CASE UNCHANGED delivered /\ Finish(c)
    BY <1>0, <2>1, <2>2, FinishResult, AuditUnchanged
  <2>3. CASE /\ delivered' = [delivered EXCEPT ![inv[c]] = TRUE]
             /\ ThenAudit(c, "sent_delivered") /\ UNCHANGED inv
    BY <1>0, <1>7, <2>1, <2>3
    DEF Send, ThenAudit, AuditInv, AuditTellsTheTruth, RowsOK, CallsOK, CallInv,
        Exists
  <2> QED
    BY <1>7, <2>2, <2>3 DEF Send
<1>8. ASSUME NEW c \in Calls, RecordAudit(c) PROVE AuditInv'
  <2>1. /\ inv[c] \in Ids
        /\ audit' = audit \union {<<inv[c], act[c]>>}
        /\ UNCHANGED <<count, payments, voidedAt, revoked, delivered>>
    BY <1>0, <1>8
    DEF RecordAudit, CallInv, Exists, numberVars, payVars, stateVars
  <2>2. AuditTellsTheTruth'
    BY <1>0, <1>8, <2>1 DEF RecordAudit, AuditInv, AuditTellsTheTruth
  <2>3. Finish(c)
    BY <1>8 DEF RecordAudit
  <2> QED
    BY <1>0, <2>1, <2>2, <2>3, FinishResult DEF AuditInv
<1>9. ASSUME NEW c \in Calls, GiveUp(c) \/ LinkQuote(c) \/ CutOff(c)
      PROVE  AuditInv'
  <2>1. /\ Finish(c)
        /\ UNCHANGED <<count, payments, voidedAt, revoked, delivered, audit>>
    BY <1>9 DEF GiveUp, LinkQuote, CutOff, numberVars, payVars, stateVars
  <2> QED
    BY <1>0, <2>1, FinishResult, AuditUnchanged
<1>10. ASSUME NEW c \in Calls,
              \/ Count(c) \/ InsertConflict(c) \/ StartPayment(c)
              \/ StartVoid(c) \/ StartSend(c)
       PROVE  AuditInv'
  <2>1. /\ UNCHANGED <<count, payments, voidedAt, revoked, delivered, audit>>
        /\ callPc'[c] # "audit"
        /\ \A d \in Calls \ {c} : /\ callPc'[d] = callPc[d] /\ inv'[d] = inv[d]
                                  /\ act'[d] = act[d]
    BY <1>0, <1>10
    DEF Count, InsertConflict, Retry, StartPayment, StartVoid, StartSend,
        CallsOK, numberVars, payVars, stateVars
  <2> QED
    BY <1>0, <2>1, AuditUnchanged
<1>11. ASSUME NEW q \in Quotes, CreateQuote(q) PROVE AuditInv'
  BY <1>0, <1>11
  DEF CreateQuote, callVars, numberVars, payVars, stateVars, AuditInv,
      AuditTellsTheTruth
<1>12. CASE NewYear
  BY <1>0, <1>12
  DEF NewYear, callVars, numberVars, payVars, stateVars, AuditInv,
      AuditTellsTheTruth
<1>13. CASE UNCHANGED invoicesVars
  BY <1>0, <1>13 DEF invoicesVars, AuditInv, AuditTellsTheTruth
<1> QED
  BY <1>1, <1>2, <1>3, <1>4, <1>5, <1>6, <1>7, <1>8, <1>9, <1>10, <1>11, <1>12,
     <1>13 DEF InvoicesNext
-----------------------------------------------------------------------------
(* Quotes *)

\* A step in which no conversion begins, moves between the steps that matter or
\* ends, and no invoice or quote changes.
LEMMA ConversionsUnchanged ==
  ASSUME QuoteInv, NEW c \in Calls, UNCHANGED <<count, source, quoteVars>>,
         \A d \in Calls : src'[d] = src[d] \/ (d = c /\ src'[d] = NoSource),
         \A d \in Calls \ {c} : callPc'[d] = callPc[d],
         callPc'[c] \in {"count", "insert", "failed"} =>
           callPc[c] \in {"count", "insert", "failed"},
         NoSource \notin Quotes, callPc[c] # "link"
  PROVE  QuoteInv'
  BY DEF QuoteInv, OneInvoicePerQuote, quoteVars

\* A conversion that begins while no other of its quote is under way finds the
\* quote without an invoice.
LEMMA NextConversions == Inv /\ [InvoicesNext]_invoicesVars => QuoteInv'
<1> SUFFICES ASSUME Inv, [InvoicesNext]_invoicesVars PROVE QuoteInv'
  OBVIOUS
<1> USE InvoicesAssumption
<1>0. RowsOK /\ QuotesOK /\ CallsOK /\ CallInv /\ QuoteInv
  BY DEF Inv, InvoicesTypeOK
<1>1. ASSUME NEW c \in Calls, CreateInvoice(c) PROVE QuoteInv'
  <2>1. PICK t \in Totals : BeginCreate(c, t, NoSource)
    BY <1>1 DEF CreateInvoice
  <2>2. t \in Int /\ UNCHANGED <<count, source, quote, raced>>
    BY <1>1 DEF CreateInvoice, numberVars, quoteVars
  <2>3. /\ callPc'[c] = "count" /\ src'[c] = NoSource /\ callPc[c] = "idle"
        /\ \A d \in Calls \ {c} : callPc'[d] = callPc[d] /\ src'[d] = src[d]
    BY <1>0, <2>1, <2>2, BeginResult
  <2> QED
    BY <1>0, <2>2, <2>3 DEF QuoteInv, OneInvoicePerQuote
<1>2. ASSUME NEW c \in Calls, ConvertQuote(c) PROVE QuoteInv'
  <2>1. PICK q \in Quotes :
          /\ quote[q].status = "DRAFT"
          /\ BeginCreate(c, quote[q].unitPrice * quote[q].quantity, q)
          /\ raced' = IF \E d \in Calls : src[d] = q THEN raced \union {q}
                                                     ELSE raced
    BY <1>2 DEF ConvertQuote
  <2>2. quote[q].unitPrice * quote[q].quantity \in Int
    BY <1>0, QuoteAmount
  <2>3. UNCHANGED <<count, source, quote>>
    BY <1>2 DEF ConvertQuote, numberVars
  <2>4. /\ callPc'[c] = "count" /\ src'[c] = q /\ callPc[c] = "idle"
        /\ \A d \in Calls \ {c} : callPc'[d] = callPc[d] /\ src'[d] = src[d]
    BY <1>0, <2>1, <2>2, BeginResult
  <2>5. raced \subseteq raced'
    BY <2>1
  <2>6. q \notin raced' => /\ \A d \in Calls : src[d] # q
                           /\ \A i \in Ids : source[i] # q
    BY <1>0, <2>1 DEF QuoteInv
  <2>7. src[c] = NoSource
    BY <1>0, <2>4 DEF CallInv
  <2>8. ASSUME NEW p \in Quotes \ raced'
        PROVE  /\ \A d, e \in Calls : src'[d] = p /\ src'[e] = p => d = e
               /\ \A d \in Calls, i \in Ids :
                    src'[d] = p /\ callPc'[d] \in {"count", "insert", "failed"}
                      => source'[i] # p
               /\ \A i \in Ids : source'[i] = p =>
                    \/ quote'[p].status = "CONVERTED"
                    \/ \E d \in Calls : src'[d] = p /\ callPc'[d] = "link"
    <3>1. CASE p = q
      BY <2>3, <2>4, <2>6, <2>8, <3>1
    <3>2. CASE p # q
      BY <1>0, <2>3, <2>4, <2>5, <2>7, <2>8, <3>2 DEF QuoteInv
    <3> QED
      BY <3>1, <3>2
  <2>9. OneInvoicePerQuote'
    BY <1>0, <2>3, <2>5 DEF QuoteInv, OneInvoicePerQuote
  <2> QED
    BY <1>0, <2>3, <2>8, <2>9 DEF QuoteInv
<1>3. ASSUME NEW c \in Calls, Insert(c) PROVE QuoteInv'
  <2>1. /\ count \in Nat /\ count' = count + 1 /\ count + 1 \in Ids
        /\ UNCHANGED <<quote, raced>> /\ callPc[c] = "insert"
    BY <1>0, <1>3 DEF Insert, RowsOK, Ids, quoteVars
  <2>2. /\ source'[count + 1] = src[c]
        /\ \A i \in Ids \ {count + 1} : source'[i] = source[i]
        /\ source[count + 1] = NoSource
    BY <1>0, <1>3, <2>1 DEF Insert, RowsOK, QuoteInv
  <2>3. \A i \in Ids : i > count' => i > count /\ i # count + 1
    BY <2>1 DEF Ids
  <2>4. CASE src[c] = NoSource
    <3>1. /\ callPc'[c] = "idle" /\ src'[c] = NoSource
          /\ \A d \in Calls \ {c} : callPc'[d] = callPc[d] /\ src'[d] = src[d]
      BY <1>0, <1>3, <2>4, FinishResult DEF Insert
    <3> QED
      BY <1>0, <2>1, <2>2, <2>3, <2>4, <3>1 DEF QuoteInv, OneInvoicePerQuote
  <2>5. CASE src[c] # NoSource
    <3>1. /\ callPc'[c] = "link" /\ src' = src
          /\ \A d \in Calls \ {c} : callPc'[d] = callPc[d]
      BY <1>0, <1>3, <2>5 DEF Insert, CallsOK
    <3>2. src[c] \in Quotes
      BY <1>0, <2>5 DEF CallsOK
    <3>3. src[c] \notin raced => \A i \in Ids : source[i] # src[c]
      BY <1>0, <2>1, <3>2 DEF QuoteInv
    <3>4. OneInvoicePerQuote'
      BY <1>0, <2>1, <2>2, <3>3 DEF QuoteInv, OneInvoicePerQuote
    <3>5. ASSUME NEW q \in Quotes \ raced
          PROVE  /\ \A d \in Calls, i \in Ids :
                      src[d] = q /\ callPc'[d] \in {"count", "insert", "failed"}
                        => source'[i] # q
                 /\ \A i \in Ids : source'[i] = q =>
                      \/ quote[q].status = "CONVERTED"
                      \/ \E d \in Calls : src[d] = q /\ callPc'[d] = "link"
      <4>1. CASE q = src[c]
        BY <1>0, <3>1, <3>5, <4>1 DEF QuoteInv
      <4>2. CASE q # src[c]
        BY <1>0, <2>1, <2>2, <3>1, <3>5, <4>2 DEF QuoteInv
      <4> QED
        BY <4>1, <4>2
    <3>6. \A i \in Ids : i > count' => source'[i] = NoSource
      BY <1>0, <2>2, <2>3 DEF QuoteInv
    <3> QED
      BY <1>0, <2>1, <3>1, <3>4, <3>5, <3>6 DEF QuoteInv
  <2> QED
    BY <2>4, <2>5
<1>4. ASSUME NEW c \in Calls, LinkQuote(c) PROVE QuoteInv'
  <2>1. /\ callPc[c] = "link" /\ src[c] \in Quotes
        /\ UNCHANGED <<count, source, raced>>
    BY <1>0, <1>4 DEF LinkQuote, CallInv, numberVars
  <2>2. /\ quote'[src[c]].status = "CONVERTED"
        /\ \A q \in Quotes \ {src[c]} : quote'[q] = quote[q]
    BY <1>0, <1>4, <2>1 DEF LinkQuote, QuotesOK
  <2>3. /\ callPc'[c] = "idle" /\ src'[c] = NoSource
        /\ \A d \in Calls \ {c} : callPc'[d] = callPc[d] /\ src'[d] = src[d]
    BY <1>0, <1>4, FinishResult DEF LinkQuote
  <2> QED
    BY <1>0, <2>1, <2>2, <2>3 DEF QuoteInv, OneInvoicePerQuote
<1>5. ASSUME NEW c \in Calls, CutOff(c) PROVE QuoteInv'
  <2>1. /\ UNCHANGED <<count, source, quote>>
        /\ raced' = IF callPc[c] = "link" THEN raced \union {src[c]} ELSE raced
    BY <1>5 DEF CutOff, numberVars
  <2>2. /\ callPc'[c] = "idle" /\ src'[c] = NoSource
        /\ \A d \in Calls \ {c} : callPc'[d] = callPc[d] /\ src'[d] = src[d]
    BY <1>0, <1>5, FinishResult DEF CutOff
  <2> QED
    BY <1>0, <2>1, <2>2 DEF QuoteInv, OneInvoicePerQuote
<1>6. ASSUME NEW c \in Calls, GiveUp(c) \/ Pay(c) \/ RecordAudit(c)
      PROVE  QuoteInv'
  <2>1. Finish(c) /\ UNCHANGED <<count, source, quoteVars>> /\ callPc[c] # "link"
    BY <1>6 DEF GiveUp, Pay, RecordAudit, numberVars
  <2> QED
    BY <1>0, <2>1, FinishResult, ConversionsUnchanged
<1>7. ASSUME NEW c \in Calls,
             \/ Count(c) \/ InsertConflict(c) \/ StartPayment(c) \/ StartVoid(c)
             \/ Void(c) \/ Revoke(c) \/ StartSend(c)
      PROVE  QuoteInv'
  <2>1. /\ UNCHANGED <<count, source, quoteVars, src>>
        /\ callPc[c] # "link"
        /\ \A d \in Calls \ {c} : callPc'[d] = callPc[d]
        /\ callPc'[c] \in {"count", "insert", "failed"} =>
             callPc[c] \in {"count", "insert", "failed"}
    BY <1>0, <1>7
    DEF Count, InsertConflict, Retry, StartPayment, StartVoid, Void, Revoke,
        StartSend, ThenAudit, CallsOK, numberVars
  <2> QED
    BY <1>0, <2>1, ConversionsUnchanged
<1>8. ASSUME NEW q \in Quotes, CreateQuote(q) PROVE QuoteInv'
  <2>1. /\ UNCHANGED <<count, source, raced, callPc, src>>
        /\ quote[q].status = "absent"
        /\ \A p \in Quotes \ {q} : quote'[p] = quote[p]
    BY <1>0, <1>8 DEF CreateQuote, numberVars, callVars, QuotesOK
  <2> QED
    BY <1>0, <2>1 DEF QuoteInv, OneInvoicePerQuote
<1>9. CASE NewYear
  BY <1>0, <1>9
  DEF NewYear, callVars, numberVars, quoteVars, QuoteInv, OneInvoicePerQuote
<1>10. CASE UNCHANGED invoicesVars
  BY <1>0, <1>10 DEF invoicesVars, QuoteInv, OneInvoicePerQuote
<1>11. ASSUME NEW c \in Calls, Send(c) PROVE QuoteInv'
  BY <1>0, <1>11, SendResult, ConversionsUnchanged DEF numberVars
<1> QED
  BY <1>1, <1>2, <1>3, <1>4, <1>5, <1>6, <1>7, <1>8, <1>9, <1>10, <1>11 DEF InvoicesNext
-----------------------------------------------------------------------------
(* Quotes and the invoices they name *)

\* What a quote is worth: the price of a unit was rounded when it was stored.
Worth(q) == quote[q].unitPrice * quote[q].quantity

\* Its invoice's total and its own are apart by no more than the rounding.
Near(q) ==
  ToCents(Worth(q)) - quote[q].total \in -(2 * quote[q].quantity + 2)..(2 * quote[q].quantity + 2)

\* A quote keeps its price and quantity, a conversion under way has read them,
\* and an invoice made from the quote that is or may yet be named by it has what
\* it is worth for a total.
FaithInv ==
  /\ \A q \in Quotes : quote[q].status # "absent" => Near(q)
  /\ \A c \in Calls : src[c] # NoSource => quote[src[c]].status # "absent"
  /\ \A c \in Calls : src[c] # NoSource /\ callPc[c] \in {"count", "insert"} =>
       amount[c] = Worth(src[c])
  /\ \A c \in Calls : callPc[c] = "link" =>
       source[inv[c]] = src[c] /\ total[inv[c]] = ToCents(Worth(src[c]))
  /\ \A q \in Quotes : quote[q].status = "CONVERTED" =>
       \E i \in Ids : /\ i = quote[q].convertedInvoice /\ i <= count
                      /\ source[i] = q /\ total[i] = ToCents(Worth(q))

\* The rounding of a unit's price, times the quantity, and of the total.
LEMMA WorthNear ==
  ASSUME NEW p \in Nat, NEW n \in Nat
  PROVE  ToCents(ToCents(p) * n) - ToCents(p * n) \in -(2 * n + 2)..(2 * n + 2)
<1>1. PICK k \in Nat : ToCents(p) = 4 * k /\ 4 * k - p <= 2 /\ p - 4 * k <= 2
  <2>1. (p + 2) \div 4 \in Nat /\ ToCents(p) = 4 * ((p + 2) \div 4)
    BY DEF ToCents
  <2> QED BY <2>1
<1>2. PICK m \in Nat : m = k * n
  OBVIOUS
<1>3. (4 * k) * n = 4 * m
  BY <1>2
<1>4. ToCents(4 * m) = 4 * m
  BY DEF ToCents
<1>5. PICK x \in Nat : x = p * n
  OBVIOUS
<1>6. ToCents(x) - x <= 2 /\ x - ToCents(x) <= 2 /\ ToCents(x) \in Int
  BY DEF ToCents
<1>7. 4 * m - x <= 2 * n /\ x - 4 * m <= 2 * n
  <2>1. (4 * k - p) * n <= 2 * n /\ (p - 4 * k) * n <= 2 * n
    <3>1. \A a \in Int : a <= 2 => a * n <= 2 * n
      OBVIOUS
    <3> QED BY <1>1, <3>1
  <2>2. (4 * k - p) * n = 4 * m - x /\ (p - 4 * k) * n = x - 4 * m
    BY <1>2, <1>5
  <2> QED BY <2>1, <2>2
<1>8. ToCents(ToCents(p) * n) - ToCents(p * n) = 4 * m - ToCents(x)
  BY <1>1, <1>3, <1>4, <1>5
<1> QED BY <1>6, <1>7, <1>8

\* Rows that are not written keep what a quote says of them.
LEMMA FaithUnchanged ==
  ASSUME FaithInv, UNCHANGED <<count, source, total, quote>>,
         \A d \in Calls :
           \/ src'[d] = NoSource /\ callPc'[d] # "link"
           \/ /\ src'[d] = src[d] /\ amount'[d] = amount[d] /\ inv'[d] = inv[d]
              /\ callPc'[d] \in {"count", "insert"} => callPc[d] \in {"count", "insert"}
              /\ callPc'[d] = "link" => callPc[d] = "link"
  PROVE  FaithInv'
  BY DEF FaithInv, Near, Worth

\* Every step keeps quotes and invoices together.
LEMMA NextFaith == Inv /\ FaithInv /\ [InvoicesNext]_invoicesVars => FaithInv'
<1> SUFFICES ASSUME Inv, FaithInv, [InvoicesNext]_invoicesVars PROVE FaithInv'
  OBVIOUS
<1> USE InvoicesAssumption
<1>0. RowsOK /\ QuotesOK /\ CallsOK /\ CallInv
  BY DEF Inv, InvoicesTypeOK
<1>1. ASSUME NEW c \in Calls, CreateInvoice(c) PROVE FaithInv'
  <2>1. PICK t \in Totals : BeginCreate(c, t, NoSource)
    BY <1>1 DEF CreateInvoice
  <2>2. t \in Int /\ UNCHANGED <<count, source, total, quote>>
    BY <1>1 DEF CreateInvoice, numberVars, quoteVars
  <2>3. /\ callPc'[c] = "count" /\ src'[c] = NoSource /\ UNCHANGED inv
        /\ \A d \in Calls \ {c} : /\ callPc'[d] = callPc[d] /\ src'[d] = src[d]
                                  /\ amount'[d] = amount[d]
    BY <1>0, <2>1, <2>2, BeginResult
  <2> QED BY <2>2, <2>3, FaithUnchanged
<1>2. ASSUME NEW c \in Calls, ConvertQuote(c) PROVE FaithInv'
  <2>1. PICK q \in Quotes :
          quote[q].status = "DRAFT" /\ BeginCreate(c, Worth(q), q)
    BY <1>2 DEF ConvertQuote, Worth
  <2>2. Worth(q) \in Int
    BY <1>0, QuoteAmount DEF Worth
  <2>3. UNCHANGED <<count, source, total, quote>>
    BY <1>2 DEF ConvertQuote, numberVars
  <2>4. /\ callPc'[c] = "count" /\ src'[c] = q /\ UNCHANGED inv
        /\ \A d \in Calls \ {c} : /\ callPc'[d] = callPc[d] /\ src'[d] = src[d]
                                  /\ amount'[d] = amount[d]
    BY <1>0, <2>1, <2>2, BeginResult
  <2>5. amount'[c] = Worth(q)
    BY <1>0, <2>1 DEF BeginCreate, CallsOK
  <2>6. \A p \in Quotes : Worth(p)' = Worth(p) /\ (Near(p) => Near(p)')
    BY <2>3 DEF Worth, Near
  <2>7. \A d \in Calls : src'[d] # NoSource =>
          /\ src'[d] \in Quotes /\ quote[src'[d]].status # "absent"
          /\ callPc'[d] \in {"count", "insert"} => amount'[d] = Worth(src'[d])
    BY <1>0, <2>1, <2>4, <2>5 DEF FaithInv, CallsOK
  <2>8. \A d \in Calls : callPc'[d] = "link" => /\ src'[d] \in Quotes /\ source[inv[d]] = src'[d]
                                          /\ total[inv[d]] = ToCents(Worth(src'[d]))
    BY <1>0, <2>4 DEF FaithInv, CallInv
  <2> QED BY <2>3, <2>4, <2>6, <2>7, <2>8 DEF FaithInv
<1>3. ASSUME NEW c \in Calls, Insert(c) PROVE FaithInv'
  <2>1. /\ count \in Nat /\ count' = count + 1 /\ count + 1 \in Ids
        /\ UNCHANGED quote /\ callPc[c] = "insert"
    BY <1>0, <1>3 DEF Insert, RowsOK, Ids, quoteVars
  <2>2. /\ source'[count + 1] = src[c] /\ total'[count + 1] = ToCents(amount[c])
        /\ \A i \in Ids \ {count + 1} : source'[i] = source[i] /\ total'[i] = total[i]
    BY <1>0, <1>3, <2>1 DEF Insert, RowsOK
  <2>3. \A p \in Quotes : Worth(p)' = Worth(p) /\ (Near(p) => Near(p)')
    BY <2>1 DEF Worth, Near
  <2>4. \A i \in Ids : i <= count => i <= count' /\ i \in Ids \ {count + 1}
    BY <1>0, <2>1 DEF Ids
  <2>5. \/ /\ src[c] = NoSource /\ callPc'[c] = "idle" /\ src'[c] = NoSource
        \/ /\ src[c] \in Quotes /\ callPc'[c] = "link" /\ src'[c] = src[c]
           /\ inv'[c] = count + 1
    <3>1. CASE src[c] = NoSource
      BY <1>0, <1>3, <3>1, FinishResult DEF Insert
    <3>2. CASE src[c] # NoSource
      BY <1>0, <1>3, <2>1, <3>2 DEF Insert, CallsOK
    <3> QED BY <3>1, <3>2
  <2>6. \A d \in Calls \ {c} : /\ callPc'[d] = callPc[d] /\ src'[d] = src[d]
                               /\ amount'[d] = amount[d] /\ inv'[d] = inv[d]
    <3>1. CASE src[c] = NoSource
      BY <1>0, <1>3, <3>1, FinishResult DEF Insert
    <3>2. CASE src[c] # NoSource
      BY <1>0, <1>3, <3>2 DEF Insert, CallsOK
    <3> QED BY <3>1, <3>2
  <2>7. \A d \in Calls : callPc[d] = "link" =>
          inv[d] \in Ids /\ inv[d] <= count /\ src[d] \in Quotes
    BY <1>0 DEF CallInv, Exists
  <2>8. src[c] # NoSource => amount[c] = Worth(src[c])
    BY <2>1 DEF FaithInv
  <2>9. \A d \in Calls : src[d] # NoSource => src[d] \in Quotes
    BY <1>0 DEF CallsOK
  <2>10. \A d \in Calls : callPc'[d] = "link" =>
           source'[inv'[d]] = src'[d] /\ total'[inv'[d]] = ToCents(Worth(src'[d]))
    BY <2>2, <2>4, <2>5, <2>6, <2>7, <2>8 DEF FaithInv
  <2>11. \A d \in Calls : src'[d] # NoSource /\ callPc'[d] \in {"count", "insert"} =>
           amount'[d] = Worth(src'[d])
    BY <2>5, <2>6 DEF FaithInv
  <2>12. \A d \in Calls : src'[d] # NoSource => src'[d] \in Quotes /\ quote[src'[d]].status # "absent"
    BY <2>5, <2>6, <2>9 DEF FaithInv
  <2>13. \A d \in Calls : callPc'[d] = "link" => src'[d] \in Quotes
    BY <2>5, <2>6, <2>7
  <2>14. \A q \in Quotes : quote[q].status = "CONVERTED" =>
           \E i \in Ids : /\ i = quote[q].convertedInvoice /\ i <= count'
                          /\ source'[i] = q /\ total'[i] = ToCents(Worth(q))
    BY <2>1, <2>2, <2>4 DEF FaithInv
  <2> QED BY <2>1, <2>3, <2>10, <2>11, <2>12, <2>13, <2>14 DEF FaithInv
<1>4. ASSUME NEW c \in Calls, LinkQuote(c) PROVE FaithInv'
  <2>1. /\ callPc[c] = "link" /\ src[c] \in Quotes /\ inv[c] \in Ids /\ inv[c] <= count
        /\ UNCHANGED <<count, source, total>>
    BY <1>0, <1>4 DEF LinkQuote, CallInv, Exists, numberVars
  <2>2. /\ quote'[src[c]].convertedInvoice = inv[c]
        /\ quote'[src[c]].unitPrice = quote[src[c]].unitPrice
        /\ quote'[src[c]].quantity = quote[src[c]].quantity
        /\ quote'[src[c]].total = quote[src[c]].total
        /\ quote'[src[c]].status = "CONVERTED"
        /\ \A q \in Quotes \ {src[c]} : quote'[q] = quote[q]
    BY <1>0, <1>4, <2>1 DEF LinkQuote, QuotesOK
  <2>3. \A q \in Quotes : Worth(q)' = Worth(q) /\ (Near(q) => Near(q)')
    BY <2>2 DEF Worth, Near
  <2>4. /\ callPc'[c] = "idle" /\ src'[c] = NoSource
        /\ \A d \in Calls \ {c} : /\ callPc'[d] = callPc[d] /\ src'[d] = src[d]
                                  /\ amount'[d] = amount[d] /\ inv'[d] = inv[d]
    BY <1>0, <1>4, FinishResult DEF LinkQuote
  <2>6. \A d \in Calls : /\ src[d] # NoSource => src[d] \in Quotes
                         /\ callPc[d] = "link" => src[d] \in Quotes
    BY <1>0 DEF CallsOK, CallInv
  <2>7. \A q \in Quotes : quote'[q].status # "absent" => Near(q)'
    BY <2>1, <2>2, <2>3 DEF FaithInv
  <2>8. \A q \in Quotes : quote'[q].status = "CONVERTED" =>
          \E i \in Ids : /\ i = quote'[q].convertedInvoice /\ i <= count
                         /\ source[i] = q /\ total[i] = ToCents(Worth(q))
    BY <2>1, <2>2 DEF FaithInv
  <2>9. \A d \in Calls : src'[d] # NoSource =>
          /\ src'[d] \in Quotes /\ quote'[src'[d]].status # "absent"
          /\ callPc'[d] \in {"count", "insert"} => amount'[d] = Worth(src'[d])
    BY <2>2, <2>4, <2>6 DEF FaithInv
  <2>10. \A d \in Calls : callPc'[d] = "link" =>
          /\ src'[d] \in Quotes
          /\ source[inv'[d]] = src'[d] /\ total[inv'[d]] = ToCents(Worth(src'[d]))
    BY <2>4, <2>6 DEF FaithInv
  <2> QED BY <2>1, <2>3, <2>7, <2>8, <2>9, <2>10 DEF FaithInv
<1>5. ASSUME NEW c \in Calls, GiveUp(c) \/ Pay(c) \/ RecordAudit(c) \/ CutOff(c)
      PROVE  FaithInv'
  <2>1. Finish(c) /\ UNCHANGED <<count, source, total, quote>>
    BY <1>5 DEF GiveUp, Pay, RecordAudit, CutOff, numberVars, quoteVars
  <2> QED BY <1>0, <2>1, FinishResult, FaithUnchanged
<1>6. ASSUME NEW c \in Calls, Count(c) \/ InsertConflict(c) PROVE FaithInv'
  <2>1. /\ UNCHANGED <<count, source, total, quote, src, amount, inv>>
        /\ callPc[c] \in {"count", "insert"} /\ callPc'[c] # "link"
        /\ \A d \in Calls \ {c} : callPc'[d] = callPc[d]
    BY <1>0, <1>6 DEF Count, InsertConflict, Retry, CallsOK, numberVars, quoteVars
  <2> QED BY <2>1, FaithUnchanged
<1>7. ASSUME NEW c \in Calls,
             \/ StartPayment(c) \/ StartVoid(c) \/ Void(c) \/ Revoke(c) \/ StartSend(c)
             \/ Send(c)
      PROVE  FaithInv'
  <2>1. UNCHANGED <<count, source, total, quote>>
    BY <1>7 DEF StartPayment, StartVoid, Void, Revoke, StartSend, Send, numberVars, quoteVars
  <2>2. callPc[c] \in {"idle", "void", "send"} /\ src[c] = NoSource
    BY <1>0, <1>7 DEF StartPayment, StartVoid, Void, Revoke, StartSend, Send, CallInv
  <2>3. /\ src'[c] = NoSource /\ callPc'[c] # "link"
        /\ \A d \in Calls \ {c} : /\ callPc'[d] = callPc[d] /\ src'[d] = src[d]
                                  /\ amount'[d] = amount[d] /\ inv'[d] = inv[d]
    <3>1. CASE Send(c)
      BY <1>0, <2>2, <3>1, SendResult
    <3>2. CASE StartPayment(c)
      BY <1>0, <2>2, <3>2 DEF StartPayment, CallsOK
    <3>3. CASE StartVoid(c) \/ StartSend(c)
      BY <1>0, <2>2, <3>3 DEF StartVoid, StartSend, CallsOK
    <3>4. CASE Void(c) \/ Revoke(c)
      BY <1>0, <2>2, <3>4 DEF Void, Revoke, ThenAudit, CallsOK
    <3> QED BY <1>7, <3>1, <3>2, <3>3, <3>4
  <2> QED BY <2>1, <2>3, FaithUnchanged
<1>8. ASSUME NEW q \in Quotes, CreateQuote(q) PROVE FaithInv'
  <2>1. PICK p \in Prices, n \in LineQuantities :
          quote' = [quote EXCEPT ![q] =
                      [status |-> "DRAFT", unitPrice |-> ToCents(p), quantity |-> n,
                       total |-> ToCents(p * n), convertedInvoice |-> 0]]
    BY <1>8 DEF CreateQuote
  <2>2. p \in Nat /\ n \in Nat
    OBVIOUS
  <2>3. /\ quote'[q].status = "DRAFT" /\ quote'[q].unitPrice = ToCents(p)
        /\ quote'[q].quantity = n /\ quote'[q].total = ToCents(p * n)
        /\ \A r \in Quotes \ {q} : quote'[r] = quote[r]
    BY <1>0, <2>1 DEF QuotesOK
  <2>4. Near(q)'
    BY <2>2, <2>3, WorthNear DEF Near, Worth
  <2>5. \A r \in Quotes \ {q} : Worth(r)' = Worth(r) /\ (Near(r) => Near(r)')
    BY <2>3 DEF Worth, Near
  <2>6. /\ quote[q].status = "absent"
        /\ UNCHANGED <<count, source, total, src, callPc, inv, amount>>
    BY <1>8 DEF CreateQuote, numberVars, callVars
  <2>8. \A d \in Calls : /\ src[d] # NoSource => src[d] \in Quotes \ {q}
                         /\ callPc[d] = "link" => src[d] \in Quotes \ {q}
    BY <1>0, <2>6 DEF CallsOK, CallInv, FaithInv
  <2>9. \A r \in Quotes : quote'[r].status # "absent" => Near(r)'
    BY <2>3, <2>4, <2>5 DEF FaithInv
  <2>10. \A r \in Quotes : quote'[r].status = "CONVERTED" =>
          \E i \in Ids : /\ i = quote'[r].convertedInvoice /\ i <= count
                         /\ source[i] = r /\ total[i] = ToCents(Worth(r)')
    BY <2>3, <2>5 DEF FaithInv
  <2>11. \A d \in Calls : src[d] # NoSource =>
          /\ quote'[src[d]].status # "absent"
          /\ callPc[d] \in {"count", "insert"} => amount[d] = Worth(src[d])
    BY <2>3, <2>8 DEF FaithInv
  <2> QED BY <2>5, <2>6, <2>8, <2>9, <2>10, <2>11 DEF FaithInv
<1>9. CASE NewYear
  BY <1>9, FaithUnchanged DEF NewYear, callVars, numberVars, quoteVars
<1>10. CASE UNCHANGED invoicesVars
  BY <1>10, FaithUnchanged DEF invoicesVars
<1> QED
  BY <1>1, <1>2, <1>3, <1>4, <1>5, <1>6, <1>7, <1>8, <1>9, <1>10 DEF InvoicesNext
-----------------------------------------------------------------------------
(* Settled invoices *)

\* The balance of a paid invoice is its total.
PaidInFull == \A i \in Ids : status[i] = "PAID" => amountPaid[i] = total[i]

\* A step other than Insert, Pay and Void writes no status, balance or total.
LEMMA RowsKept ==
  ASSUME [InvoicesNext]_invoicesVars, ~\E c \in Calls : Insert(c) \/ Pay(c) \/ Void(c)
  PROVE  UNCHANGED <<status, amountPaid, total, payments>>
  BY DEF InvoicesNext, invoicesVars, CreateInvoice, BeginCreate, Count, InsertConflict, GiveUp, ConvertQuote,
         LinkQuote, StartPayment, StartVoid, Revoke, StartSend, Send, RecordAudit,
         CutOff, CreateQuote, NewYear, numberVars, payVars, stateVars

\* An invoice is PAID by a payment that brings its balance to the total.
LEMMA NextPaidInFull == Inv /\ PaidInFull /\ [InvoicesNext]_invoicesVars => PaidInFull'
<1> SUFFICES ASSUME Inv, PaidInFull, [InvoicesNext]_invoicesVars PROVE PaidInFull'
  OBVIOUS
<1>0. RowsOK /\ CallsOK /\ CallInv /\ PayInv
  BY DEF Inv, InvoicesTypeOK
<1>1. ASSUME NEW c \in Calls, Insert(c) PROVE PaidInFull'
  BY <1>0, <1>1 DEF Insert, PaidInFull, RowsOK, payVars
<1>2. ASSUME NEW c \in Calls, Pay(c) PROVE PaidInFull'
  <2>1. PICK i \in Ids : i = inv[c]
    BY <1>0, <1>2 DEF Pay, CallInv, Exists, Ids
  <2>2. PaysInFull(c) => NewPaid(c) = total[i]
    <3>1. PICK t \in Int : t = total[i] /\ t % 4 = 0
      BY <1>0, <2>1 DEF PayInv, WholeCents, RowsOK
    <3>2. ToCents(t) = t
      BY <3>1 DEF ToCents
    <3> QED BY <2>1, <3>1, <3>2 DEF PaysInFull, NewPaid
  <2> QED BY <1>0, <1>2, <2>1, <2>2 DEF Pay, PaidInFull, RowsOK, numberVars
<1>3. ASSUME NEW c \in Calls, Void(c) PROVE PaidInFull'
  BY <1>0, <1>3 DEF Void, PaidInFull, RowsOK, numberVars, payVars
<1>4. CASE ~\E c \in Calls : Insert(c) \/ Pay(c) \/ Void(c)
  BY <1>4, RowsKept DEF PaidInFull
<1> QED BY <1>1, <1>2, <1>3, <1>4

\* A request that gets to "pay" or "void" has just read an invoice that was
\* neither VOID (for a payment) nor paid; every other is where it was.
LEMMA Entering ==
  ASSUME Inv, PaidInFull, [InvoicesNext]_invoicesVars, NEW d \in Calls, callPc'[d] \in {"pay", "void"}
  PROVE  \/ callPc'[d] = callPc[d] /\ inv'[d] = inv[d]
         \/ callPc'[d] = "pay" /\ status[inv'[d]] \notin {"VOID", "PAID"}
         \/ callPc'[d] = "void" /\ status[inv'[d]] # "PAID"
<1> USE InvoicesAssumption
<1>0. RowsOK /\ QuotesOK /\ CallsOK /\ CallInv
  BY DEF Inv, InvoicesTypeOK
<1> DEFINE Here == callPc'[d] = callPc[d] /\ inv'[d] = inv[d]
<1>f. ASSUME NEW c \in Calls, Finish(c) PROVE Here
  BY <1>0, <1>f, FinishResult
<1>1. ASSUME NEW c \in Calls, CreateInvoice(c) PROVE Here
  <2>1. PICK t \in Totals : BeginCreate(c, t, NoSource)
    BY <1>1 DEF CreateInvoice
  <2> QED BY <1>0, <2>1, BeginResult
<1>2. ASSUME NEW c \in Calls, ConvertQuote(c) PROVE Here
  <2>1. PICK q \in Quotes :
          BeginCreate(c, quote[q].unitPrice * quote[q].quantity, q)
    BY <1>2 DEF ConvertQuote
  <2>2. quote[q].unitPrice * quote[q].quantity \in Int
    BY <1>0, QuoteAmount
  <2> QED BY <1>0, <2>1, <2>2, BeginResult
<1>3. ASSUME NEW c \in Calls, Insert(c) PROVE Here
  <2>1. CASE src[c] = NoSource
    BY <1>3, <2>1, <1>f DEF Insert
  <2>2. CASE src[c] # NoSource
    BY <1>0, <1>3, <2>2 DEF Insert, CallsOK
  <2> QED BY <2>1, <2>2
<1>4. ASSUME NEW c \in Calls, Count(c) \/ InsertConflict(c) PROVE Here
  BY <1>0, <1>4 DEF Count, InsertConflict, Retry, CallsOK
<1>5. ASSUME NEW c \in Calls, GiveUp(c) \/ LinkQuote(c) \/ Pay(c) \/ RecordAudit(c) \/ CutOff(c)
      PROVE  Here
  BY <1>5, <1>f DEF GiveUp, LinkQuote, Pay, RecordAudit, CutOff
<1>6. ASSUME NEW c \in Calls, Void(c) \/ Revoke(c) \/ StartSend(c) PROVE Here
  BY <1>0, <1>6 DEF Void, Revoke, StartSend, ThenAudit, CallsOK
<1>7. ASSUME NEW c \in Calls, Send(c) PROVE Here
  BY <1>0, <1>7, SendResult
<1>8. ASSUME NEW c \in Calls, StartPayment(c)
      PROVE  Here \/ (callPc'[d] = "pay" /\ status[inv'[d]] \notin {"VOID", "PAID"})
  <2>1. PICK i \in Touched, a \in Amounts :
          /\ Exists(i) /\ Payable(i, a)
          /\ inv' = [inv EXCEPT ![c] = i]
    BY <1>8 DEF StartPayment
  <2>2. i \in Ids
    BY <2>1 DEF Exists, Ids
  <2>3. status[i] \notin {"VOID", "PAID"}
    BY <1>0, <2>1, <2>2 DEF Payable, PaidInFull, RowsOK
  <2> QED BY <1>0, <1>8, <2>1, <2>3 DEF StartPayment, CallsOK
<1>9. ASSUME NEW c \in Calls, StartVoid(c)
      PROVE  Here \/ (callPc'[d] = "void" /\ status[inv'[d]] # "PAID")
  BY <1>0, <1>9 DEF StartVoid, CallsOK
<1>10. ASSUME NEW q \in Quotes, CreateQuote(q) PROVE Here
  BY <1>10 DEF CreateQuote, callVars
<1>11. CASE NewYear \/ UNCHANGED invoicesVars
  BY <1>11 DEF NewYear, invoicesVars, callVars
<1> QED
  BY <1>1, <1>2, <1>3, <1>4, <1>5, <1>6, <1>7, <1>8, <1>9, <1>10, <1>11 DEF InvoicesNext

\* What is settled stays as it is.
LEMMA SettledStep ==
  ASSUME Inv, PaidInFull, [InvoicesNext]_invoicesVars, NEW i \in Ids, Settled(i)
  PROVE  Settled(i)' /\ status'[i] = status[i] /\ payments'[i] = payments[i]
<1>0. RowsOK /\ CallsOK /\ CallInv /\ PayInv
  BY DEF Inv, InvoicesTypeOK
<1>1. status'[i] = status[i] /\ payments'[i] = payments[i]
  <2>1. ASSUME NEW c \in Calls, Insert(c) PROVE status'[i] = status[i] /\ payments'[i] = payments[i]
    <3>1. i # count + 1
      BY <1>0 DEF PayInv, Settled, RowsOK
    <3> QED BY <1>0, <2>1, <3>1 DEF Insert, RowsOK, payVars
  <2>2. ASSUME NEW c \in Calls, Pay(c) PROVE status'[i] = status[i] /\ payments'[i] = payments[i]
    BY <1>0, <2>2 DEF Pay, Settled, RowsOK
  <2>3. ASSUME NEW c \in Calls, Void(c) PROVE status'[i] = status[i] /\ payments'[i] = payments[i]
    BY <1>0, <2>3 DEF Void, Settled, RowsOK, payVars
  <2>4. CASE ~\E c \in Calls : Insert(c) \/ Pay(c) \/ Void(c)
    BY <2>4, RowsKept
  <2> QED BY <2>1, <2>2, <2>3, <2>4
<1>2. Settled(i)'
  BY <1>1, Entering DEF Settled
<1> QED BY <1>1, <1>2
-----------------------------------------------------------------------------
(* The theorems *)

\* The invariant holds throughout.
THEOREM Invariance == InvoicesSpec => []Inv
<1>1. InvoicesInit => Inv
  BY InitInv
<1>2. Inv /\ [InvoicesNext]_invoicesVars => Inv'
  BY NextRows, NextQuotes, NextCalls, NextNumbers, NextPayments, NextAudit,
     NextConversions
  DEF Inv, InvoicesTypeOK
<1> QED
  BY <1>1, <1>2, PTL DEF InvoicesSpec

\* The rows, the quotes and the requests keep their types.
THEOREM TypeCorrect == InvoicesSpec => []InvoicesTypeOK
<1>1. Inv => InvoicesTypeOK
  BY DEF Inv
<1> QED
  BY <1>1, Invariance, PTL

\* The number after the count is free, however creations overlap.
THEOREM NumbersNeverLockOut == InvoicesSpec => []NextNumberFree
<1>1. Inv => NextNumberFree
  BY DEF Inv, NumberInv
<1> QED
  BY <1>1, Invariance, PTL

\* createInvoice gives up only after MaxTries creations by others.
THEOREM GivesUpUnderContention == InvoicesSpec => []FailsOnlyUnderContention
<1>1. Inv => FailsOnlyUnderContention
  BY DEF Inv, CallInv, NumberInv, FailsOnlyUnderContention
<1> QED
  BY <1>1, Invariance, PTL

\* PAID, receipts and balances are backed by payments.
THEOREM BalancesBacked == InvoicesSpec => []PaidIsBacked
<1>1. Inv => PaidIsBacked
  BY DEF Inv, PayInv
<1> QED
  BY <1>1, Invariance, PTL

\* Balance and payments agree, within the total, unless payments overlapped.
THEOREM BalancesExact == InvoicesSpec => []BooksBalance
<1>1. Inv => BooksBalance
  BY DEF Inv, PayInv
<1> QED
  BY <1>1, Invariance, PTL

\* Conversions that neither overlap nor break off yield one invoice.
THEOREM QuotesConvertOnce == InvoicesSpec => []OneInvoicePerQuote
<1>1. Inv => OneInvoicePerQuote
  BY DEF Inv, QuoteInv
<1> QED
  BY <1>1, Invariance, PTL

\* A converted quote names an invoice made from it, whose total is off by no more
\* than the rounding of the unit price and of the total (createQuote and
\* convertQuoteToInvoice), for any prices and quantities, however conversions
\* overlap and break off.
THEOREM ConversionsFaithful == InvoicesSpec => []ConversionFaithful
<1>1. InvoicesInit => FaithInv
  <2> SUFFICES ASSUME InvoicesInit PROVE FaithInv
    OBVIOUS
  <2>1. \A q \in Quotes : quote[q].status = "absent"
    BY DEF InvoicesInit, NoQuote
  <2>2. \A c \in Calls : src[c] = NoSource /\ callPc[c] = "idle"
    BY DEF InvoicesInit
  <2> QED BY <2>1, <2>2 DEF FaithInv
<1>2. Inv /\ FaithInv => ConversionFaithful
  BY DEF FaithInv, Near, ConversionFaithful, Exists
<1> QED
  BY <1>1, <1>2, Invariance, NextFaith, PTL DEF InvoicesSpec

\* The audit trail tells of nothing that did not happen.
THEOREM AuditTrue == InvoicesSpec => []AuditTellsTheTruth
<1>1. Inv => AuditTellsTheTruth
  BY DEF Inv, AuditInv
<1> QED
  BY <1>1, Invariance, PTL

\* VOID and PAID are final once no payment or void that had read the invoice
\* before is under way.
THEOREM SettledForGood == InvoicesSpec => SettledStays
<1>1. InvoicesInit => PaidInFull
  BY DEF InvoicesInit, PaidInFull
<1>2. Inv /\ PaidInFull /\ [InvoicesNext]_invoicesVars
        => [\A i \in Ids : Settled(i) =>
              Settled(i)' /\ status'[i] = status[i] /\ payments'[i] = payments[i]]_invoicesVars
  BY SettledStep
<1> QED
  BY <1>1, <1>2, Invariance, NextPaidInFull, PTL DEF InvoicesSpec, SettledStays

\* Creations get their numbers, for any number of overlapping requests.
THEOREM NumberingNeverSticks == InvoicesSpec => []NumberingProgresses
  BY NumbersNeverLockOut, GivesUpUnderContention, PTL DEF NumberingProgresses

\* Balances, receipts and audit rows are true, for any amounts and overlaps.
THEOREM BooksTrue == InvoicesSpec => []BooksAreTrue
  BY BalancesBacked, BalancesExact, AuditTrue, PTL DEF BooksAreTrue
=============================================================================
