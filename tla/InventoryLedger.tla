-------------------------- MODULE InventoryLedger --------------------------
(***************************************************************************)
(* The inventory ledger of apps/api: InventoryMovement rows, the           *)
(* InventoryBalance projection, and the transactions that write them       *)
(* (createSale, refundSale's restock, adjustStock, transferStock), run     *)
(* concurrently under Postgres READ COMMITTED.                             *)
(*                                                                         *)
(* A transaction works off a list of movements.  recordMovement is three   *)
(* statements: look the idempotencyKey up, upsert the balance row (which   *)
(* locks it until the transaction ends), insert the movement (which waits  *)
(* for, or fails on, another movement with its key).  The balance row has  *)
(* a committed version and the version its lock holder has written; the    *)
(* movements of a cell are one sequence with a durable prefix.             *)
(***************************************************************************)
EXTENDS Integers, Sequences, FiniteSetsExt

CONSTANTS
  Locations,        \* stock locations
  DefaultLocation,  \* the branch's isDefault location, where refunds restock
  Variants,         \* product variants
  Txs,              \* request handlers, each with one transaction
  Mutations,        \* clientMutationIds
  Keys,             \* idempotencyKeys a client may send with an adjustment
  None,             \* no key, no transaction, no mutation
  Quantities,       \* line quantities
  MaxLines,         \* bound: lines of a sale or a transfer
  OpeningStock,     \* quantity of every cell at the start
  ReorderPoint, WarningBuffer

ASSUME LedgerAssumption ==
  /\ DefaultLocation \in Locations
  /\ None \notin Txs \union Keys \union Mutations
  /\ Quantities \subseteq Nat \ {0}
  /\ MaxLines \in Nat
  /\ OpeningStock \in Int /\ ReorderPoint \in Int /\ WarningBuffer \in Int

VARIABLES
  balance,     \* InventoryBalance.quantity per cell, as committed
  quantity,    \* the same row as its lock holder has left it
  lock,        \* the transaction holding the row's lock
  rows,        \* InventoryMovement rows per cell, uncommitted ones last
  durable,     \* how many of them are committed
  pc,          \* per transaction
  todo,        \* the movements a transaction still has to record
  kind,        \* "sale", "refund", "adjust", "transfer"
  lines,       \* the lines of the request
  mutation     \* the clientMutationId of a sale, or of the sale refunded

rowVars == <<balance, quantity, lock, rows, durable>>
reqVars == <<kind, lines, mutation>>
vars == <<balance, quantity, lock, rows, durable, pc, todo, kind, lines,
          mutation>>

Cells == Locations \X Variants
Lines == [variant : Variants, quantity : Quantities]
LineLists == UNION {[1..n -> Lines] : n \in 1..MaxLines}
MovementKeys == Keys \union {None}
                  \union ({"sale", "refund"} \X Txs \X Variants)
Inputs == [cell : Cells, delta : Int, key : MovementKeys]
Movements == [delta : Int, resulting : Int, key : MovementKeys,
              tx : Txs \union {None}, alerted : BOOLEAN]
Phases == {"new", "insert", "lookup", "upsert", "create", "committed",
           "aborted"}
Kinds == {"none", "sale", "refund", "adjust", "transfer"}

Open(t) == pc[t] \in {"insert", "lookup", "upsert", "create"}

TypeOK ==
  /\ balance \in [Cells -> Int]
  /\ quantity \in [Cells -> Int]
  /\ lock \in [Cells -> Txs \union {None}]
  /\ rows \in [Cells -> Seq(Movements)]
  /\ durable \in [Cells -> Nat]
  /\ pc \in [Txs -> Phases]
  /\ todo \in [Txs -> Seq(Inputs)]
  /\ kind \in [Txs -> Kinds]
  /\ lines \in [Txs -> Seq(Lines)]
  /\ mutation \in [Txs -> Mutations \union {None}]

\* Every cell starts with the movement that brought its opening stock in.
Opening == [delta |-> OpeningStock, resulting |-> OpeningStock, key |-> None,
            tx |-> None, alerted |-> FALSE]

Init ==
  /\ balance = [c \in Cells |-> OpeningStock]
  /\ quantity = [c \in Cells |-> OpeningStock]
  /\ lock = [c \in Cells |-> None]
  /\ rows = [c \in Cells |-> <<Opening>>]
  /\ durable = [c \in Cells |-> 1]
  /\ pc = [t \in Txs |-> "new"]
  /\ todo = [t \in Txs |-> <<>>]
  /\ kind = [t \in Txs |-> "none"]
  /\ lines = [t \in Txs |-> <<>>]
  /\ mutation = [t \in Txs |-> None]
-----------------------------------------------------------------------------
(* packages/domain: computeStockStatus *)

ComputeStockStatus(available) ==
  IF available <= 0 \/ available < ReorderPoint THEN "red"
  ELSE IF available <= ReorderPoint
                       + (IF WarningBuffer > 0 THEN WarningBuffer ELSE 0)
       THEN "yellow"
       ELSE "green"
-----------------------------------------------------------------------------
(* The requests.  Checks on tenant, branch, variant and payment happen      *)
(* before the transaction and write nothing; a request that fails them      *)
(* never starts.                                                            *)

Begin(t, k, ls, movements) ==
  /\ pc[t] = "new"
  /\ kind' = [kind EXCEPT ![t] = k]
  /\ lines' = [lines EXCEPT ![t] = ls]
  /\ todo' = [todo EXCEPT ![t] = movements]
  /\ UNCHANGED rowVars

\* The committed sale of a clientMutationId, if any.
Sold(m) == {t \in Txs : kind[t] = "sale" /\ mutation[t] = m
                        /\ pc[t] = "committed"}

\* createSale up to its transaction: the pre-check finds no sale yet (when it
\* finds one the request just returns it).  One movement per line, keyed by
\* sale and variant.
CreateSale(t) ==
  \E loc \in Locations, ls \in LineLists, m \in Mutations :
    /\ Sold(m) = {}
    /\ Begin(t, "sale", ls,
             [n \in DOMAIN ls |->
               [cell |-> <<loc, ls[n].variant>>, delta |-> -ls[n].quantity,
                key |-> <<"sale", t, ls[n].variant>>]])
    /\ mutation' = [mutation EXCEPT ![t] = m]
    /\ pc' = [pc EXCEPT ![t] = "insert"]

\* tx.sale.create: waits for an open insert of the same clientMutationId,
\* fails (the transaction aborts) on a committed one.
InsertSale(t) ==
  /\ pc[t] = "insert"
  /\ Sold(mutation[t]) = {}
  /\ \A u \in Txs \ {t} :
       (mutation[u] = mutation[t] /\ Open(u)) => pc[u] = "insert"
  /\ pc' = [pc EXCEPT ![t] = "lookup"]
  /\ UNCHANGED <<rowVars, todo, reqVars>>

\* refundSale's restock of a full refund: the lines of a committed sale that no
\* committed refund has closed go back to the branch's default location.
\* (Refunds of one sale that read it at the same time both get here.)
Restock(t) ==
  \E s \in Txs :
    /\ kind[s] = "sale" /\ pc[s] = "committed"
    /\ ~\E u \in Txs : kind[u] = "refund" /\ pc[u] = "committed"
                         /\ mutation[u] = mutation[s]
    /\ Begin(t, "refund", lines[s],
             [n \in DOMAIN lines[s] |->
               [cell |-> <<DefaultLocation, lines[s][n].variant>>,
                delta |-> lines[s][n].quantity,
                key |-> <<"refund", t, lines[s][n].variant>>]])
    /\ mutation' = [mutation EXCEPT ![t] = mutation[s]]
    /\ pc' = [pc EXCEPT ![t] = "lookup"]

AdjustStock(t) ==
  \E c \in Cells, q \in Quantities, sign \in {-1, 1}, k \in Keys \union {None} :
    /\ Begin(t, "adjust", <<>>, <<[cell |-> c, delta |-> sign * q, key |-> k]>>)
    /\ mutation' = mutation
    /\ pc' = [pc EXCEPT ![t] = "lookup"]

\* A dispatch and a receipt per line, none of them keyed.
TransferMovements(t, from, to, ls) ==
  [n \in 1..(2 * Len(ls)) |->
    LET l == ls[(n + 1) \div 2]
    IN IF n % 2 = 1
         THEN [cell |-> <<from, l.variant>>, delta |-> -l.quantity, key |-> None]
         ELSE [cell |-> <<to, l.variant>>, delta |-> l.quantity, key |-> None]]

TransferStock(t) ==
  \E from, to \in Locations, ls \in LineLists :
    /\ from # to
    /\ Begin(t, "transfer", ls, TransferMovements(t, from, to, ls))
    /\ mutation' = mutation
    /\ pc' = [pc EXCEPT ![t] = "lookup"]
-----------------------------------------------------------------------------
(* recordMovement *)

Durable(c) == 1..durable[c]

\* A movement with key k that transaction t can see: committed, or its own.
Visible(t, k) ==
  \E c \in Cells : \E n \in DOMAIN rows[c] :
    /\ rows[c][n].key = k
    /\ n \in Durable(c) \/ rows[c][n].tx = t

\* A movement with key k of another transaction that is still open.
InDoubt(t, k) ==
  \E c \in Cells : \E n \in DOMAIN rows[c] :
    /\ rows[c][n].key = k
    /\ n \notin Durable(c) /\ rows[c][n].tx # t

\* findUnique by idempotencyKey: a movement already there is returned as is.
Lookup(t) ==
  /\ pc[t] = "lookup" /\ todo[t] # <<>>
  /\ LET key == Head(todo[t]).key IN
     \/ /\ key # None /\ Visible(t, key)
        /\ todo' = [todo EXCEPT ![t] = Tail(@)]
        /\ pc' = pc
     \/ /\ ~(key # None /\ Visible(t, key))
        /\ todo' = todo
        /\ pc' = [pc EXCEPT ![t] = "upsert"]
  /\ UNCHANGED <<rowVars, reqVars>>

\* Mutant: the new quantity is computed from the committed one, read earlier.
UpsertFromSnapshot(t) ==
  /\ pc[t] = "upsert"
  /\ LET m == Head(todo[t]) IN
     /\ lock[m.cell] \in {t, None}
     /\ lock' = [lock EXCEPT ![m.cell] = t]
     /\ quantity' = [quantity EXCEPT ![m.cell] = balance[m.cell] + m.delta]
  /\ pc' = [pc EXCEPT ![t] = "create"]
  /\ UNCHANGED <<balance, rows, durable, todo, reqVars>>

\* The upsert waits for the row's lock, then increments what is there.
Upsert(t) ==
  /\ pc[t] = "upsert"
  /\ LET m == Head(todo[t]) IN
     /\ lock[m.cell] \in {t, None}
     /\ lock' = [lock EXCEPT ![m.cell] = t]
     /\ quantity' = [quantity EXCEPT ![m.cell] = @ + m.delta]
  /\ pc' = [pc EXCEPT ![t] = "create"]
  /\ UNCHANGED <<balance, rows, durable, todo, reqVars>>

\* Mutant: an alert for every movement that ends in red.
AlertsWheneverRed(delta, newQuantity) == ComputeStockStatus(newQuantity) = "red"

\* maybePublishLowStockAlert: an outbox event on the way into red only.
Alerts(delta, newQuantity) ==
  /\ ComputeStockStatus(newQuantity) = "red"
  /\ ComputeStockStatus(newQuantity - delta) # "red"

\* Mutant: no unique constraint on idempotencyKey.
CreateMovementUnconstrained(t) ==
  /\ pc[t] = "create"
  /\ LET m == Head(todo[t]) IN
     rows' = [rows EXCEPT ![m.cell] =
       Append(@, [delta |-> m.delta, resulting |-> quantity[m.cell],
                  key |-> m.key, tx |-> t,
                  alerted |-> Alerts(m.delta, quantity[m.cell])])]
  /\ todo' = [todo EXCEPT ![t] = Tail(@)]
  /\ pc' = [pc EXCEPT ![t] = "lookup"]
  /\ UNCHANGED <<balance, quantity, lock, durable, reqVars>>

\* inventoryMovement.create and the alert; the unique key makes it wait for a
\* movement in doubt.
CreateMovement(t) ==
  /\ pc[t] = "create"
  /\ LET m == Head(todo[t]) IN
     /\ m.key # None => ~Visible(t, m.key) /\ ~InDoubt(t, m.key)
     /\ rows' = [rows EXCEPT ![m.cell] =
          Append(@, [delta |-> m.delta, resulting |-> quantity[m.cell],
                     key |-> m.key, tx |-> t,
                     alerted |-> Alerts(m.delta, quantity[m.cell])])]
  /\ todo' = [todo EXCEPT ![t] = Tail(@)]
  /\ pc' = [pc EXCEPT ![t] = "lookup"]
  /\ UNCHANGED <<balance, quantity, lock, durable, reqVars>>
-----------------------------------------------------------------------------
(* The end of a transaction *)

Unlock(t) == lock' = [c \in Cells |-> IF lock[c] = t THEN None ELSE lock[c]]

Commit(t) ==
  /\ pc[t] = "lookup" /\ todo[t] = <<>>
  /\ balance' = [c \in Cells |-> IF lock[c] = t THEN quantity[c]
                                                ELSE balance[c]]
  /\ durable' = [c \in Cells |-> IF lock[c] = t THEN Len(rows[c])
                                                ELSE durable[c]]
  /\ Unlock(t)
  /\ pc' = [pc EXCEPT ![t] = "committed"]
  /\ UNCHANGED <<quantity, rows, todo, reqVars>>

\* Mutant: the upsert ran outside the transaction and survives it.
AbortKeepingBalance(t) ==
  /\ Open(t)
  /\ balance' = [c \in Cells |-> IF lock[c] = t THEN quantity[c]
                                                ELSE balance[c]]
  /\ rows' = [c \in Cells |-> IF lock[c] = t THEN SubSeq(rows[c], 1, durable[c])
                                             ELSE rows[c]]
  /\ Unlock(t)
  /\ todo' = [todo EXCEPT ![t] = <<>>]
  /\ pc' = [pc EXCEPT ![t] = "aborted"]
  /\ UNCHANGED <<quantity, durable, reqVars>>

\* Mutant: the movements were written outside the transaction and survive it.
AbortKeepingMovements(t) ==
  /\ Open(t)
  /\ balance' = [c \in Cells |-> IF lock[c] = t THEN rows[c][Len(rows[c])].resulting
                                                ELSE balance[c]]
  /\ quantity' = balance'
  /\ durable' = [c \in Cells |-> IF lock[c] = t THEN Len(rows[c])
                                                ELSE durable[c]]
  /\ Unlock(t)
  /\ todo' = [todo EXCEPT ![t] = <<>>]
  /\ pc' = [pc EXCEPT ![t] = "aborted"]
  /\ UNCHANGED <<rows, reqVars>>

\* A unique constraint, the deadlock detector, the interactive transaction's
\* timeout or a lost connection rolls the transaction back.
Abort(t) ==
  /\ Open(t)
  /\ quantity' = [c \in Cells |-> IF lock[c] = t THEN balance[c]
                                                 ELSE quantity[c]]
  /\ rows' = [c \in Cells |-> IF lock[c] = t THEN SubSeq(rows[c], 1, durable[c])
                                             ELSE rows[c]]
  /\ Unlock(t)
  /\ todo' = [todo EXCEPT ![t] = <<>>]
  /\ pc' = [pc EXCEPT ![t] = "aborted"]
  /\ UNCHANGED <<balance, durable, reqVars>>
-----------------------------------------------------------------------------
Next ==
  \E t \in Txs :
    \/ CreateSale(t) \/ InsertSale(t) \/ Restock(t) \/ AdjustStock(t)
    \/ TransferStock(t) \/ Lookup(t) \/ Upsert(t) \/ CreateMovement(t)
    \/ Commit(t) \/ Abort(t)

Spec == Init /\ [][Next]_vars
-----------------------------------------------------------------------------
(* Properties *)

\* Each movement's resultingBalance is the previous one's plus its delta: the
\* increments of concurrent transactions on a cell are never lost or mixed.
LedgerChain ==
  \A c \in Cells : \A n \in 2..Len(rows[c]) :
    rows[c][n].resulting = rows[c][n - 1].resulting + rows[c][n].delta

\* replayBalance over a cell's committed movements.
ReplayBalance(c) ==
  LET replay[n \in 0..durable[c]] ==
        IF n = 0 THEN 0 ELSE replay[n - 1] + rows[c][n].delta
  IN replay[durable[c]]

\* The InventoryBalance row can be rebuilt by replaying the committed
\* movements, whatever commits and aborts interleaved.
BalanceIsReplay == \A c \in Cells : balance[c] = ReplayBalance(c)

\* A movement is durable exactly when its whole transaction is: no sale,
\* transfer or refund leaves half of its movements behind.
AllOrNothing ==
  \A c \in Cells : \A n \in DOMAIN rows[c] :
    rows[c][n].tx # None =>
      /\ n \in Durable(c) <=> pc[rows[c][n].tx] = "committed"
      /\ pc[rows[c][n].tx] # "aborted"

\* An idempotencyKey is recorded at most once, also by two transactions that
\* both looked it up before either inserted it.
KeyRecordedOnce ==
  \A c, d \in Cells : \A n \in DOMAIN rows[c], k \in DOMAIN rows[d] :
    (rows[c][n].key # None /\ rows[c][n].key = rows[d][k].key)
      => c = d /\ n = k

\* Concurrent replays of a clientMutationId commit at most one sale, so stock
\* is deducted for it at most once.
OneSalePerMutation == \A m \in Mutations : Cardinality(Sold(m)) <= 1

\* The low-stock event accompanies exactly the movements that take a cell from
\* above red into red, in the order the ledger has them.
AlertOnCrossing ==
  \A c \in Cells : \A n \in 2..Len(rows[c]) :
    rows[c][n].alerted <=>
      /\ ComputeStockStatus(rows[c][n].resulting) = "red"
      /\ ComputeStockStatus(rows[c][n - 1].resulting) # "red"

\* The stock transaction t has moved of variant v, over all locations.
Moved(t, v) ==
  FoldSet(LAMBDA x, sum : sum + rows[x[1]][x[2]].delta, 0,
    UNION {{<<c, n>> : n \in {k \in DOMAIN rows[c] : rows[c][k].tx = t}} :
           c \in {d \in Cells : d[2] = v}})

\* What the lines of a request add up to for variant v.
Ordered(t, v) ==
  FoldSet(LAMBDA n, sum : sum + lines[t][n].quantity, 0,
          {n \in DOMAIN lines[t] : lines[t][n].variant = v})

\* A committed transfer moves stock between locations and creates or destroys
\* none, for every combination of lines.
TransferConserves ==
  \A t \in Txs : (kind[t] = "transfer" /\ pc[t] = "committed")
    => \A v \in Variants : Moved(t, v) = 0

\* A committed sale has taken the quantity of every one of its lines out of
\* stock.
SaleDeductsEveryLine ==
  \A t \in Txs : (kind[t] = "sale" /\ pc[t] = "committed")
    => \A v \in Variants : Moved(t, v) = -Ordered(t, v)

\* No committed sale leaves a cell below zero.
NoOversell ==
  \A c \in Cells : \A n \in Durable(c) :
    (rows[c][n].tx # None /\ kind[rows[c][n].tx] = "sale")
      => rows[c][n].resulting >= 0

\* The stock adds up: a balance is what replayBalance makes of its movements,
\* and transfers conserve what there is, whichever transactions were aborted.
StockAddsUp == BalanceIsReplay /\ TransferConserves

\* What is sent twice is recorded once: a movement per idempotencyKey and a sale
\* per clientMutationId, although each is looked up before it is inserted.
RecordedOnce == KeyRecordedOnce /\ OneSalePerMutation
=============================================================================
