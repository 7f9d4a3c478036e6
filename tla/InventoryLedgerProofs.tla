----------------------- MODULE InventoryLedgerProofs -----------------------
(***************************************************************************)
(* Proofs about InventoryLedger, for any locations, variants, quantities   *)
(* and any number of concurrent transactions.                              *)
(***************************************************************************)
EXTENDS InventoryLedger, SequenceTheorems, FiniteSetTheorems, Sums, TLAPS

\* The newest movement of a cell, committed or not.
Last(c) == rows[c][Len(rows[c])]

\* The committed prefix of a cell ends with the movement its balance row shows,
\* and a cell nobody has locked has nothing but committed movements.
PrefixInv ==
  \A c \in Cells :
    /\ durable[c] \in 1..Len(rows[c])
    /\ balance[c] = rows[c][durable[c]].resulting
    /\ lock[c] = None => durable[c] = Len(rows[c]) /\ quantity[c] = balance[c]

\* Locks are held by open transactions, which wrote everything uncommitted in
\* their cells; what is committed belongs to committed transactions.
OwnerInv ==
  \A c \in Cells :
    /\ lock[c] # None => Open(lock[c])
    /\ \A n \in 1..Len(rows[c]) :
         /\ n > durable[c] => rows[c][n].tx = lock[c]
         /\ n <= durable[c] => \/ rows[c][n].tx = None
                               \/ pc[rows[c][n].tx] = "committed"

\* A transaction between its upsert and its insert is one movement ahead of the
\* ledger in the cell it has locked.
Ahead(c) == /\ lock[c] # None
            /\ pc[lock[c]] = "create"
            /\ Head(todo[lock[c]]).cell = c

AheadInv ==
  \A c \in Cells :
    quantity[c] = Last(c).resulting
                    + (IF Ahead(c) THEN Head(todo[lock[c]]).delta ELSE 0)

\* Where a transaction is inside recordMovement.
TxInv ==
  \A t \in Txs :
    /\ pc[t] \in {"upsert", "create"} => todo[t] # <<>>
    /\ pc[t] = "create" => lock[Head(todo[t]).cell] = t

\* A clientMutationId has one transaction past its insert.
Inserted(t) == /\ kind[t] = "sale"
               /\ pc[t] \in {"lookup", "upsert", "create", "committed"}

SaleInv == \A t, u \in Txs :
  (Inserted(t) /\ Inserted(u) /\ mutation[t] = mutation[u]) => t = u

Inv == /\ TypeOK
       /\ PrefixInv
       /\ OwnerInv
       /\ AheadInv
       /\ TxInv
       /\ SaleInv
       /\ LedgerChain
       /\ AlertOnCrossing
       /\ KeyRecordedOnce
-----------------------------------------------------------------------------
\* What the type invariant says of one cell and of its movements.
LEMMA RowType ==
  ASSUME TypeOK, NEW c \in Cells
  PROVE  /\ rows[c] \in Seq(Movements)
         /\ Len(rows[c]) \in Nat
         /\ DOMAIN rows[c] = 1..Len(rows[c])
         /\ durable[c] \in Nat
         /\ balance[c] \in Int /\ quantity[c] \in Int
         /\ \A n \in 1..Len(rows[c]) :
              /\ rows[c][n] \in Movements
              /\ rows[c][n].resulting \in Int
              /\ rows[c][n].delta \in Int
<1>1. rows[c] \in Seq(Movements)
  BY DEF TypeOK
<1>2. \A n \in 1..Len(rows[c]) : rows[c][n] \in Movements
  BY <1>1, ElementOfSeq
<1> QED
  BY <1>1, <1>2, LenProperties DEF TypeOK, Movements

\* The first movement of a transaction that still has some.
LEMMA HeadType ==
  ASSUME TypeOK, NEW t \in Txs, todo[t] # <<>>
  PROVE  /\ Head(todo[t]) \in Inputs
         /\ Head(todo[t]).cell \in Cells
         /\ Head(todo[t]).delta \in Int
         /\ Head(todo[t]).key \in MovementKeys
         /\ Tail(todo[t]) \in Seq(Inputs)
<1>1. todo[t] \in Seq(Inputs)
  BY DEF TypeOK
<1>2. Head(todo[t]) \in Inputs /\ Tail(todo[t]) \in Seq(Inputs)
  BY <1>1, HeadTailProperties
<1> QED
  BY <1>2 DEF Inputs

\* The opening stock satisfies the invariant.
LEMMA InitInv == Init => Inv
<1> SUFFICES ASSUME Init PROVE Inv
  OBVIOUS
<1>1. Opening \in Movements
  BY LedgerAssumption DEF Opening, Movements, MovementKeys
<1>2. <<Opening>> \in Seq(Movements) /\ Len(<<Opening>>) = 1
      /\ <<Opening>>[1] = Opening
  BY <1>1
<1>3. TypeOK
  BY <1>2, LedgerAssumption DEF Init, TypeOK, Phases, Kinds
<1>4. \A c \in Cells : rows[c] = <<Opening>>
  BY DEF Init
<1>5. PrefixInv
  BY <1>2, <1>4 DEF Init, PrefixInv, Opening
<1>6. OwnerInv
  BY <1>2, <1>4 DEF Init, OwnerInv, Opening
<1>7. AheadInv
  BY <1>2, <1>4, LedgerAssumption DEF Init, AheadInv, Ahead, Last, Opening
<1>8. TxInv /\ SaleInv
  BY DEF Init, TxInv, SaleInv, Inserted
<1>9. LedgerChain /\ AlertOnCrossing
  BY <1>2, <1>4 DEF LedgerChain, AlertOnCrossing
<1>10. KeyRecordedOnce
  BY <1>2, <1>4 DEF KeyRecordedOnce, Opening
<1> QED
  BY <1>3, <1>5, <1>6, <1>7, <1>8, <1>9, <1>10 DEF Inv

\* A request that begins its transaction touches no row of the ledger.
LEMMA BeginStep ==
  ASSUME Inv, NEW t \in Txs, pc[t] = "new", UNCHANGED rowVars,
         NEW p \in {"insert", "lookup"}, pc' = [pc EXCEPT ![t] = p],
         NEW x \in Seq(Inputs), todo' = [todo EXCEPT ![t] = x],
         NEW k \in Kinds, kind' = [kind EXCEPT ![t] = k],
         NEW ls \in Seq(Lines), lines' = [lines EXCEPT ![t] = ls],
         NEW m \in Mutations \union {None},
         mutation' = [mutation EXCEPT ![t] = m],
         k = "sale" => p = "insert"
  PROVE  Inv'
<1> USE DEF Inv
<1>1. TypeOK'
  BY DEF TypeOK, rowVars, Phases
<1>2. PrefixInv'
  BY DEF PrefixInv, rowVars
<1>3. \A c \in Cells : lock[c] # t
  BY LedgerAssumption DEF OwnerInv, Open
<1>4. OwnerInv'
  <2> SUFFICES ASSUME NEW c \in Cells
               PROVE  /\ lock[c] # None => Open(lock[c])'
                      /\ \A n \in 1..Len(rows[c]) :
                           /\ n > durable[c] => rows[c][n].tx = lock[c]
                           /\ n <= durable[c] => \/ rows[c][n].tx = None
                                                 \/ pc'[rows[c][n].tx] = "committed"
    BY DEF OwnerInv, rowVars
  <2>1. lock[c] # None => Open(lock[c])'
    BY <1>3 DEF OwnerInv, Open, TypeOK, rowVars
  <2>2. ASSUME NEW n \in 1..Len(rows[c]), n <= durable[c], rows[c][n].tx # None
        PROVE  pc'[rows[c][n].tx] = "committed"
    <3>1. pc[rows[c][n].tx] = "committed" /\ rows[c][n].tx \in Txs
      BY <2>2, RowType DEF OwnerInv, Movements
    <3> QED
      BY <3>1 DEF TypeOK
  <2> QED
    BY <2>1, <2>2 DEF OwnerInv
<1>5. AheadInv'
  BY <1>3 DEF AheadInv, Ahead, Last, rowVars, TypeOK
<1>6. TxInv'
  BY DEF TxInv, rowVars, TypeOK
<1>7. SaleInv'
  BY DEF SaleInv, Inserted, TypeOK
<1>8. (LedgerChain /\ AlertOnCrossing /\ KeyRecordedOnce)'
  BY DEF LedgerChain, AlertOnCrossing, KeyRecordedOnce, rowVars
<1> QED
  BY <1>1, <1>2, <1>4, <1>5, <1>6, <1>7, <1>8

\* The parts of a line.
LEMMA LineType ==
  ASSUME NEW l \in Lines
  PROVE  l.variant \in Variants /\ l.quantity \in Int /\ -l.quantity \in Int
<1>1. l.variant \in Variants /\ l.quantity \in Quantities
  BY DEF Lines
<1>2. \A q \in Quantities : q \in Int
  BY LedgerAssumption
<1>3. l.quantity \in Int
  BY <1>1, <1>2, Zenon
<1> QED
  BY <1>1, <1>3

\* The movements a sale or a restock asks for, one per line, are well formed.
LEMMA MovementList ==
  ASSUME NEW ls \in Seq(Lines), NEW loc \in Locations, NEW t \in Txs,
         NEW word \in {"sale", "refund"}, NEW out \in BOOLEAN
  PROVE  [n \in DOMAIN ls |->
            [cell |-> <<loc, ls[n].variant>>,
             delta |-> IF out THEN -ls[n].quantity ELSE ls[n].quantity,
             key |-> <<word, t, ls[n].variant>>]] \in Seq(Inputs)
<1> DEFINE e(n) == [cell |-> <<loc, ls[n].variant>>,
                    delta |-> IF out THEN -ls[n].quantity ELSE ls[n].quantity,
                    key |-> <<word, t, ls[n].variant>>]
<1>1. DOMAIN ls = 1..Len(ls) /\ Len(ls) \in Nat
  BY LenProperties
<1>2. \A n \in 1..Len(ls) : e(n) \in Inputs
  <2> SUFFICES ASSUME NEW n \in 1..Len(ls) PROVE e(n) \in Inputs
    OBVIOUS
  <2>1. ls[n] \in Lines
    BY ElementOfSeq
  <2>2. /\ ls[n].variant \in Variants
        /\ (IF out THEN -ls[n].quantity ELSE ls[n].quantity) \in Int
    BY <2>1, LineType
  <2> QED
    BY <2>2 DEF Inputs, Cells, MovementKeys
<1>3. [n \in 1..Len(ls) |-> e(n)] \in [1..Len(ls) -> Inputs]
  BY <1>2
<1>4. [n \in 1..Len(ls) |-> e(n)] \in Seq(Inputs)
  BY <1>1, <1>3, SeqDef
<1> QED
  BY <1>1, <1>4

\* So are those of a transfer, two per line.
LEMMA TransferList ==
  ASSUME NEW ls \in Seq(Lines), NEW from \in Locations, NEW to \in Locations,
         NEW t \in Txs
  PROVE  TransferMovements(t, from, to, ls) \in Seq(Inputs)
<1>1. Len(ls) \in Nat
  BY LenProperties
<1> DEFINE T == TransferMovements(t, from, to, ls)
<1>2. \A n \in 1..(2 * Len(ls)) : T[n] \in Inputs
  <2> SUFFICES ASSUME NEW n \in 1..(2 * Len(ls)) PROVE T[n] \in Inputs
    OBVIOUS
  <2> DEFINE l == ls[(n + 1) \div 2]
  <2>1. (n + 1) \div 2 \in 1..Len(ls)
    BY <1>1
  <2>2. l \in Lines
    BY <2>1, ElementOfSeq
  <2>3. l.variant \in Variants /\ l.quantity \in Int /\ -l.quantity \in Int
    BY <2>2, LineType
  <2>4. T[n] = IF n % 2 = 1
                 THEN [cell |-> <<from, l.variant>>, delta |-> -l.quantity,
                       key |-> None]
                 ELSE [cell |-> <<to, l.variant>>, delta |-> l.quantity,
                       key |-> None]
    BY DEF TransferMovements
  <2> HIDE DEF l, T
  <2> QED
    BY <2>3, <2>4 DEF Inputs, Cells, MovementKeys
<1>3. T = [n \in 1..(2 * Len(ls)) |-> T[n]]
  BY DEF TransferMovements
<1> HIDE DEF T
<1>4. T \in [1..(2 * Len(ls)) -> Inputs]
  BY <1>2, <1>3
<1>5. 2 * Len(ls) \in Nat
  BY <1>1
<1>6. T \in Seq(Inputs)
  BY <1>4, <1>5, SeqDef
<1> QED
  BY <1>6 DEF T

\* Every request begins in a state that satisfies the invariant.
LEMMA RequestStep ==
  ASSUME Inv, NEW t \in Txs,
         CreateSale(t) \/ Restock(t) \/ AdjustStock(t) \/ TransferStock(t)
  PROVE  Inv'
<1>t. TypeOK
  BY DEF Inv
<1>l. \A ls \in LineLists : ls \in Seq(Lines)
  BY LedgerAssumption, SeqDef DEF LineLists
<1>1. CASE CreateSale(t)
  <2>1. PICK loc \in Locations, ls \in LineLists, m \in Mutations :
          /\ Begin(t, "sale", ls,
               [n \in DOMAIN ls |->
                 [cell |-> <<loc, ls[n].variant>>, delta |-> -ls[n].quantity,
                  key |-> <<"sale", t, ls[n].variant>>]])
          /\ mutation' = [mutation EXCEPT ![t] = m]
          /\ pc' = [pc EXCEPT ![t] = "insert"]
    BY <1>1 DEF CreateSale
  <2>2. ls \in Seq(Lines)
    BY <1>l
  <2>5. [n \in DOMAIN ls |->
           [cell |-> <<loc, ls[n].variant>>, delta |-> -ls[n].quantity,
            key |-> <<"sale", t, ls[n].variant>>]] \in Seq(Inputs)
    <3>1. [n \in DOMAIN ls |->
             [cell |-> <<loc, ls[n].variant>>,
              delta |-> IF TRUE THEN -ls[n].quantity ELSE ls[n].quantity,
              key |-> <<"sale", t, ls[n].variant>>]] \in Seq(Inputs)
      BY <2>2, MovementList
    <3> QED
      BY <3>1
  <2> QED
    BY <2>1, <2>2, <2>5, BeginStep DEF Begin, Kinds
<1>2. CASE Restock(t)
  <2>1. PICK s \in Txs :
          /\ Begin(t, "refund", lines[s],
               [n \in DOMAIN lines[s] |->
                 [cell |-> <<DefaultLocation, lines[s][n].variant>>,
                  delta |-> lines[s][n].quantity,
                  key |-> <<"refund", t, lines[s][n].variant>>]])
          /\ mutation' = [mutation EXCEPT ![t] = mutation[s]]
          /\ pc' = [pc EXCEPT ![t] = "lookup"]
    BY <1>2 DEF Restock
  <2> DEFINE ls == lines[s]
  <2>2. ls \in Seq(Lines) /\ mutation[s] \in Mutations \union {None}
    BY <1>t DEF TypeOK
  <2> HIDE DEF ls
  <2>5. [n \in DOMAIN ls |->
           [cell |-> <<DefaultLocation, ls[n].variant>>,
            delta |-> ls[n].quantity,
            key |-> <<"refund", t, ls[n].variant>>]] \in Seq(Inputs)
    <3>1. [n \in DOMAIN ls |->
             [cell |-> <<DefaultLocation, ls[n].variant>>,
              delta |-> IF FALSE THEN -ls[n].quantity ELSE ls[n].quantity,
              key |-> <<"refund", t, ls[n].variant>>]] \in Seq(Inputs)
      BY <2>2, MovementList, LedgerAssumption
    <3> QED
      BY <3>1
  <2> QED
    BY <2>1, <2>2, <2>5, BeginStep DEF Begin, Kinds, ls
<1>3. CASE AdjustStock(t)
  <2>1. PICK c \in Cells, q \in Quantities, sign \in {-1, 1},
             k \in Keys \union {None} :
          /\ Begin(t, "adjust", <<>>,
                   <<[cell |-> c, delta |-> sign * q, key |-> k]>>)
          /\ mutation' = mutation
          /\ pc' = [pc EXCEPT ![t] = "lookup"]
    BY <1>3 DEF AdjustStock
  <2>2. sign * q \in Int
    BY LedgerAssumption
  <2>3. [cell |-> c, delta |-> sign * q, key |-> k] \in Inputs
    BY <2>2 DEF Inputs, MovementKeys
  <2>4. <<[cell |-> c, delta |-> sign * q, key |-> k]>> \in Seq(Inputs)
    BY <2>3
  <2>5. /\ mutation' = [mutation EXCEPT ![t] = mutation[t]]
        /\ mutation[t] \in Mutations \union {None}
        /\ <<>> \in Seq(Lines)
    BY <2>1, <1>t DEF TypeOK
  <2> QED
    BY <2>1, <2>4, <2>5, BeginStep DEF Begin, Kinds
<1>4. CASE TransferStock(t)
  <2>1. PICK from \in Locations, to \in Locations, ls \in LineLists :
          /\ Begin(t, "transfer", ls, TransferMovements(t, from, to, ls))
          /\ mutation' = mutation
          /\ pc' = [pc EXCEPT ![t] = "lookup"]
    BY <1>4 DEF TransferStock
  <2>2. ls \in Seq(Lines)
    BY <1>l
  <2>3. TransferMovements(t, from, to, ls) \in Seq(Inputs)
    BY <2>2, TransferList
  <2>4. /\ mutation' = [mutation EXCEPT ![t] = mutation[t]]
        /\ mutation[t] \in Mutations \union {None}
    BY <2>1, <1>t DEF TypeOK
  <2> QED
    BY <2>1, <2>2, <2>3, <2>4, BeginStep DEF Begin, Kinds
<1> QED
  BY <1>1, <1>2, <1>3, <1>4

\* A step of transaction t inside its request that leaves the rows, the locks
\* and what t is ahead with alone.
LEMMA AdvanceStep ==
  ASSUME Inv, NEW t \in Txs, pc[t] \in {"insert", "lookup"},
         UNCHANGED <<rowVars, reqVars>>,
         NEW p \in {"lookup", "upsert"}, pc' = [pc EXCEPT ![t] = p],
         NEW x \in Seq(Inputs), todo' = [todo EXCEPT ![t] = x],
         p = "upsert" => x # <<>>,
         SaleInv'
  PROVE  Inv'
<1> USE DEF Inv
<1>1. TypeOK'
  BY DEF TypeOK, rowVars, reqVars, Phases
<1>2. PrefixInv'
  BY DEF PrefixInv, rowVars
<1>3. OwnerInv'
  <2> SUFFICES ASSUME NEW c \in Cells
               PROVE  /\ lock[c] # None => Open(lock[c])'
                      /\ \A n \in 1..Len(rows[c]) :
                           /\ n > durable[c] => rows[c][n].tx = lock[c]
                           /\ n <= durable[c] => \/ rows[c][n].tx = None
                                                 \/ pc'[rows[c][n].tx] = "committed"
    BY DEF OwnerInv, rowVars
  <2>1. lock[c] # None => Open(lock[c])'
    BY DEF OwnerInv, Open, TypeOK, rowVars
  <2>2. ASSUME NEW n \in 1..Len(rows[c]), n <= durable[c], rows[c][n].tx # None
        PROVE  pc'[rows[c][n].tx] = "committed"
    <3>1. pc[rows[c][n].tx] = "committed" /\ rows[c][n].tx \in Txs
      BY <2>2, RowType DEF OwnerInv, Movements
    <3> QED
      BY <3>1 DEF TypeOK
  <2> QED
    BY <2>1, <2>2 DEF OwnerInv
<1>4. AheadInv'
  BY DEF AheadInv, Ahead, Last, rowVars, TypeOK
<1>5. TxInv'
  BY DEF TxInv, rowVars, TypeOK
<1>6. (LedgerChain /\ AlertOnCrossing /\ KeyRecordedOnce)'
  BY DEF LedgerChain, AlertOnCrossing, KeyRecordedOnce, rowVars
<1> QED
  BY <1>1, <1>2, <1>3, <1>4, <1>5, <1>6

\* The insert of the sale: nobody else has inserted its clientMutationId.
LEMMA InsertStep ==
  ASSUME Inv, NEW t \in Txs, InsertSale(t)
  PROVE  Inv'
<1> USE DEF Inv
<1>1. /\ pc[t] = "insert" /\ pc' = [pc EXCEPT ![t] = "lookup"]
      /\ UNCHANGED <<rowVars, todo, reqVars>>
      /\ Sold(mutation[t]) = {}
      /\ \A u \in Txs \ {t} :
           (mutation[u] = mutation[t] /\ Open(u)) => pc[u] = "insert"
  BY DEF InsertSale
<1>2. \A u \in Txs \ {t} : Inserted(u) => mutation[u] # mutation[t]
  BY <1>1 DEF Inserted, Sold, Open
<1>3. SaleInv'
  BY <1>1, <1>2 DEF SaleInv, Inserted, TypeOK, reqVars
<1>4. todo' = [todo EXCEPT ![t] = todo[t]] /\ todo[t] \in Seq(Inputs)
  BY <1>1 DEF TypeOK
<1> QED
  BY <1>1, <1>3, <1>4, AdvanceStep

\* The lookup of the idempotencyKey.
LEMMA LookupStep ==
  ASSUME Inv, NEW t \in Txs, Lookup(t)
  PROVE  Inv'
<1> USE DEF Inv
<1>1. /\ pc[t] = "lookup" /\ todo[t] # <<>>
      /\ UNCHANGED <<rowVars, reqVars>>
      /\ \/ /\ todo' = [todo EXCEPT ![t] = Tail(@)]
            /\ pc' = pc
         \/ /\ todo' = todo
            /\ pc' = [pc EXCEPT ![t] = "upsert"]
  BY DEF Lookup
<1>2. /\ todo[t] \in Seq(Inputs) /\ Tail(todo[t]) \in Seq(Inputs)
      /\ pc \in [Txs -> Phases] /\ todo \in [Txs -> Seq(Inputs)]
  BY <1>1, HeadType DEF TypeOK
<1>3. SaleInv'
  BY <1>1, <1>2 DEF SaleInv, Inserted, reqVars
<1>4. CASE todo' = [todo EXCEPT ![t] = Tail(@)] /\ pc' = pc
  <2>1. pc' = [pc EXCEPT ![t] = "lookup"]
    BY <1>1, <1>2, <1>4
  <2>2. todo' = [todo EXCEPT ![t] = Tail(todo[t])]
    BY <1>4
  <2> QED
    BY <1>1, <1>2, <1>3, <2>1, <2>2, AdvanceStep
<1>5. CASE todo' = todo /\ pc' = [pc EXCEPT ![t] = "upsert"]
  <2>1. todo' = [todo EXCEPT ![t] = todo[t]]
    BY <1>2, <1>5
  <2> QED
    BY <1>1, <1>2, <1>3, <1>5, <2>1, AdvanceStep
<1> QED
  BY <1>1, <1>4, <1>5

\* The upsert: the transaction holds the row's lock and is one movement ahead.
LEMMA UpsertStep ==
  ASSUME Inv, NEW t \in Txs, Upsert(t)
  PROVE  Inv'
<1> USE DEF Inv
<1> DEFINE m == Head(todo[t])
<1>1. /\ pc[t] = "upsert" /\ pc' = [pc EXCEPT ![t] = "create"]
      /\ lock[m.cell] \in {t, None}
      /\ lock' = [lock EXCEPT ![m.cell] = t]
      /\ quantity' = [quantity EXCEPT ![m.cell] = @ + m.delta]
      /\ UNCHANGED <<balance, rows, durable, todo, reqVars>>
  BY DEF Upsert
<1>2. todo[t] # <<>>
  BY <1>1 DEF TxInv
<1>3. m.cell \in Cells /\ m.delta \in Int
  BY <1>2, HeadType
<1>n. t # None
  BY LedgerAssumption
<1> HIDE DEF m
<1>4. TypeOK'
  BY <1>1, <1>3 DEF TypeOK, Phases, reqVars
<1>5. PrefixInv'
  BY <1>1, <1>3, <1>n DEF PrefixInv, TypeOK
<1>6. OwnerInv'
  <2> SUFFICES ASSUME NEW c \in Cells
               PROVE  /\ lock'[c] # None => Open(lock[c])'
                      /\ \A n \in 1..Len(rows[c]) :
                           /\ n > durable[c] => rows[c][n].tx = lock'[c]
                           /\ n <= durable[c] => \/ rows[c][n].tx = None
                                                 \/ pc'[rows[c][n].tx] = "committed"
    BY <1>1 DEF OwnerInv
  <2>1. lock'[c] # None => Open(lock[c])'
    BY <1>1, <1>3 DEF OwnerInv, Open, TypeOK
  <2>2. ASSUME NEW n \in 1..Len(rows[c]), n <= durable[c], rows[c][n].tx # None
        PROVE  pc'[rows[c][n].tx] = "committed"
    <3>1. pc[rows[c][n].tx] = "committed" /\ rows[c][n].tx \in Txs
      BY <2>2, RowType DEF OwnerInv, Movements
    <3> QED
      BY <1>1, <3>1 DEF TypeOK
  <2>3. ASSUME NEW n \in 1..Len(rows[c]), n > durable[c]
        PROVE  rows[c][n].tx = lock'[c]
    <3>1. rows[c][n].tx = lock[c]
      BY <2>3 DEF OwnerInv
    <3>2. lock[c] # None
      BY <2>3, RowType DEF PrefixInv
    <3> QED
      BY <1>1, <1>3, <3>1, <3>2 DEF TypeOK
  <2> QED
    BY <2>1, <2>2, <2>3
<1>7. AheadInv'
  <2> SUFFICES ASSUME NEW c \in Cells
               PROVE  quantity'[c] = Last(c)'.resulting
                        + (IF Ahead(c)' THEN Head(todo'[lock'[c]]).delta ELSE 0)
    BY DEF AheadInv
  <2>1. Last(c)' = Last(c) /\ Last(c).resulting \in Int
    BY <1>1, RowType DEF Last, PrefixInv
  <2>2. CASE c = m.cell
    <3>1. ~Ahead(c)
      BY <1>1, <2>2 DEF Ahead
    <3>2. quantity[c] = Last(c).resulting
      BY <2>1, <3>1 DEF AheadInv
    <3>3. Ahead(c)' /\ Head(todo'[lock'[c]]).delta = m.delta
      BY <1>1, <1>3, <1>n, <2>2 DEF Ahead, TypeOK, m
    <3>4. quantity'[c] = quantity[c] + m.delta
      BY <1>1, <1>3, <2>2 DEF TypeOK
    <3> QED
      BY <2>1, <3>2, <3>3, <3>4
  <2>3. CASE c # m.cell
    <3>1. lock'[c] = lock[c] /\ quantity'[c] = quantity[c]
      BY <1>1, <1>3, <2>3 DEF TypeOK
    <3>2. Ahead(c)' <=> Ahead(c)
      BY <1>1, <2>3, <3>1 DEF Ahead, TypeOK, m
    <3> QED
      BY <1>1, <2>1, <3>1, <3>2 DEF AheadInv
  <2> QED
    BY <2>2, <2>3
<1>8. TxInv'
  <2> SUFFICES ASSUME NEW u \in Txs
               PROVE  /\ pc'[u] \in {"upsert", "create"} => todo'[u] # <<>>
                      /\ pc'[u] = "create" => lock'[Head(todo'[u]).cell] = u
    BY DEF TxInv
  <2>1. CASE u = t
    BY <1>1, <1>2, <1>3, <2>1 DEF TypeOK, m
  <2>2. CASE u # t
    <3>1. pc'[u] = pc[u] /\ todo'[u] = todo[u]
      BY <1>1, <2>2 DEF TypeOK
    <3>2. ASSUME pc[u] = "create"
          PROVE  lock'[Head(todo[u]).cell] = u
      <4>1. lock[Head(todo[u]).cell] = u /\ todo[u] # <<>>
        BY <3>2 DEF TxInv
      <4>2. u # None
        BY LedgerAssumption
      <4>3. Head(todo[u]).cell \in Cells
        BY <4>1, HeadType
      <4> QED
        BY <1>1, <1>3, <2>2, <4>1, <4>2, <4>3 DEF TypeOK
    <3> QED
      BY <3>1, <3>2 DEF TxInv
  <2> QED
    BY <2>1, <2>2
<1>9. SaleInv'
  BY <1>1 DEF SaleInv, Inserted, TypeOK, reqVars
<1>10. (LedgerChain /\ AlertOnCrossing /\ KeyRecordedOnce)'
  BY <1>1 DEF LedgerChain, AlertOnCrossing, KeyRecordedOnce
<1> QED
  BY <1>4, <1>5, <1>6, <1>7, <1>8, <1>9, <1>10

\* The insert of a movement: the ledger catches up with the balance row.
LEMMA CreateStep ==
  ASSUME Inv, NEW t \in Txs, CreateMovement(t)
  PROVE  Inv'
<1> USE DEF Inv
<1> DEFINE m == Head(todo[t])
           r == [delta |-> m.delta, resulting |-> quantity[m.cell],
                 key |-> m.key, tx |-> t,
                 alerted |-> Alerts(m.delta, quantity[m.cell])]
<1>1. /\ pc[t] = "create" /\ pc' = [pc EXCEPT ![t] = "lookup"]
      /\ m.key # None => ~Visible(t, m.key) /\ ~InDoubt(t, m.key)
      /\ rows' = [rows EXCEPT ![m.cell] = Append(@, r)]
      /\ todo' = [todo EXCEPT ![t] = Tail(@)]
      /\ UNCHANGED <<balance, quantity, lock, durable, reqVars>>
  BY DEF CreateMovement
<1>2. todo[t] # <<>> /\ lock[m.cell] = t
  BY <1>1 DEF TxInv
<1>3. /\ m.cell \in Cells /\ m.delta \in Int /\ m.key \in MovementKeys
      /\ Tail(todo[t]) \in Seq(Inputs)
  BY <1>2, HeadType
<1>n. t # None
  BY LedgerAssumption
<1>a. Ahead(m.cell)
  BY <1>1, <1>2, <1>n DEF Ahead
<1>q. /\ quantity[m.cell] = Last(m.cell).resulting + m.delta
      /\ quantity[m.cell] \in Int
      /\ Last(m.cell).resulting \in Int
  BY <1>2, <1>3, <1>a, RowType DEF AheadInv, Last, PrefixInv
<1>r. /\ r \in Movements
      /\ r.delta = m.delta /\ r.resulting = quantity[m.cell]
      /\ r.key = m.key /\ r.tx = t
      /\ r.alerted = Alerts(m.delta, quantity[m.cell])
  <2>1. Alerts(m.delta, quantity[m.cell]) \in BOOLEAN
    BY DEF Alerts
  <2> QED
    BY <1>3, <1>q, <2>1 DEF Movements
<1> HIDE DEF m, r
<1>4. /\ rows'[m.cell] \in Seq(Movements)
      /\ Len(rows'[m.cell]) = Len(rows[m.cell]) + 1
      /\ DOMAIN rows'[m.cell] = 1..(Len(rows[m.cell]) + 1)
      /\ rows'[m.cell][Len(rows[m.cell]) + 1] = r
      /\ \A n \in 1..Len(rows[m.cell]) : rows'[m.cell][n] = rows[m.cell][n]
  <2>1. rows'[m.cell] = Append(rows[m.cell], r)
    BY <1>1, <1>3 DEF TypeOK
  <2>2. rows[m.cell] \in Seq(Movements) /\ Len(rows[m.cell]) \in Nat
    BY <1>3, RowType
  <2>3. Append(rows[m.cell], r) \in Seq(Movements)
    BY <1>r, <2>2
  <2> QED
    BY <1>r, <2>1, <2>2, <2>3, LenProperties
<1>5. \A c \in Cells \ {m.cell} : rows'[c] = rows[c]
  BY <1>1, <1>3 DEF TypeOK
<1>6. TypeOK'
  <2>1. rows' \in [Cells -> Seq(Movements)]
    BY <1>1, <1>4, <1>5, <1>3 DEF TypeOK
  <2> QED
    BY <1>1, <1>3, <2>1 DEF TypeOK, Phases, reqVars
<1>7. PrefixInv'
  <2> SUFFICES ASSUME NEW c \in Cells
               PROVE  /\ durable[c] \in 1..Len(rows'[c])
                      /\ balance[c] = rows'[c][durable[c]].resulting
                      /\ lock[c] = None => /\ durable[c] = Len(rows'[c])
                                           /\ quantity[c] = balance[c]
    BY <1>1 DEF PrefixInv
  <2>1. CASE c = m.cell
    BY <1>2, <1>4, <1>n, <2>1, RowType DEF PrefixInv
  <2>2. CASE c # m.cell
    BY <1>5, <2>2 DEF PrefixInv
  <2> QED
    BY <2>1, <2>2
<1>8. OwnerInv'
  <2> SUFFICES ASSUME NEW c \in Cells
               PROVE  /\ lock[c] # None => Open(lock[c])'
                      /\ \A n \in 1..Len(rows'[c]) :
                           /\ n > durable[c] => rows'[c][n].tx = lock[c]
                           /\ n <= durable[c] => \/ rows'[c][n].tx = None
                                                 \/ pc'[rows'[c][n].tx] = "committed"
    BY <1>1 DEF OwnerInv
  <2>1. lock[c] # None => Open(lock[c])'
    BY <1>1 DEF OwnerInv, Open, TypeOK
  <2>2. ASSUME NEW n \in 1..Len(rows[c])
        PROVE  /\ n > durable[c] => rows[c][n].tx = lock[c]
               /\ n <= durable[c] => \/ rows[c][n].tx = None
                                     \/ pc'[rows[c][n].tx] = "committed"
    <3>1. rows[c][n].tx \in Txs \union {None}
      BY RowType DEF Movements
    <3> QED
      BY <1>1, <3>1 DEF OwnerInv, TypeOK
  <2>3. CASE c = m.cell
    <3>1. durable[c] < Len(rows[c]) + 1
      BY RowType DEF PrefixInv
    <3>2. \A n \in 1..Len(rows'[c]) :
            \/ n \in 1..Len(rows[c]) /\ rows'[c][n] = rows[c][n]
            \/ n > durable[c] /\ rows'[c][n].tx = lock[c]
      BY <1>2, <1>4, <1>r, <2>3, <3>1, RowType
    <3>3. durable[c] \in Nat
      BY RowType
    <3> QED
      BY <2>1, <2>2, <3>2, <3>3
  <2>4. CASE c # m.cell
    BY <1>5, <2>1, <2>2, <2>4
  <2> QED
    BY <2>3, <2>4
<1>9. AheadInv'
  <2> SUFFICES ASSUME NEW c \in Cells
               PROVE  quantity[c] = Last(c)'.resulting
                        + (IF Ahead(c)' THEN Head(todo'[lock[c]]).delta ELSE 0)
    BY <1>1 DEF AheadInv
  <2>1. CASE c = m.cell
    <3>1. ~Ahead(c)'
      BY <1>1, <1>2, <2>1 DEF Ahead, TypeOK
    <3>2. Last(c)' = r
      BY <1>4, <2>1 DEF Last
    <3> QED
      BY <1>q, <1>r, <2>1, <3>1, <3>2
  <2>2. CASE c # m.cell
    <3>1. Last(c)' = Last(c)
      BY <1>5, <2>2 DEF Last
    <3>2. CASE lock[c] = t
      <4>1. ~Ahead(c) /\ ~Ahead(c)'
        BY <1>1, <2>2, <3>2 DEF Ahead, TypeOK, m
      <4> QED
        BY <3>1, <4>1 DEF AheadInv
    <3>3. CASE lock[c] # t
      <4>1. /\ Ahead(c)' <=> Ahead(c)
            /\ Ahead(c) => todo'[lock[c]] = todo[lock[c]]
        BY <1>1, <3>3 DEF Ahead, TypeOK
      <4> QED
        BY <3>1, <4>1 DEF AheadInv
    <3> QED
      BY <3>2, <3>3
  <2> QED
    BY <2>1, <2>2
<1>10. TxInv'
  BY <1>1 DEF TxInv, TypeOK
<1>11. SaleInv'
  BY <1>1 DEF SaleInv, Inserted, TypeOK, reqVars
<1>12. (LedgerChain /\ AlertOnCrossing)'
  <2> SUFFICES ASSUME NEW c \in Cells, NEW n \in 2..Len(rows'[c])
               PROVE  /\ rows'[c][n].resulting
                           = rows'[c][n - 1].resulting + rows'[c][n].delta
                      /\ rows'[c][n].alerted <=>
                           /\ ComputeStockStatus(rows'[c][n].resulting) = "red"
                           /\ ComputeStockStatus(rows'[c][n - 1].resulting) # "red"
    BY DEF LedgerChain, AlertOnCrossing, ComputeStockStatus
  <2>1. CASE c # m.cell
    BY <1>5, <2>1 DEF LedgerChain, AlertOnCrossing
  <2>2. CASE c = m.cell /\ n <= Len(rows[c])
    <3>1. n \in 2..Len(rows[c]) /\ n - 1 \in 1..Len(rows[c])
      BY <2>2, RowType
    <3>2. rows'[c][n] = rows[c][n] /\ rows'[c][n - 1] = rows[c][n - 1]
      BY <1>4, <2>2, <3>1
    <3> QED
      BY <3>1, <3>2 DEF LedgerChain, AlertOnCrossing
  <2>3. CASE c = m.cell /\ n = Len(rows[c]) + 1
    <3>1. rows'[c][n] = r /\ rows'[c][n - 1] = Last(c)
      BY <1>4, <2>3, RowType DEF Last, PrefixInv
    <3>2. quantity[c] - m.delta = Last(c).resulting
      BY <1>3, <1>q, <2>3
    <3>3. rows'[c][n].resulting = rows'[c][n - 1].resulting + rows'[c][n].delta
      BY <1>q, <1>r, <2>3, <3>1
    <3>4. rows'[c][n].alerted
            = (/\ ComputeStockStatus(rows'[c][n].resulting) = "red"
               /\ ComputeStockStatus(rows'[c][n - 1].resulting) # "red")
      BY <1>r, <2>3, <3>1, <3>2 DEF Alerts
    <3> QED
      BY <3>3, <3>4
  <2> QED
    BY <1>4, <2>1, <2>2, <2>3, RowType
<1>13. KeyRecordedOnce'
  <2>1. m.key # None =>
          \A d \in Cells : \A n \in DOMAIN rows[d] : rows[d][n].key # m.key
    BY <1>1 DEF Visible, InDoubt
  <2> SUFFICES ASSUME NEW c \in Cells, NEW d \in Cells,
                      NEW n \in DOMAIN rows'[c], NEW k \in DOMAIN rows'[d],
                      rows'[c][n].key # None,
                      rows'[c][n].key = rows'[d][k].key
               PROVE  c = d /\ n = k
    BY DEF KeyRecordedOnce
  <2> DEFINE new(b, i) == b = m.cell /\ i = Len(rows[b]) + 1
  <2>2. ASSUME NEW b \in Cells, NEW i \in DOMAIN rows'[b], ~new(b, i)
        PROVE  i \in DOMAIN rows[b] /\ rows'[b][i] = rows[b][i]
    <3>1. CASE b = m.cell
      <4>1. i \in 1..Len(rows[b])
        BY <1>4, <2>2, <3>1, RowType
      <4> QED
        BY <1>4, <3>1, <4>1, RowType
    <3>2. CASE b # m.cell
      BY <1>5, <2>2, <3>2
    <3> QED
      BY <3>1, <3>2
  <2>3. ASSUME NEW b \in Cells, NEW i \in DOMAIN rows'[b], new(b, i)
        PROVE  rows'[b][i].key = m.key
    BY <1>4, <1>r, <2>3
  <2>4. CASE new(c, n) /\ new(d, k)
    BY <2>4
  <2>5. CASE new(c, n) /\ ~new(d, k)
    BY <2>1, <2>2, <2>3, <2>5
  <2>6. CASE ~new(c, n) /\ new(d, k)
    BY <2>1, <2>2, <2>3, <2>6
  <2>7. CASE ~new(c, n) /\ ~new(d, k)
    <3>1. /\ n \in DOMAIN rows[c] /\ rows'[c][n] = rows[c][n]
          /\ k \in DOMAIN rows[d] /\ rows'[d][k] = rows[d][k]
      BY <2>2, <2>7
    <3> QED
      BY <3>1 DEF KeyRecordedOnce
  <2> QED
    BY <2>4, <2>5, <2>6, <2>7
<1> QED
  BY <1>6, <1>7, <1>8, <1>9, <1>10, <1>11, <1>12, <1>13

\* The end of a transaction, either way: the cells it had locked are unlocked
\* with nothing uncommitted in them, and the others are as they were.
LEMMA EndStep ==
  ASSUME Inv, NEW t \in Txs, Commit(t) \/ Abort(t)
  PROVE  Inv'
<1> USE DEF Inv
<1>n. t # None
  BY LedgerAssumption
<1>1. /\ Open(t)
      /\ lock' = [c \in Cells |-> IF lock[c] = t THEN None ELSE lock[c]]
      /\ UNCHANGED reqVars
      /\ todo' \in [Txs -> Seq(Inputs)]
      /\ \A u \in Txs \ {t} : pc'[u] = pc[u] /\ todo'[u] = todo[u]
      /\ pc' \in [Txs -> Phases]
      /\ pc'[t] \in {"committed", "aborted"}
      /\ pc'[t] = "committed" => pc[t] = "lookup"
  <2>1. <<>> \in Seq(Inputs)
    OBVIOUS
  <2> QED
    BY <2>1 DEF Commit, Abort, Unlock, Open, TypeOK, Phases
\* In a cell that was not locked by t nothing changes.
<1>2. ASSUME NEW c \in Cells, lock[c] # t
      PROVE  /\ rows'[c] = rows[c] /\ durable'[c] = durable[c]
             /\ balance'[c] = balance[c] /\ quantity'[c] = quantity[c]
             /\ lock'[c] = lock[c]
  BY <1>1, <1>2 DEF Commit, Abort, TypeOK
\* In one that was, the rows that stay are all durable and end in its balance.
<1>3. ASSUME NEW c \in Cells, lock[c] = t
      PROVE  /\ lock'[c] = None
             /\ rows'[c] \in Seq(Movements)
             /\ durable'[c] \in 1..Len(rows[c])
             /\ Len(rows'[c]) = durable'[c]
             /\ \A n \in 1..durable'[c] : rows'[c][n] = rows[c][n]
             /\ balance'[c] \in Int
             /\ balance'[c] = rows[c][durable'[c]].resulting
             /\ quantity'[c] = balance'[c]
             /\ durable'[c] = durable[c] \/ pc'[t] = "committed"
  <2>0. /\ rows[c] \in Seq(Movements) /\ Len(rows[c]) \in Nat
        /\ durable[c] \in 1..Len(rows[c])
        /\ balance[c] = rows[c][durable[c]].resulting
        /\ balance[c] \in Int /\ quantity[c] \in Int
        /\ lock'[c] = None
    BY <1>1, <1>3, RowType DEF PrefixInv
  <2>1. CASE Commit(t)
    <3>1. /\ rows'[c] = rows[c] /\ durable'[c] = Len(rows[c])
          /\ balance'[c] = quantity[c] /\ quantity'[c] = quantity[c]
          /\ pc[t] = "lookup" /\ pc'[t] = "committed"
      BY <1>3, <2>1 DEF Commit, TypeOK
    <3>2. quantity[c] = Last(c).resulting
      <4>1. ~Ahead(c)
        BY <1>3, <3>1 DEF Ahead
      <4>2. Last(c).resulting \in Int
        BY <2>0, RowType DEF Last
      <4> QED
        BY <4>1, <4>2 DEF AheadInv
    <3> QED
      BY <2>0, <3>1, <3>2 DEF Last
  <2>2. CASE Abort(t)
    <3>1. /\ rows'[c] = SubSeq(rows[c], 1, durable[c])
          /\ durable'[c] = durable[c]
          /\ balance'[c] = balance[c] /\ quantity'[c] = balance[c]
      BY <1>3, <2>2 DEF Abort
    <3>2. \A n \in 1..durable[c] : rows[c][n] \in Movements
      BY <2>0, ElementOfSeq
    <3>3. durable[c] \in Int /\ 1 \in Int /\ 1 <= durable[c]
      BY <2>0
    <3>4. /\ SubSeq(rows[c], 1, durable[c]) \in Seq(Movements)
          /\ Len(SubSeq(rows[c], 1, durable[c])) = durable[c]
          /\ \A n \in 1..durable[c] :
               SubSeq(rows[c], 1, durable[c])[n] = rows[c][n]
      <4>1. /\ SubSeq(rows[c], 1, durable[c]) \in Seq(Movements)
            /\ Len(SubSeq(rows[c], 1, durable[c])) = durable[c] - 1 + 1
            /\ \A n \in 1..durable[c] - 1 + 1 :
                 SubSeq(rows[c], 1, durable[c])[n] = rows[c][1 + n - 1]
        BY <3>2, <3>3, SubSeqProperties
      <4> QED
        BY <3>3, <4>1
    <3> QED
      BY <2>0, <3>1, <3>4
  <2> QED
    BY <2>1, <2>2
\* Either way the rows that stay are rows that were there.
<1>4. ASSUME NEW c \in Cells
      PROVE  /\ rows'[c] \in Seq(Movements)
             /\ Len(rows'[c]) \in Nat /\ Len(rows'[c]) <= Len(rows[c])
             /\ DOMAIN rows'[c] = 1..Len(rows'[c])
             /\ \A n \in 1..Len(rows'[c]) : rows'[c][n] = rows[c][n]
  <2>1. rows'[c] \in Seq(Movements)
    BY <1>2, <1>3, RowType
  <2> QED
    BY <1>2, <1>3, <2>1, RowType, LenProperties
<1>5. TypeOK'
  <2>1. /\ balance' \in [Cells -> Int] /\ quantity' \in [Cells -> Int]
        /\ durable' \in [Cells -> Nat] /\ rows' \in [Cells -> Seq(Movements)]
    <3>1. /\ balance' = [c \in Cells |-> balance'[c]]
          /\ quantity' = [c \in Cells |-> quantity'[c]]
          /\ durable' = [c \in Cells |-> durable'[c]]
          /\ rows' = [c \in Cells |-> rows'[c]]
      BY DEF Commit, Abort, TypeOK
    <3>2. \A c \in Cells : /\ balance'[c] \in Int /\ quantity'[c] \in Int
                           /\ durable'[c] \in Nat
      BY <1>2, <1>3, RowType
    <3> QED
      BY <1>4, <3>1, <3>2
  <2> QED
    BY <1>1, <2>1 DEF TypeOK, reqVars
<1>6. PrefixInv'
  <2> SUFFICES ASSUME NEW c \in Cells
               PROVE  /\ durable'[c] \in 1..Len(rows'[c])
                      /\ balance'[c] = rows'[c][durable'[c]].resulting
                      /\ lock'[c] = None => /\ durable'[c] = Len(rows'[c])
                                            /\ quantity'[c] = balance'[c]
    BY DEF PrefixInv
  <2>1. CASE lock[c] = t
    BY <1>3, <2>1, RowType
  <2>2. CASE lock[c] # t
    BY <1>2, <2>2 DEF PrefixInv
  <2> QED
    BY <2>1, <2>2
<1>7. OwnerInv'
  <2> SUFFICES ASSUME NEW c \in Cells
               PROVE  /\ lock'[c] # None => Open(lock[c])'
                      /\ \A n \in 1..Len(rows'[c]) :
                           /\ n > durable'[c] => rows'[c][n].tx = lock'[c]
                           /\ n <= durable'[c] => \/ rows'[c][n].tx = None
                                                  \/ pc'[rows'[c][n].tx] = "committed"
    BY DEF OwnerInv
  <2>1. ASSUME NEW n \in 1..Len(rows[c]), n <= durable[c], rows[c][n].tx # None
        PROVE  pc'[rows[c][n].tx] = "committed"
    <3>1. pc[rows[c][n].tx] = "committed" /\ rows[c][n].tx \in Txs
      BY <2>1, RowType DEF OwnerInv, Movements
    <3> QED
      BY <1>1, <3>1 DEF Open
  <2>2. CASE lock[c] = t
    <3> SUFFICES ASSUME NEW n \in 1..Len(rows'[c])
                 PROVE  /\ n <= durable'[c]
                        /\ rows'[c][n].tx = None \/ pc'[rows'[c][n].tx] = "committed"
      BY <1>3, <2>2, RowType
    <3>1. n \in 1..Len(rows[c]) /\ rows'[c][n] = rows[c][n] /\ n <= durable'[c]
      BY <1>3, <1>4, <2>2, RowType
    <3>2. CASE n <= durable[c]
      BY <2>1, <3>1, <3>2
    <3>3. CASE n > durable[c]
      <4>1. rows[c][n].tx = t
        BY <2>2, <3>1, <3>3 DEF OwnerInv
      <4>2. pc'[t] = "committed"
        BY <1>3, <2>2, <3>1, <3>3, RowType
      <4> QED
        BY <3>1, <4>1, <4>2
    <3> QED
      BY <3>1, <3>2, <3>3, RowType
  <2>3. CASE lock[c] # t
    <3>1. lock'[c] # None => Open(lock[c])'
      BY <1>1, <1>2, <2>3 DEF OwnerInv, Open, TypeOK
    <3> QED
      BY <1>2, <2>1, <2>3, <3>1 DEF OwnerInv
  <2> QED
    BY <2>2, <2>3
<1>8. AheadInv'
  <2> SUFFICES ASSUME NEW c \in Cells
               PROVE  quantity'[c] = Last(c)'.resulting
                        + (IF Ahead(c)' THEN Head(todo'[lock'[c]]).delta ELSE 0)
    BY DEF AheadInv
  <2>1. CASE lock[c] = t
    <3>1. ~Ahead(c)'
      BY <1>3, <2>1 DEF Ahead
    <3>2. Last(c)'.resulting = quantity'[c] /\ quantity'[c] \in Int
      BY <1>3, <2>1, RowType DEF Last
    <3> QED
      BY <3>1, <3>2
  <2>2. CASE lock[c] # t
    <3>1. /\ Last(c)' = Last(c) /\ quantity'[c] = quantity[c]
          /\ lock'[c] = lock[c]
      BY <1>2, <2>2 DEF Last
    <3>2. /\ Ahead(c)' <=> Ahead(c)
          /\ Ahead(c) => todo'[lock[c]] = todo[lock[c]]
      BY <1>1, <2>2, <3>1 DEF Ahead, TypeOK
    <3> QED
      BY <3>1, <3>2 DEF AheadInv
  <2> QED
    BY <2>1, <2>2
<1>9. TxInv'
  <2> SUFFICES ASSUME NEW u \in Txs
               PROVE  /\ pc'[u] \in {"upsert", "create"} => todo'[u] # <<>>
                      /\ pc'[u] = "create" => lock'[Head(todo'[u]).cell] = u
    BY DEF TxInv
  <2>1. CASE u = t
    BY <1>1, <2>1
  <2>2. CASE u # t
    <3>1. pc'[u] = pc[u] /\ todo'[u] = todo[u]
      BY <1>1, <2>2
    <3>2. ASSUME pc[u] = "create" PROVE lock'[Head(todo[u]).cell] = u
      <4>1. lock[Head(todo[u]).cell] = u /\ Head(todo[u]).cell \in Cells
        BY <3>2, HeadType DEF TxInv
      <4> QED
        BY <1>2, <2>2, <4>1
    <3> QED
      BY <3>1, <3>2 DEF TxInv
  <2> QED
    BY <2>1, <2>2
<1>10. SaleInv'
  <2>1. \A u \in Txs : Inserted(u)' => Inserted(u)
    BY <1>1 DEF Inserted, reqVars
  <2> QED
    BY <1>1, <2>1 DEF SaleInv, reqVars
<1>11. (LedgerChain /\ AlertOnCrossing)'
  <2> SUFFICES ASSUME NEW c \in Cells, NEW n \in 2..Len(rows'[c])
               PROVE  /\ rows'[c][n].resulting
                           = rows'[c][n - 1].resulting + rows'[c][n].delta
                      /\ rows'[c][n].alerted <=>
                           /\ ComputeStockStatus(rows'[c][n].resulting) = "red"
                           /\ ComputeStockStatus(rows'[c][n - 1].resulting) # "red"
    BY DEF LedgerChain, AlertOnCrossing, ComputeStockStatus
  <2>1. /\ n \in 2..Len(rows[c])
        /\ rows'[c][n] = rows[c][n] /\ rows'[c][n - 1] = rows[c][n - 1]
    <3>1. n \in 1..Len(rows'[c]) /\ n - 1 \in 1..Len(rows'[c])
      BY <1>4
    <3> QED
      BY <1>4, <3>1, RowType
  <2> QED
    BY <2>1 DEF LedgerChain, AlertOnCrossing
<1>12. KeyRecordedOnce'
  <2>1. ASSUME NEW c \in Cells, NEW n \in DOMAIN rows'[c]
        PROVE  n \in DOMAIN rows[c] /\ rows'[c][n] = rows[c][n]
    BY <1>4, RowType
  <2> QED
    BY <2>1 DEF KeyRecordedOnce
<1> QED
  BY <1>5, <1>6, <1>7, <1>8, <1>9, <1>10, <1>11, <1>12
-----------------------------------------------------------------------------
\* Every step preserves the invariant.
LEMMA NextInv == Inv /\ [Next]_vars => Inv'
<1> SUFFICES ASSUME Inv, [Next]_vars PROVE Inv'
  OBVIOUS
<1>1. CASE Next
  <2>1. PICK t \in Txs :
          \/ CreateSale(t) \/ InsertSale(t) \/ Restock(t) \/ AdjustStock(t)
          \/ TransferStock(t) \/ Lookup(t) \/ Upsert(t) \/ CreateMovement(t)
          \/ Commit(t) \/ Abort(t)
    BY <1>1 DEF Next
  <2> QED
    BY <2>1, RequestStep, InsertStep, LookupStep, UpsertStep, CreateStep, EndStep
<1>2. CASE UNCHANGED vars
  BY <1>2 DEF vars, Inv, TypeOK, PrefixInv, OwnerInv, AheadInv, TxInv, SaleInv,
              LedgerChain, AlertOnCrossing, KeyRecordedOnce, Open, Ahead, Last,
              Inserted
<1> QED
  BY <1>1, <1>2

\* The inductive invariant holds throughout every behaviour.
THEOREM Invariance == Spec => []Inv
  BY InitInv, NextInv, PTL DEF Spec

\* Type correctness.
THEOREM TypeCorrect == Spec => []TypeOK
  BY Invariance, PTL DEF Inv

\* The ledger of every cell is a chain: concurrent increments are neither lost
\* nor mixed (recordMovement's upsert and insert under the row lock).
THEOREM LedgerIsChain == Spec => []LedgerChain
  BY Invariance, PTL DEF Inv

\* A low-stock event is published exactly with the movements that take a cell
\* into red (maybePublishLowStockAlert).
THEOREM AlertsOnCrossing == Spec => []AlertOnCrossing
  BY Invariance, PTL DEF Inv

\* An idempotencyKey is recorded at most once.
THEOREM KeysRecordedOnce == Spec => []KeyRecordedOnce
  BY Invariance, PTL DEF Inv

\* The durable movements are those of committed transactions, all of them.
THEOREM TransactionsAtomic == Spec => []AllOrNothing
<1>1. Inv => AllOrNothing
  <2> SUFFICES ASSUME Inv, NEW c \in Cells, NEW n \in DOMAIN rows[c],
                      rows[c][n].tx # None
               PROVE  /\ n \in Durable(c) <=> pc[rows[c][n].tx] = "committed"
                      /\ pc[rows[c][n].tx] # "aborted"
    BY DEF AllOrNothing
  <2>1. n \in 1..Len(rows[c]) /\ durable[c] \in Nat
    BY RowType DEF Inv
  <2>2. CASE n <= durable[c]
    BY <2>1, <2>2 DEF Inv, OwnerInv, Durable
  <2>3. CASE n > durable[c]
    BY <2>1, <2>3 DEF Inv, OwnerInv, Open, Durable
  <2> QED
    BY <2>1, <2>2, <2>3
<1> QED
  BY <1>1, Invariance, PTL

\* At most one sale per clientMutationId is committed.
THEOREM SalesOncePerMutation == Spec => []OneSalePerMutation
<1>1. Inv => OneSalePerMutation
  <2> SUFFICES ASSUME Inv, NEW m \in Mutations PROVE Cardinality(Sold(m)) <= 1
    BY DEF OneSalePerMutation
  <2>1. CASE Sold(m) = {}
    BY <2>1, FS_EmptySet
  <2>2. CASE Sold(m) # {}
    <3>1. PICK t : t \in Sold(m)
      BY <2>2
    <3>2. \A u \in Sold(m) : u = t
      BY <3>1 DEF Sold, Inv, SaleInv, Inserted
    <3>3. Sold(m) = {t}
      BY <3>1, <3>2
    <3> QED
      BY <3>3, FS_Singleton
  <2> QED
    BY <2>1, <2>2
<1> QED
  BY <1>1, Invariance, PTL

\* A movement per idempotencyKey and a sale per clientMutationId, for any number
\* of concurrent transactions.
THEOREM EverythingRecordedOnce == Spec => []RecordedOnce
  BY KeysRecordedOnce, SalesOncePerMutation, PTL DEF RecordedOnce
-----------------------------------------------------------------------------
(* The stock adds up.  Sums are those of module Sums. *)

\* A cell's chain starts from nothing.
FromNothing == \A c \in Cells : rows[c][1].resulting = rows[c][1].delta

\* replayBalance ends in the resultingBalance of the last committed movement.
LEMMA ReplayIsLast ==
  ASSUME TypeOK, PrefixInv, LedgerChain, FromNothing, NEW c \in Cells
  PROVE  balance[c] = ReplayBalance(c)
<1> DEFINE Step(g) == [n \in 0..durable[c] |-> IF n = 0 THEN 0 ELSE g[n - 1] + rows[c][n].delta]
           chain == [n \in 0..durable[c] |-> IF n = 0 THEN 0 ELSE rows[c][n].resulting]
<1>1. /\ durable[c] \in 1..Len(rows[c]) /\ Len(rows[c]) \in Nat
      /\ \A n \in 1..Len(rows[c]) : rows[c][n].resulting \in Int /\ rows[c][n].delta \in Int
      /\ balance[c] = rows[c][durable[c]].resulting
  BY RowType DEF PrefixInv
<1>2. chain = Step(chain)
  <2> SUFFICES ASSUME NEW n \in 1..durable[c]
               PROVE  rows[c][n].resulting = chain[n - 1] + rows[c][n].delta
    BY <1>1
  <2>1. CASE n = 1
    BY <1>1, <2>1 DEF FromNothing
  <2>2. CASE n # 1
    <3>1. n \in 2..Len(rows[c]) /\ n - 1 \in 1..durable[c]
      BY <1>1, <2>2
    <3>2. chain[n - 1] = rows[c][n - 1].resulting
      BY <3>1
    <3> QED BY <3>1, <3>2 DEF LedgerChain
  <2> QED BY <2>1, <2>2
<1>3. PICK replay : replay = CHOOSE g : g = Step(g)
  OBVIOUS
<1>4. replay = Step(replay)
  <2> HIDE DEF Step
  <2>1. \E h : h = Step(h)
    BY <1>2
  <2> QED BY <1>3, <2>1, Zenon
<1>5. ReplayBalance(c) = replay[durable[c]]
  BY <1>3 DEF ReplayBalance
<1>6. /\ replay[0] = 0 /\ chain[0] = 0
      /\ \A n \in 1..durable[c] : /\ replay[n] = replay[n - 1] + rows[c][n].delta
                                  /\ chain[n] = chain[n - 1] + rows[c][n].delta
  <2>1. 0 \in 0..durable[c] /\ \A n \in 1..durable[c] : n \in 0..durable[c] /\ n # 0
    BY <1>1
  <2>2. replay[0] = 0 /\ \A n \in 1..durable[c] : replay[n] = replay[n - 1] + rows[c][n].delta
    BY <1>4, <2>1
  <2>3. chain[0] = 0 /\ \A n \in 1..durable[c] : chain[n] = chain[n - 1] + rows[c][n].delta
    <3> HIDE DEF chain
    <3>1. chain[0] = Step(chain)[0] /\ \A n \in 1..durable[c] : chain[n] = Step(chain)[n]
      BY <1>2
    <3> QED BY <2>1, <3>1
  <2> QED BY <2>2, <2>3
<1>7. chain[durable[c]] = balance[c]
  BY <1>1
<1> HIDE DEF chain, Step
<1> DEFINE Bad == {n \in 0..durable[c] : replay[n] # chain[n]}
<1>8. Bad = {}
  <2> SUFFICES ASSUME Bad # {} PROVE FALSE
    OBVIOUS
  <2>1. Bad \subseteq Nat
    BY <1>1
  <2>2. PICK n \in Bad : \A k \in Bad : n <= k
    <3> HIDE DEF Bad
    <3> QED BY <2>1, LeastNat
  <2>3. n \in 1..durable[c]
    BY <1>1, <1>6, <2>2
  <2>4. n - 1 \notin Bad /\ n - 1 \in 0..durable[c]
    BY <1>1, <2>2, <2>3
  <2> QED BY <1>6, <2>2, <2>3, <2>4
<1>9. durable[c] \in 0..durable[c]
  BY <1>1
<1> QED BY <1>5, <1>7, <1>8, <1>9

\* The movements of transaction t on variant v among the rows r.
At(r, t, v) ==
  UNION {{<<c, n>> : n \in {k \in DOMAIN r[c] : r[c][k].tx = t}} : c \in {d \in Cells : d[2] = v}}

\* Their deltas.
DeltasAt(r, t, v) == [x \in At(r, t, v) |-> r[x[1]][x[2]].delta]

\* Moved, of given rows.
MovedIn(r, t, v) == FoldSet(LAMBDA x, sum : sum + r[x[1]][x[2]].delta, 0, At(r, t, v))

\* Which movements are a transaction's.
LEMMA InAt ==
  ASSUME NEW r, NEW t, NEW v, NEW x
  PROVE  x \in At(r, t, v) <=> \E c \in Cells : \E n \in DOMAIN r[c] :
                                 c[2] = v /\ r[c][n].tx = t /\ x = <<c, n>>
  BY DEF At

\* Moved is the sum of the deltas.
LEMMA MovedIsSigma ==
  ASSUME NEW r, NEW t, NEW v, IsFiniteSet(At(r, t, v)),
         \A x \in At(r, t, v) : DeltasAt(r, t, v)[x] \in Int
  PROVE  MovedIn(r, t, v) = Sigma(DeltasAt(r, t, v), At(r, t, v))
<1> DEFINE S == At(r, t, v)
           f == DeltasAt(r, t, v)
           pick(s) == CHOOSE x \in s : TRUE
           Step(g) == [s \in SUBSET S |-> IF s = {} THEN 0
                                          ELSE g[s \ {pick(s)}] + r[pick(s)[1]][pick(s)[2]].delta]
<1>1. PICK m : Measure(m, f, S)
  BY MeasureExists
<1>2. \A s \in SUBSET S : s # {} => /\ pick(s) \in s /\ s \ {pick(s)} \in SUBSET S
                                    /\ r[pick(s)[1]][pick(s)[2]].delta = f[pick(s)]
  BY DEF DeltasAt
<1>3. m = Step(m)
  <2>1. m = [s \in SUBSET S |-> m[s]]
    BY <1>1 DEF Measure
  <2>2. ASSUME NEW s \in SUBSET S, s # {} PROVE m[s] = m[s \ {pick(s)}] + f[pick(s)]
    <3> DEFINE x == pick(s)
               u == s \ {x}
    <3>1. x \in s /\ u \in SUBSET S /\ x \in S \ u /\ u \union {x} = s
      BY <1>2, <2>2
    <3> HIDE DEF x, u
    <3>2. m[u \union {x}] = m[u] + f[x]
      BY <1>1, <3>1 DEF Measure
    <3> QED BY <3>1, <3>2 DEF x, u
  <2>3. m[{}] = 0
    BY <1>1 DEF Measure
  <2> HIDE DEF f, S, pick
  <2>4. \A s \in SUBSET S : m[s] = IF s = {} THEN 0
                                   ELSE m[s \ {pick(s)}] + r[pick(s)[1]][pick(s)[2]].delta
    BY <1>2, <2>2, <2>3
  <2> QED BY <2>1, <2>4
<1>4. PICK g : g = CHOOSE h : h = Step(h)
  OBVIOUS
<1>5. g = Step(g)
  <2> HIDE DEF Step
  <2>1. \E h : h = Step(h)
    BY <1>3
  <2> QED BY <1>4, <2>1, Zenon
<1>6. MovedIn(r, t, v) = g[S]
  BY <1>4 DEF MovedIn, FoldSet, MapThenFoldSet
<1>7. IsFold(g, f, S)
  <2>1. {} \in SUBSET S
    OBVIOUS
  <2>2. g[{}] = 0
    BY <1>5, <2>1
  <2>3. ASSUME NEW s \in SUBSET S, s # {} PROVE g[s] = g[s \ {pick(s)}] + f[pick(s)]
    <3>1. g[s] = g[s \ {pick(s)}] + r[pick(s)[1]][pick(s)[2]].delta
      BY <1>5, <2>3
    <3> HIDE DEF f, S, pick
    <3> QED BY <1>2, <2>3, <3>1
  <2> HIDE DEF f, S, pick, Step
  <2> QED BY <1>2, <2>2, <2>3 DEF IsFold
<1> HIDE DEF f, S, Step, pick
<1>8. g[S] = Sigma(f, S)
  BY <1>7, FoldIsSigma DEF f, S
<1> QED BY <1>6, <1>8 DEF f, S

\* Rows that keep a transaction's movements keep what it moved.
LEMMA MovedSame ==
  ASSUME NEW r, NEW s, NEW t, NEW v, At(s, t, v) = At(r, t, v), IsFiniteSet(At(r, t, v)),
         \A x \in At(r, t, v) : DeltasAt(r, t, v)[x] \in Int /\ DeltasAt(s, t, v)[x] = DeltasAt(r, t, v)[x]
  PROVE  MovedIn(s, t, v) = MovedIn(r, t, v)
<1>1. MovedIn(r, t, v) = Sigma(DeltasAt(r, t, v), At(r, t, v))
  BY MovedIsSigma
<1>2. MovedIn(s, t, v) = Sigma(DeltasAt(s, t, v), At(s, t, v))
  BY MovedIsSigma
<1> QED BY <1>1, <1>2, SigmaSame

\* A further movement adds its delta.
LEMMA MovedOnce ==
  ASSUME NEW r, NEW s, NEW t, NEW v, NEW y, y \notin At(r, t, v),
         At(s, t, v) = At(r, t, v) \union {y}, IsFiniteSet(At(r, t, v)),
         DeltasAt(s, t, v)[y] \in Int,
         \A x \in At(r, t, v) : DeltasAt(r, t, v)[x] \in Int /\ DeltasAt(s, t, v)[x] = DeltasAt(r, t, v)[x]
  PROVE  /\ MovedIn(s, t, v) = MovedIn(r, t, v) + DeltasAt(s, t, v)[y]
         /\ IsFiniteSet(At(s, t, v))
<1> DEFINE R == At(r, t, v)
           S == At(s, t, v)
           f == DeltasAt(r, t, v)
           h == DeltasAt(s, t, v)
<1>0. IsFiniteSet(R) /\ IsFiniteSet(S)
  BY FS_AddElement
<1>1. MovedIn(r, t, v) = Sigma(f, R)
  BY MovedIsSigma
<1>2. \A x \in S : h[x] \in Int
  OBVIOUS
<1>3. MovedIn(s, t, v) = Sigma(h, S)
  BY <1>0, <1>2, MovedIsSigma
<1> HIDE DEF R, S, f, h
<1>4. R \in SUBSET S /\ y \in S \ R /\ S = R \union {y}
  BY DEF R, S
<1>5. Sigma(h, S) = Sigma(h, R) + h[y]
  BY <1>0, <1>2, <1>4, SigmaRules
<1>6. Sigma(h, R) = Sigma(f, R)
  BY <1>0, SigmaSame DEF R, f, h
<1> QED BY <1>0, <1>1, <1>3, <1>5, <1>6 DEF S, h

\* What is left of a transfer: unkeyed movements, which from the end on come in
\* pairs that cancel out.
PairsLeft(q) ==
  /\ \A i \in 1..Len(q) : q[i].key = None
  /\ \A i \in 1..(Len(q) - 1) : (Len(q) - i) % 2 = 1 =>
       q[i + 1].cell[2] = q[i].cell[2] /\ q[i + 1].delta = -q[i].delta

\* What it has moved so far: the dispatch whose receipt is next, if any.
HalfDone(q, v) == IF Len(q) % 2 = 1 /\ Head(q).cell[2] = v THEN -Head(q).delta ELSE 0

TransferInv ==
  \A t \in Txs :
    /\ \A v \in Variants : IsFiniteSet(At(rows, t, v))
    /\ pc[t] = "new" => \A v \in Variants : At(rows, t, v) = {}
    /\ pc[t] = "committed" => todo[t] = <<>>
    /\ kind[t] = "transfer" /\ pc[t] \notin {"new", "aborted"} =>
         /\ PairsLeft(todo[t])
         /\ \A v \in Variants : MovedIn(rows, t, v) = HalfDone(todo[t], v)

SumInv == FromNothing /\ TransferInv

\* The movements of well-typed rows have integers for deltas.
LEMMA DeltaType ==
  ASSUME TypeOK, NEW t, NEW v, NEW x \in At(rows, t, v)
  PROVE  DeltasAt(rows, t, v)[x] \in Int
<1>1a. PICK c \in Cells : \E n \in DOMAIN rows[c] : x = <<c, n>>
  BY InAt
<1>1. PICK n \in DOMAIN rows[c] : x = <<c, n>>
  BY <1>1a
<1>2. rows[c][n].delta \in Int
  BY RowType
<1> QED BY <1>1, <1>2 DEF DeltasAt

\* A step that leaves the movements of u alone leaves what it moved alone.
LEMMA KeepsMoved ==
  ASSUME TypeOK, NEW u \in Txs, NEW v, IsFiniteSet(At(rows, u, v)),
         \A c \in Cells : \A n \in DOMAIN rows[c] :
           rows[c][n].tx = u => n \in DOMAIN rows'[c] /\ rows'[c][n] = rows[c][n],
         \A c \in Cells : \A n \in DOMAIN rows'[c] :
           rows'[c][n].tx = u => n \in DOMAIN rows[c] /\ rows'[c][n] = rows[c][n]
  PROVE  At(rows', u, v) = At(rows, u, v) /\ MovedIn(rows', u, v) = MovedIn(rows, u, v)
<1>1. At(rows', u, v) = At(rows, u, v)
  <2>1. ASSUME NEW x \in At(rows, u, v) PROVE x \in At(rows', u, v)
    <3>1a. PICK c \in Cells : \E n \in DOMAIN rows[c] : c[2] = v /\ rows[c][n].tx = u /\ x = <<c, n>>
      BY <2>1, InAt
    <3>1. PICK n \in DOMAIN rows[c] : c[2] = v /\ rows[c][n].tx = u /\ x = <<c, n>>
      BY <3>1a
    <3> QED BY <3>1, InAt
  <2>2. ASSUME NEW x \in At(rows', u, v) PROVE x \in At(rows, u, v)
    <3>1a. PICK c \in Cells : \E n \in DOMAIN rows'[c] : c[2] = v /\ rows'[c][n].tx = u /\ x = <<c, n>>
      BY <2>2, InAt
    <3>1. PICK n \in DOMAIN rows'[c] : c[2] = v /\ rows'[c][n].tx = u /\ x = <<c, n>>
      BY <3>1a
    <3> QED BY <3>1, InAt
  <2> QED BY <2>1, <2>2
<1>2. ASSUME NEW x \in At(rows, u, v)
      PROVE  DeltasAt(rows, u, v)[x] \in Int /\ DeltasAt(rows', u, v)[x] = DeltasAt(rows, u, v)[x]
  <2>1a. PICK c \in Cells : \E n \in DOMAIN rows[c] : rows[c][n].tx = u /\ x = <<c, n>>
    BY InAt
  <2>1. PICK n \in DOMAIN rows[c] : rows[c][n].tx = u /\ x = <<c, n>>
    BY <2>1a
  <2>2. rows'[c][n] = rows[c][n]
    BY <2>1
  <2>3. DeltasAt(rows', u, v)[x] = rows'[c][n].delta /\ DeltasAt(rows, u, v)[x] = rows[c][n].delta
    BY <1>1, <2>1 DEF DeltasAt
  <2> QED BY <2>2, <2>3, DeltaType
<1> QED BY <1>1, <1>2, MovedSame

\* Nothing has been moved where there is no movement.
LEMMA NothingMoved ==
  ASSUME NEW r, NEW t, NEW v, At(r, t, v) = {}
  PROVE  MovedIn(r, t, v) = 0
<1>1. IsFiniteSet({}) /\ Sigma(DeltasAt(r, t, v), {}) = 0
  BY FS_EmptySet, SigmaRules
<1> QED BY <1>1, MovedIsSigma

\* A transfer starts with pairs.
LEMMA PairsAtFirst ==
  ASSUME NEW t, NEW from, NEW to, NEW ls \in Seq(Lines)
  PROVE  LET q == TransferMovements(t, from, to, ls) IN
         PairsLeft(q) /\ \A v : HalfDone(q, v) = 0
<1> DEFINE q == TransferMovements(t, from, to, ls)
<1>1. Len(ls) \in Nat /\ \A i \in 1..Len(ls) : ls[i] \in Lines
  BY LenProperties, ElementOfSeq
<1>2. DOMAIN q = 1..(2 * Len(ls)) /\ 2 * Len(ls) \in Nat
  BY <1>1 DEF TransferMovements
<1>3. Len(q) = 2 * Len(ls)
  <2>1. q = [n \in 1..(2 * Len(ls)) |-> q[n]]
    BY DEF TransferMovements
  <2> HIDE DEF q
  <2> QED BY <1>2, <2>1
<1>4. \A n \in 1..(2 * Len(ls)) :
        q[n] = IF n % 2 = 1
                 THEN [cell |-> <<from, ls[(n + 1) \div 2].variant>>,
                       delta |-> -ls[(n + 1) \div 2].quantity, key |-> None]
                 ELSE [cell |-> <<to, ls[(n + 1) \div 2].variant>>,
                       delta |-> ls[(n + 1) \div 2].quantity, key |-> None]
  BY DEF TransferMovements
<1> HIDE DEF q
<1>5. \A i \in 1..Len(q) : q[i].key = None
  BY <1>3, <1>4
<1>6. ASSUME NEW i \in 1..(Len(q) - 1), (Len(q) - i) % 2 = 1
      PROVE  q[i + 1].cell[2] = q[i].cell[2] /\ q[i + 1].delta = -q[i].delta
  <2>1. /\ i % 2 = 1 /\ (i + 1) % 2 # 1 /\ i \in 1..(2 * Len(ls)) /\ i + 1 \in 1..(2 * Len(ls))
        /\ (i + 1 + 1) \div 2 = (i + 1) \div 2 /\ (i + 1) \div 2 \in 1..Len(ls)
    BY <1>1, <1>3, <1>6
  <2> DEFINE l == ls[(i + 1) \div 2]
  <2>2. /\ q[i] = [cell |-> <<from, l.variant>>, delta |-> -l.quantity, key |-> None]
        /\ q[i + 1] = [cell |-> <<to, l.variant>>, delta |-> l.quantity, key |-> None]
    BY <1>4, <2>1
  <2>3. l.quantity \in Int
    BY <1>1, <2>1, LineType
  <2> HIDE DEF l
  <2> QED BY <2>2, <2>3
<1>7. \A v : HalfDone(q, v) = 0
  BY <1>1, <1>3 DEF HalfDone
<1>8. PairsLeft(q)
  BY <1>5, <1>6 DEF PairsLeft
<1> QED BY <1>7, <1>8 DEF q

\* A dispatch is followed by its receipt, and a receipt leaves pairs.
LEMMA PairsGoOn ==
  ASSUME NEW q \in Seq(Inputs), q # <<>>, PairsLeft(q), NEW v
  PROVE  /\ PairsLeft(Tail(q))
         /\ HalfDone(Tail(q), v) = HalfDone(q, v) + (IF Head(q).cell[2] = v THEN Head(q).delta ELSE 0)
<1> DEFINE p == Tail(q)
<1>1. /\ Len(q) \in Nat /\ Len(q) > 0 /\ p \in Seq(Inputs) /\ Len(p) = Len(q) - 1
      /\ \A i \in 1..Len(p) : p[i] = q[i + 1]
      /\ Head(q) = q[1] /\ \A i \in 1..Len(q) : q[i].delta \in Int
  <2>1. \A i \in 1..Len(q) : q[i] \in Inputs
    BY ElementOfSeq
  <2>2. \A i \in 1..Len(q) : q[i].delta \in Int
    BY <2>1 DEF Inputs
  <2>3. /\ Len(q) \in Nat /\ Len(q) > 0 /\ p \in Seq(Inputs) /\ Len(p) = Len(q) - 1
        /\ Head(q) = q[1]
    BY LenProperties, HeadTailProperties, EmptySeq
  <2>4. \A i \in 1..Len(p) : p[i] = q[i + 1]
    BY <2>3
  <2> QED BY <2>2, <2>3, <2>4
<1> HIDE DEF p
<1>0. PICK k \in Nat, n \in Nat : k = Len(p) /\ n = Len(q) /\ n = k + 1
  <2>1. Len(p) \in Nat
    BY <1>1, LenProperties
  <2> QED BY <1>1, <2>1
<1>2. PairsLeft(p)
  <2>1. \A i \in 1..Len(p) : p[i].key = None
    BY <1>1 DEF PairsLeft
  <2>2. ASSUME NEW i \in 1..(Len(p) - 1), (Len(p) - i) % 2 = 1
        PROVE  p[i + 1].cell[2] = p[i].cell[2] /\ p[i + 1].delta = -p[i].delta
    <3>1. /\ i + 1 \in 1..(Len(q) - 1) /\ (Len(q) - (i + 1)) % 2 = 1
          /\ p[i] = q[i + 1] /\ p[i + 1] = q[i + 1 + 1]
      <4>1. i \in 1..(k - 1) /\ (k - i) % 2 = 1
        BY <1>0, <2>2
      <4>2. i + 1 \in 1..(n - 1) /\ n - (i + 1) = k - i /\ i \in 1..k /\ i + 1 \in 1..k
        BY <1>0, <4>1
      <4> QED BY <1>0, <1>1, <4>1, <4>2
    <3> QED BY <3>1 DEF PairsLeft
  <2> QED BY <2>1, <2>2 DEF PairsLeft
<1>3. CASE Len(q) % 2 = 1
  <2>1. Len(p) % 2 # 1 /\ 1 \in 1..Len(q)
    <3>1. n % 2 = 1 => k % 2 # 1
      BY <1>0
    <3> QED BY <1>0, <1>3, <3>1
  <2> QED BY <1>1, <1>2, <1>3, <2>1 DEF HalfDone, p
<1>4. CASE Len(q) % 2 # 1
  <2>1. Len(p) % 2 = 1 /\ 1 \in 1..(Len(q) - 1) /\ (Len(q) - 1) % 2 = 1 /\ Len(p) > 0
    <3>1. n % 2 # 1 => k % 2 = 1 /\ n - 1 = k /\ k > 0
      BY <1>0
    <3> QED BY <1>0, <1>4, <3>1
  <2>2. q[2].cell[2] = q[1].cell[2] /\ q[2].delta = -q[1].delta
    BY <2>1 DEF PairsLeft
  <2>3. Head(p) = q[2] /\ q[1].delta \in Int /\ q[2].delta \in Int
    BY <1>1, <2>1
  <2>4. HalfDone(p, v) = IF q[1].cell[2] = v THEN q[1].delta ELSE 0
    BY <2>1, <2>2, <2>3 DEF HalfDone
  <2>5. HalfDone(q, v) = 0
    BY <1>4 DEF HalfDone
  <2> QED BY <1>1, <1>2, <2>3, <2>4, <2>5 DEF p
<1> QED BY <1>3, <1>4

-----------------------------------------------------------------------------
\* The opening stock comes from nothing and belongs to no transaction.
LEMMA SumInit == Init => SumInv
<1> SUFFICES ASSUME Init PROVE SumInv
  OBVIOUS
<1>1. \A c \in Cells : rows[c] = <<Opening>> /\ rows[c][1] = Opening /\ DOMAIN rows[c] = {1}
  BY DEF Init
<1>2. FromNothing
  BY <1>1 DEF FromNothing, Opening
<1>3. ASSUME NEW t \in Txs, NEW v \in Variants PROVE At(rows, t, v) = {}
  <2>1. t # None
    BY LedgerAssumption
  <2> QED BY <1>1, <2>1, InAt DEF Opening
<1>4. \A t \in Txs : pc[t] = "new"
  BY DEF Init
<1> QED BY <1>2, <1>3, <1>4, FS_EmptySet DEF SumInv, TransferInv

\* A step that leaves the rows alone keeps every movement where it is.
LEMMA RowsKept ==
  ASSUME SumInv, rows' = rows, NEW t \in Txs,
         \A u \in Txs \ {t} : pc'[u] = pc[u] /\ todo'[u] = todo[u] /\ kind'[u] = kind[u],
         pc'[t] # "new",
         pc'[t] = "committed" => todo'[t] = <<>>,
         kind'[t] = "transfer" /\ pc'[t] # "aborted" =>
           /\ PairsLeft(todo'[t])
           /\ \A v \in Variants : MovedIn(rows, t, v) = HalfDone(todo'[t], v)
  PROVE  SumInv'
<1>1. FromNothing'
  BY DEF SumInv, FromNothing
<1>2. ASSUME NEW u \in Txs
      PROVE  /\ \A v \in Variants : IsFiniteSet(At(rows', u, v))
             /\ pc'[u] = "new" => \A v \in Variants : At(rows', u, v) = {}
             /\ pc'[u] = "committed" => todo'[u] = <<>>
             /\ kind'[u] = "transfer" /\ pc'[u] \notin {"new", "aborted"} =>
                  /\ PairsLeft(todo'[u])
                  /\ \A v \in Variants : MovedIn(rows', u, v) = HalfDone(todo'[u], v)
  BY DEF SumInv, TransferInv
<1> QED BY <1>1, <1>2 DEF SumInv, TransferInv

\* A request begins with nothing moved, a transfer with pairs.
LEMMA RequestSum ==
  ASSUME Inv, SumInv, NEW t \in Txs,
         CreateSale(t) \/ Restock(t) \/ AdjustStock(t) \/ TransferStock(t)
  PROVE  SumInv'
<1>1. PICK k, ls, q : Begin(t, k, ls, q) /\ (k = "transfer" => \E from, to \in Locations :
                         ls \in LineLists /\ q = TransferMovements(t, from, to, ls))
  <2>1. CASE CreateSale(t)
    <3>1. \E ls, q : Begin(t, "sale", ls, q)
      BY <2>1 DEF CreateSale
    <3> QED BY <3>1
  <2>2. CASE Restock(t)
    <3>1. \E ls, q : Begin(t, "refund", ls, q)
      BY <2>2 DEF Restock
    <3> QED BY <3>1
  <2>3. CASE AdjustStock(t)
    <3>1. \E ls, q : Begin(t, "adjust", ls, q)
      BY <2>3 DEF AdjustStock
    <3> QED BY <3>1
  <2>4. CASE TransferStock(t)
    BY <2>4 DEF TransferStock
  <2> QED BY <2>1, <2>2, <2>3, <2>4
<1>2. /\ pc[t] = "new" /\ rows' = rows
      /\ kind' = [kind EXCEPT ![t] = k] /\ todo' = [todo EXCEPT ![t] = q]
  BY <1>1 DEF Begin, rowVars
<1>3. pc' = [pc EXCEPT ![t] = "insert"] \/ pc' = [pc EXCEPT ![t] = "lookup"]
  BY DEF CreateSale, Restock, AdjustStock, TransferStock
<1>4. pc \in [Txs -> Phases] /\ kind \in [Txs -> Kinds] /\ todo \in [Txs -> Seq(Inputs)]
  BY DEF Inv, TypeOK
<1>5. /\ \A u \in Txs \ {t} : pc'[u] = pc[u] /\ todo'[u] = todo[u] /\ kind'[u] = kind[u]
      /\ pc'[t] \in {"insert", "lookup"} /\ kind'[t] = k /\ todo'[t] = q
  BY <1>2, <1>3, <1>4
<1>6. ASSUME k = "transfer"
      PROVE  /\ PairsLeft(q)
             /\ \A v \in Variants : MovedIn(rows, t, v) = HalfDone(q, v)
  <2>1. PICK from \in Locations, to \in Locations :
          ls \in LineLists /\ q = TransferMovements(t, from, to, ls)
    BY <1>1, <1>6
  <2>2. ls \in Seq(Lines)
    BY <2>1, LedgerAssumption, SeqDef DEF LineLists
  <2>3. \A v \in Variants : MovedIn(rows, t, v) = 0
    BY <1>2, NothingMoved DEF SumInv, TransferInv
  <2> QED BY <2>1, <2>2, <2>3, PairsAtFirst
<1> QED BY <1>2, <1>5, <1>6, RowsKept

\* A step inside a request that writes no movement leaves pairs as they are: a
\* transfer's movements have no key to be found by.
LEMMA WaitSum ==
  ASSUME Inv, SumInv, NEW t \in Txs,
         InsertSale(t) \/ Lookup(t) \/ Upsert(t) \/ Commit(t)
  PROVE  SumInv'
<1>1. rows' = rows /\ kind' = kind
  BY DEF InsertSale, Lookup, Upsert, Commit, rowVars, reqVars
<1>2. pc \in [Txs -> Phases] /\ kind \in [Txs -> Kinds] /\ todo \in [Txs -> Seq(Inputs)]
  BY DEF Inv, TypeOK
<1>3. /\ \A u \in Txs \ {t} : pc'[u] = pc[u] /\ todo'[u] = todo[u] /\ kind'[u] = kind[u]
      /\ pc[t] \notin {"new", "aborted"} /\ pc'[t] # "new"
      /\ pc'[t] = "committed" => todo'[t] = <<>>
  BY <1>1, <1>2 DEF InsertSale, Lookup, Upsert, Commit
<1>4. ASSUME kind'[t] = "transfer"
      PROVE  PairsLeft(todo'[t]) /\ \A v \in Variants : MovedIn(rows, t, v) = HalfDone(todo'[t], v)
  <2>1. PairsLeft(todo[t]) /\ \A v \in Variants : MovedIn(rows, t, v) = HalfDone(todo[t], v)
    BY <1>1, <1>3, <1>4 DEF SumInv, TransferInv
  <2>2. todo'[t] = todo[t]
    <3>1. CASE Lookup(t)
      <4>1. todo[t] # <<>> /\ todo[t] \in Seq(Inputs)
        BY <1>2, <3>1 DEF Lookup
      <4>2. Head(todo[t]) = todo[t][1] /\ 1 \in 1..Len(todo[t])
        BY <4>1
      <4>3. Head(todo[t]).key = None
        BY <2>1, <4>2 DEF PairsLeft
      <4> QED BY <3>1, <4>3 DEF Lookup
    <3>2. CASE InsertSale(t) \/ Upsert(t) \/ Commit(t)
      BY <3>2 DEF InsertSale, Upsert, Commit
    <3> QED BY <3>1, <3>2
  <2> QED BY <2>1, <2>2
<1> QED BY <1>1, <1>3, <1>4, RowsKept

\* A movement is written: the transaction has moved its delta as well.
LEMMA CreateSum ==
  ASSUME Inv, SumInv, NEW t \in Txs, CreateMovement(t)
  PROVE  SumInv'
<1> DEFINE m == Head(todo[t])
           r == [delta |-> m.delta, resulting |-> quantity[m.cell],
                 key |-> m.key, tx |-> t,
                 alerted |-> Alerts(m.delta, quantity[m.cell])]
<1>1. /\ pc[t] = "create" /\ pc' = [pc EXCEPT ![t] = "lookup"]
      /\ rows' = [rows EXCEPT ![m.cell] = Append(@, r)]
      /\ todo' = [todo EXCEPT ![t] = Tail(@)]
      /\ kind' = kind
  BY DEF CreateMovement, reqVars
<1>2. TypeOK /\ PrefixInv /\ TxInv
  BY DEF Inv
<1>3. todo[t] # <<>>
  BY <1>1, <1>2 DEF TxInv
<1>4. m.cell \in Cells /\ m.delta \in Int
  BY <1>2, <1>3, HeadType
<1>5. r.tx = t /\ r.delta = m.delta
  OBVIOUS
<1> HIDE DEF m, r
<1>6. PICK c \in Cells, d \in Int, k \in Nat : c = m.cell /\ d = m.delta /\ k = Len(rows[c])
  BY <1>2, <1>4, RowType
<1>7. /\ DOMAIN rows[c] = 1..k /\ DOMAIN rows'[c] = 1..(k + 1)
      /\ rows'[c][k + 1] = r /\ \A n \in 1..k : rows'[c][n] = rows[c][n]
      /\ k >= 1
  <2>1. rows'[c] = Append(rows[c], r)
    BY <1>1, <1>2, <1>6 DEF TypeOK
  <2>2. rows[c] \in Seq(Movements) /\ Len(rows[c]) = k /\ DOMAIN rows[c] = 1..k
    BY <1>2, <1>6, RowType
  <2>3. k >= 1
    BY <1>2, <2>2 DEF PrefixInv
  <2> QED BY <2>1, <2>2, <2>3, AppendProperties
<1>8. \A e \in Cells \ {c} : rows'[e] = rows[e]
  BY <1>1, <1>2, <1>6 DEF TypeOK
<1>9. FromNothing'
  <2> SUFFICES ASSUME NEW e \in Cells PROVE rows'[e][1] = rows[e][1]
    BY DEF SumInv, FromNothing
  <2> QED BY <1>7, <1>8
<1>10. /\ \A u \in Txs \ {t} : pc'[u] = pc[u] /\ todo'[u] = todo[u]
       /\ pc'[t] = "lookup" /\ todo'[t] = Tail(todo[t]) /\ todo[t] \in Seq(Inputs)
  BY <1>1, <1>2 DEF TypeOK
<1>11. ASSUME NEW u \in Txs \ {t}, NEW v \in Variants
       PROVE  At(rows', u, v) = At(rows, u, v) /\ MovedIn(rows', u, v) = MovedIn(rows, u, v)
  <2>1. IsFiniteSet(At(rows, u, v))
    BY DEF SumInv, TransferInv
  <2>2. ASSUME NEW e \in Cells, NEW n \in DOMAIN rows[e]
        PROVE  n \in DOMAIN rows'[e] /\ rows'[e][n] = rows[e][n]
    BY <1>7, <1>8
  <2>3. ASSUME NEW e \in Cells, NEW n \in DOMAIN rows'[e], rows'[e][n].tx = u
        PROVE  n \in DOMAIN rows[e] /\ rows'[e][n] = rows[e][n]
    BY <1>5, <1>7, <1>8, <2>3
  <2> QED BY <1>2, <2>1, <2>2, <2>3, KeepsMoved
<1>12. ASSUME NEW v \in Variants
       PROVE  /\ IsFiniteSet(At(rows', t, v))
              /\ MovedIn(rows', t, v) = MovedIn(rows, t, v) + (IF c[2] = v THEN d ELSE 0)
  <2>1. IsFiniteSet(At(rows, t, v))
    BY DEF SumInv, TransferInv
  <2>2. CASE c[2] = v
    <3> DEFINE y == <<c, k + 1>>
    <3>1. y \notin At(rows, t, v)
      BY <1>7, InAt
    <3>2. At(rows', t, v) = At(rows, t, v) \union {y}
      <4>1. ASSUME NEW x, \E e \in Cells : \E n \in DOMAIN rows[e] :
                            e[2] = v /\ rows[e][n].tx = t /\ x = <<e, n>>
            PROVE  \E e \in Cells : \E n \in DOMAIN rows'[e] :
                     e[2] = v /\ rows'[e][n].tx = t /\ x = <<e, n>>
        BY <1>7, <1>8, <4>1
      <4>2. ASSUME NEW x, x # y, \E e \in Cells : \E n \in DOMAIN rows'[e] :
                            e[2] = v /\ rows'[e][n].tx = t /\ x = <<e, n>>
            PROVE  \E e \in Cells : \E n \in DOMAIN rows[e] :
                     e[2] = v /\ rows[e][n].tx = t /\ x = <<e, n>>
        BY <1>7, <1>8, <4>2
      <4>3. y \in At(rows', t, v)
        <5>1. k + 1 \in DOMAIN rows'[c] /\ rows'[c][k + 1].tx = t
          BY <1>5, <1>7
        <5> QED BY <2>2, <5>1, InAt
      <4>4. \A x : x \in At(rows, t, v) => x \in At(rows', t, v)
        BY <4>1, InAt
      <4>5. \A x : x \in At(rows', t, v) => x = y \/ x \in At(rows, t, v)
        BY <4>2, InAt
      <4> HIDE DEF y
      <4> QED BY <4>3, <4>4, <4>5
    <3>3. DeltasAt(rows', t, v)[y] = d
      BY <1>5, <1>6, <1>7, <3>2 DEF DeltasAt
    <3>4. ASSUME NEW x \in At(rows, t, v)
          PROVE  /\ DeltasAt(rows, t, v)[x] \in Int
                 /\ DeltasAt(rows', t, v)[x] = DeltasAt(rows, t, v)[x]
      <4>1. PICK e \in Cells : \E n \in DOMAIN rows[e] : rows[e][n].tx = t /\ x = <<e, n>>
        BY InAt
      <4>2. PICK n \in DOMAIN rows[e] : rows[e][n].tx = t /\ x = <<e, n>>
        BY <4>1
      <4>3. rows'[e][n] = rows[e][n]
        BY <1>7, <1>8
      <4>4. /\ DeltasAt(rows', t, v)[x] = rows'[e][n].delta
            /\ DeltasAt(rows, t, v)[x] = rows[e][n].delta
        BY <3>2, <4>2 DEF DeltasAt
      <4> QED BY <1>2, <4>3, <4>4, DeltaType
    <3> HIDE DEF y
    <3> QED BY <2>1, <2>2, <3>1, <3>2, <3>3, <3>4, MovedOnce
  <2>3. CASE c[2] # v
    <3>1. \A x : x \in At(rows', t, v) <=> x \in At(rows, t, v)
      BY <1>7, <1>8, <2>3, InAt
    <3>2. At(rows', t, v) = At(rows, t, v)
      BY <3>1
    <3>3. ASSUME NEW x \in At(rows, t, v)
          PROVE  /\ DeltasAt(rows, t, v)[x] \in Int
                 /\ DeltasAt(rows', t, v)[x] = DeltasAt(rows, t, v)[x]
      <4>1. PICK e \in Cells : \E n \in DOMAIN rows[e] : e[2] = v /\ x = <<e, n>>
        BY InAt
      <4>2. PICK n \in DOMAIN rows[e] : x = <<e, n>>
        BY <4>1
      <4>3. rows'[e] = rows[e]
        BY <1>8, <2>3, <4>1
      <4> QED BY <1>2, <3>2, <4>2, <4>3, DeltaType DEF DeltasAt
    <3>4. MovedIn(rows', t, v) = MovedIn(rows, t, v)
      BY <2>1, <3>2, <3>3, MovedSame
    <3>5. MovedIn(rows, t, v) \in Int
      <4>1. MovedIn(rows, t, v) = Sigma(DeltasAt(rows, t, v), At(rows, t, v))
        BY <2>1, <3>3, MovedIsSigma
      <4> QED BY <2>1, <3>3, <4>1, SigmaRules
    <3> QED BY <2>1, <2>3, <3>2, <3>4, <3>5
  <2> QED BY <2>2, <2>3
<1>13. ASSUME kind[t] = "transfer"
       PROVE  /\ PairsLeft(Tail(todo[t]))
              /\ \A v \in Variants : MovedIn(rows', t, v) = HalfDone(Tail(todo[t]), v)
  <2>1. PairsLeft(todo[t]) /\ \A v \in Variants : MovedIn(rows, t, v) = HalfDone(todo[t], v)
    BY <1>1, <1>13 DEF SumInv, TransferInv
  <2>2. PairsLeft(Tail(todo[t]))
    BY <1>3, <1>10, <2>1, PairsGoOn
  <2>3. ASSUME NEW v \in Variants
        PROVE  HalfDone(Tail(todo[t]), v) = HalfDone(todo[t], v) + (IF c[2] = v THEN d ELSE 0)
    BY <1>3, <1>6, <1>10, <2>1, PairsGoOn DEF m
  <2> QED BY <1>12, <2>1, <2>2, <2>3
<1>14. ASSUME NEW u \in Txs
       PROVE  /\ \A v \in Variants : IsFiniteSet(At(rows', u, v))
              /\ pc'[u] = "new" => \A v \in Variants : At(rows', u, v) = {}
              /\ pc'[u] = "committed" => todo'[u] = <<>>
              /\ kind'[u] = "transfer" /\ pc'[u] \notin {"new", "aborted"} =>
                   /\ PairsLeft(todo'[u])
                   /\ \A v \in Variants : MovedIn(rows', u, v) = HalfDone(todo'[u], v)
  <2>1. CASE u = t
    BY <1>1, <1>10, <1>12, <1>13, <2>1
  <2>2. CASE u # t
    BY <1>1, <1>10, <1>11, <2>2 DEF SumInv, TransferInv
  <2> QED BY <2>1, <2>2
<1> QED BY <1>9, <1>14 DEF SumInv, TransferInv

\* An abort takes the movements of its transaction back and no others.
LEMMA AbortSum ==
  ASSUME Inv, SumInv, NEW t \in Txs, Abort(t)
  PROVE  SumInv'
<1>1. TypeOK /\ PrefixInv /\ OwnerInv
  BY DEF Inv
<1>2. /\ kind' = kind /\ pc'[t] = "aborted"
      /\ \A u \in Txs \ {t} : pc'[u] = pc[u] /\ todo'[u] = todo[u]
  BY <1>1 DEF Abort, TypeOK, reqVars
<1>3. ASSUME NEW c \in Cells
      PROVE  \E k \in 1..Len(rows[c]) :
               /\ DOMAIN rows[c] = 1..Len(rows[c]) /\ Len(rows[c]) \in Nat
               /\ DOMAIN rows'[c] = 1..k
               /\ \A n \in 1..k : rows'[c][n] = rows[c][n]
               /\ \A n \in 1..Len(rows[c]) : n > k => rows[c][n].tx = t
  <2>1. /\ rows[c] \in Seq(Movements) /\ Len(rows[c]) \in Nat /\ DOMAIN rows[c] = 1..Len(rows[c])
        /\ durable[c] \in 1..Len(rows[c])
    BY <1>1, RowType DEF PrefixInv
  <2>2. CASE lock[c] = t
    <3>1. rows'[c] = SubSeq(rows[c], 1, durable[c])
      BY <2>2 DEF Abort
    <3>2. DOMAIN rows'[c] = 1..durable[c] /\ \A n \in 1..durable[c] : rows'[c][n] = rows[c][n]
      BY <2>1, <3>1
    <3>3. \A n \in 1..Len(rows[c]) : n > durable[c] => rows[c][n].tx = t
      BY <1>1, <2>2 DEF OwnerInv
    <3> QED BY <2>1, <3>2, <3>3
  <2>3. CASE lock[c] # t
    <3>1. rows'[c] = rows[c]
      BY <2>3 DEF Abort
    <3>2. Len(rows[c]) \in 1..Len(rows[c])
      BY <2>1
    <3> QED BY <2>1, <3>1, <3>2
  <2> QED BY <2>2, <2>3
<1>4. FromNothing'
  <2> SUFFICES ASSUME NEW c \in Cells PROVE rows'[c][1] = rows[c][1]
    BY DEF SumInv, FromNothing
  <2> QED BY <1>3
<1>5. ASSUME NEW u \in Txs \ {t}, NEW v \in Variants
      PROVE  At(rows', u, v) = At(rows, u, v) /\ MovedIn(rows', u, v) = MovedIn(rows, u, v)
  <2>1. IsFiniteSet(At(rows, u, v))
    BY DEF SumInv, TransferInv
  <2>2. ASSUME NEW c \in Cells, NEW n \in DOMAIN rows[c], rows[c][n].tx = u
        PROVE  n \in DOMAIN rows'[c] /\ rows'[c][n] = rows[c][n]
    BY <1>3, <2>2
  <2>3. ASSUME NEW c \in Cells, NEW n \in DOMAIN rows'[c]
        PROVE  n \in DOMAIN rows[c] /\ rows'[c][n] = rows[c][n]
    BY <1>3
  <2> QED BY <1>1, <2>1, <2>2, <2>3, KeepsMoved
<1>6. ASSUME NEW v \in Variants PROVE IsFiniteSet(At(rows', t, v))
  <2>1. IsFiniteSet(At(rows, t, v))
    BY DEF SumInv, TransferInv
  <2>2. ASSUME NEW c \in Cells, NEW n \in DOMAIN rows'[c]
        PROVE  n \in DOMAIN rows[c] /\ rows'[c][n] = rows[c][n]
    BY <1>3
  <2>3. \A x : x \in At(rows', t, v) => x \in At(rows, t, v)
    BY <2>2, InAt
  <2>4. At(rows', t, v) \in SUBSET At(rows, t, v)
    BY <2>3
  <2> QED BY <2>1, <2>4, FS_Subset
<1>7. ASSUME NEW u \in Txs
      PROVE  /\ \A v \in Variants : IsFiniteSet(At(rows', u, v))
             /\ pc'[u] = "new" => \A v \in Variants : At(rows', u, v) = {}
             /\ pc'[u] = "committed" => todo'[u] = <<>>
             /\ kind'[u] = "transfer" /\ pc'[u] \notin {"new", "aborted"} =>
                  /\ PairsLeft(todo'[u])
                  /\ \A v \in Variants : MovedIn(rows', u, v) = HalfDone(todo'[u], v)
  <2>1. CASE u = t
    BY <1>2, <1>6, <2>1
  <2>2. CASE u # t
    BY <1>2, <1>5, <2>2 DEF SumInv, TransferInv
  <2> QED BY <2>1, <2>2
<1> QED BY <1>4, <1>7 DEF SumInv, TransferInv

\* Every step keeps the sums.
LEMMA NextSum == Inv /\ SumInv /\ [Next]_vars => SumInv'
<1> SUFFICES ASSUME Inv, SumInv, [Next]_vars PROVE SumInv'
  OBVIOUS
<1>1. CASE Next
  <2>1. PICK t \in Txs :
          \/ CreateSale(t) \/ InsertSale(t) \/ Restock(t) \/ AdjustStock(t)
          \/ TransferStock(t) \/ Lookup(t) \/ Upsert(t) \/ CreateMovement(t)
          \/ Commit(t) \/ Abort(t)
    BY <1>1 DEF Next
  <2> QED BY <2>1, RequestSum, WaitSum, CreateSum, AbortSum
<1>2. CASE UNCHANGED vars
  <2>1. rows' = rows /\ pc' = pc /\ todo' = todo /\ kind' = kind
    BY <1>2 DEF vars
  <2> QED BY <2>1 DEF SumInv, FromNothing, TransferInv
<1> QED BY <1>1, <1>2

\* The stock adds up: the balance of every cell is what replayBalance makes of its
\* committed movements, and a committed transfer moves as much in as out of every
\* variant, for any number of lines, transactions and aborts.
THEOREM StockAlwaysAddsUp == Spec => []StockAddsUp
<1>1. Inv /\ SumInv => StockAddsUp
  <2> SUFFICES ASSUME Inv, SumInv PROVE StockAddsUp
    OBVIOUS
  <2>1. BalanceIsReplay
    BY ReplayIsLast DEF Inv, SumInv, BalanceIsReplay
  <2>2. ASSUME NEW t \in Txs, kind[t] = "transfer", pc[t] = "committed", NEW v \in Variants
        PROVE  Moved(t, v) = 0
    <3>1. MovedIn(rows, t, v) = HalfDone(todo[t], v) /\ todo[t] = <<>>
      BY <2>2 DEF SumInv, TransferInv
    <3>2. HalfDone(<<>>, v) = 0
      BY DEF HalfDone
    <3>3. Moved(t, v) = MovedIn(rows, t, v)
      BY DEF Moved, MovedIn, At
    <3> QED BY <3>1, <3>2, <3>3
  <2> QED BY <2>1, <2>2 DEF StockAddsUp, TransferConserves
<1> QED BY <1>1, InitInv, NextInv, SumInit, NextSum, PTL DEF Spec
=============================================================================
