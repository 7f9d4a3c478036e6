------------------------------ MODULE Checkout ------------------------------
(***************************************************************************)
(* The point of sale of the mobile app: the cart, handleCharge, the cached *)
(* stock with its optimistic decrements, and the catalogue download.       *)
(*                                                                         *)
(* The app runs on one thread: an action is what happens between two       *)
(* awaits.  All statements share one connection, and withTransactionAsync  *)
(* is not exclusive: what is written while the download's transaction is   *)
(* open is part of it, and what is read is not committed yet.              *)
(* OfflineSync models how a queued sale gets to the server.                *)
(***************************************************************************)
EXTENDS Integers, Sequences, FiniteSetsExt

CONSTANTS
  Goods,      \* variants
  Opening,    \* units of each in stock when the catalogue was first downloaded
  Pages,      \* the variants that the first 100 products may have
  Taps,       \* slots for handleCharge calls under way
  MaxUnits,   \* bound: units in a cart
  MaxCarts,   \* bound: carts begun
  MaxSales,   \* bound: sales queued
  MaxEvents   \* bound: downloads, failures, remounts, kills, changes of the stock
              \* from elsewhere, and taps while a charge is under way

ASSUME CheckoutAssumption ==
  /\ MaxUnits \in Nat /\ MaxCarts \in Nat /\ MaxSales \in Nat /\ MaxEvents \in Nat
  /\ Opening \in Nat /\ Pages \subseteq SUBSET Goods

VARIABLES
  cart,       \* the cart of the mounted PosScreen: units per variant
  cartNo,     \* history: which cart it is, counted from 1
  onScreen,   \* variants, as the screen last loaded them
  cached,     \* cached_variants, as the shared connection sees it
  tap,        \* the calls of handleCharge
  sold,       \* mutation_queue: sales, each with the cart it was rung up from
  stocked,    \* external: the stock at the server
  download,   \* syncCatalogDown: step, answer, and what its transaction holds
  events,     \* history: how many of these there were
  closed,     \* history: the carts that were emptied after a charge
  pressed,    \* history: carts charged while a charge was under way
  touched,    \* history: carts added to while a charge was under way
  broken      \* history: carts whose charge broke off with the sale queued

checkoutVars == <<cart, cartNo, onScreen, cached, tap, sold, stocked, download,
                  events, closed, pressed, touched, broken>>
cartVars == <<cart, cartNo, closed, pressed, touched, broken>>

EmptyCart == [v \in Goods |-> 0]
TapIdle == [step |-> "idle", lines |-> EmptyCart, no |-> 0, sale |-> 0, todo |-> {},
            mounted |-> TRUE]

\* A table: its rows with availableQuantity; and, as history, the stock that
\* the server answered, the sales in that answer, the sales taken off since,
\* and those the table may be wrong about.
EmptyTable == [rows |-> {}, left |-> EmptyCart, gross |-> EmptyCart, counted |-> {},
               off |-> [v \in Goods |-> {}], strays |-> {}]
OpeningStock == [v \in Goods |-> Opening]
OpeningTable ==
  [EmptyTable EXCEPT !.rows = Goods, !.left = OpeningStock, !.gross = OpeningStock]
Astray(table, sales) == [table EXCEPT !.strays = @ \union sales]

\* saved is what a rollback brings back; queued and charged are the sales that
\* were queued, and taken off or given up, since BEGIN.
NoDownload == [step |-> "idle", page |-> {}, got |-> EmptyCart, counted |-> {},
               saved |-> EmptyTable, queued |-> {}, charged |-> {}]

\* A catalogue was downloaded and the screen mounted since.
CheckoutInit ==
  /\ cart = EmptyCart /\ cartNo = 1
  /\ onScreen = OpeningTable /\ cached = OpeningTable /\ stocked = OpeningStock
  /\ tap = [t \in Taps |-> TapIdle]
  /\ sold = <<>> /\ download = NoDownload /\ events = 0
  /\ closed = [n \in 1..MaxCarts |-> EmptyCart]
  /\ pressed = {} /\ touched = {} /\ broken = {}

Sales == DOMAIN sold
UnderWay == {t \in Taps : tap[t].step # "idle"}
Charging == {t \in UnderWay : tap[t].mounted /\ tap[t].step # "reload"}
Event == events < MaxEvents /\ events' = events + 1
InTransaction == download.step \in {"begun", "filling", "customers"}
-----------------------------------------------------------------------------
(* PosScreen *)

\* A product can be tapped while the screen shows it in stock, however many are
\* in the cart.
AddToCart(v) ==
  /\ v \in onScreen.rows /\ onScreen.left[v] > 0
  /\ MapThenSumSet(LAMBDA w : cart[w], Goods) < MaxUnits /\ cartNo <= MaxCarts
  /\ cart' = [cart EXCEPT ![v] = @ + 1]
  /\ IF Charging # {} THEN Event /\ touched' = touched \union {cartNo}
                      ELSE UNCHANGED <<events, touched>>
  /\ UNCHANGED <<cartNo, onScreen, cached, tap, sold, stocked, download, closed,
                 pressed, broken>>

\* handleCharge up to its first await.  Nothing keeps a second tap away.
Charge(t) ==
  /\ tap[t].step = "idle" /\ cart # EmptyCart
  /\ Len(sold) + Cardinality(UnderWay) < MaxSales
  /\ tap' = [tap EXCEPT ![t] = [TapIdle EXCEPT !.step = "enqueue", !.lines = cart,
                                               !.no = cartNo]]
  /\ IF Charging # {} THEN Event /\ pressed' = pressed \union {cartNo}
                      ELSE UNCHANGED <<events, pressed>>
  /\ UNCHANGED <<cart, cartNo, onScreen, cached, sold, stocked, download, closed,
                 touched, broken>>

\* mutationQueue.enqueue, under a fresh clientMutationId; inside the download's
\* transaction if there is one.
QueueSale(t) ==
  /\ tap[t].step = "enqueue"
  /\ sold' = Append(sold, [no |-> tap[t].no, lines |-> tap[t].lines, state |-> "queued",
                           inside |-> InTransaction])
  /\ tap' = [tap EXCEPT ![t].step = "decrement", ![t].sale = Len(sold) + 1,
                        ![t].todo = {v \in Goods : tap[t].lines[v] > 0}]
  /\ download' = IF InTransaction
                   THEN [download EXCEPT !.queued = @ \union {Len(sold) + 1}] ELSE download
  /\ UNCHANGED <<cartVars, onScreen, cached, stocked, events>>

\* Mutant: one unit per line.
TakenOffOne(t, v) == 1

\* availableQuantity - ?
TakenOff(t, v) == tap[t].lines[v]

\* The download's transaction, if there is one, holds what this call did.
Charged(t) ==
  IF InTransaction THEN [download EXCEPT !.charged = @ \union {tap[t].sale}] ELSE download

\* decrementCachedStock, line by line; there may be no such row, or one that a
\* rollback will bring back as it was.
DecrementCached(t) ==
  /\ tap[t].step = "decrement"
  /\ \E v \in tap[t].todo :
       /\ cached' = IF v \in cached.rows
                      THEN [cached EXCEPT !.left[v] = @ - TakenOff(t, v),
                                          !.off[v] = @ \union {tap[t].sale}]
                      ELSE cached
       /\ tap' = [tap EXCEPT ![t].todo = @ \ {v}]
  /\ onScreen' = IF tap[t].mounted THEN onScreen ELSE Astray(onScreen, {tap[t].sale})
  /\ download' = Charged(t)
  /\ UNCHANGED <<cartVars, sold, stocked, events>>

\* Mutant: the cart is left as it is.
CartAfterKept(t) == cart

\* setCart([]), of the screen the tap came from.
CartAfter(t) == IF tap[t].mounted THEN EmptyCart ELSE cart

\* The cart is emptied and the screen will be reloaded.
EmptyAfter(t) ==
  /\ tap[t].step = "decrement" /\ tap[t].todo = {}
  /\ cart' = CartAfter(t)
  /\ IF tap[t].mounted /\ cart # EmptyCart
       THEN /\ closed' = [closed EXCEPT ![cartNo] = cart]
            /\ cartNo' = IF CartAfter(t) = EmptyCart THEN cartNo + 1 ELSE cartNo
       ELSE UNCHANGED <<closed, cartNo>>
  /\ tap' = [tap EXCEPT ![t].step = "reload"]
  /\ UNCHANGED <<onScreen, cached, sold, stocked, download, events, pressed, touched,
                 broken>>

\* reload: what the table holds is shown, even half replaced.
Reload(t) ==
  /\ tap[t].step = "reload"
  /\ onScreen' = IF tap[t].mounted THEN cached ELSE onScreen
  /\ tap' = [tap EXCEPT ![t] = TapIdle]
  /\ UNCHANGED <<cartVars, cached, sold, stocked, download, events>>

\* The database throws: nothing was queued; or the sale is, with stock not taken
\* off and the cart still there; or only the reload is missing.
ChargeThrows(t) ==
  /\ Event /\ tap[t].step # "idle" /\ (tap[t].step = "decrement" => tap[t].todo # {})
  /\ tap' = [tap EXCEPT ![t] = TapIdle]
  /\ cached' = IF tap[t].step = "decrement" THEN Astray(cached, {tap[t].sale}) ELSE cached
  /\ onScreen' = IF tap[t].step # "enqueue" THEN Astray(onScreen, {tap[t].sale})
                                            ELSE onScreen
  /\ download' = IF tap[t].step = "decrement" THEN Charged(t) ELSE download
  /\ broken' = IF tap[t].step = "decrement" THEN broken \union {tap[t].no} ELSE broken
  /\ UNCHANGED <<cart, cartNo, sold, stocked, closed, pressed, touched>>

\* The cart goes with its screen.
DropCart ==
  /\ cart' = EmptyCart
  /\ cartNo' = IF cart = EmptyCart THEN cartNo ELSE cartNo + 1
  /\ UNCHANGED <<closed, pressed, touched, broken>>

\* PosScreen is left for the queue and mounted again, with an empty cart; a call
\* under way goes on, for the screen that is gone.
Remount ==
  /\ Event /\ DropCart
  /\ onScreen' = cached
  /\ tap' = [t \in Taps |-> IF t \in UnderWay THEN [tap[t] EXCEPT !.mounted = FALSE]
                                              ELSE tap[t]]
  /\ UNCHANGED <<cached, sold, stocked, download>>
-----------------------------------------------------------------------------
(* The catalogue download (one at a time: catalogSyncing) *)

TillUnchanged == UNCHANGED <<cartVars, onScreen, tap, sold, stocked>>

\* The requests are answered: with the stock at the server, whether or not sales
\* are still queued, of the first products only.
FetchCatalog ==
  /\ download.step = "idle" /\ Event
  /\ \E page \in Pages :
       download' = [NoDownload EXCEPT !.step = "answered", !.page = page, !.got = stocked,
                                      !.counted = {n \in Sales : sold[n].state = "applied"}]
  /\ UNCHANGED cached /\ TillUnchanged

\* A request fails, or a BEGIN.
FetchFails ==
  /\ download.step \in {"answered", "between"}
  /\ download' = NoDownload
  /\ UNCHANGED <<cached, events>> /\ TillUnchanged

\* BEGIN, of replaceCachedVariants and then of replaceCachedCustomers.
Begin ==
  /\ download.step \in {"answered", "between"}
  /\ download' = [download EXCEPT
       !.step = IF download.step = "answered" THEN "begun" ELSE "customers",
       !.saved = cached]
  /\ UNCHANGED <<cached, events>> /\ TillUnchanged

\* DELETE FROM cached_variants
DeleteCached ==
  /\ download.step = "begun"
  /\ download' = [download EXCEPT !.step = "filling"]
  /\ cached' = [EmptyTable EXCEPT !.counted = download.counted]
  /\ UNCHANGED events /\ TillUnchanged

\* Sales of v that are rung up, and are not in the answer, or are still to be
\* taken off the row that they are in.
Crossing(v) ==
  {n \in Sales : /\ sold[n].lines[v] > 0
                 /\ \/ n \notin download.counted
                    \/ \E t \in Taps : tap[t].sale = n /\ v \in tap[t].todo}

\* INSERT, of one variant.
InsertCached(v) ==
  /\ download.step = "filling" /\ v \in download.page \ cached.rows
  /\ cached' = [Astray(cached, Crossing(v)) EXCEPT
                  !.rows = @ \union {v}, !.left[v] = download.got[v],
                  !.gross[v] = download.got[v]]
  /\ UNCHANGED <<download, events>> /\ TillUnchanged

\* COMMIT, of either transaction.
Commit ==
  /\ \/ download.step = "filling" /\ download.page \subseteq cached.rows
     \/ download.step = "customers"
  /\ download' = IF download.step = "filling"
                   THEN [NoDownload EXCEPT !.step = "between"] ELSE NoDownload
  /\ UNCHANGED <<cached, events>> /\ TillUnchanged

\* ROLLBACK: the table is as it was at BEGIN, and sales queued since are gone,
\* but for one whose request is on the way.
Undo(table) ==
  /\ cached' = Astray(IF InTransaction THEN download.saved ELSE cached,
                      download.queued \union download.charged \union table)
  /\ \E gone \in SUBSET {n \in download.queued : sold[n].state = "queued"} :
       sold' = [n \in Sales |-> IF n \in gone THEN [sold[n] EXCEPT !.state = "lost"]
                                              ELSE sold[n]]
  /\ download' = NoDownload

\* A statement of the transaction fails.
RollBack ==
  /\ Event /\ InTransaction
  /\ Undo({})
  /\ onScreen' = Astray(onScreen, download.queued)
  /\ UNCHANGED <<cartVars, tap, stocked>>

\* The app is killed and opened again: what is committed is what is left.
KillApp ==
  /\ Event /\ DropCart
  /\ Undo({tap[t].sale : t \in {u \in Taps : tap[u].todo # {}}})
  /\ onScreen' = cached'
  /\ tap' = [t \in Taps |-> TapIdle]
  /\ UNCHANGED stocked
-----------------------------------------------------------------------------
(* The server *)

\* A queued sale reaches the server and is applied (OfflineSync, InventoryLedger).
ApplySale(n) ==
  /\ sold[n].state = "queued"
  /\ sold' = [sold EXCEPT ![n].state = "applied"]
  /\ stocked' = [v \in Goods |-> stocked[v] - sold[n].lines[v]]
  /\ UNCHANGED <<cartVars, onScreen, cached, tap, download, events>>

\* Other tills, the web, adjustments, transfers, refunds and receipts.
SoldElsewhere(v) ==
  /\ Event
  /\ \E d \in {-1, 1} : stocked' = [stocked EXCEPT ![v] = @ + d]
  /\ UNCHANGED <<cartVars, onScreen, cached, tap, sold, download>>

CheckoutNext ==
  \/ \E v \in Goods : AddToCart(v)
  \/ \E t \in Taps : \/ Charge(t) \/ QueueSale(t) \/ DecrementCached(t)
                     \/ EmptyAfter(t) \/ Reload(t) \/ ChargeThrows(t)
  \/ Remount \/ KillApp
  \/ FetchCatalog \/ FetchFails \/ Begin \/ DeleteCached
  \/ \E v \in Goods : InsertCached(v)
  \/ Commit \/ RollBack
  \/ \E n \in Sales : ApplySale(n)
  \/ \E v \in Goods : SoldElsewhere(v)

CheckoutSpec == CheckoutInit /\ [][CheckoutNext]_checkoutVars
-----------------------------------------------------------------------------
(* Properties *)

\* Sales of v that a table should have taken off: those of this device that
\* were not in the server's answer, and are not lost.
Due(table, v) ==
  {n \in Sales \ table.counted : sold[n].lines[v] > 0 /\ sold[n].state # "lost"}

\* Between charges every row on screen is the stock that the server answered to
\* a download, less sales of this device, each at most once and in full.  These
\* are the sales that were not in that answer, online or offline, before and
\* after they reach the server, but for strays: sales rung up before the row
\* was replaced by an answer that did not have them, or not taken off until
\* after; sales whose charge broke off or outlived its screen; and sales that
\* a download's rollback undid.
ScreenTracksServer ==
  UnderWay = {} =>
    \A v \in onScreen.rows :
      /\ onScreen.left[v] =
           onScreen.gross[v] - MapThenSumSet(LAMBDA n : sold[n].lines[v], onScreen.off[v])
      /\ \A n \in Sales \ onScreen.strays : n \in onScreen.off[v] <=> n \in Due(onScreen, v)

\* A cart that was emptied is a sale with everything that was in it, queued or
\* at the server, and one sale only.  The sale is lost only if it was queued
\* inside a download's transaction; it lacks only what was added while the
\* charge was under way; and there are two only after a second tap during the
\* charge, or one after a charge that broke off.
OneSalePerCart ==
  \A n \in 1..MaxCarts :
    LET of == {k \in Sales : sold[k].no = n}
    IN  /\ n \notin pressed \union broken => Cardinality(of) <= 1
        /\ closed[n] # EmptyCart /\ n \notin touched =>
             \E k \in of : /\ sold[k].lines = closed[n]
                           /\ sold[k].state = "lost" => sold[k].inside
        /\ closed[n] # EmptyCart =>
             \A k \in of, v \in Goods : sold[k].lines[v] <= closed[n][v]

\* docs/offline-sync.md:11-13: a sale must survive an app restart and sync
\* exactly once.  A cart that was emptied is a sale that is not lost.
SaleSurvives ==
  \A n \in (1..MaxCarts) \ touched : closed[n] # EmptyCart =>
    \E k \in Sales : sold[k].no = n /\ sold[k].state # "lost"

\* mutation-queue.ts:26-30: a double-tap cannot create two queue entries.
TapQueuesOnce ==
  \A j, k \in Sales : sold[j].no = sold[k].no /\ sold[j].no \notin broken => j = k
=============================================================================
