# SalesMaster Pro: a TLA+ development

SalesMaster Pro is a multi-tenant point-of-sale system: a NestJS API over
Postgres, a worker that drains an outbox into BullMQ, an Expo app that sells
offline and syncs later, and a web client. This directory models the parts in
which several actors share state or in which a step can fail half way, checks
them with TLC on small instances and proves the central results with TLAPS.

## Inventory

| Component | State | Operations | Interacts with | What is hard | What makes it correct |
|---|---|---|---|---|---|
| Offline queue, sync engine (`packages/offline-sync`, `apps/mobile/src/sync`, `db/queue-adapter.ts`, `QueueScreen`) | SQLite `mutation_queue`; a `running` flag per sync service; a rendered screen | enqueue, listReady, markSyncing / Synced / RetryableFailure / Dead, manualRetry, runOnce, start / stop / syncNow | POST /sales; NetInfo; timers | two services overlap after a new sign-in; responses are lost; the app is killed; a read-merge-write update; a stale Retry button | a sale is recorded at most once, shown as synced only if recorded, and settles |
| Inventory ledger (`inventory.service.ts`, `domain/inventory.ts`) | InventoryMovement (append-only), InventoryBalance | recordMovement, adjustStock, transferStock, low-stock alert | createSale, refundSale; outbox | concurrent transactions on one balance row; key lookup before insert; aborts | the balance is the replay of the movements, all or nothing, one movement per key |
| Sales (`sales.service.ts`, `domain/money.ts`) | Sale, SaleLine, Payment, Refund | createSale, refundSale, voidSale | ledger, customers, outbox | replays of a clientMutationId; refunds that read before their transaction; rounding | one sale per mutation, refunds within the total, status and stock in step with them |
| Outbox and worker (`outbox.service.ts`, `apps/worker`) | OutboxEvent; BullMQ jobs | publish, pollOutboxOnce, handleNotification | every service that publishes; Redis; mail | overlapping polls; crash between add and mark; retries that start again | each committed event becomes one job and its addresses are all reached |
| Invoices, quotes (`invoices.service.ts`) | Invoice, Payment, Quote | createInvoice (3 attempts at a number), recordPayment, voidInvoice, send, revoke, createQuote, convertQuoteToInvoice | outbox, mail | number by count; paid amount computed from an earlier read; conversion in two steps | unique numbers, paid amount = payments, one invoice per quote, a settled invoice stays settled |
| Billing (`billing.service.ts`, `pricing-catalog.service.ts`, `admin.controller.ts`) | SubscriptionItem rows, price catalogue | recompute, preview, updatePricingItem | Stripe, branches, memberships | count before the row lock and the remote call; repricing meanwhile | an activation that runs alone leaves rows, Stripe and preview in agreement |
| Stripe webhooks (`billing-webhook.controller.ts`, `cancelSubscription`) | Subscription.status, BillingEvent | handleStripeWebhook, cancelSubscription | Stripe | events repeated, concurrent and out of order; cut off between provider and row | an event takes effect once; the status ends as Stripe's |
| Onboarding, invitations, branches (`onboarding.service.ts`, `branches.controller.ts`) | Tenant, Membership, Invitation, Branch | createTenant, inviteUser, acceptInvitation, create / archive branch | billing, outbox, mail | double submits; acceptance against expiry | one tenant per founder, members only by an accepted invitation |
| Accounts, OAuth (`auth.service.ts`, `oauth-handshake.service.ts`) | User, OAuthAccount, handshake cookie | register, verifyEmail, magic links, OAuth start and callback | mail, Google, Apple | several first sign-ins race for one address | one user per address, identities linked only when both sides are verified |
| Sessions (`auth.service.ts`, `token.service.ts`, `mfa.service.ts`) | Session, password hash, TOTP secret | login, MFA challenge, logout, reset, revoke, enroll / activate / disable | every request | a sign-in under way during a reset; disable during activation | a reset ends the older sessions, an enabled factor has a secret |
| Integrations (`integrations.service.ts`, connectors, `retry.ts`) | ExternalObjectMap, WebhookDelivery, SyncJob, products and variants | syncProducts, handleWebhook, pushInventory | shops over HTTP | no transactions; a failed delivery is a duplicate later; overlapping pushes | a sync or push that runs alone brings both sides in line |
| Reports (`reports.service.ts`) | none | getSalesByPeriod, dashboard, low stock | sales, ledger, expenses | boundaries of days, weeks and windows | nothing is skipped, figures agree with each other |
| Assistant (`assistant.service.ts`, `anthropic-ai.adapter.ts`, the chat page) | the conversation in the page | ask, tool loop | language model, reports | a failing tool, a pause, a lost answer | well-formed requests, bounded calls, a chat of questions with their answers |
| Web client (`apps/web`) | session, current tenant, lists, forms, busy row, open QR code | sign-in, refresh, switch tenant, load, create, row actions | API | answers out of order or lost, a tenant switch in between, double presses | the page agrees with the server and a draft becomes one record |
| Mobile sign-in (`AuthContext.tsx`) | token in the secure store, signed-in user | start-up, sign-in, sign-out | API | a kill, a late answer or a store that fails between token and user | a token is held exactly when somebody is signed in |
| Mobile till (`PosScreen.tsx`, `catalog-sync.ts`, `db/catalog-cache.ts`) | cart, cached catalogue and stock | add, charge, download | offline queue, API | double tap; download over queued sales, on the connection that queues them | one sale per cart, not lost; cached stock = the server's answer less this device's sales since |
| Catalogue, customers, expenses | single rows | create, list, update | pages, reports | little | see `TenantPage` and `Reports` |
| Notification adapters, configuration, seed | none | I/O | - | little | not modelled (see below) |

## Modules

| Module | Models | State and actions |
|---|---|---|
| `SaleOnce` | what a device and the server promise together: a rung-up sale is recorded at most once and shown as recorded only when it is | `rung`, `rows`, `acked`; Ring, Record, Show |
| `OfflineSync` | queue, sync passes, queue screen, the request at the server, app kills | one action per `await` of a pass: reading a row (`BeginItem`, `Respond`) and writing it back merged (`MarkSyncing`, `MarkSynced`, ...) are separate steps, so a concurrent writer fits in between. `call` is the request of a waiting pass (`sent`, `checked` after createSale's pre-check, then the answer); `orphans` are requests whose client is gone but which the server may still serve |
| `InventoryLedger` | the ledger and every transaction that writes it, under READ COMMITTED | a transaction has a list of movements; each is `Lookup`, `Upsert` (takes the row lock), `CreateMovement` (waits on the unique key). `rows[c]` has a durable prefix, `balance` is the committed row and `quantity` the lock holder's version. `Commit` and `Abort` end a transaction; an abort stands for a constraint, a deadlock, a timeout or a lost connection |
| `Outbox` | publish, overlapping polls, BullMQ, the notification handler | `Publish` stamps the row inside its transaction and `EndTransaction` makes it visible or drops it; a poll is findMany, then add, mark or fail per event; a job looks its addresses up, writes to each, completes or fails |
| `Invoices` | `InvoicesService`: numbering, payments, void, send, public link, quotes | a request is a slot with a step `callPc`; what it read (`read`, `amount`, `inv`) and what it writes are separate steps, a transaction is one step at its commit, and `CutOff` ends a request anywhere. Money is in quarter cents and `ToCents` rounds as `toDecimalString` does. `overlapped` and `raced` are history: the invoices and quotes on which a race took place |
| `Sales` | `SalesService`: the totals of createSale, refundSale | `StartSale` / `CommitSale`, `StartRefund` / `CommitRefund`: the reads outside the transaction and the transaction. `refundRace` and `fractional` are history: sales with overlapping refunds, and with one that rounding changed |
| `Billing`, `MCBilling` | createTenant, invitations, branches, `recompute`, the price catalogue, the admin's revenue figure | an item without a row has the snapshot `NoRow`, since a price may be 0. Every activation commits and goes on to recompute, which counts, writes its items behind the lock on the first of them, pushes to Stripe the quantities of the items that have a Stripe price (`StripePriced`; the seed gives none one) and answers; `settled` marks the moment after a request that ran alone |
| `StripeEvents` | the webhook controller and cancelSubscription | `stripeLog` is Stripe's log of events, delivered by `ReceiveEvent` any number of times and in any order, applied by `ApplyEvent`; `late` records that an older event was applied after a newer one |
| `Integrations` | syncProducts and handleWebhook of one connection | one action per statement of the upsert (find, create, map, variant, map), since nothing is a transaction; `BreakOff` ends a request between any two |
| `InventoryPush` | pushInventory | reads the maps, the balances, then one request per item; sales and syncs go on meanwhile |
| `Accounts` | User rows and their identities | lookup and insert of each of register, magic link and OAuth sign-in are separate steps; `creator` and `proven` are history |
| `Sessions` | passwords, reset, the second factor, Session rows | a password is the number of changes to it; a sign-in carries the one it has read |
| `Reports` | sales by period, dashboard, low stock | sales, expenses and stock change, the reports are operators over them: `GetSalesByPeriod`, the windows of the dashboard and the list against reference definitions |
| `Assistant` | the chat page, `ask`, the adapter's loop | the model (external) answers with text, tool uses or a pause; `heard` tells whether the page still listens |
| `WebSession` | SessionProvider, sign-in, onboarding, tenant menu | a request is sent, served, answered or lost; answers in any order. The sign-in and onboarding forms do not wait for a refresh. `fresh` (of an answer) and `moved` are history: the server has not changed since it gave the answer, and it has changed since it gave the one the page took over last |
| `TenantPage` | a list with a form: products, customers, invoices, expenses, integrations and the web till | `form` tells which page it is: products and the till have a `submitting` flag, expenses are listed by date. Loads carry the tenant of their render, and are answered with the first page (`FirstPages`) of records that others also create |
| `RowActions` | buttons on rows and the QR code below a row | one `busyId`, one open row |
| `MobileAuth` | AuthProvider | token, user, calls between awaits, each of which may reject; `OpenApp` is a kill and a restart |
| `Checkout` | PosScreen, cached stock, catalogue download | an action is what happens between two awaits. The download is its requests, BEGIN, DELETE, one INSERT per variant and COMMIT, or ROLLBACK, on the connection that the till writes to as well. A table (the cache, the screen, what a rollback brings back) carries as history the server's answer it came from (`gross`, `counted`), the sales taken off since (`off`) and those it may be wrong about (`strays`). The stock also changes elsewhere |
| `MCQueues` | `OfflineSync` and `Outbox` for TLC | see below |
| `MCBooks` | `InventoryLedger` and `Invoices` for TLC | see below |
| `MCOffice`, `MCClients` | the modules from `Sales` on, and the order of `OfflineSync`'s queue, for TLC | see below |
| `Sums` | the lemmas about sums that the proofs cite: the sum of integers over a finite set, and that a fold computes it | - |
| `OfflineSyncProofs`, `InventoryLedgerProofs`, `OutboxProofs`, `InvoicesProofs` | the proofs about the module of that name | - |
| `IdentityProofs` | the proofs about `Accounts` and `Sessions` | - |
| `OfficeProofs` | the proofs about `Sales`, `Reports`, `StripeEvents`, `InventoryPush`, `Integrations` and `Billing` | - |
| `ClientsProofs` | the proofs about `RowActions`, `MobileAuth`, `WebSession`, `Checkout`, `TenantPage` and `Assistant` | - |

Three modules look at one sale from three sides, since what each is about does
not depend on the others' data: `OfflineSync` at the request and its
clientMutationId, `InventoryLedger` at the movements of its transaction under
locks, `Sales` at money and refunds. In the same way `Checkout` ends where
`OfflineSync` begins, at the queued row.

Definitions named `...Unconstrained`, `...Always` and the like, with the
comment "Mutant", are deliberate faults: replacing the definition that follows
by one of them makes the property it is paired with in PROJECT.json fail.

## Runs

| Run | Instance | Shows |
|---|---|---|
| `queues_safety` | `OfflineSync`: 1 sale, 2 services, 1 kill, 1 tap on Retry, 3 sign-ins, 2 attempts. `Outbox`: 2 events, 2 polls, 1 crash, Redis and database failures | `QueueTellsTruth` (at most one sale, synced only if recorded) and refinement of `SaleOnce`; `HandedOverOnce` (no event marked without a job, one job each), `HandedOverInOrder` |
| `queues_settle` | `OfflineSync`: 1 sale, 2 services, fair, no kill. `Outbox`: 1 event, 2 polls, 2 addresses, 2 job attempts, 1 crash, fair | every sale ends synced or dead; completed jobs reached everybody; every event settles, unless it used up its attempts while Redis refused it |
| `sync_killed` (violated) | `OfflineSync`: 1 sale, 1 service, 1 kill, fair | an item interrupted in `syncing` is stranded; `docs/offline-sync.md` says the queue resumes where it left off |
| `books` | `InventoryLedger`: 3 transactions of any kind, 2 locations, 1 variant, 1 client key, sales and transfers of up to 2 lines. `Invoices`: 2 overlapping requests, 2 invoices (one of them paid, voided, sent), 1 quote, 2 attempts at a number; either 2 years or payments of 0.75 and 2 cents against a total of 2 | chained and replayable ledger, all or nothing, nothing recorded twice, alerts on crossings, transfers conserve; `NumberingProgresses`, `BooksAreTrue`, `OneInvoicePerQuote`, `ConversionFaithful`, `SettledStays` |
| `ledger_oversell` (violated) | 2 sales, stock 1 | both commit, against the service's comment |
| `ledger_duplicate_lines` (violated) | sales of 2 lines of one variant | the second line is not deducted |
| `office` | `Sales`, `Billing`, `StripeEvents`, `Integrations`, `InventoryPush`, `Accounts`, each with 2 overlapping requests | `RefundsFit`, `SalesAddUp`; `AloneSettles`, `MembersAreDue`; `EventsSettle`; `SyncSettles`, `TakenOverOnce`; `PushSettles`; `IdentitiesSafe`, `IdentityStays` |
| `billing_drift` (violated) | `Billing` with 3 branches | of two overlapping recomputes the one with the older counts may write last; the comment above `recompute` says callers serialize |
| `clients` | `OfflineSync` (2 sales, 1 service, 1 storage error), `Sessions`, `Reports`, `Assistant`, `WebSession`, `TenantPage`, `RowActions`, `MobileAuth`, `Checkout` | `FreshItemNotOvertaken`; `ResetEndsSessions`, `FactorUsable`; `FiguresAgree`; `TurnsPaired`, `LoopKeepsTerms`; `TabInStep`; `ListIsCurrent`, `OneRecordPerDraft`; `RowsInStep`; `TokenInStep`; `ScreenTracksServer`, `OneSalePerCart` |
| `reports_reorder_point` (violated) | `Reports`, stock only | a variant at its reorder point is yellow and no shortage; the comments in `reports.service.ts` and `tools.ts` count it as red |
| `checkout_lost_sale` (violated) | `Checkout`: 1 product, 1 cart, 2 events | a sale queued while the download's transaction is open is rolled back with it, its cart emptied; `docs/offline-sync.md` says a sale survives |
| `checkout_double_tap` (violated) | the same | a second tap queues the cart again; the comment of `enqueue` says it cannot |

`queues_safety`, `queues_settle`, `books`, `office` and `clients` check several
modules in one run. The modules share no variable, so a variable `focus`,
chosen at the start, says which of them a behaviour exercises while the others
keep their initial values: the states of the run are those of the modules added
up, not multiplied, and every property speaks of one module. In `books` the
invoices have two foci: behaviours that cross the turn of a year (`numbers`)
and behaviours in which invoices are paid, voided, sent and revoked within one
(`money`); both create and convert. The calendar reaches nothing but an
invoice's number, so what is left out is only the product of the two. The slots
of concurrent requests are the same model values c1, c2 in every module, so
that one permutation of them is a symmetry of all.

A property that a run checks is often a conjunction of named parts, each stated
with its own comment (`RefundsFit` is `RefundsWithinTotal`,
`StatusTellsRefunds` and `ReturnedOnce`). Type correctness is proved for the
four modules that state it and is not among the runs' properties.

Many properties name an exception, recorded in a history variable. These are
races the code really has, and the property says that nothing else goes wrong:

- **Invoices.** A creation that runs alone always gets its number, and one
  that gives up has been overtaken as often as it has attempts. `amountPaid`,
  `PAID` and the receipt never run ahead of the payments taken. amountPaid and
  the payments are equal to the cent, within the total, unless a payment was
  written over one it had not read (two overlapping payments are both taken and
  leave only one of them in amountPaid). A quote yields one invoice unless
  conversions overlapped or broke off. A paid or voided invoice changes status
  only by a request that had read it before. A payment of 0.0075 on an invoice
  of 0.01 is stored as amountPaid 0.01 with status PARTIALLY_PAID, since full
  payment is decided before rounding; no further payment is then accepted.
- **Sales.** Refunds stay within the total, the status tells them and goods
  return once, unless two refunds read the sale before either was written:
  then both are paid out. A refund of less than half a cent is stored as zero,
  and one that is rounded up to the whole rest leaves PARTIALLY_REFUNDED.
- **Billing.** An activation that runs alone repairs what overlap left behind,
  but nothing runs one by itself (`billing_drift`). Two submits of the
  onboarding form that overlap found two tenants.
- **Stripe.** An event counts once; the status is Stripe's when none was
  applied after a newer one. Events carry no order the controller looks at, so
  a late one stays until the next.
- **Integrations.** A webhook whose processing failed is a duplicate from then
  on, and only the next sync repairs it. A second Product appears when upserts
  of one external product overlap or break off before the map. A job whose
  process ended stays RUNNING.
- **Accounts and sessions.** Uniqueness, linking and verification hold without
  exception. A sign-in that had read the old password may open a session after
  a reset; a factor disabled while being activated is asked for without a
  secret.
- **Web session.** The tab agrees with the server about who is signed in and
  where, unless the server has changed since it gave the answer the page took
  over last: only a late or a lost answer misleads it. Its tenant is the one
  chosen last, and one it is a member of as far as it knows.
- **Web pages.** A list is one page: 25 records (invoices 100; integrations all),
  the newest first, expenses by date. A record just created is on it unless it
  ranks below a page of others: a backdated expense, or one followed by others.
  The old tenant's list may come last; a form without a flag can be
  sent twice, and after a lost answer any form can; the till's second press has
  a new clientMutationId. Actions on two rows share one busy id. A QR code that
  comes late is shown below the row that is open by then.
- **Mobile.** A start without connection deletes a good token, and a start that
  fails after `setUser`, in reading the tenant chosen last, deletes the token of
  a user who stays signed in (`stripped`). A sign-in that breaks off after its
  token was saved, or a start that can neither load the user nor clear the token,
  leaves a token without a user (`halfIn`); a second sign-out answered after the
  next sign-in deletes the new one (`crossed`).
- **Till.** Others change the same stock, so that what the till shows is never
  the stock of now: `ScreenTracksServer` says that every row is the answer the
  server gave to a download, less the sales of this device that were not in it.
  Rows are wrong about sales rung up before they were replaced by an answer that
  did not count them yet (until the next download they show too much), about
  sales taken off after that answer had counted them (too little), about charges
  that broke off, and about what a rollback undid. A second tap on Charge queues
  the cart again. A sale is lost only with the rollback of a download in whose
  transaction it was queued (`checkout_lost_sale`). A download brings the first
  100 products; variants of others are not on screen.
- **Stripe's quantities** are claimed for the items that have a Stripe price. The
  seed gives none one and no endpoint does, so as the repository stands a linked
  subscription's quantities are never pushed.

**Bounds.** Two services are all that can overlap on one row in an
interesting way: the safety results for any number are proved. Two attempts
instead of eight reach "one more try" and "no more try". One kill, one storage
error and one tap are each placed at every point of a behaviour. Three
transactions give two in conflict and a third that sees the outcome of one of
them; two lines in one transaction give the repeated variant and, with two
locations, both lock orders. A reorder point of 2 and a buffer of 1 with
opening stock 2 put every status within reach of two units. Attempts of the
outbox are 1 or 2 instead of 8, BATCH_SIZE 1 or 2 instead of 20. Two attempts at an invoice
number instead of three reach "once more" and "no more" with two invoices;
`MaxPayments` stops new payments once two cents were taken, since payments
written over one another could go on for ever; `Touched` limits payments, void
and delivery to the first invoice, which shares nothing with the second.

In `office` two requests give every pair in conflict, and what a third would
do to the outcome is what the "runs alone" properties begin from. Carts and
tenders are in quarter cents, with one cart that needs no rounding and one of
two lines that does; refunds of 0, 11 and 16 quarters meet a total exactly, by
rounding and not at all, and `MaxRefunded` ends the refunds of overlapping
requests. Two users, two branches and one invitation give a founder and a
member, an extra branch and an extra user; one repricing falls at every point.
Four Stripe events hold a failed payment's two, an update and a cancellation.
Of two shop products one has the SKU of a variant the merchant made by hand
and one has none; a page is tried twice instead of four times; one event of
the shop and one cut-off fall at every point. Three identities of a provider
share two addresses, one of them vouched for.

In `clients` a week has two days, the long window three (thirty in the code)
and a month three, and time runs for four days of two half-days: every window
and period begins, ends and is crossed. The assistant has two tool rounds
instead of its limit and a conversation of two turns instead of 20, with three
questions to go past it. The web session makes four requests or sessions, the
first refresh included; a page three loads, two drafts, two records and pages
of one record in two tenants, so that a record of another user or of another
day takes the only place; two rows have three actions; the app has three
sign-ins. The till has one product with one unit in stock, which may be on the
downloaded page or beyond it, and two carts of up to two units, since the
screen lets more be charged than it shows; two interferences (a download, a
failure, a kill, a change elsewhere, a second tap) fall at every point. The
first request of a web page is put in the first of two equal slots.

**Deadlock** is checked in the runs of the queues and not in `books`, `office`
and `clients` and the violated runs on their modules: their requests all end, and once the bounds
are used up nothing is left to do.

**Fairness.** `MCQueues!MCFairness` is the fairness of the two modules, each
guarded by `focus`: for the queue that is not in focus nothing is assumed.
`OfflineSync!FairSpec`: a pass that can go on does (the event
loop runs ready continuations), the poll timer of a live service fires, a
fetch is settled one way or the other, and time passes. Nothing is assumed of
the cashier, of connectivity (the property asks for it to last) or of orphaned
requests. `Outbox!OutboxFairSpec`: the interval fires, a started poll goes on and
BullMQ keeps serving jobs; failures of the database and of the handler may
happen at every step. The other modules have no fairness: their requests may
end anywhere, and nothing in the code starts one by itself.

**Failures of `queue.add`.** The ioredis connection is created with
`maxRetriesPerRequest: null`, so a plain disconnect makes `add` wait rather
than throw; what throws is Redis refusing a command (read-only replica, out of
memory) or a closing connection. `redisUp = FALSE` stands for those.

## Proofs

All proofs are for arbitrary constants, under the named assumptions of the
modules (`OfflineSyncAssumption`, `LedgerAssumption` and so on): placeholders
such as `None` and `"none"` are no real values, bounds are naturals, quantities
of lines are positive, prices are not negative, carts have a line at least (as
`createSaleSchema` has it), amounts are integers, sales, variants of a report
and their locations are finitely many, months begin on days from day 0 on, and
the catalogue starts as the seed writes it (every item active). TLC evaluates them on every run. Two
theorems have a hypothesis of their own, named below. What is said to hold "but
for" a race holds unless the history variable of that race is set.

- `OfflineSyncProofs`: `Invariance` proves `Inv`, which adds to `TypeOK`,
  `AtMostOneSale` and `SyncedIsRecorded` three facts. `PassInv`: a call is out
  only while a pass waits, for an item of the queue. `AnswerInv`: a positive
  answer, on the wire or in the hands of a pass, is about a sale the server
  holds; without it `SyncedIsRecorded` is not inductive, because `markSynced`
  writes what an earlier step received. `QueuedInv`: what the server may still
  be asked to record is a queue row. `SaleAtMostOnce` and
  `SyncedOnlyIfRecorded` follow, together `QueueIsTrue`, and `Refinement` shows
  that every step is a step of `SaleOnce` or leaves its variables alone.
  `FreshItemsFirst` (`FreshItemNotOvertaken`) needs of every item that is still
  fresh that a younger one is neither recorded, nor asked for, nor in hand, and
  is on the list of a pass only together with the older one (`Untouched`); it
  holds as long as services do not overlap or nobody taps Retry (`OneService \/
  MaxRetries = 0`). With both, a service can write back a count of attempts it
  had read before the other one's, and an item tapped for a retry looks fresh
  although it was tried.
- `InventoryLedgerProofs`: `Inv` adds that the committed prefix of a cell ends
  in its balance row (`PrefixInv`), that uncommitted movements belong to the
  open transaction that has locked the cell (`OwnerInv`), that a transaction
  between upsert and insert is exactly one movement ahead of the ledger
  (`AheadInv`, which makes `LedgerChain` inductive), and that one transaction
  per clientMutationId is past its insert (`SaleInv`). From it follow
  `TypeCorrect`, `LedgerIsChain`, `AlertsOnCrossing`, `KeysRecordedOnce`,
  `TransactionsAtomic` and `SalesOncePerMutation`; the two about keys together
  are `EverythingRecordedOnce`. `StockAlwaysAddsUp` has two halves. The balance
  is the replay because the chain starts from nothing (`FromNothing`) and
  `replayBalance` is a function with only one solution. A transfer conserves
  because its movements come in pairs: what it has moved so far of a variant is
  what the first half of a pair under way took out (`TransferInv`, `SumInv`).
- `OutboxProofs`: a poll about to mark an event has seen its job (`HandInv`),
  jobs are counted on the way out of "none" (`CountInv`), an active job has
  written to or has still to write to every address (`SendInv`). From it
  follow `TypeCorrect`, `ProcessedKeepsJob` and `JobsUnique` (together
  `EventsHandedOver`) and `CompletedDelivers`. `EventsInOrder`
  (`HandedOverInOrder`) needs of a poll's batch that whatever is due and older
  than one of its events is in it too, or is the one it is failing on
  (`BatchInv`).
- `InvoicesProofs`: `Inv` adds what a request holds at each step (`CallInv`);
  that a count once read is never above the present one and each failed attempt
  stands for a creation by others (`NumberInv`); that the balance a payment has
  read is covered by payment rows and that balances are whole cents, so that
  rounding the new balance and rounding the payment are the same (`PayInv`);
  that an audit row to be written is already true (`AuditInv`); and that a
  quote without a race is in the hands of one request (`QuoteInv`). Type
  correctness, `NumberingNeverSticks`, `BooksTrue` and `QuotesConvertOnce`
  follow. `ConversionsFaithful` needs that a conversion under way carries what
  its quote is worth, and that the worth (rounded unit price times quantity) is
  within half a cent per unit, and half a cent, of the total the quote was
  given (`WorthNear`). `SettledForGood` is an action property: which steps may
  take an invoice out of PAID or VOID.
- `IdentityProofs`: `CallsKnow` says of each request under way that what it
  read still holds; it lasts because rows are never deleted and addresses never
  become unverified. `UsersUnique`, `LinksSafe` and `VerifiedProven` make
  `IdentitiesAlwaysSafe`; `IdentityForGood` is an action property.
  `FactorUsable` needs that whoever is about to activate the factor has a
  secret, unless a disable overlapped (`ActivateInv`): `FactorsUsable`, and
  `ResetsEndSessions`.
- `OfficeProofs`, sales: `SalesInv` adds what a request has established
  (`CallsFit`): the balance a refund has read and its amount fit the total.
  Totals and refunds are whole cents, so that rounding the amount cannot take it
  past the total (`CentsFit`). `AmountsFit`, `StatusesTell` and
  `GoodsReturnOnce` make `RefundsAlwaysFit`. `SalesAlwaysAddUp` is about sums:
  over the lines of a cart, where each rounding is off by half a cent at most,
  and over the sales, where a committed sale or refund changes one term.
- `OfficeProofs`, reports: `FiguresAlwaysAgree` needs of the state only that no
  sale is of the future (`ReportsInv`); the rest is about the operators. A moment
  has the label of its midnight, so every sale of the range has a row
  (`RowsOfReport`); what is added up by rows is what is added up by sales
  (`BucketRows`, `ReportAddsUp`); the windows of the dashboard are ranges of
  days (`WindowIsReport`), and a day is in the current month if it is not before
  its first (`SameMonth`, `MonthIsRow`).
- `OfficeProofs`, Stripe: `LogInv` says what Stripe's log tells (its last event
  names the tenant and Stripe's status), `RowInv` what the row says as long as
  no event was late: the status of the newest event applied, or CANCELED after
  cancelSubscription. `EventsApplyOnce` and `RowCatchesUp` make
  `EventsAlwaysSettle`.
- `OfficeProofs`, what settles: `PushesSettle`, `SyncAlwaysSettles` and
  `ActivationAlwaysSettles` have one argument. A request that is flagged
  `alone` has no other beside it, and the invariant says what it has done so
  far (`AloneInv`, `AloneSync`, `ComputedSoFar`): what it has left behind is
  right, what it has in hand is right up to its next statement. Whatever could
  disturb it takes the flag away. `SyncAlwaysSettles` has the hypothesis
  `DistinctSkus`: two external variants with one SKU share a variant row, and
  the sync leaves it the price of the one it updated last.
- `OfficeProofs`, what happens once: `AlwaysTakenOverOnce` needs that a product
  without an overlap is in the hands of one request, which finds it unmapped
  until it maps it (`UpsertInv`), that a row without a mapping belongs to the
  request about to map it (`ProductRowInv`), and that the open jobs are the
  requests that have one. `MembersAlwaysDue` needs that a founder under way has
  founded nothing (`FoundInv`) and that invitations name whom they are for
  (`InviteInv`); it covers invitations to any role, also that of an owner.
- `ClientsProofs`: each invariant says of every request under way that what it
  carries is still right or that the race that made it wrong is recorded.
  `TabAlwaysInStep`: an answer that is `fresh` is what the server would say now
  (`FreshInv`), whichever requests overlap. `ListsAreCurrent`: the list asked
  for last was asked for the present tenant and is, once answered, a first page
  of what there was when the page had made its last record (`PageOf`): what
  others create is younger and leaves it one. `DraftsRecordedOnce`: a draft has
  at most one request. `CartsSoldOnce` (`CartInv`): a charge carries what is on
  screen unless it was added to (`ChargeInv`), of a cart there is one sale or
  one charge that will queue one (`OnceInv`), an emptied cart is a sale
  (`ClosedInv`), and what a rollback may take was queued inside (`InsideInv`).
  `ScreenAlwaysTracks` (`ShowInv`): each of the three tables (the cache, the
  screen, what a rollback brings back) adds up and has taken off exactly what
  is due, but for its strays and the sales that charges under way have still to
  take off (`Shown`, `Waiting`, `Pending`); the table to be brought back also
  lacks what was queued or taken off inside the transaction (`Unsaved`).
  `RowsAlwaysInStep`: there is one action, and it has the busy id.
  `TokenAlwaysInStep`: what start-up and the calls under way rely on while they
  wait (`WaitingInv`). `TurnsAlwaysPaired` and `LoopAlwaysKeepsTerms`
  (`AssistantAlways`): the messages sent to the model alternate uses and
  results at every step of the tool loop.

**Sums** (`Sums`). The provers cannot use an induction theorem, whose
parameter is a predicate. `WFMin` has none: a set of naturals that is not empty
has a least member (`LeastNat`), and so a set of subsets of a finite set has one
that holds no other (`LeastSet`). Each induction is by such a smallest
counterexample. `Sigma` is the sum of a function over a set, by the one
function on its subsets that grows by the added element's value (`Measure`);
`FoldIsSigma` says that a fold of the community modules computes it, whichever
element it takes first, and the others what a sum does when a term changes, is
added or is close to another, and that the sums of buckets add up to the sum of
all (`SigmaBuckets`).

Every invariant and action property that a run checks is a theorem. Only
model-checked is liveness (`EveryItemSettles`, `EveryEventSettles`), which is
beyond this prover.

## Not modelled, and why

- `voidSale` accepts only an OPEN sale, and no code writes that status: it
  never gets past its check.
- Recovery codes: the endpoint parses six digits before the service sees the
  code, so the branch that accepts a recovery code is never reached.
- `testConnection` and `disconnect` set the status of a connection, which no
  service reads; the web page alone shows it.
- Reports of receivables, top products and valuation and the CSV export are
  single queries or formatting. The dashboard reads its figures by statements
  of their own, which `Reports` takes as one moment; the server is taken to run
  in UTC.
- Connectors' paths, authentication and field mapping, the notification
  adapters, the OAuth providers and the language model are external: their
  outcomes are the nondeterministic answers of the modules that call them.
- Rendering, one-request forms of the web client (registration, reset), single
  row updates of products and customers, the mobile app's cached customers.
- The mobile queue's own status writes inside a download's transaction:
  `Checkout` lets a rollback lose only sales that are still queued, and
  `OfflineSync` has no rollback of what it wrote. A status that is rolled back
  means another attempt under the same clientMutationId, which the server
  answers with the sale it has. The screen keeps a second download away.
- Message texts and logging are left out of the modelled actions: no property
  is about them. Audit rows are modelled for invoices only. Tenant, branch and
  permission checks are guards whose refusal changes nothing.

## Plan

1. `Checkout` composed with `OfflineSync`, in place of the queue that applies a
   sale once, with the queue's writes inside the download's transaction.
2. The dashboard's separate reads.
