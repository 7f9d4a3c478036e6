---------------------------- MODULE Integrations ----------------------------
(***************************************************************************)
(* IntegrationsService for one connection to a shop: product sync and the  *)
(* shop's webhooks.  (InventoryPush is the other direction.)               *)
(*                                                                         *)
(* Nothing here is a transaction: every statement commits by itself, and   *)
(* requests interleave between statements.  The shop (external) has one    *)
(* variant per product; the version of a product stands for its name and   *)
(* price.  Variant rows are named by their SKU, which is unique.           *)
(***************************************************************************)
EXTENDS Integers, FiniteSets, Sequences

CONSTANTS
  ShopProducts,  \* external ids
  SkuOf,         \* the SKU each external variant has ("none" without one)
  ExtSku,        \* EXT-<externalId>
  Manual,        \* SKUs of variants the merchant has made by hand
  Merchant,      \* the version that stands for the merchant's own price
  SyncCalls,     \* slots for concurrent requests
  MaxAttempts,   \* withRetry: attempts at a page (4 in the code)
  MaxVersion,    \* bound: changes to a product in the shop
  MaxShopEvents  \* bound: webhooks the shop emits

\* variant.sku || `EXT-${variant.externalId}`
SkuKey(x) == IF SkuOf[x] = "none" THEN ExtSku[x] ELSE SkuOf[x]
Skus == {SkuKey(x) : x \in ShopProducts} \union Manual

ASSUME IntegrationsAssumption ==
  /\ MaxAttempts \in Nat \ {0} /\ MaxVersion \in Nat /\ MaxShopEvents \in Nat
  /\ Merchant \notin 0..MaxVersion
  /\ "none" \notin ShopProducts /\ "none" \notin Skus

VARIABLES
  shop,        \* external: the version of each product
  shopEvents,  \* external: the events emitted, as [product, version]
  products,    \* Product rows made for each external product
  mapped,      \* ExternalObjectMap rows of type PRODUCT
  named,       \* the version in the mapped Product
  variants,    \* ProductVariant rows
  priced,      \* the version of a variant's price
  linkedTo,    \* ExternalObjectMap rows of type VARIANT: a SKU, or "none"
  delivery,    \* WebhookDelivery: absent, received, processed or failed
  runs,        \* history: how often an event was taken up
  openJobs,    \* SyncJob rows that are RUNNING
  syncCall,    \* the requests
  upToDate,    \* history: a sync has just run alone and succeeded
  broken,      \* history: a request broke off (bound: one), with its job or not
  unpriced,    \* history: linked by SKU, and not updated since
  twin         \* history: products with upserts that overlapped or broke off

integrationVars == <<shop, shopEvents, products, mapped,
  named, variants, priced, linkedTo, delivery, runs, openJobs, syncCall,
  upToDate, broken, unpriced, twin>>
shopVars    == <<shop, shopEvents>>
catalogVars == <<products, mapped, named, variants, priced, linkedTo, unpriced>>
hookVars    == <<delivery, runs>>

SyncIdle == [kind |-> "none", step |-> "idle", todo |-> {}, product |-> "none",
             version |-> 0, event |-> 0, tries |-> 0, ok |-> TRUE, alone |-> FALSE]

\* A connection that was just made (createConnection, after authorize).
IntegrationsInit ==
  /\ shop = [x \in ShopProducts |-> 0]
  /\ shopEvents = <<>>
  /\ products = [x \in ShopProducts |-> 0]
  /\ mapped = {}
  /\ named = [x \in ShopProducts |-> Merchant]
  /\ variants = Manual
  /\ priced = [s \in Skus |-> Merchant]
  /\ linkedTo = [x \in ShopProducts |-> "none"]
  /\ delivery = [e \in 1..MaxShopEvents |-> "absent"]
  /\ runs = [e \in 1..MaxShopEvents |-> 0]
  /\ openJobs = 0
  /\ syncCall = [c \in SyncCalls |-> SyncIdle]
  /\ upToDate = FALSE /\ broken = "no" /\ unpriced = {} /\ twin = {}
-----------------------------------------------------------------------------
(* The shop *)

\* A product changes in the shop, which emits product.updated.
ShopChanges(x) ==
  /\ shop[x] < MaxVersion /\ Len(shopEvents) < MaxShopEvents
  /\ shop' = [shop EXCEPT ![x] = @ + 1]
  /\ shopEvents' = Append(shopEvents, [product |-> x, version |-> shop[x] + 1])
  /\ upToDate' = FALSE
  /\ syncCall' = [c \in SyncCalls |-> [syncCall[c] EXCEPT !.alone = FALSE]]
  /\ UNCHANGED <<catalogVars, hookVars, openJobs,
                 broken, twin>>
-----------------------------------------------------------------------------
(* Requests *)

BeginSync(c, call) ==
  LET others == {d \in SyncCalls : syncCall[d].step # "idle"}
  IN  /\ syncCall[c].step = "idle"
      /\ syncCall' = [d \in SyncCalls |->
                        IF d = c THEN [call EXCEPT !.alone = (others = {})]
                        ELSE IF d \in others THEN [syncCall[d] EXCEPT !.alone = FALSE]
                        ELSE syncCall[d]]
      /\ upToDate' = FALSE

EndSync(c) == syncCall' = [syncCall EXCEPT ![c] = SyncIdle]

\* The call goes on with a step.
Then(c, step) == syncCall' = [syncCall EXCEPT ![c].step = step]

\* syncProducts: its job is RUNNING, every page still to come.  (The status of
\* the connection is not looked at.)
StartSync(c) ==
  /\ BeginSync(c, [SyncIdle EXCEPT !.kind = "sync", !.step = "pull",
                                   !.todo = ShopProducts])
  /\ openJobs' = openJobs + 1
  /\ UNCHANGED <<shopVars, catalogVars, hookVars, broken, twin>>

\* pullProducts: a page (of one product) arrives; another upsert of that product
\* may be under way.
PullPage(c) ==
  /\ syncCall[c].step = "pull"
  /\ \E x \in syncCall[c].todo :
       /\ syncCall' = [syncCall EXCEPT ![c].step = "find", ![c].product = x,
                         ![c].version = shop[x], ![c].todo = @ \ {x}, ![c].tries = 0]
       /\ twin' = IF \E d \in SyncCalls \ {c} : syncCall[d].product = x
                    THEN twin \union {x} ELSE twin
  /\ UNCHANGED <<shopVars, catalogVars, hookVars, openJobs, upToDate,
                 broken>>

\* withRetry: as long as attempts are left.
AnotherTry(c) == syncCall[c].tries + 1 < MaxAttempts

\* The shop does not answer, or with an error.
PullFails(c) ==
  /\ syncCall[c].step = "pull" /\ syncCall[c].todo # {}
  /\ syncCall' = [syncCall EXCEPT ![c].tries = @ + 1,
                    ![c].step = IF AnotherTry(c) THEN "pull" ELSE "finish",
                    ![c].ok = AnotherTry(c)]
  /\ UNCHANGED <<shopVars, catalogVars, hookVars, openJobs, upToDate,
                 broken, twin>>

\* The row is inserted; its unique index refuses an event that was seen.
NewDelivery(e) == delivery[e] = "absent"

\* handleWebhook: the delivery is inserted, unless it was before; then the
\* payload is normalised.  (A delivery that is there is answered as a duplicate,
\* whether its processing succeeded, failed or goes on.)
ReceiveWebhook(c) ==
  /\ \E e \in 1..Len(shopEvents) :
       LET x == shopEvents[e].product
       IN  /\ NewDelivery(e)
           /\ BeginSync(c, [SyncIdle EXCEPT !.kind = "hook", !.step = "find",
                 !.event = e, !.product = x, !.version = shopEvents[e].version])
           /\ delivery' = [delivery EXCEPT ![e] = "received"]
           /\ runs' = [runs EXCEPT ![e] = @ + 1]
           /\ twin' = IF \E d \in SyncCalls \ {c} : syncCall[d].product = x
                        THEN twin \union {x} ELSE twin
  /\ UNCHANGED <<shopVars, catalogVars, openJobs, broken>>
-----------------------------------------------------------------------------
(* upsertCanonicalProduct and upsertCanonicalVariant.  A statement that     *)
(* meets a unique index throws.                                            *)

Throw(c) ==
  syncCall' = [syncCall EXCEPT ![c].step = "finish", ![c].ok = FALSE,
                               ![c].product = "none"]

\* Mutant: the variant's map is looked up.
KnownByVariant(x) == linkedTo[x] # "none"

\* The row of externalEntityMap for the product.
Known(x) == x \in mapped

\* The map is looked up: the mapped product is updated, or one is created.
UpsertProduct(c) ==
  LET x == syncCall[c].product
  IN  /\ syncCall[c].step = "find"
      /\ IF Known(x)
           THEN /\ named' = [named EXCEPT ![x] = syncCall[c].version]
                /\ Then(c, "variant")
           ELSE /\ UNCHANGED named
                /\ Then(c, "create")
      /\ UNCHANGED <<shopVars, products, mapped, variants, priced,
                     linkedTo, unpriced, hookVars, openJobs, upToDate, broken, twin>>

CreateProduct(c) ==
  /\ syncCall[c].step = "create"
  /\ products' = [products EXCEPT ![syncCall[c].product] = @ + 1]
  /\ Then(c, "map")
  /\ UNCHANGED <<shopVars, mapped, named, variants, priced, linkedTo,
                 unpriced, hookVars, openJobs, upToDate, broken, twin>>

MapProduct(c) ==
  LET x == syncCall[c].product
  IN  /\ syncCall[c].step = "map"
      /\ IF x \in mapped
           THEN Throw(c) /\ UNCHANGED <<mapped, named>>
           ELSE /\ mapped' = mapped \union {x}
                /\ named' = [named EXCEPT ![x] = syncCall[c].version]
                /\ Then(c, "variant")
      /\ UNCHANGED <<shopVars, products, variants, priced, linkedTo,
                     unpriced, hookVars, openJobs, upToDate, broken, twin>>

\* The next product, or the end of a webhook.
NextProduct(c) ==
  syncCall' = [syncCall EXCEPT ![c].product = "none", ![c].version = 0,
                 ![c].step = IF syncCall[c].todo = {} THEN "finish" ELSE "pull"]

\* Mutant: a mapped variant is left alone.
UpsertVariantOnce(c) ==
  LET x == syncCall[c].product
  IN  /\ syncCall[c].step = "variant"
      /\ IF linkedTo[x] # "none"
           THEN NextProduct(c)
           ELSE Then(c, IF SkuOf[x] \in variants THEN "link" ELSE "createVariant")
      /\ UNCHANGED <<shopVars, products, mapped, named, variants,
                     linkedTo, priced, unpriced, hookVars, openJobs, upToDate,
                     broken, twin>>

\* A mapped variant is updated; else one with its SKU is looked up, to be linked.
UpsertVariant(c) ==
  LET x == syncCall[c].product
  IN  /\ syncCall[c].step = "variant"
      /\ IF linkedTo[x] # "none"
           THEN /\ priced' = [priced EXCEPT ![linkedTo[x]] = syncCall[c].version]
                /\ unpriced' = unpriced \ {x}
                /\ NextProduct(c)
           ELSE /\ Then(c, IF SkuOf[x] \in variants THEN "link" ELSE "createVariant")
                /\ UNCHANGED <<priced, unpriced>>
      /\ UNCHANGED <<shopVars, products, mapped, named, variants,
                     linkedTo, hookVars, openJobs, upToDate, broken, twin>>

CreateVariant(c) ==
  LET s == SkuKey(syncCall[c].product)
  IN  /\ syncCall[c].step = "createVariant"
      /\ IF s \in variants
           THEN Throw(c) /\ UNCHANGED <<variants, priced>>
           ELSE /\ variants' = variants \union {s}
                /\ priced' = [priced EXCEPT ![s] = syncCall[c].version]
                /\ Then(c, "link")
      /\ UNCHANGED <<shopVars, products, mapped, named, linkedTo,
                     unpriced, hookVars, openJobs, upToDate, broken, twin>>

\* The variant is mapped; a price it had before stays as it was.
LinkVariant(c) ==
  LET x == syncCall[c].product
  IN  /\ syncCall[c].step = "link"
      /\ IF linkedTo[x] # "none"
           THEN Throw(c) /\ UNCHANGED <<linkedTo, unpriced>>
           ELSE /\ linkedTo' = [linkedTo EXCEPT ![x] = SkuKey(x)]
                /\ unpriced' = IF priced[SkuKey(x)] # syncCall[c].version
                                 THEN unpriced \union {x} ELSE unpriced
                /\ NextProduct(c)
      /\ UNCHANGED <<shopVars, products, mapped, named, variants,
                     priced, hookVars, openJobs, upToDate, broken, twin>>
-----------------------------------------------------------------------------
(* How requests end *)

CloseJob(c) == openJobs - 1

\* The job is SUCCEEDED or FAILED ...
FinishJob(c) ==
  /\ syncCall[c].step = "finish" /\ syncCall[c].kind = "sync"
  /\ openJobs' = CloseJob(c)
  /\ Then(c, "report")
  /\ UNCHANGED <<shopVars, catalogVars, hookVars, upToDate, broken, twin>>

\* ... and then the connection CONNECTED or ERROR (nothing reads that status).
ReportSync(c) ==
  /\ syncCall[c].step = "report"
  /\ upToDate' = (syncCall[c].alone /\ syncCall[c].ok)
  /\ EndSync(c)
  /\ UNCHANGED <<shopVars, catalogVars, hookVars, openJobs, broken, twin>>

\* The delivery gets processedAt, or the error.
FinishWebhook(c) ==
  /\ syncCall[c].step = "finish" /\ syncCall[c].kind = "hook"
  /\ delivery' = [delivery EXCEPT ![syncCall[c].event] =
                    IF syncCall[c].ok THEN "processed" ELSE "failed"]
  /\ EndSync(c)
  /\ UNCHANGED <<shopVars, catalogVars, runs, openJobs, upToDate,
                 broken, twin>>

HasJob(c) == syncCall[c].kind = "sync" /\ syncCall[c].step # "report"

\* The process ends; a job stays RUNNING and a delivery received.  (Bound: once.)
BreakOff(c) ==
  /\ syncCall[c].step # "idle" /\ broken = "no"
  /\ broken' = IF HasJob(c) THEN "job" ELSE "other"
  /\ twin' = IF syncCall[c].step = "map" THEN twin \union {syncCall[c].product} ELSE twin
  /\ EndSync(c)
  /\ UNCHANGED <<shopVars, catalogVars, hookVars, openJobs, upToDate>>

IntegrationsNext ==
  \/ \E c \in SyncCalls :
       \/ StartSync(c) \/ PullPage(c) \/ PullFails(c) \/ ReceiveWebhook(c)
       \/ UpsertProduct(c) \/ CreateProduct(c) \/ MapProduct(c)
       \/ UpsertVariant(c) \/ CreateVariant(c) \/ LinkVariant(c)
       \/ FinishJob(c) \/ ReportSync(c) \/ FinishWebhook(c)
       \/ BreakOff(c)
  \/ \E x \in ShopProducts : ShopChanges(x)

IntegrationsSpec == IntegrationsInit /\ [][IntegrationsNext]_integrationVars
-----------------------------------------------------------------------------
(* Properties *)

\* A sync that runs alone brings the catalogue in line with the shop, whatever
\* failed before: a webhook that was given up, or overtaken, or a product left
\* without its map.  Only a variant it has just linked by SKU keeps the
\* merchant's price until the next one.
SyncSettles ==
  upToDate =>
    \A x \in ShopProducts :
      /\ x \in mapped /\ named[x] = shop[x]
      /\ linkedTo[x] \in variants
      /\ x \notin unpriced => priced[linkedTo[x]] = shop[x]

\* An external product becomes one Product, and a second only when upserts of it
\* overlap or one breaks off before its map; it is mapped to the variant with
\* its SKU, which is never made twice.
OneProductPerExternal ==
  \A x \in ShopProducts :
    /\ x \notin twin => products[x] <= 1
    /\ x \in mapped => products[x] >= 1
    /\ linkedTo[x] # "none" => linkedTo[x] = SkuKey(x) /\ linkedTo[x] \in variants

\* An event of the shop is taken up once, however often it is delivered, and
\* whether or not it could be processed.
TakenUpOnce ==
  \A e \in 1..MaxShopEvents : /\ runs[e] <= 1
                              /\ delivery[e] = "absent" <=> runs[e] = 0

\* A job stays RUNNING only if its request is running, or broke off.
JobsAccounted ==
  openJobs = Cardinality({c \in SyncCalls : HasJob(c)})
               + (IF broken = "job" THEN 1 ELSE 0)

\* What the shop sends is taken over once: its products as rows, its events as
\* deliveries; and a job that is RUNNING belongs to a request.
TakenOverOnce == OneProductPerExternal /\ TakenUpOnce /\ JobsAccounted
=============================================================================
