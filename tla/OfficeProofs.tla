---------------------------- MODULE OfficeProofs ----------------------------
(***************************************************************************)
(* Proofs about the back office: its sales and reports (Sales, Reports),   *)
(* Stripe's events (StripeEvents), the shop (InventoryPush, Integrations)  *)
(* and the subscription (Billing), for any number of events, products,     *)
(* users and requests, and any carts, payments and amounts.                *)
(*                                                                         *)
(* refundSale checks what it read outside the transaction.  The inductive  *)
(* invariant of Sales keeps what a refund under way has established: what  *)
(* it read and its amount fit the total.  Totals and refunds are whole     *)
(* cents, so that rounding the amount cannot take it past the total.       *)
(*                                                                         *)
(* CaughtUp rests on what Stripe's log says, that its last event names the *)
(* tenant and tells Stripe's status, and on what the row says: as long as  *)
(* no event was late, the status of the newest event applied, or CANCELED  *)
(* once cancelSubscription has ended the subscription at the provider.     *)
(*                                                                         *)
(* The three that settle (PushSettles, SyncSettles, AloneSettles) have one *)
(* argument.  The request that began alone is alone as long as its history *)
(* flag says so, and the invariant says what it has done so far: what it   *)
(* has left behind is right, what it has in hand is right up to its next   *)
(* statement.  Anything that could disturb it takes the flag away.         *)
(***************************************************************************)
EXTENDS Sales, StripeEvents, InventoryPush, Integrations, Billing, Reports,
        FiniteSetTheorems, SequenceTheorems, FunctionTheorems, Sums, TLAPS

(* StripeEvents *)

EventType ==
  [type : {"customer.subscription.updated", "customer.subscription.deleted",
           "invoice.payment_failed"},
   status : StripeStatuses, tenant : BOOLEAN]

StripeType ==
  /\ stripeStatus \in StripeStatuses
  /\ stripeLog \in Seq(EventType) /\ Len(stripeLog) <= MaxEvents
  /\ billingEvent \subseteq 1..Len(stripeLog)
  /\ applications \in [EventIds -> Nat]
  /\ hook \in [Hooks -> 0..MaxEvents]
  /\ \A h \in Hooks : hook[h] <= Len(stripeLog)

\* An event is counted with its BillingEvent row.
CountInv ==
  \A e \in EventIds : applications[e] = IF e \in billingEvent THEN 1 ELSE 0

\* What applyEvent writes for an event is what its status maps to.
EventFits(event) ==
  /\ event.type = "customer.subscription.deleted" => event.status = "canceled"
  /\ event.type = "invoice.payment_failed" => event.status = "past_due"

LogInv ==
  /\ \A e \in 1..Len(stripeLog) : EventFits(stripeLog[e])
  /\ Len(stripeLog) = 0 => stripeStatus = "trialing"
  /\ Len(stripeLog) > 0 => /\ stripeLog[Len(stripeLog)].tenant
                           /\ stripeLog[Len(stripeLog)].status = stripeStatus
  /\ canceller # "idle" => stripeStatus = "canceled"

\* The row was cancelled by cancelSubscription.
CancelledHere == canceller = "done" /\ subStatus = "CANCELED"

RowInv ==
  ~late =>
    /\ billingEvent = {} => subStatus = "TRIALING" \/ CancelledHere
    /\ \A e \in billingEvent : (\A f \in billingEvent : f <= e) =>
         subStatus = MapStripeStatus(stripeLog[e].status) \/ CancelledHere

StripeInv == StripeType /\ CountInv /\ LogInv /\ RowInv

\* The statuses the proofs speak of.
LEMMA Mapped ==
  /\ MapStripeStatus("trialing") = "TRIALING"
  /\ MapStripeStatus("past_due") = "PAST_DUE"
  /\ MapStripeStatus("canceled") = "CANCELED"
  BY DEF MapStripeStatus

\* applyEvent writes the status the event tells of.
LEMMA StatusFromFits ==
  ASSUME NEW event \in EventType, EventFits(event)
  PROVE  StatusFrom(event) = MapStripeStatus(event.status)
<1>1. CASE event.type = "customer.subscription.updated"
  BY <1>1 DEF StatusFrom
<1>2. CASE event.type = "customer.subscription.deleted"
  BY <1>2, Mapped DEF StatusFrom, EventFits
<1>3. CASE event.type = "invoice.payment_failed"
  BY <1>3, Mapped DEF StatusFrom, EventFits
<1> QED BY <1>1, <1>2, <1>3 DEF EventType

\* A trial without events.
LEMMA StripeInitInv == StripeInit => StripeInv
  BY StripeAssumption
  DEF StripeInit, StripeInv, StripeType, StripeStatuses, EventType, CountInv, LogInv, RowInv,
      EventIds

\* Stripe adds events: what was applied stays as it was.
LEMMA LogGrows ==
  ASSUME StripeInv, stripeLog' \in Seq(EventType),
         Len(stripeLog) <= Len(stripeLog'), Len(stripeLog') <= MaxEvents,
         \A e \in 1..Len(stripeLog) : stripeLog'[e] = stripeLog[e],
         stripeStatus' \in StripeStatuses, LogInv',
         UNCHANGED <<subStatus, billingEvent, applications, hook, late>>,
         canceller' = canceller \/ (canceller = "idle" /\ canceller' = "asked")
  PROVE  StripeInv'
<1>1. StripeType'
  BY DEF StripeInv, StripeType
<1>2. CountInv'
  BY DEF StripeInv, CountInv
<1>3. RowInv'
  <2>1. \A e \in billingEvent : stripeLog'[e] = stripeLog[e]
    BY DEF StripeInv, StripeType
  <2> QED BY <2>1 DEF StripeInv, RowInv, CancelledHere
<1> QED BY <1>1, <1>2, <1>3 DEF StripeInv

\* Stripe changes the subscription's status.
LEMMA StripeUpdatesInv == ASSUME StripeInv, StripeUpdates PROVE StripeInv'
<1>1. PICK s \in StripeStatuses \ {"canceled", stripeStatus} :
        stripeStatus' = s /\ stripeLog' = Append(stripeLog, UpdatedEvent(s))
  BY DEF StripeUpdates
<1>2. PICK u \in EventType : u = UpdatedEvent(s)
  BY DEF UpdatedEvent, EventType
<1>3. u.tenant /\ u.status = s /\ EventFits(u)
  BY <1>2 DEF UpdatedEvent, EventFits
<1>4. stripeLog' = Append(stripeLog, u) /\ stripeLog' \in Seq(EventType)
  BY <1>1, <1>2 DEF StripeInv, StripeType
<1>5. /\ Len(stripeLog') = Len(stripeLog) + 1 /\ stripeLog'[Len(stripeLog')] = u
      /\ \A e \in 1..Len(stripeLog) : stripeLog'[e] = stripeLog[e]
  BY <1>4 DEF StripeInv, StripeType
<1>6. canceller = "idle" \/ stripeStatus = "canceled"
  BY DEF StripeInv, LogInv
<1>7. LogInv'
  <2>1. Len(stripeLog) \in Nat /\ canceller' = canceller
    BY DEF StripeInv, StripeType, StripeUpdates
  <2>2. \A e \in 1..Len(stripeLog') : EventFits(stripeLog'[e])
    <3>1. \A e \in 1..Len(stripeLog') : e \in 1..Len(stripeLog) \/ e = Len(stripeLog')
      BY <1>5, <2>1
    <3> QED BY <1>3, <1>5, <3>1 DEF StripeInv, LogInv
  <2>3. canceller' # "idle" => stripeStatus' = "canceled"
    BY <1>6, <2>1 DEF StripeUpdates
  <2> QED BY <1>1, <1>3, <1>5, <2>1, <2>2, <2>3 DEF LogInv
<1>8. Len(stripeLog) + 1 <= MaxEvents
  BY StripeAssumption DEF StripeUpdates, StripeInv, StripeType
<1> QED BY <1>1, <1>2, <1>4, <1>5, <1>7, <1>8, LogGrows DEF StripeUpdates, StripeInv, StripeType

\* A payment fails.
LEMMA StripePaymentFailsInv == ASSUME StripeInv, StripePaymentFails PROVE StripeInv'
<1>1. PICK meta \in BOOLEAN :
        stripeLog' = stripeLog \o <<FailedEvent(meta), UpdatedEvent("past_due")>>
  BY DEF StripePaymentFails
<1>2. PICK f \in EventType, u \in EventType : f = FailedEvent(meta) /\ u = UpdatedEvent("past_due")
  BY DEF FailedEvent, UpdatedEvent, EventType, StripeStatuses
<1>3. u.tenant /\ u.status = "past_due" /\ EventFits(u) /\ EventFits(f)
  BY <1>2 DEF UpdatedEvent, FailedEvent, EventFits
<1>4. stripeLog' = stripeLog \o <<f, u>> /\ stripeLog' \in Seq(EventType)
  BY <1>1, <1>2 DEF StripeInv, StripeType
<1>5. /\ Len(stripeLog') = Len(stripeLog) + 2
      /\ stripeLog'[Len(stripeLog) + 1] = f /\ stripeLog'[Len(stripeLog) + 2] = u
      /\ \A e \in 1..Len(stripeLog) : stripeLog'[e] = stripeLog[e]
  BY <1>4 DEF StripeInv, StripeType
<1>6. canceller = "idle"
  BY DEF StripePaymentFails, StripeInv, LogInv
<1>7. LogInv'
  <2>1. \A e \in 1..Len(stripeLog') : EventFits(stripeLog'[e])
    <3> SUFFICES ASSUME NEW e \in 1..Len(stripeLog') PROVE EventFits(stripeLog'[e])
      OBVIOUS
    <3>1. e \in 1..Len(stripeLog) \/ e = Len(stripeLog) + 1 \/ e = Len(stripeLog) + 2
      BY <1>5 DEF StripeInv, StripeType
    <3> QED BY <3>1, <1>3, <1>5 DEF StripeInv, LogInv
  <2>2. Len(stripeLog') > 0 /\ stripeLog'[Len(stripeLog')] = u
    BY <1>5 DEF StripeInv, StripeType
  <2>3. stripeStatus' = "past_due" /\ canceller' = "idle"
    BY <1>6 DEF StripePaymentFails
  <2>4. (Len(stripeLog) = 0 => stripeStatus = "trialing")'
    BY <2>2
  <2> QED BY <1>3, <2>1, <2>2, <2>3, <2>4 DEF LogInv, EventFits
<1>8. Len(stripeLog) + 2 <= MaxEvents
  BY StripeAssumption DEF StripePaymentFails, StripeInv, StripeType
<1>9. stripeStatus' \in StripeStatuses
  BY DEF StripePaymentFails, StripeStatuses
<1> QED BY <1>1, <1>2, <1>4, <1>5, <1>7, <1>8, <1>9, LogGrows
        DEF StripePaymentFails, StripeInv, StripeType

\* cancelSubscription asks the provider.
LEMMA AskProviderInv == ASSUME StripeInv, AskProvider PROVE StripeInv'
<1>1. PICK u \in EventType : u = DeletedEvent
  BY DEF DeletedEvent, EventType, StripeStatuses
<1>2. u.tenant /\ u.status = "canceled" /\ EventFits(u)
  BY <1>1 DEF DeletedEvent, EventFits
<1>3. stripeLog' = Append(stripeLog, u) /\ stripeLog' \in Seq(EventType)
  BY <1>1 DEF AskProvider, StripeInv, StripeType
<1>4. /\ Len(stripeLog') = Len(stripeLog) + 1 /\ stripeLog'[Len(stripeLog')] = u
      /\ \A e \in 1..Len(stripeLog) : stripeLog'[e] = stripeLog[e]
  BY <1>3 DEF StripeInv, StripeType
<1>5. LogInv'
  BY <1>1, <1>2, <1>3, <1>4 DEF AskProvider, StripeInv, StripeType, LogInv
<1>6. Len(stripeLog) + 1 <= MaxEvents
  BY StripeAssumption DEF AskProvider, StripeInv, StripeType
<1>7. stripeStatus' \in StripeStatuses
  BY DEF AskProvider, StripeStatuses
<1> QED BY <1>1, <1>3, <1>4, <1>5, <1>6, <1>7, LogGrows DEF AskProvider, StripeInv, StripeType

\* An event is applied, once: its status is the row's if it is the newest.
LEMMA ApplyEventInv == ASSUME StripeInv, NEW h \in Hooks, ApplyEvent(h) PROVE StripeInv'
<1>1. PICK e \in 1..Len(stripeLog) : e = hook[h]
  BY DEF ApplyEvent, StripeInv, StripeType
<1>2. /\ e \notin billingEvent /\ billingEvent' = billingEvent \union {e}
      /\ applications' = [applications EXCEPT ![e] = @ + 1]
      /\ late' = (late \/ \E f \in billingEvent : f > e)
      /\ hook' = [hook EXCEPT ![h] = 0]
      /\ UNCHANGED <<stripeStatus, stripeLog, canceller>>
  BY <1>1 DEF ApplyEvent, Recordable
<1>3. e \in EventIds
  BY <1>1, StripeAssumption DEF EventIds, StripeInv, StripeType
<1>4. subStatus' = MapStripeStatus(stripeLog[e].status)
  BY <1>1, StatusFromFits DEF ApplyEvent, StripeInv, StripeType, LogInv
<1>5. StripeType'
  <2>1. applications' \in [EventIds -> Nat]
    BY <1>2, <1>3 DEF StripeInv, StripeType
  <2>2. hook' \in [Hooks -> 0..MaxEvents] /\ \A g \in Hooks : hook'[g] <= Len(stripeLog)
    BY <1>2, StripeAssumption DEF StripeInv, StripeType
  <2> QED BY <1>1, <1>2, <2>1, <2>2 DEF StripeInv, StripeType
<1>6. CountInv'
  BY <1>2, <1>3 DEF StripeInv, StripeType, CountInv
<1>7. LogInv'
  BY <1>2 DEF StripeInv, LogInv
<1>8. RowInv'
  <2> SUFFICES ASSUME ~late', NEW f \in billingEvent', \A g \in billingEvent' : g <= f
               PROVE  subStatus' = MapStripeStatus(stripeLog[f].status)
    BY <1>2 DEF RowInv
  <2>1. ~(\E g \in billingEvent : g > e)
    BY <1>2
  <2>2. e <= f /\ f \in 1..Len(stripeLog)
    BY <1>2, <1>1 DEF StripeInv, StripeType
  <2>3. f = e
    BY <1>1, <1>2, <2>1, <2>2
  <2> QED BY <2>3, <1>4
<1> QED BY <1>5, <1>6, <1>7, <1>8 DEF StripeInv

\* Deliveries that come and go, and the end of cancelSubscription.
LEMMA OtherStripeInv ==
  ASSUME StripeInv,
         \/ CancelLocally
         \/ \E h \in Hooks : ReceiveEvent(h) \/ DropDelivery(h)
         \/ UNCHANGED stripeVars
  PROVE  StripeInv'
<1>1. CASE CancelLocally
  <2>1. StripeType' /\ CountInv' /\ LogInv'
    BY <1>1 DEF CancelLocally, StripeInv, StripeType, CountInv, LogInv
  <2>2. RowInv'
    BY <1>1 DEF CancelLocally, StripeInv, RowInv, CancelledHere
  <2> QED BY <2>1, <2>2 DEF StripeInv
<1>2. ASSUME NEW h \in Hooks, ReceiveEvent(h) \/ DropDelivery(h) PROVE StripeInv'
  <2>1. PICK e \in 0..Len(stripeLog) : hook' = [hook EXCEPT ![h] = e]
    BY <1>2 DEF ReceiveEvent, DropDelivery, StripeInv, StripeType
  <2>2. UNCHANGED <<stripeStatus, stripeLog, subStatus, billingEvent, applications, canceller, late>>
    BY <1>2 DEF ReceiveEvent, DropDelivery
  <2>3. StripeType'
    BY <2>1, <2>2, StripeAssumption DEF StripeInv, StripeType
  <2> QED BY <2>2, <2>3 DEF StripeInv, CountInv, LogInv, RowInv, CancelledHere
<1>3. CASE UNCHANGED stripeVars
  BY <1>3 DEF stripeVars, StripeInv, StripeType, CountInv, LogInv, RowInv, CancelledHere
<1> QED BY <1>1, <1>2, <1>3

\* The invariant holds throughout every behaviour.
LEMMA StripeInvariant == StripeSpec => []StripeInv
<1>1. StripeInv /\ [StripeNext]_stripeVars => StripeInv'
  BY StripeUpdatesInv, StripePaymentFailsInv, AskProviderInv, ApplyEventInv, OtherStripeInv
  DEF StripeNext
<1> QED BY <1>1, StripeInitInv, PTL DEF StripeSpec

\* However often and how concurrently Stripe delivers an event, the transaction
\* with its BillingEvent row is committed once.
THEOREM EventsApplyOnce == StripeSpec => []EventAppliedOnce
<1>1. StripeInv => EventAppliedOnce
  BY DEF StripeInv, CountInv, EventAppliedOnce
<1> QED BY <1>1, StripeInvariant, PTL

\* When every event that names the tenant was applied, none late, the row has
\* Stripe's status.
THEOREM RowCatchesUp == StripeSpec => []CaughtUp
<1>1. StripeInv => CaughtUp
  <2> SUFFICES ASSUME StripeInv, ~late, canceller # "asked",
                      \A e \in 1..Len(stripeLog) : stripeLog[e].tenant => e \in billingEvent
               PROVE  subStatus = MapStripeStatus(stripeStatus)
    BY DEF CaughtUp
  <2>1. CASE CancelledHere
    BY <2>1, Mapped DEF CancelledHere, StripeInv, LogInv
  <2>2. CASE ~CancelledHere /\ Len(stripeLog) = 0
    <3>1. billingEvent = {} /\ stripeStatus = "trialing"
      BY <2>2 DEF StripeInv, StripeType, LogInv
    <3> QED BY <2>2, <3>1, Mapped DEF StripeInv, RowInv
  <2>3. CASE ~CancelledHere /\ Len(stripeLog) > 0
    <3>1. PICK n \in 1..Len(stripeLog) : n = Len(stripeLog)
      BY <2>3 DEF StripeInv, StripeType
    <3>2. n \in billingEvent /\ stripeLog[n].status = stripeStatus
      BY <2>3, <3>1 DEF StripeInv, LogInv
    <3>3. \A f \in billingEvent : f <= n
      BY <3>1 DEF StripeInv, StripeType
    <3> QED BY <2>3, <3>2, <3>3 DEF StripeInv, RowInv
  <2>4. Len(stripeLog) \in Nat
    BY DEF StripeInv, StripeType
  <2> QED BY <2>1, <2>2, <2>3, <2>4
<1> QED BY <1>1, StripeInvariant, PTL

\* Events take effect once and the status ends as Stripe's, for any number of
\* events and deliveries.
THEOREM EventsAlwaysSettle == StripeSpec => []EventsSettle
  BY EventsApplyOnce, RowCatchesUp, PTL DEF EventsSettle
-----------------------------------------------------------------------------
(* InventoryPush *)

\* The sum OnHand forms of a variant's balances, and the quantities there can be.
SumOf(b) ==
  LET sum[ls \in SUBSET Locations] ==
        IF ls = {} THEN 0
        ELSE LET l == CHOOSE x \in ls : TRUE IN b[l] + sum[ls \ {l}]
  IN  sum[Locations]

\* What OnHand can be, and what the shop shows before any push.
Quantities == {SumOf(b) : b \in [Locations -> Int]} \union {0}

\* What runInventoryPush may have computed: totals of the mapped variants.
Totals == UNION {[D -> Quantities] : D \in SUBSET Variants}

\* A push that is under way.
PushCallType ==
  [step : {"idle", "read", "push"}, todo : SUBSET Variants, total : Totals,
   refused : SUBSET Variants, alone : BOOLEAN]

\* The types, and what a push still has to send is mapped and was totalled.
PushType ==
  /\ balance \in [Variants -> [Locations -> Int]]
  /\ known \subseteq Variants
  /\ shown \in [Variants -> Quantities]
  /\ pushCall \in [PushCalls -> PushCallType]
  /\ \A c \in PushCalls :
       /\ pushCall[c].todo \subseteq known
       /\ pushCall[c].step = "push" => pushCall[c].todo \subseteq DOMAIN pushCall[c].total

\* No push is under way.
AllIdle == \A c \in PushCalls : pushCall[c].step = "idle"

\* A push that has run alone so far has the others idle, has read the stock as
\* it is, and the shop shows what it has sent and was not refused.
AloneInv ==
  \A c \in PushCalls : pushCall[c].alone =>
    /\ \A d \in PushCalls \ {c} : pushCall[d].step = "idle"
    /\ pushCall[c].step = "read" => pushCall[c].todo = known
    /\ pushCall[c].step = "push" =>
         \A v \in known :
           /\ pushCall[c].total[v] = OnHand(v)
           /\ v \in pushCall[c].todo \union pushCall[c].refused \/ shown[v] = OnHand(v)

\* The inductive invariant.
PushInv == PushType /\ AloneInv /\ (inLine => AllIdle) /\ PushSettles

\* A variant's total is one of Quantities.
LEMMA OnHandType ==
  ASSUME PushType, NEW v \in Variants
  PROVE  OnHand(v) \in Quantities
<1>1. OnHand(v) = SumOf(balance[v])
  BY DEF OnHand, SumOf
<1> QED BY <1>1 DEF PushType, Quantities

\* The idle push has its type.
LEMMA PushIdleType == PushIdle \in PushCallType
<1>1. [v \in {} |-> 0] \in [{} -> Quantities]
  OBVIOUS
<1>2. [v \in {} |-> 0] \in Totals
  BY <1>1 DEF Totals
<1> QED BY <1>2 DEF PushIdle, PushCallType

\* PushInv holds of a fresh connection.
LEMMA PushInitInv == PushInit => PushInv
<1> SUFFICES ASSUME PushInit PROVE PushInv
  OBVIOUS
<1>1. 0 \in Quantities
  BY DEF Quantities
<1>2. PushType
  BY <1>1, PushIdleType DEF PushInit, PushType, PushIdle
<1> QED BY <1>2 DEF PushInit, PushInv, AloneInv, PushSettles, PushIdle

\* Totals only move with balances.
LEMMA OnHandSame ==
  ASSUME balance' = balance
  PROVE  \A v \in Variants : OnHand(v)' = OnHand(v)
  BY DEF OnHand

\* Something else happens to stock or maps: no push is alone any more.
LEMMA DisturbInv ==
  ASSUME PushInv, Disturb, UNCHANGED shown,
         balance' \in [Variants -> [Locations -> Int]],
         known \subseteq known', known' \subseteq Variants
  PROVE  PushInv'
<1> USE DEF PushInv
<1>1. PushType'
  BY DEF PushType, PushCallType, Disturb
<1>2. \A c \in PushCalls : ~pushCall'[c].alone
  BY DEF PushType, PushCallType, Disturb
<1> QED BY <1>1, <1>2 DEF AloneInv, PushSettles, Disturb

\* Every step keeps PushInv.
LEMMA PushStep == PushInv /\ [PushNext]_pushVars => PushInv'
<1> SUFFICES ASSUME PushInv, [PushNext]_pushVars PROVE PushInv'
  OBVIOUS
<1> USE DEF PushInv
<1>1. ASSUME NEW v \in Variants, NEW l \in Locations, BalanceMoves(v, l) PROVE PushInv'
  BY <1>1, DisturbInv DEF BalanceMoves, PushType, PushCallType
<1>2. ASSUME NEW v \in Variants, MapVariant(v) PROVE PushInv'
  BY <1>2, DisturbInv DEF MapVariant, PushType, PushCallType
<1>3. ASSUME NEW c \in PushCalls, StartPush(c) PROVE PushInv'
  <2>1. PushType'
    <3>1. [PushIdle EXCEPT !.step = "read", !.todo = known, !.alone = FALSE] \in PushCallType
      BY PushIdleType DEF PushCallType, PushType
    <3> QED BY <1>3, <3>1 DEF StartPush, PushType, PushCallType, PushIdle
  <2>2. AloneInv'
    <3>1. \A d \in PushCalls \ {c} : pushCall'[d].step = pushCall[d].step /\ ~pushCall'[d].alone
      BY <1>3 DEF StartPush, PushType, PushCallType
    <3>2. /\ pushCall'[c].step = "read" /\ pushCall'[c].todo = known
          /\ pushCall'[c].alone => \A d \in PushCalls : pushCall[d].step = "idle"
      BY <1>3 DEF StartPush, PushIdle
    <3>3. known' = known
      BY <1>3 DEF StartPush
    <3>4. ASSUME NEW d \in PushCalls, pushCall'[d].alone PROVE d = c
      BY <3>1, <3>4
    <3>5. pushCall'[c].alone => \A d \in PushCalls \ {c} : pushCall'[d].step = "idle"
      BY <3>1, <3>2
    <3> QED BY <3>2, <3>3, <3>4, <3>5 DEF AloneInv
  <2> QED BY <1>3, <2>1, <2>2 DEF StartPush, PushSettles
<1>4. ASSUME NEW c \in PushCalls, ReadBalances(c) PROVE PushInv'
  <2>1. \A v \in Variants : OnHand(v)' = OnHand(v)
    BY <1>4, OnHandSame DEF ReadBalances
  <2>2. PushType'
    <3>1. [v \in pushCall[c].todo |-> OnHand(v)] \in [pushCall[c].todo -> Quantities]
      BY OnHandType DEF PushType, PushCallType
    <3>2. [v \in pushCall[c].todo |-> OnHand(v)] \in Totals
      BY <3>1 DEF Totals, PushType, PushCallType
    <3> QED BY <1>4, <3>2 DEF ReadBalances, PushType, PushCallType
  <2>3. AloneInv'
    BY <1>4, <2>1 DEF ReadBalances, PushType, PushCallType, AloneInv
  <2>4. ~inLine
    BY <1>4 DEF ReadBalances, AllIdle
  <2> QED BY <1>4, <2>2, <2>3, <2>4 DEF ReadBalances, PushSettles
<1>5. ASSUME NEW c \in PushCalls, PushOne(c) PROVE PushInv'
  <2>1. \A v \in Variants : OnHand(v)' = OnHand(v)
    BY <1>5, OnHandSame DEF PushOne
  <2>2. ~inLine /\ ~inLine'
    BY <1>5 DEF PushOne, AllIdle
  <2>3. PICK v \in pushCall[c].todo :
          \/ /\ shown' = [shown EXCEPT ![v] = pushCall[c].total[v]]
             /\ pushCall' = [pushCall EXCEPT ![c].todo = @ \ {v}]
          \/ /\ pushCall' = [pushCall EXCEPT ![c].todo = @ \ {v}, ![c].refused = @ \union {v}]
             /\ shown' \in {shown, [shown EXCEPT ![v] = pushCall[c].total[v]]}
    BY <1>5 DEF PushOne
  <2>4. PushType'
    <3>1. v \in Variants /\ pushCall[c].total[v] \in Quantities
      BY <1>5 DEF PushOne, PushType, PushCallType, Totals
    <3>2. shown' \in [Variants -> Quantities]
      BY <2>3, <3>1 DEF PushType
    <3>s. PICK r \in SUBSET Variants :
            pushCall' = [pushCall EXCEPT ![c].todo = @ \ {v}, ![c].refused = r]
      <4>1. CASE pushCall' = [pushCall EXCEPT ![c].todo = @ \ {v}]
        <5>1. pushCall' = [pushCall EXCEPT ![c].todo = @ \ {v},
                                           ![c].refused = pushCall[c].refused]
          BY <4>1 DEF PushType, PushCallType
        <5> QED BY <5>1 DEF PushType, PushCallType
      <4>2. CASE pushCall' = [pushCall EXCEPT ![c].todo = @ \ {v}, ![c].refused = @ \union {v}]
        <5>1. pushCall' = [pushCall EXCEPT ![c].todo = @ \ {v},
                                           ![c].refused = pushCall[c].refused \union {v}]
          BY <4>2 DEF PushType, PushCallType
        <5> QED BY <3>1, <5>1 DEF PushType, PushCallType
      <4> QED BY <2>3, <4>1, <4>2
    <3>3. pushCall' \in [PushCalls -> PushCallType]
      <4>1. [pushCall[c] EXCEPT !.todo = @ \ {v}, !.refused = r] \in PushCallType
        BY DEF PushType, PushCallType
      <4>2. pushCall' = [pushCall EXCEPT ![c] = [pushCall[c] EXCEPT !.todo = @ \ {v}, !.refused = r]]
        BY <3>s DEF PushType, PushCallType
      <4> QED BY <4>1, <4>2 DEF PushType
    <3>4. \A d \in PushCalls :
            /\ pushCall'[d].todo \subseteq pushCall[d].todo
            /\ pushCall'[d].step = pushCall[d].step /\ pushCall'[d].total = pushCall[d].total
      BY <3>s, <3>1 DEF PushType, PushCallType
    <3> QED BY <1>5, <3>2, <3>3, <3>4 DEF PushOne, PushType
  <2>5. \A d \in PushCalls \ {c} : pushCall'[d] = pushCall[d]
    BY <2>3 DEF PushType, PushCallType
  <2>6. /\ pushCall[c].step = "push"
        /\ pushCall'[c].step = pushCall[c].step /\ pushCall'[c].alone = pushCall[c].alone
        /\ pushCall'[c].total = pushCall[c].total
        /\ pushCall'[c].todo = pushCall[c].todo \ {v}
        /\ \/ pushCall'[c].refused = pushCall[c].refused \union {v}
           \/ pushCall'[c].refused = pushCall[c].refused /\ shown'[v] = pushCall[c].total[v]
        /\ \A w \in Variants \ {v} : shown'[w] = shown[w]
    BY <1>5, <2>3 DEF PushOne, PushType, PushCallType
  <2>7. AloneInv'
    BY <1>5, <2>1, <2>5, <2>6 DEF PushOne, PushType, PushCallType, AloneInv
  <2> QED BY <2>2, <2>4, <2>7 DEF PushSettles
<1>6. ASSUME NEW c \in PushCalls, FinishPush(c) PROVE PushInv'
  <2>1. \A v \in Variants : OnHand(v)' = OnHand(v)
    BY <1>6, OnHandSame DEF FinishPush
  <2>2. PushType'
    <3>1. pushCall' \in [PushCalls -> PushCallType]
      BY <1>6, PushIdleType DEF FinishPush, PushType
    <3> QED BY <1>6, <3>1 DEF FinishPush, PushType, PushIdle
  <2>3. AloneInv'
    BY <1>6, <2>1 DEF FinishPush, PushType, PushCallType, PushIdle, AloneInv
  <2>4. (inLine => AllIdle)' /\ PushSettles'
    BY <1>6, <2>1 DEF FinishPush, Succeeds, PushType, PushCallType, PushIdle, AloneInv, AllIdle, PushSettles
  <2> QED BY <2>2, <2>3, <2>4
<1>7. CASE UNCHANGED pushVars
  <2>1. \A v \in Variants : OnHand(v)' = OnHand(v)
    BY <1>7, OnHandSame DEF pushVars
  <2> QED BY <1>7, <2>1 DEF pushVars, PushType, PushCallType, AloneInv, AllIdle, PushSettles
<1> QED BY <1>1, <1>2, <1>3, <1>4, <1>5, <1>6, <1>7 DEF PushNext

\* A push that ran alone and succeeded leaves the shop with the stock of every
\* mapped variant, for any number of variants, locations and requests.
THEOREM PushesSettle == PushSpec => []PushSettles
<1>1. PushInv => PushSettles
  BY DEF PushInv
<1> QED BY <1>1, PushInitInv, PushStep, PTL DEF PushSpec
-----------------------------------------------------------------------------
(* Integrations *)

\* The statements of upsertProductIntoErp, named by the next one.
UpsertSteps == {"find", "create", "map", "variant", "createVariant", "link"}

\* A sync or a webhook that is under way.
SyncCallType ==
  [kind : {"none", "sync", "hook"},
   step : UpsertSteps \union {"idle", "pull", "finish", "report"},
   todo : SUBSET ShopProducts, product : ShopProducts \union {"none"},
   version : Nat, event : Nat, tries : Nat, ok : BOOLEAN, alone : BOOLEAN]

\* The types.
SyncType ==
  /\ shop \in [ShopProducts -> Nat]
  /\ shopEvents \in Seq([product : ShopProducts, version : Nat])
  /\ Len(shopEvents) <= MaxShopEvents
  /\ products \in [ShopProducts -> Nat]
  /\ mapped \subseteq ShopProducts
  /\ named \in [ShopProducts -> Nat \union {Merchant}]
  /\ variants \subseteq Skus
  /\ priced \in [Skus -> Nat \union {Merchant}]
  /\ linkedTo \in [ShopProducts -> Skus \union {"none"}]
  /\ delivery \in [1..MaxShopEvents -> {"absent", "received", "processed", "failed"}]
  /\ runs \in [1..MaxShopEvents -> Nat]
  /\ openJobs \in Int
  /\ syncCall \in [SyncCalls -> SyncCallType]
  /\ broken \in {"no", "job", "other"}

\* Which fields of a request are in use at which statement.
SyncShape(r) ==
  /\ r.step = "idle" => r.kind = "none" /\ ~r.alone
  /\ r.kind = "none" => r.step = "idle"
  /\ r.product # "none" <=> r.step \in UpsertSteps
  /\ r.kind = "hook" => r.event \in 1..MaxShopEvents /\ r.todo = {}
  /\ r.step \in {"pull", "report"} => r.kind = "sync"
  /\ r.step \in UpsertSteps \union {"pull"} => r.ok

\* Every request has that shape.
CallsShaped == \A c \in SyncCalls : SyncShape(syncCall[c])

\* Unless upserts of a product overlapped (twin), only one request has it in hand,
\* it finds it unmapped until it maps it, and a row or variant it relies on is there.
UpsertInv ==
  \A c \in SyncCalls :
    LET x == syncCall[c].product
    IN  /\ x # "none" =>
             \A d \in SyncCalls \ {c} : syncCall[d].product = x => x \in twin
        /\ syncCall[c].step \in {"create", "map"} => x \in twin \/ x \notin mapped
        /\ syncCall[c].step = "map" => products[x] >= 1
        /\ syncCall[c].step = "link" => SkuKey(x) \in variants

\* A Product row without a mapping belongs to the request that is about to map it.
ProductRowInv ==
  \A x \in ShopProducts :
    \/ x \in twin \/ x \in mapped \/ products[x] = 0
    \/ \E c \in SyncCalls : syncCall[c].step = "map" /\ syncCall[c].product = x

\* A webhook that is being processed has its WebhookDelivery row.
HookInv ==
  \A c \in SyncCalls :
    syncCall[c].kind = "hook" => delivery[syncCall[c].event] # "absent"

\* The syncs whose SyncJob row is RUNNING.
Jobs == {c \in SyncCalls : HasJob(c)}

\* The inductive invariant of TakenOverOnce.
TakenInv ==
  /\ SyncType /\ CallsShaped /\ UpsertInv /\ ProductRowInv /\ HookInv
  /\ IsFiniteSet(Jobs)
  /\ TakenOverOnce

\* The catalogue has what the shop says of a product.
Settled(x) ==
  /\ x \in mapped /\ named[x] = shop[x]
  /\ linkedTo[x] \in variants
  /\ x \notin unpriced => priced[linkedTo[x]] = shop[x]

\* What a sync that runs alone has done so far: every product it has left behind is
\* settled, and the one in hand as far as its statements have run.
AloneSync(c) ==
  LET r == syncCall[c]
  IN  /\ \A d \in SyncCalls \ {c} : syncCall[d].step = "idle"
      /\ r.kind = "sync" /\ r.ok =>
           /\ \A x \in ShopProducts : x \in r.todo \/ x = r.product \/ Settled(x)
           /\ r.step \in UpsertSteps => r.version = shop[r.product]
           /\ r.step \in {"variant", "createVariant", "link"} =>
                r.product \in mapped /\ named[r.product] = r.version
           /\ r.step \in {"finish", "report"} => r.todo = {}

\* The inductive invariant of SyncSettles.
SettleInv ==
  /\ TakenInv
  /\ \A c \in SyncCalls : syncCall[c].alone => AloneSync(c)
  /\ upToDate => \A c \in SyncCalls : syncCall[c].step = "idle"
  /\ SyncSettles

\* The idle request has its type and shape.
LEMMA SyncIdleType == SyncIdle \in SyncCallType /\ SyncShape(SyncIdle)
  BY DEF SyncIdle, SyncCallType, SyncShape, UpsertSteps

\* The shop has emitted nothing yet.
LEMMA EmptyEvents ==
  ASSUME NEW S
  PROVE  <<>> \in Seq(S) /\ Len(<<>>) = 0
  OBVIOUS

\* TakenInv holds of a connection that was just made.
LEMMA TakenInit == IntegrationsInit => TakenInv
<1> SUFFICES ASSUME IntegrationsInit PROVE TakenInv
  OBVIOUS
<1> USE IntegrationsAssumption DEF IntegrationsAssumption, IntegrationsInit
<1>1. SyncType
  <2>1. syncCall \in [SyncCalls -> SyncCallType]
    BY SyncIdleType
  <2>2. linkedTo \in [ShopProducts -> Skus \union {"none"}]
    OBVIOUS
  <2>3. Manual \subseteq Skus
    BY DEF Skus
  <2>4. <<>> \in Seq([product : ShopProducts, version : Nat]) /\ Len(<<>>) = 0
    BY ONLY EmptyEvents
  <2>5. shopEvents = <<>>
    OBVIOUS
  <2>6. /\ shop \in [ShopProducts -> Nat] /\ products \in [ShopProducts -> Nat]
        /\ mapped \subseteq ShopProducts
        /\ named \in [ShopProducts -> Nat \union {Merchant}]
        /\ priced \in [Skus -> Nat \union {Merchant}]
        /\ variants \subseteq Skus
    BY <2>3
  <2>7. /\ shopEvents \in Seq([product : ShopProducts, version : Nat])
        /\ Len(shopEvents) <= MaxShopEvents
    BY <2>4, <2>5
  <2>8. /\ delivery \in [1..MaxShopEvents -> {"absent", "received", "processed", "failed"}]
        /\ runs \in [1..MaxShopEvents -> Nat]
        /\ openJobs \in Int /\ broken \in {"no", "job", "other"}
    OBVIOUS
  <2> QED BY ONLY <2>1, <2>2, <2>6, <2>7, <2>8 DEF SyncType
<1>2. CallsShaped
  BY SyncIdleType DEF CallsShaped
<1>3. UpsertInv /\ ProductRowInv /\ HookInv
  BY DEF UpsertInv, ProductRowInv, HookInv, SyncIdle
<1>4. Jobs = {}
  BY DEF Jobs, HasJob, SyncIdle
<1>5. IsFiniteSet(Jobs) /\ Cardinality(Jobs) = 0
  BY <1>4, FS_EmptySet
<1>6. TakenOverOnce
  <2>1. OneProductPerExternal
    BY DEF OneProductPerExternal
  <2>2. TakenUpOnce
    BY DEF TakenUpOnce
  <2>3. JobsAccounted
    BY <1>5 DEF JobsAccounted, Jobs
  <2> QED BY <2>1, <2>2, <2>3 DEF TakenOverOnce
<1> QED BY <1>1, <1>2, <1>3, <1>5, <1>6 DEF TakenInv

\* One call takes a step, the others stay.
LEMMA SyncCallStep ==
  ASSUME SyncType, CallsShaped, NEW c \in SyncCalls, NEW r \in SyncCallType,
         SyncShape(r), syncCall' = [syncCall EXCEPT ![c] = r]
  PROVE  /\ syncCall' \in [SyncCalls -> SyncCallType]
         /\ CallsShaped'
         /\ syncCall'[c] = r
         /\ \A d \in SyncCalls \ {c} : syncCall'[d] = syncCall[d]
<1>1. /\ syncCall' \in [SyncCalls -> SyncCallType]
      /\ syncCall'[c] = r
      /\ \A d \in SyncCalls \ {c} : syncCall'[d] = syncCall[d]
  BY DEF SyncType
<1>2. \A d \in SyncCalls : SyncShape(syncCall'[d])
  BY <1>1 DEF CallsShaped
<1> QED BY <1>1, <1>2 DEF CallsShaped, SyncShape

\* A request that begins takes the slot's record and leaves the others' work alone.
LEMMA SyncBegins ==
  ASSUME SyncType, CallsShaped, NEW c \in SyncCalls, NEW call \in SyncCallType,
         SyncShape(call), call.step # "idle", BeginSync(c, call)
  PROVE  /\ syncCall' \in [SyncCalls -> SyncCallType]
         /\ CallsShaped'
         /\ /\ syncCall'[c].kind = call.kind /\ syncCall'[c].step = call.step
            /\ syncCall'[c].todo = call.todo /\ syncCall'[c].product = call.product
            /\ syncCall'[c].version = call.version /\ syncCall'[c].event = call.event
            /\ syncCall'[c].ok = call.ok
         /\ \A d \in SyncCalls \ {c} :
              /\ syncCall'[d].kind = syncCall[d].kind /\ syncCall'[d].step = syncCall[d].step
              /\ syncCall'[d].todo = syncCall[d].todo
              /\ syncCall'[d].product = syncCall[d].product
              /\ syncCall'[d].version = syncCall[d].version
              /\ syncCall'[d].event = syncCall[d].event
              /\ syncCall'[d].ok = syncCall[d].ok
              /\ ~syncCall'[d].alone
         /\ syncCall'[c].alone => \A d \in SyncCalls \ {c} : syncCall[d].step = "idle"
<1> DEFINE others == {d \in SyncCalls : syncCall[d].step # "idle"}
           next(d) == IF d = c THEN [call EXCEPT !.alone = (others = {})]
                      ELSE IF d \in others THEN [syncCall[d] EXCEPT !.alone = FALSE]
                      ELSE syncCall[d]
<1>1. syncCall' = [d \in SyncCalls |-> next(d)]
  BY DEF BeginSync
<1>2. /\ next(c) \in SyncCallType
      /\ next(c).kind = call.kind /\ next(c).step = call.step
      /\ next(c).todo = call.todo /\ next(c).product = call.product
      /\ next(c).version = call.version /\ next(c).event = call.event
      /\ next(c).ok = call.ok
      /\ next(c).alone => others = {}
  BY DEF SyncCallType
<1>3. ASSUME NEW d \in SyncCalls \ {c}
      PROVE  /\ next(d) \in SyncCallType
             /\ next(d).kind = syncCall[d].kind /\ next(d).step = syncCall[d].step
             /\ next(d).todo = syncCall[d].todo /\ next(d).product = syncCall[d].product
             /\ next(d).version = syncCall[d].version /\ next(d).event = syncCall[d].event
             /\ next(d).ok = syncCall[d].ok
             /\ ~next(d).alone
  <2>1. syncCall[d] \in SyncCallType /\ SyncShape(syncCall[d])
    BY DEF SyncType, CallsShaped
  <2>2. CASE d \in others
    BY <2>1, <2>2 DEF SyncCallType
  <2>3. CASE d \notin others
    BY <2>1, <2>3 DEF SyncShape
  <2> QED BY <2>2, <2>3
<1>4. \A d \in SyncCalls : syncCall'[d] = next(d)
  BY <1>1
<1> HIDE DEF next
<1>5. syncCall' \in [SyncCalls -> SyncCallType]
  BY <1>1, <1>2, <1>3
<1>6. ASSUME NEW d \in SyncCalls PROVE SyncShape(syncCall'[d])
  <2>1. CASE d = c
    BY <2>1, <1>2, <1>4 DEF SyncShape
  <2>2. CASE d # c
    <3>1. SyncShape(syncCall[d])
      BY DEF CallsShaped
    <3> QED BY <2>2, <3>1, <1>3, <1>4 DEF SyncShape
  <2> QED BY <2>1, <2>2
<1>7. CallsShaped'
  BY <1>6 DEF CallsShaped, SyncShape
<1> QED BY <1>2, <1>3, <1>4, <1>5, <1>7

\* The count of RUNNING jobs stays when no request opens or closes one.
LEMMA JobsStay ==
  ASSUME TakenInv, \A d \in SyncCalls : HasJob(d)' <=> HasJob(d),
         UNCHANGED <<openJobs, broken>>
  PROVE  IsFiniteSet(Jobs)' /\ JobsAccounted'
<1>1. Jobs' = Jobs
  BY DEF Jobs
<1> QED BY <1>1 DEF TakenInv, TakenOverOnce, JobsAccounted, Jobs

\* A request that inserts its SyncJob row is counted.
LEMMA JobOpens ==
  ASSUME TakenInv, NEW c \in SyncCalls, ~HasJob(c), HasJob(c)',
         \A d \in SyncCalls \ {c} : HasJob(d)' <=> HasJob(d),
         openJobs' = openJobs + 1, UNCHANGED broken
  PROVE  IsFiniteSet(Jobs)' /\ JobsAccounted'
<1>1. Jobs' = Jobs \union {c} /\ c \notin Jobs
  BY DEF Jobs
<1>2. IsFiniteSet(Jobs') /\ Cardinality(Jobs') = Cardinality(Jobs) + 1
  BY <1>1, FS_AddElement DEF TakenInv
<1>3. Cardinality(Jobs) \in Nat
  BY FS_CardinalityType DEF TakenInv
<1> QED BY <1>2, <1>3 DEF TakenInv, TakenOverOnce, JobsAccounted, Jobs

\* A request that closes its job, or breaks off with it, is no longer counted.
LEMMA JobCloses ==
  ASSUME TakenInv, NEW c \in SyncCalls, HasJob(c), ~HasJob(c)',
         \A d \in SyncCalls \ {c} : HasJob(d)' <=> HasJob(d),
         \/ openJobs' = openJobs - 1 /\ UNCHANGED broken
         \/ UNCHANGED openJobs /\ broken = "no" /\ broken' = "job"
  PROVE  IsFiniteSet(Jobs)' /\ JobsAccounted'
<1>1. Jobs' = Jobs \ {c} /\ c \in Jobs
  BY DEF Jobs
<1>2. IsFiniteSet(Jobs') /\ Cardinality(Jobs') = Cardinality(Jobs) - 1
  BY <1>1, FS_RemoveElement DEF TakenInv
<1>3. Cardinality(Jobs) \in Nat
  BY FS_CardinalityType DEF TakenInv
<1> QED BY <1>2, <1>3 DEF TakenInv, TakenOverOnce, JobsAccounted, Jobs

\* A call takes a step that makes no row: the rows there are stay accounted for.
LEMMA RowsStay ==
  ASSUME TakenInv, NEW c \in SyncCalls, NEW r \in SyncCallType,
         syncCall'[c] = r, \A d \in SyncCalls \ {c} : syncCall'[d] = syncCall[d],
         UNCHANGED <<products, mapped, variants, linkedTo>>,
         twin \subseteq twin',
         \/ r.product \in {"none", syncCall[c].product}
         \/ \A d \in SyncCalls \ {c} : syncCall[d].product = r.product => r.product \in twin',
         r.step = "create" => r.product \notin mapped,
         r.step # "map",
         syncCall[c].step = "map" => syncCall[c].product \in mapped \union twin',
         r.step = "link" => SkuKey(r.product) \in variants
  PROVE  UpsertInv' /\ ProductRowInv' /\ OneProductPerExternal'
<1> USE DEF TakenInv
<1>1. UpsertInv'
  <2> SUFFICES ASSUME NEW d \in SyncCalls
               PROVE  /\ syncCall'[d].product # "none" =>
                           \A e \in SyncCalls \ {d} :
                              syncCall'[e].product = syncCall'[d].product =>
                                syncCall'[d].product \in twin'
                      /\ syncCall'[d].step \in {"create", "map"} =>
                           syncCall'[d].product \in twin' \/ syncCall'[d].product \notin mapped'
                      /\ syncCall'[d].step = "map" => products'[syncCall'[d].product] >= 1
                      /\ syncCall'[d].step = "link" => SkuKey(syncCall'[d].product) \in variants'
    BY DEF UpsertInv, SkuKey
  <2>1. CASE d = c
    BY <2>1 DEF UpsertInv
  <2>2. CASE d # c
    BY <2>2 DEF UpsertInv
  <2> QED BY <2>1, <2>2
<1>2. ProductRowInv'
  BY DEF ProductRowInv
<1>3. OneProductPerExternal'
  BY DEF TakenOverOnce, OneProductPerExternal, SkuKey
<1> QED BY <1>1, <1>2, <1>3

\* A call goes on with its event, or ends: the deliveries stay accounted for.
LEMMA HooksStay ==
  ASSUME TakenInv, NEW c \in SyncCalls, NEW r \in SyncCallType,
         syncCall'[c] = r, \A d \in SyncCalls \ {c} : syncCall'[d] = syncCall[d],
         UNCHANGED hookVars,
         r.kind = "hook" => syncCall[c].kind = "hook" /\ r.event = syncCall[c].event
  PROVE  HookInv' /\ TakenUpOnce'
<1>1. HookInv'
  BY DEF TakenInv, HookInv, hookVars
<1>2. TakenUpOnce'
  BY DEF TakenInv, TakenOverOnce, TakenUpOnce, hookVars
<1> QED BY <1>1, <1>2

\* runProductSync begins.
LEMMA StartSyncTaken ==
  ASSUME TakenInv, NEW c \in SyncCalls, StartSync(c) PROVE TakenInv'
<1> USE DEF TakenInv
<1> DEFINE call == [SyncIdle EXCEPT !.kind = "sync", !.step = "pull", !.todo = ShopProducts]
<1>1. /\ call \in SyncCallType /\ SyncShape(call) /\ call.step = "pull"
      /\ call.product = "none" /\ call.kind = "sync"
  BY DEF SyncIdle, SyncCallType, SyncShape, UpsertSteps
<1>2. BeginSync(c, call) /\ syncCall[c].step = "idle"
  BY DEF StartSync, BeginSync
<1> HIDE DEF call
<1>3. /\ syncCall' \in [SyncCalls -> SyncCallType] /\ CallsShaped'
      /\ syncCall'[c].step = "pull" /\ syncCall'[c].product = "none"
      /\ syncCall'[c].kind = "sync"
      /\ \A d \in SyncCalls \ {c} :
           /\ syncCall'[d].kind = syncCall[d].kind /\ syncCall'[d].step = syncCall[d].step
           /\ syncCall'[d].product = syncCall[d].product
           /\ syncCall'[d].event = syncCall[d].event
  BY <1>1, <1>2, SyncBegins
<1>4. syncCall[c].product = "none" /\ syncCall[c].kind = "none"
  BY <1>2 DEF CallsShaped, SyncShape, UpsertSteps
<1>u. UNCHANGED <<shop, shopEvents, products, mapped, named, variants, priced, linkedTo,
                  delivery, runs, broken, twin>> /\ openJobs' = openJobs + 1
  BY DEF StartSync, shopVars, catalogVars, hookVars
<1>5. SyncType'
  BY <1>3, <1>u DEF SyncType
<1>6. UpsertInv' /\ ProductRowInv' /\ HookInv'
  <2>1. UpsertInv'
    BY <1>3, <1>4, <1>u DEF UpsertInv, SkuKey
  <2>2. ProductRowInv'
    BY <1>3, <1>2, <1>u DEF ProductRowInv
  <2>3. HookInv'
    BY <1>3, <1>4, <1>u DEF HookInv
  <2> QED BY <2>1, <2>2, <2>3
<1>7. OneProductPerExternal' /\ TakenUpOnce'
  BY <1>u DEF TakenOverOnce, OneProductPerExternal, TakenUpOnce, SkuKey
<1>8. ~HasJob(c) /\ HasJob(c)' /\ \A d \in SyncCalls \ {c} : HasJob(d)' <=> HasJob(d)
  BY <1>3, <1>4 DEF HasJob
<1>9. IsFiniteSet(Jobs)' /\ JobsAccounted'
  BY <1>8, <1>u, JobOpens
<1> QED BY <1>3, <1>5, <1>6, <1>7, <1>9 DEF TakenOverOnce

\* handleWebhook begins, takes the delivery up, or answers a duplicate.
LEMMA WebhookTaken ==
  ASSUME TakenInv, NEW c \in SyncCalls, ReceiveWebhook(c) PROVE TakenInv'
<1> USE DEF TakenInv
<1>1. PICK e \in 1..Len(shopEvents) :
        /\ NewDelivery(e)
        /\ BeginSync(c, [SyncIdle EXCEPT !.kind = "hook", !.step = "find", !.event = e,
              !.product = shopEvents[e].product, !.version = shopEvents[e].version])
        /\ delivery' = [delivery EXCEPT ![e] = "received"]
        /\ runs' = [runs EXCEPT ![e] = @ + 1]
        /\ twin' = IF \E d \in SyncCalls \ {c} : syncCall[d].product = shopEvents[e].product
                     THEN twin \union {shopEvents[e].product} ELSE twin
  BY DEF ReceiveWebhook
<1> DEFINE x == shopEvents[e].product
           call == [SyncIdle EXCEPT !.kind = "hook", !.step = "find", !.event = e,
                      !.product = x, !.version = shopEvents[e].version]
<1>2. shopEvents[e] \in [product : ShopProducts, version : Nat] /\ e \in 1..MaxShopEvents
  <2>1. shopEvents[e] \in [product : ShopProducts, version : Nat]
    BY ElementOfSeq DEF SyncType
  <2>2. Len(shopEvents) \in Nat
    BY LenProperties DEF SyncType
  <2>3. e \in 1..MaxShopEvents
    BY <2>2, IntegrationsAssumption DEF SyncType
  <2> QED BY <2>1, <2>3
<1>3. /\ call \in SyncCallType /\ SyncShape(call) /\ call.step = "find"
      /\ call.product = x /\ call.kind = "hook" /\ call.event = e
      /\ x \in ShopProducts /\ x # "none"
  <2>1. /\ x \in ShopProducts /\ x # "none" /\ shopEvents[e].version \in Nat
        /\ e \in Nat
    BY <1>2, IntegrationsAssumption
  <2> HIDE DEF x
  <2> QED BY <2>1, <1>2 DEF SyncIdle, SyncCallType, SyncShape, UpsertSteps
<1>4. BeginSync(c, call) /\ syncCall[c].step = "idle"
  BY <1>1 DEF BeginSync
<1>t. twin' = IF \E d \in SyncCalls \ {c} : syncCall[d].product = x
                     THEN twin \union {x} ELSE twin
  BY <1>1
<1> HIDE DEF call, x
<1>5. /\ syncCall' \in [SyncCalls -> SyncCallType] /\ CallsShaped'
      /\ syncCall'[c].step = "find" /\ syncCall'[c].product = x
      /\ syncCall'[c].kind = "hook" /\ syncCall'[c].event = e
      /\ \A d \in SyncCalls \ {c} :
           /\ syncCall'[d].kind = syncCall[d].kind /\ syncCall'[d].step = syncCall[d].step
           /\ syncCall'[d].product = syncCall[d].product
           /\ syncCall'[d].event = syncCall[d].event
  BY <1>3, <1>4, SyncBegins
<1>6. syncCall[c].product = "none" /\ syncCall[c].kind = "none"
  BY <1>4 DEF CallsShaped, SyncShape, UpsertSteps
<1>u. UNCHANGED <<shop, shopEvents, products, mapped, named, variants, priced, linkedTo,
                  broken, openJobs>>
  BY DEF ReceiveWebhook, shopVars, catalogVars
<1>7. runs[e] \in Nat /\ runs[e] + 1 \in Nat
  BY <1>2 DEF SyncType
<1>8. /\ runs' \in [1..MaxShopEvents -> Nat]
      /\ delivery' \in [1..MaxShopEvents -> {"absent", "received", "processed", "failed"}]
  BY <1>1, <1>2, <1>7 DEF SyncType
<1>9. SyncType'
  BY <1>5, <1>8, <1>u DEF SyncType
<1>10. UpsertInv' /\ ProductRowInv'
  <2>1. UpsertInv'
    BY <1>3, <1>5, <1>6, <1>u, <1>t DEF UpsertInv, SkuKey
  <2>2. ProductRowInv'
    BY <1>5, <1>4, <1>u, <1>t DEF ProductRowInv
  <2> QED BY <2>1, <2>2
<1>11. HookInv' /\ TakenUpOnce'
  <2>1. delivery[e] = "absent" /\ runs[e] = 0
    BY <1>1, <1>2 DEF NewDelivery, TakenOverOnce, TakenUpOnce
  <2>2. /\ delivery'[e] = "received" /\ runs'[e] = 1
        /\ \A f \in 1..MaxShopEvents : f # e => delivery'[f] = delivery[f] /\ runs'[f] = runs[f]
    BY <1>1, <1>2, <2>1 DEF SyncType
  <2>3. TakenUpOnce'
    BY <2>2 DEF TakenOverOnce, TakenUpOnce
  <2>4. \A d \in SyncCalls : syncCall[d].kind = "hook" => syncCall[d].event \in 1..MaxShopEvents
    BY DEF CallsShaped, SyncShape
  <2>5. HookInv'
    BY <2>2, <2>4, <1>5 DEF HookInv
  <2> QED BY <2>3, <2>5
<1>12. OneProductPerExternal'
  BY <1>u, <1>t DEF TakenOverOnce, OneProductPerExternal, SkuKey
<1>13. \A d \in SyncCalls : HasJob(d)' <=> HasJob(d)
  BY <1>5, <1>6 DEF HasJob
<1>14. IsFiniteSet(Jobs)' /\ JobsAccounted'
  BY <1>13, <1>u, JobsStay
<1> QED BY <1>5, <1>9, <1>10, <1>11, <1>12, <1>14 DEF TakenOverOnce

\* The shop changes a product and emits an event.
LEMMA ShopChangesTaken ==
  ASSUME TakenInv, NEW x \in ShopProducts, ShopChanges(x) PROVE TakenInv'
<1> USE DEF TakenInv
<1>u. UNCHANGED <<products, mapped, named, variants, priced, linkedTo,
                  delivery, runs, broken, openJobs, twin>>
  BY DEF ShopChanges, hookVars, catalogVars
<1>1. ASSUME NEW d \in SyncCalls
      PROVE  /\ syncCall'[d] \in SyncCallType
             /\ SyncShape(syncCall'[d])
             /\ syncCall'[d].kind = syncCall[d].kind /\ syncCall'[d].step = syncCall[d].step
             /\ syncCall'[d].product = syncCall[d].product
             /\ syncCall'[d].event = syncCall[d].event
             /\ ~syncCall'[d].alone
  <2>1. syncCall'[d] = [syncCall[d] EXCEPT !.alone = FALSE]
    BY DEF ShopChanges
  <2>2. syncCall[d] \in SyncCallType /\ SyncShape(syncCall[d])
    BY DEF SyncType, CallsShaped
  <2> DEFINE r == [syncCall[d] EXCEPT !.alone = FALSE]
  <2>3. /\ r \in SyncCallType /\ ~r.alone
        /\ r.kind = syncCall[d].kind /\ r.step = syncCall[d].step
        /\ r.product = syncCall[d].product /\ r.event = syncCall[d].event
        /\ r.todo = syncCall[d].todo /\ r.ok = syncCall[d].ok
    BY <2>2 DEF SyncCallType
  <2>4. SyncShape(r)
    BY <2>2, <2>3 DEF SyncShape
  <2> HIDE DEF r
  <2>5. syncCall'[d] = r
    BY <2>1 DEF r
  <2> QED BY <2>3, <2>4, <2>5
<1>2. syncCall' \in [SyncCalls -> SyncCallType]
  <2>1. syncCall' = [d \in SyncCalls |-> [syncCall[d] EXCEPT !.alone = FALSE]]
    BY DEF ShopChanges
  <2> QED BY <2>1, <1>1
<1>3. CallsShaped'
  BY <1>1 DEF CallsShaped, SyncShape
<1>4. SyncType'
  <2>1. shop[x] + 1 \in Nat
    BY DEF SyncType
  <2>2. shop' \in [ShopProducts -> Nat]
    BY <2>1 DEF ShopChanges, SyncType
  <2>3. [product |-> x, version |-> shop[x] + 1] \in [product : ShopProducts, version : Nat]
    BY <2>1
  <2>4. /\ shopEvents' \in Seq([product : ShopProducts, version : Nat])
        /\ Len(shopEvents') = Len(shopEvents) + 1
    BY <2>3, AppendProperties DEF ShopChanges, SyncType
  <2>5. Len(shopEvents') <= MaxShopEvents
    BY <2>4, LenProperties, IntegrationsAssumption DEF ShopChanges, SyncType
  <2> QED BY <2>2, <2>4, <2>5, <1>2, <1>u DEF SyncType
<1>5. UpsertInv' /\ ProductRowInv' /\ HookInv'
  <2>1. UpsertInv'
    BY <1>1, <1>u DEF UpsertInv, SkuKey
  <2>2. ProductRowInv'
    BY <1>1, <1>u DEF ProductRowInv
  <2>3. HookInv'
    BY <1>1, <1>u DEF HookInv
  <2> QED BY <2>1, <2>2, <2>3
<1>6. OneProductPerExternal' /\ TakenUpOnce'
  BY <1>u DEF TakenOverOnce, OneProductPerExternal, TakenUpOnce, SkuKey
<1>7. \A d \in SyncCalls : HasJob(d)' <=> HasJob(d)
  BY <1>1 DEF HasJob
<1>8. IsFiniteSet(Jobs)' /\ JobsAccounted'
  BY <1>7, <1>u, JobsStay
<1> QED BY <1>3, <1>4, <1>5, <1>6, <1>8 DEF TakenOverOnce

\* The two together, for the steps that leave the jobs alone too.
LEMMA QuietTaken ==
  ASSUME TakenInv, NEW c \in SyncCalls, NEW r \in SyncCallType, SyncShape(r),
         syncCall' = [syncCall EXCEPT ![c] = r],
         UNCHANGED <<products, mapped, variants, linkedTo, shop, shopEvents, delivery,
                     runs, openJobs, broken>>,
         named' \in [ShopProducts -> Nat \union {Merchant}],
         priced' \in [Skus -> Nat \union {Merchant}],
         twin \subseteq twin',
         \/ r.product \in {"none", syncCall[c].product}
         \/ \A d \in SyncCalls \ {c} : syncCall[d].product = r.product => r.product \in twin',
         r.step = "create" => r.product \notin mapped,
         r.step # "map",
         syncCall[c].step = "map" => syncCall[c].product \in mapped \union twin',
         r.step = "link" => SkuKey(r.product) \in variants,
         r.kind = "hook" => r.event = syncCall[c].event,
         \/ r.kind = syncCall[c].kind /\ r.step # "report" /\ syncCall[c].step # "report"
         \/ r.kind = "none" /\ syncCall[c].step = "report"
  PROVE  TakenInv'
<1> USE DEF TakenInv
<1>1. /\ syncCall' \in [SyncCalls -> SyncCallType] /\ CallsShaped'
      /\ syncCall'[c] = r
      /\ \A d \in SyncCalls \ {c} : syncCall'[d] = syncCall[d]
  BY SyncCallStep
<1>2. SyncType'
  BY <1>1 DEF SyncType
<1>3. UpsertInv' /\ ProductRowInv' /\ OneProductPerExternal'
  BY <1>1, RowsStay
<1>4. HookInv' /\ TakenUpOnce'
  BY <1>1, HooksStay DEF hookVars
<1>5. \A d \in SyncCalls : HasJob(d)' <=> HasJob(d)
  BY <1>1 DEF HasJob
<1>6. IsFiniteSet(Jobs)' /\ JobsAccounted'
  BY <1>5, JobsStay
<1> QED BY <1>1, <1>2, <1>3, <1>4, <1>6 DEF TakenOverOnce

\* The next product of a page: what the request becomes.
LEMMA PullPageStep ==
  ASSUME SyncType, CallsShaped, NEW c \in SyncCalls, PullPage(c)
  PROVE  \E x \in ShopProducts, r \in SyncCallType :
           /\ x # "none" /\ x \in syncCall[c].todo
           /\ SyncShape(r) /\ syncCall' = [syncCall EXCEPT ![c] = r] /\ r.step = "find"
           /\ r.kind = syncCall[c].kind /\ r.product = x /\ r.version = shop[x]
           /\ r.event = syncCall[c].event /\ r.todo = syncCall[c].todo \ {x}
           /\ r.alone = syncCall[c].alone
           /\ twin' = IF \E d \in SyncCalls \ {c} : syncCall[d].product = x
                        THEN twin \union {x} ELSE twin
<1>0. syncCall[c] \in SyncCallType /\ SyncShape(syncCall[c]) /\ syncCall[c].step = "pull"
  BY DEF SyncType, CallsShaped, PullPage
<1>1. PICK x \in syncCall[c].todo :
        /\ syncCall' = [syncCall EXCEPT ![c].step = "find", ![c].product = x,
                          ![c].version = shop[x], ![c].todo = @ \ {x}, ![c].tries = 0]
        /\ twin' = IF \E d \in SyncCalls \ {c} : syncCall[d].product = x
                     THEN twin \union {x} ELSE twin
  BY DEF PullPage
<1> DEFINE r == [syncCall[c] EXCEPT !.step = "find", !.product = x, !.version = shop[x],
                                    !.todo = syncCall[c].todo \ {x}, !.tries = 0]
<1>2. x \in ShopProducts /\ x # "none" /\ shop[x] \in Nat
  BY <1>0, IntegrationsAssumption DEF SyncCallType, SyncType
<1>3. /\ r \in SyncCallType /\ r.step = "find" /\ r.product = x /\ r.version = shop[x]
      /\ r.kind = syncCall[c].kind /\ r.event = syncCall[c].event /\ r.kind = "sync"
      /\ r.ok /\ r.todo = syncCall[c].todo \ {x} /\ r.alone = syncCall[c].alone
  BY <1>0, <1>2 DEF SyncCallType, SyncShape, UpsertSteps
<1>4. SyncShape(r)
  BY <1>2, <1>3 DEF SyncShape, UpsertSteps
<1>5. syncCall' = [syncCall EXCEPT ![c] = r]
  BY <1>1, <1>0 DEF SyncType, SyncCallType
<1> HIDE DEF r
<1> QED BY <1>1, <1>2, <1>3, <1>4, <1>5

\* A page that cannot be read: the request tries again or gives up.
LEMMA PullFailsStep ==
  ASSUME SyncType, CallsShaped, NEW c \in SyncCalls, PullFails(c)
  PROVE  \E r \in SyncCallType :
           /\ SyncShape(r) /\ syncCall' = [syncCall EXCEPT ![c] = r]
           /\ r.step \in {"pull", "finish"} /\ (r.ok => r.step = "pull")
           /\ r.kind = syncCall[c].kind /\ r.product = "none"
           /\ r.event = syncCall[c].event /\ r.todo = syncCall[c].todo
           /\ r.alone = syncCall[c].alone
<1>0. syncCall[c] \in SyncCallType /\ SyncShape(syncCall[c]) /\ syncCall[c].step = "pull"
  BY DEF SyncType, CallsShaped, PullFails
<1> DEFINE again == AnotherTry(c)
           r == [syncCall[c] EXCEPT !.tries = syncCall[c].tries + 1,
                   !.step = IF again THEN "pull" ELSE "finish", !.ok = again]
<1>1. again \in BOOLEAN
  BY DEF AnotherTry
<1> HIDE DEF again
<1>3. /\ r \in SyncCallType /\ r.step \in {"pull", "finish"} /\ r.product = "none"
      /\ r.kind = syncCall[c].kind /\ r.event = syncCall[c].event /\ r.kind = "sync"
      /\ r.ok <=> r.step = "pull"
      /\ r.todo = syncCall[c].todo /\ r.alone = syncCall[c].alone
  <2>1. syncCall[c].tries + 1 \in Nat
    BY <1>0 DEF SyncCallType
  <2> QED BY <1>0, <1>1, <2>1 DEF SyncCallType, SyncShape, UpsertSteps
<1>4. SyncShape(r)
  BY <1>3 DEF SyncShape, UpsertSteps
<1>5. syncCall' = [syncCall EXCEPT ![c] = r]
  BY <1>0 DEF SyncType, SyncCallType, PullFails, again
<1> HIDE DEF r
<1> QED BY <1>3, <1>4, <1>5

\* The job is closed: what the request becomes.
LEMMA FinishJobStep ==
  ASSUME SyncType, CallsShaped, NEW c \in SyncCalls, FinishJob(c)
  PROVE  /\ syncCall[c].step = "finish" /\ syncCall[c].kind = "sync"
         /\ syncCall[c].product = "none"
         /\ \E r \in SyncCallType :
              /\ SyncShape(r) /\ syncCall' = [syncCall EXCEPT ![c] = r] /\ r.step = "report"
              /\ r.kind = "sync" /\ r.product = "none" /\ r.todo = syncCall[c].todo
              /\ r.ok = syncCall[c].ok /\ r.alone = syncCall[c].alone
<1> DEFINE r == [syncCall[c] EXCEPT !.step = "report"]
<1>0. /\ syncCall[c] \in SyncCallType /\ SyncShape(syncCall[c])
      /\ syncCall[c].step = "finish" /\ syncCall[c].kind = "sync"
      /\ syncCall[c].product = "none"
  BY DEF SyncType, CallsShaped, FinishJob, SyncShape, SyncCallType, UpsertSteps
<1>1. /\ r \in SyncCallType /\ r.step = "report" /\ r.kind = "sync" /\ r.product = "none"
      /\ r.todo = syncCall[c].todo /\ r.ok = syncCall[c].ok /\ r.alone = syncCall[c].alone
  BY <1>0 DEF SyncCallType
<1>2. syncCall' = [syncCall EXCEPT ![c] = r]
  BY <1>0 DEF FinishJob, Then, SyncType, SyncCallType
<1> HIDE DEF r
<1>3. SyncShape(r)
  BY <1>1 DEF SyncShape, UpsertSteps
<1> QED BY <1>0, <1>1, <1>2, <1>3

\* Reading a page keeps TakenInv.
LEMMA PullTaken ==
  ASSUME TakenInv, NEW c \in SyncCalls, PullPage(c) \/ PullFails(c) PROVE TakenInv'
<1> USE DEF TakenInv
<1>0. syncCall[c].step = "pull"
  BY DEF PullPage, PullFails
<1>u. UNCHANGED <<products, mapped, variants, linkedTo, shop, shopEvents, delivery,
                  runs, openJobs, broken, named, priced>>
  BY DEF PullPage, PullFails, hookVars, catalogVars, shopVars
<1>t. /\ named' \in [ShopProducts -> Nat \union {Merchant}]
      /\ priced' \in [Skus -> Nat \union {Merchant}]
  BY <1>u DEF SyncType
<1>1. CASE PullPage(c)
  <2>1. PICK x \in ShopProducts, r \in SyncCallType :
          /\ SyncShape(r) /\ syncCall' = [syncCall EXCEPT ![c] = r] /\ r.step = "find"
          /\ r.kind = syncCall[c].kind /\ r.product = x /\ r.event = syncCall[c].event
          /\ twin' = IF \E d \in SyncCalls \ {c} : syncCall[d].product = x
                       THEN twin \union {x} ELSE twin
    BY <1>1, PullPageStep
  <2>2. /\ twin \subseteq twin'
        /\ \A d \in SyncCalls \ {c} : syncCall[d].product = r.product => r.product \in twin'
    BY <2>1
  <2> QED BY <1>0, <1>u, <1>t, <2>1, <2>2, QuietTaken
<1>2. CASE PullFails(c)
  <2>1. PICK r \in SyncCallType :
          /\ SyncShape(r) /\ syncCall' = [syncCall EXCEPT ![c] = r]
          /\ r.step \in {"pull", "finish"}
          /\ r.kind = syncCall[c].kind /\ r.product = "none" /\ r.event = syncCall[c].event
    BY <1>2, PullFailsStep
  <2>2. twin \subseteq twin'
    BY <1>2 DEF PullFails
  <2> QED BY <1>0, <1>u, <1>t, <2>1, <2>2, QuietTaken
<1> QED BY <1>1, <1>2

\* How an upsert goes on: with another of its steps, ...
LEMMA ThenStep ==
  ASSUME SyncType, CallsShaped, NEW c \in SyncCalls, syncCall[c].step \in UpsertSteps,
         NEW st \in UpsertSteps, Then(c, st)
  PROVE  \E r \in SyncCallType :
           /\ SyncShape(r) /\ syncCall' = [syncCall EXCEPT ![c] = r] /\ r.step = st
           /\ r.kind = syncCall[c].kind /\ r.product = syncCall[c].product
           /\ r.event = syncCall[c].event /\ r.todo = syncCall[c].todo
           /\ r.version = syncCall[c].version
           /\ r.ok = syncCall[c].ok /\ r.alone = syncCall[c].alone
<1> DEFINE r == [syncCall[c] EXCEPT !.step = st]
<1>1. syncCall[c] \in SyncCallType /\ SyncShape(syncCall[c])
  BY DEF SyncType, CallsShaped
<1>2. /\ r \in SyncCallType /\ r.step = st
      /\ r.kind = syncCall[c].kind /\ r.product = syncCall[c].product
      /\ r.event = syncCall[c].event /\ r.todo = syncCall[c].todo
      /\ r.version = syncCall[c].version
      /\ r.ok = syncCall[c].ok /\ r.alone = syncCall[c].alone
  BY <1>1 DEF SyncCallType, UpsertSteps
<1>3. syncCall' = [syncCall EXCEPT ![c] = r]
  BY <1>1 DEF Then, SyncType, SyncCallType
<1> HIDE DEF r
<1>4. SyncShape(r)
  BY <1>1, <1>2 DEF SyncShape, UpsertSteps
<1> QED BY <1>2, <1>3, <1>4

\* ... with an exception, ...
LEMMA ThrowStep ==
  ASSUME SyncType, CallsShaped, NEW c \in SyncCalls, syncCall[c].step \in UpsertSteps,
         Throw(c)
  PROVE  \E r \in SyncCallType :
           /\ SyncShape(r) /\ syncCall' = [syncCall EXCEPT ![c] = r] /\ r.step = "finish"
           /\ r.kind = syncCall[c].kind /\ r.product = "none"
           /\ r.event = syncCall[c].event /\ r.todo = syncCall[c].todo
           /\ ~r.ok /\ r.alone = syncCall[c].alone
<1> DEFINE r == [syncCall[c] EXCEPT !.step = "finish", !.ok = FALSE, !.product = "none"]
<1>1. syncCall[c] \in SyncCallType /\ SyncShape(syncCall[c])
  BY DEF SyncType, CallsShaped
<1>2. /\ r \in SyncCallType /\ r.step = "finish"
      /\ r.kind = syncCall[c].kind /\ r.product = "none"
      /\ r.event = syncCall[c].event /\ r.todo = syncCall[c].todo
      /\ ~r.ok /\ r.alone = syncCall[c].alone
  BY <1>1 DEF SyncCallType, UpsertSteps
<1>3. syncCall' = [syncCall EXCEPT ![c] = r]
  BY <1>1 DEF Throw, SyncType, SyncCallType
<1> HIDE DEF r
<1>4. SyncShape(r)
  BY <1>1, <1>2 DEF SyncShape, UpsertSteps
<1> QED BY <1>2, <1>3, <1>4

\* ... or with the next product.
LEMMA NextProductStep ==
  ASSUME SyncType, CallsShaped, NEW c \in SyncCalls, syncCall[c].step \in UpsertSteps,
         NextProduct(c)
  PROVE  \E r \in SyncCallType :
           /\ SyncShape(r) /\ syncCall' = [syncCall EXCEPT ![c] = r]
           /\ r.step = IF syncCall[c].todo = {} THEN "finish" ELSE "pull"
           /\ r.kind = syncCall[c].kind /\ r.product = "none"
           /\ r.event = syncCall[c].event /\ r.todo = syncCall[c].todo
           /\ r.ok = syncCall[c].ok /\ r.alone = syncCall[c].alone
<1> DEFINE st == IF syncCall[c].todo = {} THEN "finish" ELSE "pull"
           r == [syncCall[c] EXCEPT !.product = "none", !.version = 0, !.step = st]
<1>1. syncCall[c] \in SyncCallType /\ SyncShape(syncCall[c])
  BY DEF SyncType, CallsShaped
<1>s. st \in {"finish", "pull"} /\ (st = "pull" => syncCall[c].todo # {})
  OBVIOUS
<1>3. syncCall' = [syncCall EXCEPT ![c] = r]
  BY <1>1 DEF NextProduct, SyncType, SyncCallType
<1> HIDE DEF st
<1>2. /\ r \in SyncCallType /\ r.step = st
      /\ r.kind = syncCall[c].kind /\ r.product = "none"
      /\ r.event = syncCall[c].event /\ r.todo = syncCall[c].todo
      /\ r.ok = syncCall[c].ok /\ r.alone = syncCall[c].alone
  BY <1>1, <1>s DEF SyncCallType, UpsertSteps
<1> HIDE DEF r
<1>4. SyncShape(r)
  <2>1. syncCall[c].kind \in {"sync", "hook"} /\ (st = "pull" => syncCall[c].kind = "sync")
    BY <1>1, <1>s DEF SyncShape, UpsertSteps, SyncCallType
  <2> QED BY <2>1, <1>1, <1>2, <1>s DEF SyncShape, UpsertSteps
<1> QED BY <1>2, <1>3, <1>4 DEF st

\* upsertProductIntoErp looks for the mapping and updates a mapped product.
LEMMA UpsertProductTaken ==
  ASSUME TakenInv, NEW c \in SyncCalls, UpsertProduct(c) PROVE TakenInv'
<1> USE DEF TakenInv
<1> DEFINE x == syncCall[c].product
<1>0. /\ syncCall[c] \in SyncCallType /\ SyncShape(syncCall[c])
      /\ syncCall[c].step = "find" /\ syncCall[c].step \in UpsertSteps
      /\ x \in ShopProducts /\ syncCall[c].version \in Nat
  BY DEF SyncType, CallsShaped, UpsertProduct, SyncShape, SyncCallType, UpsertSteps
<1>u. UNCHANGED <<products, mapped, variants, linkedTo, shop, shopEvents, delivery,
                  runs, openJobs, broken, priced, twin>>
  BY DEF UpsertProduct, hookVars, shopVars
<1>t. /\ named' \in [ShopProducts -> Nat \union {Merchant}]
      /\ priced' \in [Skus -> Nat \union {Merchant}]
  BY <1>u, <1>0 DEF SyncType, UpsertProduct
<1>1. PICK st \in {"variant", "create"} : Then(c, st) /\ (st = "create" => x \notin mapped)
  BY DEF UpsertProduct, Known
<1>2. PICK r \in SyncCallType :
        /\ SyncShape(r) /\ syncCall' = [syncCall EXCEPT ![c] = r] /\ r.step = st
        /\ r.kind = syncCall[c].kind /\ r.product = x /\ r.event = syncCall[c].event
  BY <1>0, <1>1, ThenStep DEF UpsertSteps
<1> QED BY <1>0, <1>u, <1>t, <1>1, <1>2, QuietTaken

\* The variant is looked for by mapping and by SKU.
LEMMA UpsertVariantTaken ==
  ASSUME TakenInv, NEW c \in SyncCalls, UpsertVariant(c) PROVE TakenInv'
<1> USE DEF TakenInv
<1> DEFINE x == syncCall[c].product
<1>0. /\ syncCall[c] \in SyncCallType /\ SyncShape(syncCall[c])
      /\ syncCall[c].step = "variant" /\ syncCall[c].step \in UpsertSteps
      /\ x \in ShopProducts /\ syncCall[c].version \in Nat
  BY DEF SyncType, CallsShaped, UpsertVariant, SyncShape, SyncCallType, UpsertSteps
<1>u. UNCHANGED <<products, mapped, variants, linkedTo, shop, shopEvents, delivery,
                  runs, openJobs, broken, named, twin>>
  BY DEF UpsertVariant, hookVars, shopVars
<1>t. /\ named' \in [ShopProducts -> Nat \union {Merchant}]
      /\ priced' \in [Skus -> Nat \union {Merchant}]
  BY <1>u, <1>0 DEF SyncType, UpsertVariant
<1>1. CASE linkedTo[x] # "none"
  <2>1. NextProduct(c)
    BY <1>1 DEF UpsertVariant
  <2>2. PICK r \in SyncCallType :
          /\ SyncShape(r) /\ syncCall' = [syncCall EXCEPT ![c] = r]
          /\ r.step \in {"finish", "pull"}
          /\ r.kind = syncCall[c].kind /\ r.product = "none" /\ r.event = syncCall[c].event
    BY <1>0, <2>1, NextProductStep
  <2> QED BY <1>0, <1>u, <1>t, <2>2, QuietTaken
<1>2. CASE linkedTo[x] = "none"
  <2>1. PICK st \in {"link", "createVariant"} :
          Then(c, st) /\ (st = "link" => SkuOf[x] \in variants)
    BY <1>2 DEF UpsertVariant
  <2>2. st = "link" => SkuKey(x) \in variants
    BY <2>1, IntegrationsAssumption DEF SyncType, SkuKey
  <2>3. PICK r \in SyncCallType :
          /\ SyncShape(r) /\ syncCall' = [syncCall EXCEPT ![c] = r] /\ r.step = st
          /\ r.kind = syncCall[c].kind /\ r.product = x /\ r.event = syncCall[c].event
    BY <1>0, <2>1, ThenStep DEF UpsertSteps
  <2> QED BY <1>0, <1>u, <1>t, <2>2, <2>3, QuietTaken
<1> QED BY <1>1, <1>2

\* The Product row is inserted.
LEMMA CreateProductTaken ==
  ASSUME TakenInv, NEW c \in SyncCalls, CreateProduct(c) PROVE TakenInv'
<1> USE DEF TakenInv
<1> DEFINE x == syncCall[c].product
<1>0. /\ syncCall[c] \in SyncCallType /\ SyncShape(syncCall[c])
      /\ syncCall[c].step = "create" /\ syncCall[c].step \in UpsertSteps
      /\ x \in ShopProducts /\ x # "none" /\ syncCall[c].kind # "none"
  BY DEF SyncType, CallsShaped, CreateProduct, SyncShape, SyncCallType, UpsertSteps
<1>u. UNCHANGED <<mapped, variants, linkedTo, shop, shopEvents, delivery,
                  runs, openJobs, broken, named, priced, twin>>
  BY DEF CreateProduct, hookVars, shopVars
<1>1. PICK r \in SyncCallType :
        /\ SyncShape(r) /\ syncCall' = [syncCall EXCEPT ![c] = r] /\ r.step = "map"
        /\ r.kind = syncCall[c].kind /\ r.product = x /\ r.event = syncCall[c].event
  BY <1>0, ThenStep DEF UpsertSteps, CreateProduct
<1>2. /\ syncCall' \in [SyncCalls -> SyncCallType] /\ CallsShaped'
      /\ syncCall'[c] = r
      /\ \A d \in SyncCalls \ {c} : syncCall'[d] = syncCall[d]
  BY <1>1, SyncCallStep
<1>3. products[x] \in Nat /\ products[x] + 1 \in Nat /\ products[x] + 1 >= 1
  BY <1>0 DEF SyncType
<1>4. /\ products' \in [ShopProducts -> Nat] /\ products'[x] = products[x] + 1
      /\ \A y \in ShopProducts : y # x => products'[y] = products[y]
  BY <1>0, <1>3 DEF CreateProduct, SyncType
<1>5. SyncType'
  BY <1>2, <1>4, <1>u DEF SyncType
<1>6. UpsertInv'
  <2>1. \A y \in ShopProducts : products[y] >= 1 => products'[y] >= 1
    BY <1>3, <1>4
  <2>2. \A d \in SyncCalls : syncCall[d].step = "map" => syncCall[d].product \in ShopProducts
    BY DEF CallsShaped, SyncShape, SyncType, SyncCallType, UpsertSteps
  <2> SUFFICES ASSUME NEW d \in SyncCalls
               PROVE  /\ syncCall'[d].product # "none" =>
                           \A e \in SyncCalls \ {d} :
                              syncCall'[e].product = syncCall'[d].product =>
                                syncCall'[d].product \in twin'
                      /\ syncCall'[d].step \in {"create", "map"} =>
                           syncCall'[d].product \in twin' \/ syncCall'[d].product \notin mapped'
                      /\ syncCall'[d].step = "map" => products'[syncCall'[d].product] >= 1
                      /\ syncCall'[d].step = "link" => SkuKey(syncCall'[d].product) \in variants'
    BY DEF UpsertInv, SkuKey
  <2>3. CASE d = c
    BY <2>3, <1>0, <1>1, <1>2, <1>3, <1>4, <1>u DEF UpsertInv
  <2>4. CASE d # c
    BY <2>1, <2>2, <2>4, <1>1, <1>2, <1>u DEF UpsertInv
  <2> QED BY <2>3, <2>4
<1>7. ProductRowInv'
  BY <1>0, <1>1, <1>2, <1>4, <1>u DEF ProductRowInv
<1>8. OneProductPerExternal'
  <2>1. x \in twin \/ products[x] = 0
    <3>1. x \in twin \/ (x \notin mapped /\ \A d \in SyncCalls \ {c} : syncCall[d].product # x)
      BY <1>0 DEF UpsertInv
    <3> QED BY <3>1, <1>0 DEF ProductRowInv
  <2>2. x \in twin \/ products'[x] <= 1
    BY <2>1, <1>3, <1>4
  <2>3. products'[x] >= 1
    BY <1>3, <1>4
  <2> QED BY <2>2, <2>3, <1>0, <1>4, <1>u DEF TakenOverOnce, OneProductPerExternal, SkuKey
<1>9. HookInv' /\ TakenUpOnce'
  BY <1>1, <1>2, <1>0, <1>u, HooksStay DEF hookVars
<1>10. \A d \in SyncCalls : HasJob(d)' <=> HasJob(d)
  BY <1>0, <1>1, <1>2 DEF HasJob
<1>11. IsFiniteSet(Jobs)' /\ JobsAccounted'
  BY <1>10, <1>u, JobsStay
<1> QED BY <1>2, <1>5, <1>6, <1>7, <1>8, <1>9, <1>11 DEF TakenOverOnce

\* The mapping is inserted, or its unique key refuses it.
LEMMA MapProductTaken ==
  ASSUME TakenInv, NEW c \in SyncCalls, MapProduct(c) PROVE TakenInv'
<1> USE DEF TakenInv
<1> DEFINE x == syncCall[c].product
<1>0. /\ syncCall[c] \in SyncCallType /\ SyncShape(syncCall[c])
      /\ syncCall[c].step = "map" /\ syncCall[c].step \in UpsertSteps
      /\ x \in ShopProducts /\ x # "none" /\ syncCall[c].version \in Nat
  BY DEF SyncType, CallsShaped, MapProduct, SyncShape, SyncCallType, UpsertSteps
<1>u. UNCHANGED <<products, variants, linkedTo, shop, shopEvents, delivery,
                  runs, openJobs, broken, priced, twin>>
  BY DEF MapProduct, hookVars, shopVars
<1>t. /\ named' \in [ShopProducts -> Nat \union {Merchant}]
      /\ priced' \in [Skus -> Nat \union {Merchant}]
  BY <1>u, <1>0 DEF SyncType, MapProduct
<1>1. CASE x \in mapped
  <2>1. Throw(c) /\ mapped' = mapped
    BY <1>1 DEF MapProduct
  <2>2. PICK r \in SyncCallType :
          /\ SyncShape(r) /\ syncCall' = [syncCall EXCEPT ![c] = r] /\ r.step = "finish"
          /\ r.kind = syncCall[c].kind /\ r.product = "none" /\ r.event = syncCall[c].event
    BY <1>0, <2>1, ThrowStep
  <2> QED BY <1>0, <1>1, <1>u, <1>t, <2>1, <2>2, QuietTaken
<1>2. CASE x \notin mapped
  <2>1. Then(c, "variant") /\ mapped' = mapped \union {x}
    BY <1>2 DEF MapProduct
  <2>2. PICK r \in SyncCallType :
          /\ SyncShape(r) /\ syncCall' = [syncCall EXCEPT ![c] = r] /\ r.step = "variant"
          /\ r.kind = syncCall[c].kind /\ r.product = x /\ r.event = syncCall[c].event
    BY <1>0, <2>1, ThenStep DEF UpsertSteps
  <2>3. /\ syncCall' \in [SyncCalls -> SyncCallType] /\ CallsShaped'
        /\ syncCall'[c] = r
        /\ \A d \in SyncCalls \ {c} : syncCall'[d] = syncCall[d]
    BY <2>2, SyncCallStep
  <2>4. SyncType'
    BY <2>1, <2>3, <1>0, <1>t, <1>u DEF SyncType
  <2>5. UpsertInv'
    <3> SUFFICES ASSUME NEW d \in SyncCalls
                 PROVE  /\ syncCall'[d].product # "none" =>
                             \A e \in SyncCalls \ {d} :
                                syncCall'[e].product = syncCall'[d].product =>
                                  syncCall'[d].product \in twin'
                        /\ syncCall'[d].step \in {"create", "map"} =>
                             syncCall'[d].product \in twin' \/ syncCall'[d].product \notin mapped'
                        /\ syncCall'[d].step = "map" => products'[syncCall'[d].product] >= 1
                        /\ syncCall'[d].step = "link" => SkuKey(syncCall'[d].product) \in variants'
      BY DEF UpsertInv, SkuKey
    <3>1. CASE d = c
      BY <3>1, <1>0, <2>2, <2>3, <1>u DEF UpsertInv
    <3>2. CASE d # c
      BY <3>2, <1>0, <2>1, <2>2, <2>3, <1>u DEF UpsertInv
    <3> QED BY <3>1, <3>2
  <2>6. ProductRowInv'
    BY <1>0, <2>1, <2>2, <2>3, <1>u DEF ProductRowInv
  <2>7. OneProductPerExternal'
    <3>1. products[x] >= 1
      BY <1>0 DEF UpsertInv
    <3> QED BY <3>1, <2>1, <1>u DEF TakenOverOnce, OneProductPerExternal, SkuKey
  <2>8. HookInv' /\ TakenUpOnce'
    BY <2>2, <2>3, <1>u, HooksStay DEF hookVars
  <2>9. \A d \in SyncCalls : HasJob(d)' <=> HasJob(d)
    BY <1>0, <2>2, <2>3 DEF HasJob
  <2>10. IsFiniteSet(Jobs)' /\ JobsAccounted'
    BY <2>9, <1>u, JobsStay
  <2> QED BY <2>3, <2>4, <2>5, <2>6, <2>7, <2>8, <2>10 DEF TakenOverOnce
<1> QED BY <1>1, <1>2

\* The variant is inserted, or its SKU is taken.
LEMMA CreateVariantTaken ==
  ASSUME TakenInv, NEW c \in SyncCalls, CreateVariant(c) PROVE TakenInv'
<1> USE DEF TakenInv
<1> DEFINE x == syncCall[c].product
           sku == SkuKey(x)
<1>0. /\ syncCall[c] \in SyncCallType /\ SyncShape(syncCall[c])
      /\ syncCall[c].step = "createVariant" /\ syncCall[c].step \in UpsertSteps
      /\ x \in ShopProducts /\ x # "none" /\ syncCall[c].version \in Nat
  BY DEF SyncType, CallsShaped, CreateVariant, SyncShape, SyncCallType, UpsertSteps
<1>s. sku \in Skus
  BY <1>0 DEF Skus
<1>u. UNCHANGED <<products, mapped, linkedTo, shop, shopEvents, delivery,
                  runs, openJobs, broken, named, twin>>
  BY DEF CreateVariant, hookVars, shopVars
<1>t. /\ named' \in [ShopProducts -> Nat \union {Merchant}]
      /\ priced' \in [Skus -> Nat \union {Merchant}]
  BY <1>u, <1>0 DEF SyncType, CreateVariant
<1>1. CASE sku \in variants
  <2>1. Throw(c) /\ variants' = variants
    BY <1>1 DEF CreateVariant
  <2>2. PICK r \in SyncCallType :
          /\ SyncShape(r) /\ syncCall' = [syncCall EXCEPT ![c] = r] /\ r.step = "finish"
          /\ r.kind = syncCall[c].kind /\ r.product = "none" /\ r.event = syncCall[c].event
    BY <1>0, <2>1, ThrowStep
  <2> QED BY <1>0, <1>u, <1>t, <2>1, <2>2, QuietTaken
<1>2. CASE sku \notin variants
  <2>1. Then(c, "link") /\ variants' = variants \union {sku}
    BY <1>2 DEF CreateVariant
  <2>2. PICK r \in SyncCallType :
          /\ SyncShape(r) /\ syncCall' = [syncCall EXCEPT ![c] = r] /\ r.step = "link"
          /\ r.kind = syncCall[c].kind /\ r.product = x /\ r.event = syncCall[c].event
    BY <1>0, <2>1, ThenStep DEF UpsertSteps
  <2>3. /\ syncCall' \in [SyncCalls -> SyncCallType] /\ CallsShaped'
        /\ syncCall'[c] = r
        /\ \A d \in SyncCalls \ {c} : syncCall'[d] = syncCall[d]
    BY <2>2, SyncCallStep
  <2>4. SyncType'
    BY <2>1, <2>3, <1>s, <1>t, <1>u DEF SyncType
  <2> HIDE DEF sku
  <2>5. UpsertInv'
    <3> SUFFICES ASSUME NEW d \in SyncCalls
                 PROVE  /\ syncCall'[d].product # "none" =>
                             \A e \in SyncCalls \ {d} :
                                syncCall'[e].product = syncCall'[d].product =>
                                  syncCall'[d].product \in twin'
                        /\ syncCall'[d].step \in {"create", "map"} =>
                             syncCall'[d].product \in twin' \/ syncCall'[d].product \notin mapped'
                        /\ syncCall'[d].step = "map" => products'[syncCall'[d].product] >= 1
                        /\ syncCall'[d].step = "link" => SkuKey(syncCall'[d].product) \in variants'
      BY DEF UpsertInv, SkuKey
    <3>1. CASE d = c
      BY <3>1, <1>0, <2>1, <2>2, <2>3, <1>u DEF UpsertInv, sku
    <3>2. CASE d # c
      BY <3>2, <1>0, <2>1, <2>2, <2>3, <1>u DEF UpsertInv
    <3> QED BY <3>1, <3>2
  <2>6. ProductRowInv'
    BY <1>0, <2>2, <2>3, <1>u DEF ProductRowInv
  <2>7. OneProductPerExternal'
    BY <2>1, <1>u DEF TakenOverOnce, OneProductPerExternal, SkuKey
  <2>8. HookInv' /\ TakenUpOnce'
    BY <2>2, <2>3, <1>u, HooksStay DEF hookVars
  <2>9. \A d \in SyncCalls : HasJob(d)' <=> HasJob(d)
    BY <1>0, <2>2, <2>3 DEF HasJob
  <2>10. IsFiniteSet(Jobs)' /\ JobsAccounted'
    BY <2>9, <1>u, JobsStay
  <2> QED BY <2>3, <2>4, <2>5, <2>6, <2>7, <2>8, <2>10 DEF TakenOverOnce
<1> QED BY <1>1, <1>2

\* The variant's mapping is inserted, or its unique key refuses it.
LEMMA LinkVariantTaken ==
  ASSUME TakenInv, NEW c \in SyncCalls, LinkVariant(c) PROVE TakenInv'
<1> USE DEF TakenInv
<1> DEFINE x == syncCall[c].product
<1>0. /\ syncCall[c] \in SyncCallType /\ SyncShape(syncCall[c])
      /\ syncCall[c].step = "link" /\ syncCall[c].step \in UpsertSteps
      /\ x \in ShopProducts /\ x # "none" /\ SkuKey(x) \in variants /\ SkuKey(x) \in Skus
  BY DEF SyncType, CallsShaped, LinkVariant, SyncShape, SyncCallType, UpsertSteps, UpsertInv
<1>u. UNCHANGED <<products, mapped, variants, shop, shopEvents, delivery,
                  runs, openJobs, broken, named, priced, twin>>
  BY DEF LinkVariant, hookVars, shopVars
<1>t. /\ named' \in [ShopProducts -> Nat \union {Merchant}]
      /\ priced' \in [Skus -> Nat \union {Merchant}]
  BY <1>u, <1>0 DEF SyncType
<1>1. CASE linkedTo[x] # "none"
  <2>1. Throw(c) /\ linkedTo' = linkedTo
    BY <1>1 DEF LinkVariant
  <2>2. PICK r \in SyncCallType :
          /\ SyncShape(r) /\ syncCall' = [syncCall EXCEPT ![c] = r] /\ r.step = "finish"
          /\ r.kind = syncCall[c].kind /\ r.product = "none" /\ r.event = syncCall[c].event
    BY <1>0, <2>1, ThrowStep
  <2> QED BY <1>0, <1>u, <1>t, <2>1, <2>2, QuietTaken
<1>2. CASE linkedTo[x] = "none"
  <2>1. NextProduct(c) /\ linkedTo' = [linkedTo EXCEPT ![x] = SkuKey(x)]
    BY <1>2 DEF LinkVariant
  <2>2. PICK r \in SyncCallType :
          /\ SyncShape(r) /\ syncCall' = [syncCall EXCEPT ![c] = r]
          /\ r.step \in {"finish", "pull"}
          /\ r.kind = syncCall[c].kind /\ r.product = "none" /\ r.event = syncCall[c].event
    BY <1>0, <2>1, NextProductStep
  <2>3. /\ syncCall' \in [SyncCalls -> SyncCallType] /\ CallsShaped'
        /\ syncCall'[c] = r
        /\ \A d \in SyncCalls \ {c} : syncCall'[d] = syncCall[d]
    BY <2>2, SyncCallStep
  <2>4. SyncType'
    BY <2>1, <2>3, <1>0, <1>t, <1>u DEF SyncType
  <2>5. UpsertInv'
    BY <1>0, <2>2, <2>3, <1>u DEF UpsertInv, SkuKey
  <2>6. ProductRowInv'
    BY <1>0, <2>2, <2>3, <1>u DEF ProductRowInv
  <2>7. OneProductPerExternal'
    <3>1. linkedTo'[x] = SkuKey(x) /\ \A y \in ShopProducts : y # x => linkedTo'[y] = linkedTo[y]
      BY <2>1, <1>0 DEF SyncType
    <3> QED BY <3>1, <1>0, <1>u DEF TakenOverOnce, OneProductPerExternal, SkuKey
  <2>8. HookInv' /\ TakenUpOnce'
    BY <2>2, <2>3, <1>u, HooksStay DEF hookVars
  <2>9. \A d \in SyncCalls : HasJob(d)' <=> HasJob(d)
    BY <1>0, <2>2, <2>3 DEF HasJob
  <2>10. IsFiniteSet(Jobs)' /\ JobsAccounted'
    BY <2>9, <1>u, JobsStay
  <2> QED BY <2>3, <2>4, <2>5, <2>6, <2>7, <2>8, <2>10 DEF TakenOverOnce
<1> QED BY <1>1, <1>2

\* The SyncJob row is closed.
LEMMA FinishJobTaken ==
  ASSUME TakenInv, NEW c \in SyncCalls, FinishJob(c) PROVE TakenInv'
<1> USE DEF TakenInv
<1>0. syncCall[c].step = "finish" /\ syncCall[c].kind = "sync" /\ syncCall[c].product = "none"
  BY FinishJobStep
<1>1. PICK r \in SyncCallType :
        /\ SyncShape(r) /\ syncCall' = [syncCall EXCEPT ![c] = r] /\ r.step = "report"
        /\ r.kind = "sync" /\ r.product = "none"
  BY FinishJobStep
<1>4. /\ syncCall' \in [SyncCalls -> SyncCallType] /\ CallsShaped'
      /\ syncCall'[c] = r
      /\ \A d \in SyncCalls \ {c} : syncCall'[d] = syncCall[d]
  BY <1>1, SyncCallStep
<1>u. UNCHANGED <<products, mapped, variants, linkedTo, shop, shopEvents, delivery,
                  runs, broken, named, priced, twin>> /\ openJobs' = openJobs - 1
  BY DEF FinishJob, hookVars, shopVars, catalogVars, CloseJob
<1>5. SyncType'
  BY <1>4, <1>u DEF SyncType
<1>6. UpsertInv' /\ ProductRowInv' /\ OneProductPerExternal'
  BY <1>0, <1>1, <1>4, <1>u, RowsStay
<1>7. HookInv' /\ TakenUpOnce'
  BY <1>1, <1>4, <1>u, HooksStay DEF hookVars
<1>8. HasJob(c) /\ ~HasJob(c)' /\ \A d \in SyncCalls \ {c} : HasJob(d)' <=> HasJob(d)
  BY <1>0, <1>1, <1>4 DEF HasJob
<1>9. IsFiniteSet(Jobs)' /\ JobsAccounted'
  BY <1>8, <1>u, JobCloses
<1> QED BY <1>4, <1>5, <1>6, <1>7, <1>9 DEF TakenOverOnce

\* The sync stamps the connection and answers.
LEMMA ReportSyncTaken ==
  ASSUME TakenInv, NEW c \in SyncCalls, ReportSync(c) PROVE TakenInv'
<1>0. syncCall[c].step = "report"
  BY DEF ReportSync
<1>1. /\ SyncIdle \in SyncCallType /\ SyncShape(SyncIdle) /\ SyncIdle.product = "none"
      /\ SyncIdle.step = "idle" /\ SyncIdle.kind = "none"
  BY SyncIdleType DEF SyncIdle
<1>2. syncCall' = [syncCall EXCEPT ![c] = SyncIdle]
  BY DEF ReportSync, EndSync
<1>u. UNCHANGED <<products, mapped, variants, linkedTo, shop, shopEvents, delivery,
                  runs, openJobs, broken, named, priced, twin>>
  BY DEF ReportSync, hookVars, shopVars, catalogVars
<1>t. /\ named' \in [ShopProducts -> Nat \union {Merchant}]
      /\ priced' \in [Skus -> Nat \union {Merchant}]
  BY <1>u DEF SyncType, TakenInv
<1> QED BY <1>0, <1>1, <1>2, <1>u, <1>t, QuietTaken

\* The WebhookDelivery row is closed.
LEMMA FinishWebhookTaken ==
  ASSUME TakenInv, NEW c \in SyncCalls, FinishWebhook(c) PROVE TakenInv'
<1> USE DEF TakenInv
<1> DEFINE e == syncCall[c].event
<1>0. /\ syncCall[c].step = "finish" /\ syncCall[c].kind = "hook"
      /\ e \in 1..MaxShopEvents
  BY DEF FinishWebhook, CallsShaped, SyncShape
<1>1. /\ SyncIdle \in SyncCallType /\ SyncShape(SyncIdle) /\ SyncIdle.product = "none"
      /\ SyncIdle.step = "idle" /\ SyncIdle.kind = "none"
  BY SyncIdleType DEF SyncIdle
<1>2. syncCall' = [syncCall EXCEPT ![c] = SyncIdle]
  BY DEF FinishWebhook, EndSync
<1>3. /\ syncCall' \in [SyncCalls -> SyncCallType] /\ CallsShaped'
      /\ syncCall'[c] = SyncIdle
      /\ \A d \in SyncCalls \ {c} : syncCall'[d] = syncCall[d]
  BY <1>1, <1>2, SyncCallStep
<1>u. UNCHANGED <<products, mapped, variants, linkedTo, shop, shopEvents,
                  runs, openJobs, broken, named, priced, twin>>
  BY DEF FinishWebhook, shopVars, catalogVars
<1>4. /\ delivery' \in [1..MaxShopEvents -> {"absent", "received", "processed", "failed"}]
      /\ delivery'[e] # "absent"
      /\ \A f \in 1..MaxShopEvents : f # e => delivery'[f] = delivery[f]
  BY <1>0 DEF FinishWebhook, SyncType
<1>5. SyncType'
  BY <1>3, <1>4, <1>u DEF SyncType
<1>6. UpsertInv' /\ ProductRowInv' /\ OneProductPerExternal'
  BY <1>0, <1>1, <1>3, <1>u, RowsStay
<1>7. HookInv'
  <2>1. \A d \in SyncCalls : syncCall[d].kind = "hook" => syncCall[d].event \in 1..MaxShopEvents
    BY DEF CallsShaped, SyncShape
  <2> QED BY <2>1, <1>1, <1>3, <1>4 DEF HookInv
<1>8. TakenUpOnce'
  BY <1>0, <1>4, <1>u DEF TakenOverOnce, TakenUpOnce, HookInv
<1>9. \A d \in SyncCalls : HasJob(d)' <=> HasJob(d)
  BY <1>0, <1>1, <1>3 DEF HasJob
<1>10. IsFiniteSet(Jobs)' /\ JobsAccounted'
  BY <1>9, <1>u, JobsStay
<1> QED BY <1>3, <1>5, <1>6, <1>7, <1>8, <1>10 DEF TakenOverOnce

\* A request breaks off between two statements.
LEMMA BreakOffTaken ==
  ASSUME TakenInv, NEW c \in SyncCalls, BreakOff(c) PROVE TakenInv'
<1> USE DEF TakenInv
<1>1. /\ SyncIdle \in SyncCallType /\ SyncShape(SyncIdle) /\ SyncIdle.product = "none"
      /\ SyncIdle.step = "idle" /\ SyncIdle.kind = "none"
  BY SyncIdleType DEF SyncIdle
<1>2. syncCall' = [syncCall EXCEPT ![c] = SyncIdle]
  BY DEF BreakOff, EndSync
<1>3. /\ syncCall' \in [SyncCalls -> SyncCallType] /\ CallsShaped'
      /\ syncCall'[c] = SyncIdle
      /\ \A d \in SyncCalls \ {c} : syncCall'[d] = syncCall[d]
  BY <1>1, <1>2, SyncCallStep
<1>u. UNCHANGED <<products, mapped, variants, linkedTo, shop, shopEvents,
                  runs, openJobs, delivery, named, priced>>
  BY DEF BreakOff, shopVars, catalogVars, hookVars
<1>t. /\ twin \subseteq twin'
      /\ syncCall[c].step = "map" => syncCall[c].product \in twin'
      /\ broken = "no" /\ broken' = IF HasJob(c) THEN "job" ELSE "other"
  BY DEF BreakOff
<1>5. SyncType'
  BY <1>3, <1>t, <1>u DEF SyncType
<1>6. UpsertInv' /\ ProductRowInv' /\ OneProductPerExternal'
  BY <1>1, <1>3, <1>t, <1>u, RowsStay
<1>7. HookInv' /\ TakenUpOnce'
  BY <1>1, <1>3, <1>u, HooksStay DEF hookVars
<1>8. ~HasJob(c)' /\ \A d \in SyncCalls \ {c} : HasJob(d)' <=> HasJob(d)
  BY <1>1, <1>3 DEF HasJob
<1>9. IsFiniteSet(Jobs)' /\ JobsAccounted'
  <2>1. CASE HasJob(c)
    BY <2>1, <1>8, <1>t, <1>u, JobCloses
  <2>2. CASE ~HasJob(c)
    <3>1. Jobs' = Jobs
      BY <2>2, <1>8 DEF Jobs
    <3>2. broken = "no" /\ broken' = "other" /\ openJobs' = openJobs
      BY <2>2, <1>t, <1>u
    <3> QED BY <3>1, <3>2 DEF TakenOverOnce, JobsAccounted, Jobs
  <2> QED BY <2>1, <2>2
<1> QED BY <1>3, <1>5, <1>6, <1>7, <1>9 DEF TakenOverOnce

\* A stutter keeps TakenInv.
LEMMA TakenStutters ==
  ASSUME TakenInv, UNCHANGED integrationVars PROVE TakenInv'
<1> USE DEF TakenInv, integrationVars
<1>1. SyncType' /\ CallsShaped' /\ UpsertInv' /\ ProductRowInv' /\ HookInv'
  BY DEF SyncType, CallsShaped, SyncShape, UpsertInv, ProductRowInv, HookInv, SkuKey
<1>2. \A d \in SyncCalls : HasJob(d)' <=> HasJob(d)
  BY DEF HasJob
<1>3. IsFiniteSet(Jobs)' /\ JobsAccounted'
  BY <1>2, JobsStay
<1>4. OneProductPerExternal' /\ TakenUpOnce'
  BY DEF TakenOverOnce, OneProductPerExternal, TakenUpOnce, SkuKey
<1> QED BY <1>1, <1>3, <1>4 DEF TakenOverOnce

\* Every step keeps TakenInv.
LEMMA TakenStep == TakenInv /\ [IntegrationsNext]_integrationVars => TakenInv'
<1> SUFFICES ASSUME TakenInv, [IntegrationsNext]_integrationVars PROVE TakenInv'
  OBVIOUS
<1>1. CASE UNCHANGED integrationVars
  BY <1>1, TakenStutters
<1>2. ASSUME NEW x \in ShopProducts, ShopChanges(x) PROVE TakenInv'
  BY <1>2, ShopChangesTaken
<1>3. ASSUME NEW c \in SyncCalls,
             \/ StartSync(c) \/ PullPage(c) \/ PullFails(c) \/ ReceiveWebhook(c)
             \/ UpsertProduct(c) \/ CreateProduct(c) \/ MapProduct(c)
             \/ UpsertVariant(c) \/ CreateVariant(c) \/ LinkVariant(c)
             \/ FinishJob(c) \/ ReportSync(c) \/ FinishWebhook(c) \/ BreakOff(c)
      PROVE  TakenInv'
  BY <1>3, StartSyncTaken, PullTaken, WebhookTaken, UpsertProductTaken, CreateProductTaken,
     MapProductTaken, UpsertVariantTaken, CreateVariantTaken, LinkVariantTaken,
     FinishJobTaken, ReportSyncTaken, FinishWebhookTaken, BreakOffTaken
<1> QED BY <1>1, <1>2, <1>3 DEF IntegrationsNext

\* What the shop sends is taken over once: its products as rows, its events as
\* deliveries, and a job that is RUNNING belongs to a request (IntegrationsService), for
\* any shop, any events and any number of requests.
THEOREM AlwaysTakenOverOnce == IntegrationsSpec => []TakenOverOnce
<1>1. TakenInv => TakenOverOnce
  BY DEF TakenInv
<1> QED BY <1>1, TakenInit, TakenStep, PTL DEF IntegrationsSpec

\* A sync that has got so far, alone and without failing, has settled the
\* products behind it.
SyncedSoFar(r) ==
  /\ \A x \in ShopProducts : x \in r.todo \/ x = r.product \/ Settled(x)
  /\ r.step \in UpsertSteps => r.version = shop[r.product]
  /\ r.step \in {"variant", "createVariant", "link"} =>
       r.product \in mapped /\ named[r.product] = r.version
  /\ r.step \in {"finish", "report"} => r.todo = {}

\* SettleInv holds of a connection that was just made.
LEMMA SettleInit == IntegrationsInit => SettleInv
<1> SUFFICES ASSUME IntegrationsInit PROVE SettleInv
  OBVIOUS
<1>1. TakenInv
  BY TakenInit
<1> QED BY <1>1 DEF IntegrationsInit, SettleInv, SyncIdle, SyncSettles

\* A call that is running takes a step.
LEMMA SettleCallStep ==
  ASSUME SettleInv, TakenInv', NEW c \in SyncCalls, NEW r \in SyncCallType,
         syncCall[c].step # "idle", syncCall' = [syncCall EXCEPT ![c] = r],
         UNCHANGED upToDate,
         r.alone => syncCall[c].alone,
         syncCall[c].alone /\ r.alone /\ r.kind = "sync" /\ r.ok => SyncedSoFar(r)'
  PROVE  SettleInv'
<1> USE DEF SettleInv
<1>1. syncCall'[c] = r /\ \A d \in SyncCalls \ {c} : syncCall'[d] = syncCall[d]
  BY DEF TakenInv, SyncType
<1>2. ~upToDate'
  OBVIOUS
<1>3. ASSUME NEW d \in SyncCalls, syncCall'[d].alone PROVE AloneSync(d)'
  <2>1. CASE d = c
    <3>1. syncCall[c].alone /\ r.alone
      BY <1>1, <1>3, <2>1
    <3>2. \A e \in SyncCalls \ {c} : syncCall'[e].step = "idle"
      BY <3>1, <1>1 DEF AloneSync
    <3>3. r.kind = "sync" /\ r.ok => SyncedSoFar(r)'
      BY <3>1
    <3> QED BY <1>1, <2>1, <3>2, <3>3 DEF AloneSync, SyncedSoFar, Settled
  <2>2. CASE d # c
    BY <1>1, <1>3, <2>2 DEF AloneSync
  <2> QED BY <2>1, <2>2
<1> QED BY <1>2, <1>3 DEF SyncSettles

\* What the lemmas above say of a running call that is alone.
LEMMA AloneSynced ==
  ASSUME SettleInv, NEW c \in SyncCalls, syncCall[c].alone, syncCall[c].kind = "sync",
         syncCall[c].ok
  PROVE  SyncedSoFar(syncCall[c])
  BY DEF SettleInv, AloneSync, SyncedSoFar

\* A product stays settled while nothing is written about it.
LEMMA SettledStays ==
  ASSUME UNCHANGED <<mapped, named, shop, linkedTo, variants, unpriced, priced>>
  PROVE  \A x \in ShopProducts : Settled(x) => Settled(x)'
  BY DEF Settled

\* A request begins.
LEMMA BeginSettles ==
  ASSUME SettleInv, TakenInv', NEW c \in SyncCalls, StartSync(c) \/ ReceiveWebhook(c)
  PROVE  SettleInv'
<1> USE DEF SettleInv, TakenInv
<1>1. PICK call \in SyncCallType :
        /\ SyncShape(call) /\ call.step # "idle" /\ BeginSync(c, call)
        /\ call.kind = "sync" => call.todo = ShopProducts /\ call.step = "pull"
  <2>1. CASE StartSync(c)
    <3> DEFINE call == [SyncIdle EXCEPT !.kind = "sync", !.step = "pull", !.todo = ShopProducts]
    <3>1. /\ call \in SyncCallType /\ SyncShape(call) /\ call.step = "pull"
          /\ call.todo = ShopProducts
      BY DEF SyncIdle, SyncCallType, SyncShape, UpsertSteps
    <3>2. BeginSync(c, call)
      BY <2>1 DEF StartSync
    <3> HIDE DEF call
    <3> QED BY <3>1, <3>2
  <2>2. CASE ReceiveWebhook(c)
    <3>1. PICK e \in 1..Len(shopEvents) :
            BeginSync(c, [SyncIdle EXCEPT !.kind = "hook", !.step = "find", !.event = e,
              !.product = shopEvents[e].product, !.version = shopEvents[e].version])
      BY <2>2 DEF ReceiveWebhook
    <3> DEFINE x == shopEvents[e].product
               call == [SyncIdle EXCEPT !.kind = "hook", !.step = "find", !.event = e,
                          !.product = x, !.version = shopEvents[e].version]
    <3>2. Len(shopEvents) \in Nat
      BY LenProperties DEF SyncType
    <3>3. shopEvents[e] \in [product : ShopProducts, version : Nat]
      BY ElementOfSeq DEF SyncType
    <3>4. /\ e \in 1..MaxShopEvents /\ e \in Nat
          /\ x \in ShopProducts /\ x # "none" /\ shopEvents[e].version \in Nat
      <4>1. e \in 1..MaxShopEvents /\ e \in Nat
        BY <3>2, IntegrationsAssumption DEF SyncType
      <4> QED BY <4>1, <3>3, IntegrationsAssumption
    <3>5. BeginSync(c, call)
      BY <3>1
    <3> HIDE DEF x
    <3>6. call \in SyncCallType /\ SyncShape(call) /\ call.step = "find" /\ call.kind = "hook"
      BY <3>4 DEF SyncIdle, SyncCallType, SyncShape, UpsertSteps
    <3> HIDE DEF call
    <3> QED BY <3>5, <3>6
  <2> QED BY <2>1, <2>2
<1>2. /\ syncCall'[c].kind = call.kind /\ syncCall'[c].step = call.step
      /\ syncCall'[c].todo = call.todo
      /\ \A d \in SyncCalls \ {c} :
           syncCall'[d].step = syncCall[d].step /\ ~syncCall'[d].alone
      /\ syncCall'[c].alone => \A d \in SyncCalls \ {c} : syncCall[d].step = "idle"
  BY <1>1, SyncBegins
<1>3. ASSUME NEW d \in SyncCalls, syncCall'[d].alone PROVE AloneSync(d)'
  <2>1. d = c
    BY <1>2, <1>3
  <2>2. \A e \in SyncCalls \ {c} : syncCall'[e].step = "idle"
    BY <1>2, <1>3, <2>1
  <2>3. syncCall'[c].kind = "sync" =>
          syncCall'[c].todo = ShopProducts /\ syncCall'[c].step = "pull"
    BY <1>1, <1>2
  <2> QED BY <2>1, <2>2, <2>3 DEF AloneSync, UpsertSteps
<1>4. ~upToDate'
  BY <1>1 DEF BeginSync
<1> QED BY <1>3, <1>4 DEF SyncSettles

\* The shop changes a product: nobody is alone, nothing is up to date.
LEMMA ShopChangesSettles ==
  ASSUME SettleInv, TakenInv', NEW x \in ShopProducts, ShopChanges(x) PROVE SettleInv'
<1>1. ASSUME NEW d \in SyncCalls PROVE ~syncCall'[d].alone
  <2>1. syncCall'[d] = [syncCall[d] EXCEPT !.alone = FALSE]
    BY DEF ShopChanges
  <2>2. syncCall[d] \in SyncCallType
    BY DEF SettleInv, TakenInv, SyncType
  <2> QED BY <2>1, <2>2 DEF SyncCallType
<1>2. ~upToDate'
  BY DEF ShopChanges
<1> QED BY <1>1, <1>2 DEF SettleInv, SyncSettles

\* A request ends; a sync that ran alone and succeeded leaves everything settled.
LEMMA EndSettles ==
  ASSUME SettleInv, TakenInv', NEW c \in SyncCalls,
         ReportSync(c) \/ FinishWebhook(c) \/ BreakOff(c)
  PROVE  SettleInv'
<1> USE DEF SettleInv, TakenInv
<1>1. /\ syncCall[c].step # "idle"
      /\ syncCall' = [syncCall EXCEPT ![c] = SyncIdle]
      /\ SyncIdle.step = "idle" /\ SyncIdle.alone = FALSE
      /\ UNCHANGED <<mapped, named, shop, linkedTo, variants, unpriced, priced>>
  BY DEF ReportSync, FinishWebhook, BreakOff, EndSync, catalogVars, shopVars, SyncIdle
<1>2. syncCall'[c] = SyncIdle /\ \A d \in SyncCalls \ {c} : syncCall'[d] = syncCall[d]
  BY <1>1 DEF SyncType
<1>3. ASSUME NEW d \in SyncCalls PROVE ~syncCall'[d].alone \/ AloneSync(d)'
  BY <1>1, <1>2 DEF AloneSync
<1>4. ASSUME upToDate'
      PROVE  /\ \A d \in SyncCalls : syncCall'[d].step = "idle"
             /\ \A x \in ShopProducts : Settled(x)'
  <2>1. ReportSync(c) /\ syncCall[c].alone /\ syncCall[c].ok
    BY <1>1, <1>4 DEF ReportSync, FinishWebhook, BreakOff
  <2>2. syncCall[c].kind = "sync" /\ syncCall[c].step = "report" /\ syncCall[c].product = "none"
    BY <2>1 DEF ReportSync, CallsShaped, SyncShape, UpsertSteps
  <2>3. SyncedSoFar(syncCall[c])
    BY <2>1, <2>2, AloneSynced
  <2>4. \A x \in ShopProducts : Settled(x)
    BY <2>2, <2>3, IntegrationsAssumption DEF SyncedSoFar
  <2>5. \A d \in SyncCalls \ {c} : syncCall[d].step = "idle"
    BY <2>1 DEF AloneSync
  <2> QED BY <1>1, <1>2, <2>4, <2>5, SettledStays
<1>5. SyncSettles'
  BY <1>4 DEF SyncSettles, Settled
<1> QED BY <1>3, <1>4, <1>5

\* A page is read or fails.
LEMMA PullSettles ==
  ASSUME SettleInv, TakenInv', NEW c \in SyncCalls, PullPage(c) \/ PullFails(c)
  PROVE  SettleInv'
<1> USE DEF SettleInv, TakenInv
<1>0. /\ syncCall[c] \in SyncCallType /\ SyncShape(syncCall[c]) /\ syncCall[c].step = "pull"
      /\ syncCall[c].kind = "sync" /\ syncCall[c].ok /\ syncCall[c].product = "none"
  BY DEF SyncType, CallsShaped, PullPage, PullFails, SyncShape, UpsertSteps
<1>u. UNCHANGED <<mapped, named, shop, linkedTo, variants, unpriced, priced, upToDate>>
  BY DEF PullPage, PullFails, catalogVars, shopVars
<1>a. syncCall[c].alone => \A x \in ShopProducts : x \in syncCall[c].todo \/ Settled(x)'
  <2> SUFFICES ASSUME syncCall[c].alone
               PROVE  \A x \in ShopProducts : x \in syncCall[c].todo \/ Settled(x)'
    OBVIOUS
  <2>1. SyncedSoFar(syncCall[c])
    BY <1>0, AloneSynced
  <2> QED BY <2>1, <1>0, <1>u, SettledStays, IntegrationsAssumption DEF SyncedSoFar
<1>1. CASE PullPage(c)
  <2>1. PICK x \in ShopProducts, r \in SyncCallType :
          /\ syncCall' = [syncCall EXCEPT ![c] = r] /\ r.step = "find"
          /\ r.product = x /\ r.version = shop[x] /\ r.todo = syncCall[c].todo \ {x}
          /\ r.alone = syncCall[c].alone
    BY <1>1, PullPageStep
  <2>2. syncCall[c].alone => SyncedSoFar(r)'
    BY <2>1, <1>a, <1>u DEF SyncedSoFar
  <2> QED BY <1>0, <1>u, <2>1, <2>2, SettleCallStep
<1>2. CASE PullFails(c)
  <2>1. PICK r \in SyncCallType :
          /\ syncCall' = [syncCall EXCEPT ![c] = r]
          /\ r.step \in {"pull", "finish"} /\ (r.ok => r.step = "pull")
          /\ r.todo = syncCall[c].todo /\ r.alone = syncCall[c].alone
    BY <1>2, PullFailsStep
  <2>2. syncCall[c].alone /\ r.ok => SyncedSoFar(r)'
    BY <2>1, <1>a, <1>u DEF SyncedSoFar, UpsertSteps
  <2> QED BY <1>0, <1>u, <2>1, <2>2, SettleCallStep
<1> QED BY <1>1, <1>2

\* The product is found, updated or inserted.
LEMMA UpsertProductSettles ==
  ASSUME SettleInv, TakenInv', NEW c \in SyncCalls, UpsertProduct(c) \/ CreateProduct(c)
  PROVE  SettleInv'
<1> USE DEF SettleInv, TakenInv
<1> DEFINE x == syncCall[c].product
<1>0. /\ syncCall[c] \in SyncCallType
      /\ syncCall[c].step \in UpsertSteps /\ syncCall[c].step # "idle"
      /\ x \in ShopProducts
  BY DEF SyncType, CallsShaped, UpsertProduct, CreateProduct, SyncShape, SyncCallType, UpsertSteps
<1>u. UNCHANGED <<mapped, shop, linkedTo, variants, unpriced, priced, upToDate>>
  BY DEF UpsertProduct, CreateProduct, shopVars
<1>n. \A y \in ShopProducts : y # x => named'[y] = named[y]
  BY <1>0 DEF UpsertProduct, CreateProduct, SyncType
<1>1. PICK st \in {"variant", "create", "map"} :
        /\ Then(c, st)
        /\ st = "variant" => x \in mapped /\ named'[x] = syncCall[c].version
  BY <1>0 DEF UpsertProduct, CreateProduct, Known, SyncType
<1>2. PICK r \in SyncCallType :
        /\ syncCall' = [syncCall EXCEPT ![c] = r] /\ r.step = st
        /\ r.kind = syncCall[c].kind /\ r.product = x /\ r.todo = syncCall[c].todo
        /\ r.version = syncCall[c].version
        /\ r.ok = syncCall[c].ok /\ r.alone = syncCall[c].alone
  BY <1>0, <1>1, ThenStep DEF UpsertSteps
<1>3. syncCall[c].alone /\ r.kind = "sync" /\ r.ok => SyncedSoFar(r)'
  <2> SUFFICES ASSUME syncCall[c].alone, r.kind = "sync", r.ok PROVE SyncedSoFar(r)'
    OBVIOUS
  <2>1. SyncedSoFar(syncCall[c])
    BY <1>2, AloneSynced
  <2>2. \A y \in ShopProducts : y # x /\ Settled(y) => Settled(y)'
    BY <1>u, <1>n DEF Settled
  <2> QED BY <2>1, <2>2, <1>0, <1>1, <1>2, <1>u DEF SyncedSoFar
<1> QED BY <1>0, <1>u, <1>2, <1>3, SettleCallStep

\* The product is mapped.
LEMMA MapProductSettles ==
  ASSUME SettleInv, TakenInv', NEW c \in SyncCalls, MapProduct(c)
  PROVE  SettleInv'
<1> USE DEF SettleInv, TakenInv
<1> DEFINE x == syncCall[c].product
<1>0. /\ syncCall[c] \in SyncCallType
      /\ syncCall[c].step \in UpsertSteps /\ syncCall[c].step # "idle"
      /\ x \in ShopProducts
  BY DEF SyncType, CallsShaped, MapProduct, SyncShape, SyncCallType, UpsertSteps
<1>u. UNCHANGED <<shop, linkedTo, variants, unpriced, priced, upToDate>>
  BY DEF MapProduct, shopVars
<1>1. CASE x \in mapped
  <2>1. Throw(c)
    BY <1>1 DEF MapProduct
  <2>2. PICK r \in SyncCallType :
          syncCall' = [syncCall EXCEPT ![c] = r] /\ ~r.ok /\ r.alone = syncCall[c].alone
    BY <1>0, <2>1, ThrowStep
  <2> QED BY <1>0, <1>u, <2>2, SettleCallStep
<1>2. CASE x \notin mapped
  <2>1. Then(c, "variant") /\ mapped' = mapped \union {x}
        /\ named' = [named EXCEPT ![x] = syncCall[c].version]
    BY <1>2 DEF MapProduct
  <2>2. PICK r \in SyncCallType :
          /\ syncCall' = [syncCall EXCEPT ![c] = r] /\ r.step = "variant"
          /\ r.kind = syncCall[c].kind /\ r.product = x /\ r.todo = syncCall[c].todo
          /\ r.version = syncCall[c].version
          /\ r.ok = syncCall[c].ok /\ r.alone = syncCall[c].alone
    BY <1>0, <2>1, ThenStep DEF UpsertSteps
  <2>3. syncCall[c].alone /\ r.kind = "sync" /\ r.ok => SyncedSoFar(r)'
    <3> SUFFICES ASSUME syncCall[c].alone, r.kind = "sync", r.ok PROVE SyncedSoFar(r)'
      OBVIOUS
    <3>1. SyncedSoFar(syncCall[c])
      BY <2>2, AloneSynced
    <3>2. named'[x] = syncCall[c].version /\ \A y \in ShopProducts : y # x => named'[y] = named[y]
      BY <2>1, <1>0 DEF SyncType
    <3>3. \A y \in ShopProducts : y # x /\ Settled(y) => Settled(y)'
      BY <1>u, <2>1, <3>2 DEF Settled
    <3> QED BY <3>1, <3>2, <3>3, <1>0, <2>1, <2>2, <1>u DEF SyncedSoFar
  <2> QED BY <1>0, <1>u, <2>2, <2>3, SettleCallStep
<1> QED BY <1>1, <1>2

\* The job is closed.
LEMMA FinishJobSettles ==
  ASSUME SettleInv, TakenInv', NEW c \in SyncCalls, FinishJob(c)
  PROVE  SettleInv'
<1> USE DEF SettleInv, TakenInv
<1>0. syncCall[c].step = "finish" /\ syncCall[c].kind = "sync" /\ syncCall[c].product = "none"
  BY FinishJobStep
<1>1. PICK r \in SyncCallType :
        /\ syncCall' = [syncCall EXCEPT ![c] = r] /\ r.step = "report"
        /\ r.kind = "sync" /\ r.product = "none"
        /\ r.todo = syncCall[c].todo /\ r.ok = syncCall[c].ok /\ r.alone = syncCall[c].alone
  BY FinishJobStep
<1>u. UNCHANGED <<mapped, named, shop, linkedTo, variants, unpriced, priced, upToDate>>
  BY DEF FinishJob, catalogVars, shopVars
<1>3. syncCall[c].alone /\ r.ok => SyncedSoFar(r)'
  <2> SUFFICES ASSUME syncCall[c].alone, r.ok PROVE SyncedSoFar(r)'
    OBVIOUS
  <2>1. SyncedSoFar(syncCall[c])
    BY <1>0, <1>1, AloneSynced
  <2> QED BY <2>1, <1>0, <1>1, <1>u, SettledStays DEF SyncedSoFar, UpsertSteps
<1> QED BY <1>0, <1>u, <1>1, <1>3, SettleCallStep

\* The products of the shop have SKUs of their own.
DistinctSkus == \A x, y \in ShopProducts : SkuKey(x) = SkuKey(y) => x = y

\* The variant is found: with distinct SKUs its price is nobody else's.
LEMMA UpsertVariantSettles ==
  ASSUME DistinctSkus, SettleInv, TakenInv', NEW c \in SyncCalls, UpsertVariant(c)
  PROVE  SettleInv'
<1> USE DEF SettleInv, TakenInv
<1> DEFINE x == syncCall[c].product
<1>0. /\ syncCall[c] \in SyncCallType
      /\ syncCall[c].step = "variant" /\ syncCall[c].step \in UpsertSteps
      /\ x \in ShopProducts
  BY DEF SyncType, CallsShaped, UpsertVariant, SyncShape, SyncCallType, UpsertSteps
<1>u. UNCHANGED <<mapped, named, shop, linkedTo, variants, upToDate>>
  BY DEF UpsertVariant, shopVars
<1>1. CASE linkedTo[x] # "none"
  <2>1. /\ NextProduct(c)
        /\ priced' = [priced EXCEPT ![linkedTo[x]] = syncCall[c].version]
        /\ unpriced' = unpriced \ {x}
    BY <1>1 DEF UpsertVariant
  <2>2. PICK r \in SyncCallType :
          /\ syncCall' = [syncCall EXCEPT ![c] = r]
          /\ r.step = IF syncCall[c].todo = {} THEN "finish" ELSE "pull"
          /\ r.kind = syncCall[c].kind /\ r.product = "none" /\ r.todo = syncCall[c].todo
          /\ r.ok = syncCall[c].ok /\ r.alone = syncCall[c].alone
    BY <1>0, <2>1, NextProductStep
  <2>3. syncCall[c].alone /\ r.kind = "sync" /\ r.ok => SyncedSoFar(r)'
    <3> SUFFICES ASSUME syncCall[c].alone, r.kind = "sync", r.ok PROVE SyncedSoFar(r)'
      OBVIOUS
    <3>1. /\ \A y \in ShopProducts : y \in syncCall[c].todo \/ y = x \/ Settled(y)
          /\ syncCall[c].version = shop[x]
          /\ x \in mapped /\ named[x] = syncCall[c].version
      BY <2>2, <1>0, AloneSynced DEF SyncedSoFar
    <3>2. \A y \in ShopProducts : linkedTo[y] # "none" =>
            linkedTo[y] = SkuKey(y) /\ linkedTo[y] \in variants /\ linkedTo[y] \in Skus
      BY DEF TakenOverOnce, OneProductPerExternal, SyncType
    <3>x. PICK z \in ShopProducts : z = x
      BY <1>0
    <3>3. Settled(z)'
      BY <3>x, <3>1, <3>2, <1>0, <1>1, <1>u, <2>1 DEF Settled, SyncType
    <3>4. ASSUME NEW y \in ShopProducts, y # x, Settled(y) PROVE Settled(y)'
      <4>1. linkedTo[y] # "none" /\ linkedTo[y] # linkedTo[x]
        BY <3>2, <3>4, <1>0, <1>1, IntegrationsAssumption DEF Settled, DistinctSkus, SyncType
      <4>2. priced'[linkedTo[y]] = priced[linkedTo[y]]
        BY <4>1, <3>2, <1>0, <1>1, <2>1 DEF SyncType
      <4> QED BY <4>2, <3>4, <1>u, <2>1 DEF Settled
    <3> QED BY <3>x, <3>1, <3>3, <3>4, <2>2, <1>u DEF SyncedSoFar, UpsertSteps
  <2> QED BY <1>0, <1>u, <2>2, <2>3, SettleCallStep
<1>2. CASE linkedTo[x] = "none"
  <2>1. PICK st \in {"link", "createVariant"} : Then(c, st) /\ UNCHANGED <<priced, unpriced>>
    BY <1>2 DEF UpsertVariant
  <2>2. PICK r \in SyncCallType :
          /\ syncCall' = [syncCall EXCEPT ![c] = r] /\ r.step = st
          /\ r.kind = syncCall[c].kind /\ r.product = x /\ r.todo = syncCall[c].todo
          /\ r.version = syncCall[c].version
          /\ r.ok = syncCall[c].ok /\ r.alone = syncCall[c].alone
    BY <1>0, <2>1, ThenStep DEF UpsertSteps
  <2>3. syncCall[c].alone /\ r.kind = "sync" /\ r.ok => SyncedSoFar(r)'
    <3> SUFFICES ASSUME syncCall[c].alone, r.kind = "sync", r.ok PROVE SyncedSoFar(r)'
      OBVIOUS
    <3>1. SyncedSoFar(syncCall[c])
      BY <2>2, AloneSynced
    <3>2. \A y \in ShopProducts : Settled(y) => Settled(y)'
      BY <1>u, <2>1, SettledStays
    <3> QED BY <3>1, <3>2, <1>0, <2>1, <2>2, <1>u DEF SyncedSoFar
  <2> QED BY <1>0, <1>u, <2>2, <2>3, SettleCallStep
<1> QED BY <1>1, <1>2

\* The variant is inserted with the shop's price.
LEMMA CreateVariantSettles ==
  ASSUME SettleInv, TakenInv', NEW c \in SyncCalls, CreateVariant(c)
  PROVE  SettleInv'
<1> USE DEF SettleInv, TakenInv
<1> DEFINE x == syncCall[c].product
           sku == SkuKey(x)
<1>0. /\ syncCall[c] \in SyncCallType
      /\ syncCall[c].step = "createVariant" /\ syncCall[c].step \in UpsertSteps
      /\ x \in ShopProducts /\ sku \in Skus
  BY DEF SyncType, CallsShaped, CreateVariant, SyncShape, SyncCallType, UpsertSteps, Skus
<1>u. UNCHANGED <<mapped, named, shop, linkedTo, unpriced, upToDate>>
  BY DEF CreateVariant, shopVars
<1>1. CASE sku \in variants
  <2>1. Throw(c)
    BY <1>1 DEF CreateVariant
  <2>2. PICK r \in SyncCallType :
          syncCall' = [syncCall EXCEPT ![c] = r] /\ ~r.ok /\ r.alone = syncCall[c].alone
    BY <1>0, <2>1, ThrowStep
  <2> QED BY <1>0, <1>u, <2>2, SettleCallStep
<1>2. CASE sku \notin variants
  <2>1. /\ Then(c, "link") /\ variants' = variants \union {sku}
        /\ priced' = [priced EXCEPT ![sku] = syncCall[c].version]
    BY <1>2 DEF CreateVariant
  <2>2. PICK r \in SyncCallType :
          /\ syncCall' = [syncCall EXCEPT ![c] = r] /\ r.step = "link"
          /\ r.kind = syncCall[c].kind /\ r.product = x /\ r.todo = syncCall[c].todo
          /\ r.version = syncCall[c].version
          /\ r.ok = syncCall[c].ok /\ r.alone = syncCall[c].alone
    BY <1>0, <2>1, ThenStep DEF UpsertSteps
  <2>3. syncCall[c].alone /\ r.kind = "sync" /\ r.ok => SyncedSoFar(r)'
    <3> SUFFICES ASSUME syncCall[c].alone, r.kind = "sync", r.ok PROVE SyncedSoFar(r)'
      OBVIOUS
    <3>1. SyncedSoFar(syncCall[c])
      BY <2>2, AloneSynced
    <3> HIDE DEF sku
    <3>2. \A k \in Skus : k # sku => priced'[k] = priced[k]
      BY <2>1, <1>0 DEF SyncType
    <3>3. \A y \in ShopProducts : Settled(y) => Settled(y)'
      BY <3>2, <1>2, <1>u, <2>1 DEF Settled, SyncType
    <3> QED BY <3>1, <3>3, <1>0, <2>2, <1>u DEF SyncedSoFar
  <2> QED BY <1>0, <1>u, <2>2, <2>3, SettleCallStep
<1> QED BY <1>1, <1>2

\* The variant is linked.
LEMMA LinkVariantSettles ==
  ASSUME SettleInv, TakenInv', NEW c \in SyncCalls, LinkVariant(c)
  PROVE  SettleInv'
<1> USE DEF SettleInv, TakenInv
<1> DEFINE x == syncCall[c].product
           sku == SkuKey(x)
<1>0. /\ syncCall[c] \in SyncCallType
      /\ syncCall[c].step = "link" /\ syncCall[c].step \in UpsertSteps
      /\ x \in ShopProducts /\ sku \in variants
  BY DEF SyncType, CallsShaped, LinkVariant, SyncShape, SyncCallType, UpsertSteps, UpsertInv
<1>u. UNCHANGED <<mapped, named, shop, variants, priced, upToDate>>
  BY DEF LinkVariant, shopVars
<1>1. CASE linkedTo[x] # "none"
  <2>1. Throw(c)
    BY <1>1 DEF LinkVariant
  <2>2. PICK r \in SyncCallType :
          syncCall' = [syncCall EXCEPT ![c] = r] /\ ~r.ok /\ r.alone = syncCall[c].alone
    BY <1>0, <2>1, ThrowStep
  <2> QED BY <1>0, <1>u, <2>2, SettleCallStep
<1>2. CASE linkedTo[x] = "none"
  <2>1. /\ NextProduct(c) /\ linkedTo' = [linkedTo EXCEPT ![x] = sku]
        /\ unpriced' = IF priced[sku] # syncCall[c].version
                         THEN unpriced \union {x} ELSE unpriced
    BY <1>2 DEF LinkVariant
  <2>2. PICK r \in SyncCallType :
          /\ syncCall' = [syncCall EXCEPT ![c] = r]
          /\ r.step = IF syncCall[c].todo = {} THEN "finish" ELSE "pull"
          /\ r.kind = syncCall[c].kind /\ r.product = "none" /\ r.todo = syncCall[c].todo
          /\ r.ok = syncCall[c].ok /\ r.alone = syncCall[c].alone
    BY <1>0, <2>1, NextProductStep
  <2>3. syncCall[c].alone /\ r.kind = "sync" /\ r.ok => SyncedSoFar(r)'
    <3> SUFFICES ASSUME syncCall[c].alone, r.kind = "sync", r.ok PROVE SyncedSoFar(r)'
      OBVIOUS
    <3>1. /\ \A y \in ShopProducts : y \in syncCall[c].todo \/ y = x \/ Settled(y)
          /\ syncCall[c].version = shop[x]
          /\ x \in mapped /\ named[x] = syncCall[c].version
      BY <2>2, <1>0, AloneSynced DEF SyncedSoFar
    <3> HIDE DEF sku
    <3>2. linkedTo'[x] = sku /\ \A y \in ShopProducts : y # x => linkedTo'[y] = linkedTo[y]
      BY <2>1, <1>0 DEF SyncType
    <3>x. PICK z \in ShopProducts : z = x
      BY <1>0
    <3>3. Settled(z)'
      BY <3>x, <3>1, <3>2, <1>0, <1>u, <2>1 DEF Settled
    <3>4. \A y \in ShopProducts : y # x /\ Settled(y) => Settled(y)'
      BY <3>2, <1>u, <2>1 DEF Settled
    <3> QED BY <3>x, <3>1, <3>3, <3>4, <2>2, <1>u DEF SyncedSoFar, UpsertSteps
  <2> QED BY <1>0, <1>u, <2>2, <2>3, SettleCallStep
<1> QED BY <1>1, <1>2

\* Every step keeps SettleInv.
LEMMA SettleStep ==
  ASSUME DistinctSkus PROVE SettleInv /\ [IntegrationsNext]_integrationVars => SettleInv'
<1> SUFFICES ASSUME SettleInv, [IntegrationsNext]_integrationVars PROVE SettleInv'
  OBVIOUS
<1>0. TakenInv'
  BY TakenStep DEF SettleInv
<1>1. CASE UNCHANGED integrationVars
  BY <1>0, <1>1 DEF SettleInv, integrationVars, AloneSync, SyncSettles, Settled
<1>2. ASSUME NEW x \in ShopProducts, ShopChanges(x) PROVE SettleInv'
  BY <1>0, <1>2, ShopChangesSettles
<1>3. ASSUME NEW c \in SyncCalls,
             \/ StartSync(c) \/ PullPage(c) \/ PullFails(c) \/ ReceiveWebhook(c)
             \/ UpsertProduct(c) \/ CreateProduct(c) \/ MapProduct(c)
             \/ UpsertVariant(c) \/ CreateVariant(c) \/ LinkVariant(c)
             \/ FinishJob(c) \/ ReportSync(c) \/ FinishWebhook(c) \/ BreakOff(c)
      PROVE  SettleInv'
  BY <1>0, <1>3, BeginSettles, PullSettles, UpsertProductSettles, MapProductSettles,
     UpsertVariantSettles, CreateVariantSettles, LinkVariantSettles, FinishJobSettles, EndSettles
<1> QED BY <1>1, <1>2, <1>3 DEF IntegrationsNext

\* A sync that runs alone brings the catalogue in line with the shop, whatever failed
\* before (runProductSync), for any shop whose variants have SKUs of their own: two that
\* share one share a variant row, and its price is that of the one updated last.
THEOREM SyncAlwaysSettles == ASSUME DistinctSkus PROVE IntegrationsSpec => []SyncSettles
<1>1. SettleInv => SyncSettles
  BY DEF SettleInv
<1> QED BY <1>1, SettleInit, SettleStep, PTL DEF IntegrationsSpec
-----------------------------------------------------------------------------
(* Billing *)

\* A request that changes what is billed.
BillingCallType ==
  [step : {"idle", "found", "recompute", "invite", "accept", "users", "upsert", "push",
           "send", "answer"},
   user : Users \union {"none"}, invite : Invitations \union {"none"},
   prices : [Keys -> Nat], branches : Nat, users : Nat, total : Int,
   rows : SUBSET ExtraKeys, key : ExtraKeys \union {"none"}, quantity : Int, alone : BOOLEAN]

\* An Invitation row.
InvitationType ==
  [state : {"absent", "open", "expired", "accepted"}, user : Users \union {"none"},
   role : Roles \union {"none"}]

\* The users with a membership.
Members == {u \in Users : role[u] # "none"}

\* The branches that are billed.
Open == {b \in Branches : branch[b] = "active"}

\* The types.
BillingType ==
  /\ founded \in [Users -> Nat]
  /\ role \in [Users -> Roles \union {"none", "owner"}]
  /\ branch \in [Branches -> {"absent", "active", "archived"}]
  /\ invitation \in [Invitations -> InvitationType]
  /\ item \in [Keys -> [quantity : Int, snapshot : Int]]
  /\ catalogue \in [Keys -> [price : Nat, active : BOOLEAN]]
  /\ charged \in [ExtraKeys -> Int]
  /\ billingCall \in [BillingCalls -> BillingCallType]
  /\ linked \in BOOLEAN

\* Which fields of a request are in use at which statement.
CallShape(r) ==
  /\ r.step = "idle" => ~r.alone
  /\ r.user # "none" <=> r.step \in {"found", "invite"}
  /\ r.invite # "none" <=> r.step = "accept"
  /\ r.step \in {"answer", "idle"} => r.rows = {}

\* Every request has that shape.
BillShapes == \A c \in BillingCalls : CallShape(billingCall[c])

\* Before the tenant is founded there is nobody to invite or to accept.
FirstInv ==
  \/ Exists
  \/ /\ \A u \in Users : role[u] = "none"
     /\ \A i \in Invitations : invitation[i].state = "absent"
     /\ \A c \in BillingCalls : billingCall[c].step \notin {"invite", "accept"}

\* An invitation that was written names its user and role, and one that is being
\* accepted was written.
InviteInv ==
  /\ \A i \in Invitations : invitation[i].state # "absent" =>
       invitation[i].user \in Users /\ invitation[i].role \in Roles
  /\ \A c \in BillingCalls : billingCall[c].step = "accept" =>
       invitation[billingCall[c].invite].state # "absent"

\* Unless two onboardings of a user overlapped (twiceFounder), the user who founds has
\* founded nothing yet and does so once.
FoundInv ==
  \A c \in BillingCalls : billingCall[c].step = "found" =>
    LET u == billingCall[c].user
    IN  \/ u \in twiceFounder
        \/ /\ founded[u] = 0
           /\ \A d \in BillingCalls \ {c} :
                ~(billingCall[d].step = "found" /\ billingCall[d].user = u)

\* The inductive invariant of MembersAreDue.
MembersInv ==
  /\ BillingType /\ BillShapes /\ FirstInv /\ InviteInv /\ FoundInv
  /\ IsFiniteSet(Members) /\ IsFiniteSet(Open)
  /\ MembersAreDue

\* The items say what there is.
RightQuantities ==
  /\ item["base"].quantity = 1
  /\ item["extra_branch"].quantity = AtLeastOne(ActiveBranches) - 1
  /\ item["extra_user"].quantity = AtLeastOne(BillableUsers) - 1

\* Until the admin changes a price, each item's snapshot is the catalogue's.
SnapshotsAreCatalogue == ~repriced => \A k \in Keys : item[k].snapshot = Catalogue[k].price

\* A total is the right one.
RightTotal(t) == t = MonthlyTotal(ResolvedPrices, ActiveBranches, BillableUsers)

\* A recomputation that has run alone so far
ComputedSoFar(r) ==
  /\ r.step \in {"users", "upsert"} =>
       r.prices = ResolvedPrices /\ r.branches = AtLeastOne(ActiveBranches)
  /\ r.step = "upsert" => r.users = AtLeastOne(BillableUsers)
  /\ r.step \in {"push", "send", "answer"} =>
       /\ RightQuantities /\ SnapshotsAreCatalogue /\ RightTotal(r.total)
       /\ linked => \A k \in StripePriced \ r.rows :
            charged[k] = item[k].quantity \/ (r.step = "send" /\ k = r.key)
  /\ r.step = "send" => r.quantity = item[r.key].quantity /\ r.key # "none"

\* Until the admin changes a price, what was read or written is the catalogue's.
PricesInv ==
  ~repriced =>
    /\ catalogue = Catalogue
    /\ \A k \in Keys : item[k].snapshot \in {NoRow, Catalogue[k].price}
    /\ \A c \in BillingCalls : billingCall[c].step = "found" =>
         billingCall[c].prices["base"] = Catalogue["base"].price

\* What a recomputation that ran alone has left.
AllSettled ==
  settled =>
    /\ \A c \in BillingCalls : billingCall[c].step = "idle"
    /\ RightQuantities /\ SnapshotsAreCatalogue /\ RightTotal(answer.total)
    /\ linked => \A k \in StripePriced : charged[k] = item[k].quantity

\* The inductive invariant of AloneSettles.
BillingInv ==
  /\ MembersInv /\ PricesInv /\ AllSettled
  /\ \A c \in BillingCalls : billingCall[c].alone =>
       /\ \A d \in BillingCalls \ {c} : billingCall[d].step = "idle"
       /\ ComputedSoFar(billingCall[c])

\* The idle request has its type and shape.
LEMMA BillingIdleType ==
  /\ BillingIdle \in BillingCallType /\ CallShape(BillingIdle)
  /\ BillingIdle.step = "idle" /\ BillingIdle.user = "none" /\ BillingIdle.invite = "none"
  /\ ~BillingIdle.alone
  BY BillingAssumption DEF BillingIdle, BillingCallType, CallShape, Keys, ExtraKeys

\* MembersInv holds of a tenant that does not exist yet.
LEMMA MembersInit == BillingInit => MembersInv
<1> SUFFICES ASSUME BillingInit PROVE MembersInv
  OBVIOUS
<1> USE DEF BillingInit
<1>1. BillingType
  <2>1. billingCall \in [BillingCalls -> BillingCallType]
    BY BillingIdleType
  <2>2. invitation \in [Invitations -> InvitationType]
    BY DEF InvitationType
  <2>3. catalogue \in [Keys -> [price : Nat, active : BOOLEAN]]
    BY BillingAssumption
  <2>4. item \in [Keys -> [quantity : Int, snapshot : Int]]
    BY DEF NoRow
  <2>5. charged \in [ExtraKeys -> Int]
    OBVIOUS
  <2>6. role \in [Users -> Roles \union {"none", "owner"}]
    OBVIOUS
  <2> QED BY <2>1, <2>2, <2>3, <2>4, <2>5, <2>6 DEF BillingType
<1>2. BillShapes
  BY BillingIdleType DEF BillShapes
<1>3. FirstInv /\ InviteInv /\ FoundInv
  BY BillingIdleType DEF FirstInv, InviteInv, FoundInv
<1>4. Members = {} /\ Open = {}
  BY DEF Members, Open
<1>5. IsFiniteSet(Members) /\ IsFiniteSet(Open)
  BY <1>4, FS_EmptySet
<1>6. MembersAreDue
  <2>1. \A u \in Users : AcceptedBy(u) = {}
    BY DEF AcceptedBy
  <2> QED BY <2>1 DEF MembersAreDue, MemberByInvitation, FoundsOnce
<1> QED BY <1>1, <1>2, <1>3, <1>5, <1>6 DEF MembersInv

\* One request takes a step, the others stay.
LEMMA BillingCallStep ==
  ASSUME BillingType, BillShapes, NEW c \in BillingCalls, NEW r \in BillingCallType,
         CallShape(r), billingCall' = [billingCall EXCEPT ![c] = r]
  PROVE  /\ billingCall' \in [BillingCalls -> BillingCallType]
         /\ BillShapes'
         /\ billingCall'[c] = r
         /\ \A d \in BillingCalls \ {c} : billingCall'[d] = billingCall[d]
<1>1. /\ billingCall' \in [BillingCalls -> BillingCallType]
      /\ billingCall'[c] = r
      /\ \A d \in BillingCalls \ {c} : billingCall'[d] = billingCall[d]
  BY DEF BillingType
<1>2. \A d \in BillingCalls : CallShape(billingCall'[d])
  BY <1>1 DEF BillShapes
<1> QED BY <1>1, <1>2 DEF BillShapes, CallShape

\* A request begins.
LEMMA BillingBegins ==
  ASSUME BillingType, BillShapes, NEW c \in BillingCalls, NEW call \in BillingCallType,
         CallShape(call), call.step # "idle", BeginBilling(c, call)
  PROVE  /\ billingCall[c].step = "idle"
         /\ billingCall' \in [BillingCalls -> BillingCallType]
         /\ BillShapes'
         /\ /\ billingCall'[c].step = call.step /\ billingCall'[c].user = call.user
            /\ billingCall'[c].invite = call.invite /\ billingCall'[c].prices = call.prices
         /\ \A d \in BillingCalls \ {c} :
              /\ billingCall'[d].step = billingCall[d].step
              /\ billingCall'[d].user = billingCall[d].user
              /\ billingCall'[d].invite = billingCall[d].invite
              /\ billingCall'[d].prices = billingCall[d].prices
              /\ ~billingCall'[d].alone
         /\ billingCall'[c].alone => \A d \in BillingCalls \ {c} : billingCall[d].step = "idle"
         /\ UNCHANGED <<item, catalogue, linked, charged, repriced>>
         /\ ~settled'
<1> DEFINE others == {d \in BillingCalls : billingCall[d].step # "idle"}
           next(d) == IF d = c THEN [call EXCEPT !.alone = (others = {})]
                      ELSE IF d \in others THEN [billingCall[d] EXCEPT !.alone = FALSE]
                      ELSE billingCall[d]
<1>1. billingCall' = [d \in BillingCalls |-> next(d)]
  BY DEF BeginBilling
<1>2. /\ next(c) \in BillingCallType
      /\ next(c).step = call.step /\ next(c).user = call.user
      /\ next(c).invite = call.invite /\ next(c).prices = call.prices
      /\ next(c).rows = call.rows
      /\ next(c).alone => others = {}
  BY DEF BillingCallType
<1>3. ASSUME NEW d \in BillingCalls \ {c}
      PROVE  /\ next(d) \in BillingCallType
             /\ next(d).step = billingCall[d].step /\ next(d).user = billingCall[d].user
             /\ next(d).invite = billingCall[d].invite
             /\ next(d).prices = billingCall[d].prices
             /\ next(d).rows = billingCall[d].rows
             /\ ~next(d).alone
  <2>1. billingCall[d] \in BillingCallType /\ CallShape(billingCall[d])
    BY DEF BillingType, BillShapes
  <2>2. CASE d \in others
    BY <2>1, <2>2 DEF BillingCallType
  <2>3. CASE d \notin others
    BY <2>1, <2>3 DEF CallShape
  <2> QED BY <2>2, <2>3
<1>4. \A d \in BillingCalls : billingCall'[d] = next(d)
  BY <1>1
<1>5. /\ billingCall[c].step = "idle" /\ ~settled'
      /\ UNCHANGED <<item, catalogue, linked, charged, repriced>>
  BY DEF BeginBilling
<1> HIDE DEF next
<1>6. billingCall' \in [BillingCalls -> BillingCallType]
  BY <1>1, <1>2, <1>3
<1>7. ASSUME NEW d \in BillingCalls PROVE CallShape(billingCall'[d])
  <2>1. CASE d = c
    BY <2>1, <1>2, <1>4 DEF CallShape
  <2>2. CASE d # c
    <3>1. CallShape(billingCall[d])
      BY DEF BillShapes
    <3> QED BY <2>2, <3>1, <1>3, <1>4 DEF CallShape
  <2> QED BY <2>1, <2>2
<1>8. BillShapes'
  BY <1>7 DEF BillShapes, CallShape
<1> QED BY <1>2, <1>3, <1>4, <1>5, <1>6, <1>8

\* Members and invitations stay as they are.
LEMMA DueStays ==
  ASSUME MembersAreDue, UNCHANGED <<role, invitation>>,
         founded' = founded, twiceFounder \subseteq twiceFounder'
  PROVE  MembersAreDue'
<1>1. \A u \in Users : AcceptedBy(u)' = AcceptedBy(u)
  BY DEF AcceptedBy
<1>2. MemberByInvitation'
  BY <1>1 DEF MembersAreDue, MemberByInvitation
<1>3. FoundsOnce'
  BY DEF MembersAreDue, FoundsOnce
<1> QED BY <1>2, <1>3 DEF MembersAreDue

\* A step of a request that leaves the tenant alone.
LEMMA QuietMembers ==
  ASSUME MembersInv, NEW c \in BillingCalls, NEW r \in BillingCallType, CallShape(r),
         billingCall' = [billingCall EXCEPT ![c] = r],
         r.step \notin {"found", "invite", "accept"},
         UNCHANGED <<tenantVars, linked>>,
         item' \in [Keys -> [quantity : Int, snapshot : Int]],
         catalogue' \in [Keys -> [price : Nat, active : BOOLEAN]],
         charged' \in [ExtraKeys -> Int]
  PROVE  MembersInv'
<1> USE DEF MembersInv, tenantVars
<1>1. /\ billingCall' \in [BillingCalls -> BillingCallType]
      /\ BillShapes'
      /\ billingCall'[c] = r
      /\ \A d \in BillingCalls \ {c} : billingCall'[d] = billingCall[d]
  BY BillingCallStep
<1>2. BillingType'
  BY <1>1 DEF BillingType
<1>3. FirstInv'
  BY <1>1 DEF FirstInv, Exists
<1>4. InviteInv'
  BY <1>1 DEF InviteInv
<1>5. FoundInv'
  BY <1>1 DEF FoundInv
<1>6. Members' = Members /\ Open' = Open
  BY DEF Members, Open
<1>7. MembersAreDue'
  BY DueStays
<1> QED BY <1>1, <1>2, <1>3, <1>4, <1>5, <1>6, <1>7

\* A request that begins keeps MembersInv.
LEMMA BeginMembers ==
  ASSUME MembersInv, NEW c \in BillingCalls, NEW call \in BillingCallType, CallShape(call),
         call.step # "idle", BeginBilling(c, call), UNCHANGED <<founded, role, invitation>>,
         branch' \in [Branches -> {"absent", "active", "archived"}], IsFiniteSet(Open'),
         twiceFounder \subseteq twiceFounder',
         call.step \in {"invite", "accept"} => Exists,
         call.step = "accept" => invitation[call.invite].state # "absent",
         call.step = "found" =>
           \/ call.user \in twiceFounder'
           \/ /\ founded[call.user] = 0
              /\ \A d \in BillingCalls \ {c} : billingCall[d].user # call.user
  PROVE  MembersInv'
<1> USE DEF MembersInv
<1>1. /\ billingCall' \in [BillingCalls -> BillingCallType]
      /\ BillShapes'
      /\ billingCall'[c].step = call.step /\ billingCall'[c].user = call.user
      /\ billingCall'[c].invite = call.invite
      /\ \A d \in BillingCalls \ {c} :
           /\ billingCall'[d].step = billingCall[d].step
           /\ billingCall'[d].user = billingCall[d].user
           /\ billingCall'[d].invite = billingCall[d].invite
      /\ UNCHANGED <<item, catalogue, linked, charged>>
  BY BillingBegins
<1>2. BillingType'
  BY <1>1 DEF BillingType
<1>3. FirstInv'
  BY <1>1 DEF FirstInv, Exists
<1>4. InviteInv'
  BY <1>1 DEF InviteInv
<1>5. FoundInv'
  <2> SUFFICES ASSUME NEW d \in BillingCalls, billingCall'[d].step = "found"
               PROVE  \/ billingCall'[d].user \in twiceFounder'
                      \/ /\ founded'[billingCall'[d].user] = 0
                         /\ \A e \in BillingCalls \ {d} :
                              ~(/\ billingCall'[e].step = "found"
                                /\ billingCall'[e].user = billingCall'[d].user)
    BY DEF FoundInv
  <2>1. CASE d = c
    BY <2>1, <1>1
  <2>2. CASE d # c
    BY <2>2, <1>1 DEF FoundInv
  <2> QED BY <2>1, <2>2
<1>6. Members' = Members
  BY DEF Members
<1>7. MembersAreDue'
  BY DueStays
<1> QED BY <1>1, <1>2, <1>3, <1>4, <1>5, <1>6, <1>7

\* Resolved prices are prices.
LEMMA PricesType ==
  ASSUME BillingType PROVE ResolvedPrices \in [Keys -> Nat]
  BY BillingAssumption DEF BillingType, ResolvedPrices

\* createTenant begins.
LEMMA StartTenantMembers ==
  ASSUME MembersInv, NEW c \in BillingCalls, StartTenant(c) PROVE MembersInv'
<1> USE DEF MembersInv
<1>1. PICK u \in Users :
        /\ Unattached(u)
        /\ BeginBilling(c, [BillingIdle EXCEPT !.step = "found", !.user = u,
                                                 !.prices = ResolvedPrices])
        /\ twiceFounder' = IF \E d \in BillingCalls : billingCall[d].user = u
                             THEN twiceFounder \union {u} ELSE twiceFounder
  BY DEF StartTenant
<1> DEFINE call == [BillingIdle EXCEPT !.step = "found", !.user = u, !.prices = ResolvedPrices]
<1>2. /\ call \in BillingCallType /\ call.step = "found" /\ call.user = u
      /\ call.invite = "none"
  BY PricesType, BillingIdleType DEF BillingCallType
<1>3. BeginBilling(c, call)
  BY <1>1
<1> HIDE DEF call
<1>4. CallShape(call)
  BY <1>2, BillingAssumption DEF CallShape
<1>u. UNCHANGED <<founded, role, branch, invitation>>
  BY DEF StartTenant
<1>5. branch' \in [Branches -> {"absent", "active", "archived"}] /\ IsFiniteSet(Open')
  BY <1>u DEF BillingType, Open
<1>6. twiceFounder \subseteq twiceFounder'
  BY <1>1
<1>7. \/ u \in twiceFounder'
      \/ founded[u] = 0 /\ \A d \in BillingCalls \ {c} : billingCall[d].user # u
  BY <1>1 DEF Unattached
<1> QED BY <1>2, <1>3, <1>4, <1>5, <1>6, <1>7, <1>u, BeginMembers

\* The request that begins with a recomputation.
LEMMA RecomputeCall ==
  LET call == [BillingIdle EXCEPT !.step = "recompute"]
  IN  call \in BillingCallType /\ CallShape(call) /\ call.step = "recompute"
<1> DEFINE call == [BillingIdle EXCEPT !.step = "recompute"]
<1>1. /\ call \in BillingCallType /\ call.step = "recompute" /\ call.user = "none"
      /\ call.invite = "none"
  BY BillingIdleType DEF BillingCallType
<1> HIDE DEF call
<1>2. CallShape(call)
  BY <1>1 DEF CallShape
<1> QED BY <1>1, <1>2 DEF call

\* A branch is created or archived, and the request goes on to recompute.
LEMMA BranchMembers ==
  ASSUME MembersInv, NEW c \in BillingCalls, CreateBranch(c) \/ ArchiveBranch(c)
  PROVE  MembersInv'
<1> USE DEF MembersInv
<1>1. PICK call \in BillingCallType :
        CallShape(call) /\ call.step = "recompute" /\ BeginBilling(c, call)
  BY RecomputeCall DEF CreateBranch, ArchiveBranch
<1>u. UNCHANGED <<founded, role, invitation, twiceFounder>>
  BY DEF CreateBranch, ArchiveBranch
<1>2. PICK b : \E st \in {"active", "archived"} : branch' = [branch EXCEPT ![b] = st]
  <2>1. CASE CreateBranch(c)
    <3>1. branch' = [branch EXCEPT ![Fresh(NewBranches)] = "active"]
      BY <2>1 DEF CreateBranch
    <3> QED BY <3>1
  <2>2. CASE ArchiveBranch(c)
    BY <2>2 DEF ArchiveBranch
  <2> QED BY <2>1, <2>2
<1>3. branch' \in [Branches -> {"absent", "active", "archived"}]
  BY <1>2 DEF BillingType
<1>4. IsFiniteSet(Open')
  <2>1. Open' \subseteq Open \union {b}
    BY <1>2 DEF Open, BillingType
  <2>2. IsFiniteSet(Open \union {b})
    BY FS_AddElement
  <2> QED BY <2>1, <2>2, FS_Subset
<1> QED BY <1>1, <1>3, <1>4, <1>u, BeginMembers

\* createInvitation begins.
LEMMA StartInviteMembers ==
  ASSUME MembersInv, NEW c \in BillingCalls, StartInvite(c) PROVE MembersInv'
<1> USE DEF MembersInv
<1>1. PICK u \in Users : BeginBilling(c, [BillingIdle EXCEPT !.step = "invite", !.user = u])
  BY DEF StartInvite
<1> DEFINE call == [BillingIdle EXCEPT !.step = "invite", !.user = u]
<1>2. /\ call \in BillingCallType /\ call.step = "invite" /\ call.user = u
      /\ call.invite = "none"
  BY BillingIdleType DEF BillingCallType
<1>3. BeginBilling(c, call)
  BY <1>1
<1> HIDE DEF call
<1>4. CallShape(call)
  BY <1>2, BillingAssumption DEF CallShape
<1>u. UNCHANGED <<founded, role, branch, invitation, twiceFounder>> /\ Exists
  BY DEF StartInvite, tenantVars
<1>5. branch' \in [Branches -> {"absent", "active", "archived"}] /\ IsFiniteSet(Open')
  BY <1>u DEF BillingType, Open
<1> QED BY <1>2, <1>3, <1>4, <1>5, <1>u, BeginMembers

\* acceptInvitation begins.
LEMMA StartAcceptMembers ==
  ASSUME MembersInv, NEW c \in BillingCalls, StartAccept(c) PROVE MembersInv'
<1> USE DEF MembersInv
<1>1. PICK i \in Invitations :
        /\ invitation[i].state = "open"
        /\ BeginBilling(c, [BillingIdle EXCEPT !.step = "accept", !.invite = i])
  BY DEF StartAccept
<1> DEFINE call == [BillingIdle EXCEPT !.step = "accept", !.invite = i]
<1>2. /\ call \in BillingCallType /\ call.step = "accept" /\ call.user = "none"
      /\ call.invite = i
  BY BillingIdleType DEF BillingCallType
<1>3. BeginBilling(c, call)
  BY <1>1
<1> HIDE DEF call
<1>4. CallShape(call)
  BY <1>2, BillingAssumption DEF CallShape
<1>u. UNCHANGED <<founded, role, branch, invitation, twiceFounder>>
  BY DEF StartAccept, tenantVars
<1>5. branch' \in [Branches -> {"absent", "active", "archived"}] /\ IsFiniteSet(Open')
  BY <1>u DEF BillingType, Open
<1>6. Exists
  BY <1>1 DEF FirstInv
<1> QED BY <1>1, <1>2, <1>3, <1>4, <1>5, <1>6, <1>u, BeginMembers

\* createTenant's transaction commits.
LEMMA CommitTenantMembers ==
  ASSUME MembersInv, NEW c \in BillingCalls, CommitTenant(c) PROVE MembersInv'
<1> USE DEF MembersInv
<1> DEFINE u == billingCall[c].user
<1>0. /\ billingCall[c] \in BillingCallType /\ CallShape(billingCall[c])
      /\ billingCall[c].step = "found" /\ u \in Users
  BY DEF BillingType, BillShapes, CommitTenant, CallShape, BillingCallType
<1>1. /\ billingCall' \in [BillingCalls -> BillingCallType]
      /\ BillShapes'
      /\ billingCall'[c] = BillingIdle
      /\ \A d \in BillingCalls \ {c} : billingCall'[d] = billingCall[d]
  BY BillingIdleType, BillingCallStep DEF CommitTenant, EndBilling
<1>u. UNCHANGED <<invitation, catalogue, linked, charged, twiceFounder>>
  BY DEF CommitTenant
<1>2. founded[u] \in Nat /\ founded[u] + 1 \in Nat
  BY <1>0 DEF BillingType
<1>3. /\ founded' \in [Users -> Nat] /\ founded'[u] = founded[u] + 1
      /\ \A v \in Users : v # u => founded'[v] = founded[v]
  BY <1>0, <1>2 DEF CommitTenant, BillingType
<1>4. FoundsOnce'
  <2>1. u \in twiceFounder \/ founded[u] = 0
    BY <1>0 DEF FoundInv
  <2> QED BY <2>1, <1>2, <1>3, <1>u DEF MembersAreDue, FoundsOnce
<1>5. FoundInv'
  <2>1. \A d \in BillingCalls : billingCall[d].step = "found" => billingCall[d].user \in Users
    BY DEF BillingType, BillShapes, CallShape, BillingCallType
  <2> SUFFICES ASSUME NEW d \in BillingCalls, billingCall'[d].step = "found"
               PROVE  \/ billingCall'[d].user \in twiceFounder'
                      \/ /\ founded'[billingCall'[d].user] = 0
                         /\ \A e \in BillingCalls \ {d} :
                              ~(/\ billingCall'[e].step = "found"
                                /\ billingCall'[e].user = billingCall'[d].user)
    BY DEF FoundInv
  <2>2. d # c /\ billingCall'[d] = billingCall[d]
    BY <1>1, BillingIdleType
  <2>3. billingCall[d].user \in twiceFounder \/ billingCall[d].user # u
    BY <2>2, <1>0 DEF FoundInv
  <2> QED BY <2>1, <2>2, <2>3, <1>1, <1>3, <1>u, BillingIdleType DEF FoundInv
<1>6. InviteInv'
  BY <1>1, <1>u, BillingIdleType DEF InviteInv
<1>7. CASE Exists
  <2>1. UNCHANGED <<role, branch, item>>
    BY <1>7 DEF CommitTenant
  <2>2. BillingType'
    BY <2>1, <1>1, <1>3, <1>u DEF BillingType
  <2>3. FirstInv'
    BY <2>1, <1>7 DEF FirstInv, Exists
  <2>4. Members' = Members /\ Open' = Open
    BY <2>1 DEF Members, Open
  <2>5. \A v \in Users : AcceptedBy(v)' = AcceptedBy(v)
    BY <1>u DEF AcceptedBy
  <2>6. MemberByInvitation'
    BY <2>1, <2>5, <1>u DEF MembersAreDue, MemberByInvitation
  <2> QED BY <1>1, <1>4, <1>5, <1>6, <2>2, <2>3, <2>4, <2>6 DEF MembersAreDue
<1>8. CASE ~Exists
  <2>1. /\ role' = [role EXCEPT ![u] = "owner"]
        /\ item' = [item EXCEPT !["base"] =
                      [quantity |-> 1, snapshot |-> billingCall[c].prices["base"]]]
    BY <1>8 DEF CommitTenant
  <2>b. PICK b : branch' = [branch EXCEPT ![b] = "active"]
    BY <1>8 DEF CommitTenant
  <2>2. /\ \A v \in Users : role[v] = "none"
        /\ \A i \in Invitations : invitation[i].state = "absent"
    BY <1>8 DEF FirstInv
  <2>3. /\ role' \in [Users -> Roles \union {"none", "owner"}] /\ role'[u] = "owner"
        /\ \A v \in Users \ {u} : role'[v] = "none"
    BY <2>1, <2>2, <1>0 DEF BillingType
  <2>4. BillingType'
    <3>1. billingCall[c].prices["base"] \in Nat
      BY <1>0 DEF BillingCallType, Keys
    <3>2. item' \in [Keys -> [quantity : Int, snapshot : Int]]
      BY <2>1, <3>1 DEF BillingType, Keys
    <3>3. branch' \in [Branches -> {"absent", "active", "archived"}]
      BY <2>b DEF BillingType
    <3> QED BY <2>3, <3>2, <3>3, <1>1, <1>3, <1>u DEF BillingType
  <2>5. FirstInv'
    BY <2>3, <1>0 DEF FirstInv, Exists
  <2>6. IsFiniteSet(Members') /\ IsFiniteSet(Open')
    <3>1. Members' = {u}
      BY <2>3, <1>0 DEF Members
    <3>2. Open' \subseteq Open \union {b}
      BY <2>b DEF Open, BillingType
    <3>3. IsFiniteSet(Open \union {b})
      BY FS_AddElement
    <3> QED BY <3>1, <3>2, <3>3, FS_Subset, FS_Singleton
  <2>7. \A v \in Users : AcceptedBy(v)' = {}
    BY <2>2, <1>u DEF AcceptedBy
  <2>8. MemberByInvitation'
    BY <2>3, <2>7, <1>0 DEF MemberByInvitation
  <2> QED BY <1>1, <1>4, <1>5, <1>6, <2>4, <2>5, <2>6, <2>8 DEF MembersAreDue
<1> QED BY <1>7, <1>8

\* The invitation is written.
LEMMA CommitInviteMembers ==
  ASSUME MembersInv, NEW c \in BillingCalls, CommitInvite(c) PROVE MembersInv'
<1> USE DEF MembersInv
<1> DEFINE u == billingCall[c].user
<1>0. /\ billingCall[c].step = "invite" /\ u \in Users
  BY DEF BillingType, BillShapes, CommitInvite, CallShape, BillingCallType
<1>1. /\ billingCall' \in [BillingCalls -> BillingCallType]
      /\ BillShapes'
      /\ billingCall'[c] = BillingIdle
      /\ \A d \in BillingCalls \ {c} : billingCall'[d] = billingCall[d]
  BY BillingIdleType, BillingCallStep DEF CommitInvite, EndBilling
<1>u. UNCHANGED <<founded, role, branch, twiceFounder, item, catalogue, linked, charged>>
  BY DEF CommitInvite, moneyVars
<1>2. PICK i \in NewInvitations, p \in Roles :
        invitation' = [invitation EXCEPT ![i] = [state |-> "open", user |-> u, role |-> p]]
  <2>1. Fresh(NewInvitations) \in NewInvitations
    BY DEF CommitInvite, Fresh
  <2> QED BY <2>1 DEF CommitInvite
<1>3. i \in Invitations /\ invitation[i].state = "absent"
  BY <1>2 DEF NewInvitations
<1> DEFINE row == [state |-> "open", user |-> u, role |-> p]
<1>4. row \in InvitationType /\ row.state = "open" /\ row.user = u /\ row.role = p
  BY <1>0 DEF InvitationType
<1>5. /\ invitation' \in [Invitations -> InvitationType]
      /\ invitation'[i] = row
      /\ \A j \in Invitations : j # i => invitation'[j] = invitation[j]
  BY <1>2, <1>3, <1>4 DEF BillingType
<1> HIDE DEF row
<1>6. BillingType'
  BY <1>1, <1>5, <1>u DEF BillingType
<1>7. Exists'
  BY <1>0, <1>u DEF FirstInv, Exists
<1>8. InviteInv'
  <2>1. \A d \in BillingCalls : billingCall[d].step = "accept" => billingCall[d].invite \in Invitations
    BY DEF BillingType, BillShapes, CallShape, BillingCallType
  <2> QED BY <2>1, <1>0, <1>1, <1>3, <1>4, <1>5, BillingIdleType DEF InviteInv
<1>9. FoundInv'
  BY <1>1, <1>u, BillingIdleType DEF FoundInv
<1>10. Members' = Members /\ Open' = Open
  BY <1>u DEF Members, Open
<1>11. \A v \in Users : AcceptedBy(v)' = AcceptedBy(v)
  BY <1>3, <1>4, <1>5 DEF AcceptedBy
<1>12. MemberByInvitation'
  <2>1. \A v \in Users, j \in Invitations : AcceptedBy(v) = {j} => invitation'[j] = invitation[j]
    BY <1>3, <1>5 DEF AcceptedBy
  <2> QED BY <2>1, <1>11, <1>u DEF MembersAreDue, MemberByInvitation
<1>13. FoundsOnce'
  BY <1>u DEF MembersAreDue, FoundsOnce
<1> QED BY <1>1, <1>6, <1>7, <1>8, <1>9, <1>10, <1>12, <1>13 DEF FirstInv, MembersAreDue

\* An invitation expires.
LEMMA ExpireMembers ==
  ASSUME MembersInv, NEW i \in Invitations, ExpireInvitation(i) PROVE MembersInv'
<1> USE DEF MembersInv
<1>u. UNCHANGED <<founded, role, branch, twiceFounder, item, catalogue, linked, charged,
                  billingCall>>
  BY DEF ExpireInvitation, moneyVars
<1> DEFINE row == [invitation[i] EXCEPT !.state = "expired"]
<1>1. invitation[i] \in InvitationType /\ invitation[i].state = "open"
  BY DEF ExpireInvitation, BillingType
<1>2. /\ row \in InvitationType /\ row.state = "expired" /\ row.user = invitation[i].user
      /\ row.role = invitation[i].role
  BY <1>1 DEF InvitationType
<1>3. invitation' = [invitation EXCEPT ![i] = row]
  BY <1>1 DEF ExpireInvitation, BillingType, InvitationType
<1>4. /\ invitation' \in [Invitations -> InvitationType]
      /\ invitation'[i] = row
      /\ \A j \in Invitations : j # i => invitation'[j] = invitation[j]
  BY <1>2, <1>3 DEF BillingType
<1> HIDE DEF row
<1>5. BillingType' /\ BillShapes'
  BY <1>4, <1>u DEF BillingType, BillShapes, CallShape
<1>6. Exists'
  BY <1>1, <1>u DEF FirstInv, Exists
<1>7. InviteInv'
  <2>1. \A d \in BillingCalls : billingCall[d].step = "accept" => billingCall[d].invite \in Invitations
    BY DEF BillingType, BillShapes, CallShape, BillingCallType
  <2> QED BY <2>1, <1>1, <1>2, <1>4, <1>u DEF InviteInv
<1>8. FoundInv'
  BY <1>u DEF FoundInv
<1>9. Members' = Members /\ Open' = Open
  BY <1>u DEF Members, Open
<1>10. \A v \in Users : AcceptedBy(v)' = AcceptedBy(v)
  BY <1>1, <1>2, <1>4 DEF AcceptedBy
<1>11. MemberByInvitation'
  <2>1. \A v \in Users, j \in Invitations : AcceptedBy(v) = {j} => invitation'[j] = invitation[j]
    BY <1>1, <1>4 DEF AcceptedBy
  <2> QED BY <2>1, <1>10, <1>u DEF MembersAreDue, MemberByInvitation
<1>12. FoundsOnce'
  BY <1>u DEF MembersAreDue, FoundsOnce
<1> QED BY <1>5, <1>6, <1>7, <1>8, <1>9, <1>11, <1>12 DEF FirstInv, MembersAreDue

\* The record of a request that goes on with the recomputation.
LEMMA ThenRecomputeStep ==
  ASSUME BillingType, NEW c \in BillingCalls, ThenRecompute(c)
  PROVE  \E r \in BillingCallType :
           /\ CallShape(r) /\ billingCall' = [billingCall EXCEPT ![c] = r]
           /\ r.step = "recompute" /\ r.alone = billingCall[c].alone
<1> DEFINE r == [BillingIdle EXCEPT !.step = "recompute", !.alone = billingCall[c].alone]
<1>1. /\ r \in BillingCallType /\ r.step = "recompute" /\ r.user = "none"
      /\ r.invite = "none" /\ r.alone = billingCall[c].alone
  BY BillingIdleType DEF BillingCallType, BillingType
<1>2. billingCall' = [billingCall EXCEPT ![c] = r]
  BY DEF ThenRecompute
<1> HIDE DEF r
<1>3. CallShape(r)
  BY <1>1 DEF CallShape
<1> QED BY <1>1, <1>2, <1>3

\* acceptInvitation's transaction commits.
LEMMA CommitAcceptMembers ==
  ASSUME MembersInv, NEW c \in BillingCalls, CommitAccept(c) PROVE MembersInv'
<1> USE DEF MembersInv
<1> DEFINE i == billingCall[c].invite
           u == invitation[i].user
<1>0. /\ billingCall[c].step = "accept" /\ i \in Invitations
      /\ invitation[i] \in InvitationType /\ invitation[i].state # "absent"
      /\ u \in Users /\ invitation[i].role \in Roles /\ role[u] = "none"
  BY DEF BillingType, BillShapes, CommitAccept, CallShape, BillingCallType, InviteInv
<1>1. PICK r \in BillingCallType :
        /\ CallShape(r) /\ billingCall' = [billingCall EXCEPT ![c] = r] /\ r.step = "recompute"
  BY ThenRecomputeStep DEF CommitAccept
<1>2. /\ billingCall' \in [BillingCalls -> BillingCallType]
      /\ BillShapes'
      /\ billingCall'[c] = r
      /\ \A d \in BillingCalls \ {c} : billingCall'[d] = billingCall[d]
  BY <1>1, BillingCallStep
<1>u. UNCHANGED <<founded, branch, twiceFounder, item, catalogue, linked, charged>>
  BY DEF CommitAccept, moneyVars
<1> DEFINE row == [invitation[i] EXCEPT !.state = "accepted"]
<1>3. /\ row \in InvitationType /\ row.state = "accepted" /\ row.user = u
      /\ row.role = invitation[i].role
  BY <1>0 DEF InvitationType
<1>4. invitation' = [invitation EXCEPT ![i] = row]
  BY <1>0 DEF CommitAccept, BillingType, InvitationType
<1>5. /\ invitation' \in [Invitations -> InvitationType]
      /\ invitation'[i] = row
      /\ \A j \in Invitations : j # i => invitation'[j] = invitation[j]
  BY <1>0, <1>3, <1>4 DEF BillingType
<1> HIDE DEF row
<1>6. /\ role' \in [Users -> Roles \union {"none", "owner"}]
      /\ role'[u] = invitation[i].role
      /\ \A v \in Users : v # u => role'[v] = role[v]
  BY <1>0 DEF CommitAccept, BillingType
<1>7. BillingType'
  BY <1>2, <1>5, <1>6, <1>u DEF BillingType
<1>8. Exists'
  BY <1>0, <1>6 DEF FirstInv, Exists
<1>9. InviteInv'
  <2>1. \A d \in BillingCalls : billingCall[d].step = "accept" => billingCall[d].invite \in Invitations
    BY DEF BillingType, BillShapes, CallShape, BillingCallType
  <2> QED BY <2>1, <1>0, <1>1, <1>2, <1>3, <1>5 DEF InviteInv
<1>10. FoundInv'
  BY <1>1, <1>2, <1>u DEF FoundInv
<1>11. Open' = Open /\ IsFiniteSet(Members')
  <2>1. Members' \subseteq Members \union {u} /\ IsFiniteSet(Members \union {u})
    BY <1>6, FS_AddElement DEF Members
  <2> QED BY <2>1, <1>u, FS_Subset DEF Open
<1>12. MemberByInvitation'
  <2>1. AcceptedBy(u) = {}
    <3>1. \A j \in Invitations : AcceptedBy(u) = {j} => invitation[j].state = "accepted"
      BY DEF AcceptedBy
    <3> QED BY <3>1, <1>0, BillingAssumption DEF MembersAreDue, MemberByInvitation, InviteInv
  <2> HIDE DEF u, i
  <2>2. PICK w \in Users, k \in Invitations : w = u /\ k = i
    BY <1>0
  <2>3. AcceptedBy(w)' = {k} /\ role'[w] = invitation'[k].role
    BY <2>1, <2>2, <1>0, <1>3, <1>5, <1>6 DEF AcceptedBy
  <2>4. ASSUME NEW v \in Users, v # w
        PROVE  /\ AcceptedBy(v)' = AcceptedBy(v)
               /\ \A j \in Invitations : AcceptedBy(v) = {j} => invitation'[j].role = invitation[j].role
    <3>1. invitation[k].user # v
      BY <2>2, <2>4, <1>0 DEF u
    <3> QED BY <3>1, <2>2, <2>4, <1>3, <1>5 DEF AcceptedBy
  <2>5. ASSUME NEW v \in Users, AcceptedBy(v)' # {}
        PROVE  \E j \in Invitations : AcceptedBy(v)' = {j} /\ role'[v] = invitation'[j].role
    <3>1. CASE v = w
      BY <3>1, <2>3
    <3>2. CASE v # w
      <4>1. PICK j \in Invitations : AcceptedBy(v) = {j} /\ role[v] = invitation[j].role
        BY <3>2, <2>4, <2>5 DEF MembersAreDue, MemberByInvitation
      <4> QED BY <4>1, <3>2, <2>2, <2>4, <1>6
    <3> QED BY <3>1, <3>2
  <2>6. ASSUME NEW v \in Users, AcceptedBy(v)' = {}
        PROVE  /\ role'[v] \in {"none", "owner"}
               /\ role'[v] = "owner" =>
                    \A y \in Users \ {v} : role'[y] # "none" => AcceptedBy(y)' # {}
    <3>1. v # w /\ AcceptedBy(v) = {} /\ role'[v] = role[v]
      BY <2>2, <2>3, <2>4, <2>6, <1>6
    <3>2. /\ role[v] \in {"none", "owner"}
          /\ role[v] = "owner" => \A y \in Users \ {v} : role[y] # "none" => AcceptedBy(y) # {}
      BY <3>1 DEF MembersAreDue, MemberByInvitation
    <3> QED BY <3>1, <3>2, <2>2, <2>3, <2>4, <1>6
  <2> QED BY <2>5, <2>6 DEF MemberByInvitation
<1>13. FoundsOnce'
  BY <1>u DEF MembersAreDue, FoundsOnce
<1> QED BY <1>2, <1>7, <1>8, <1>9, <1>10, <1>11, <1>12, <1>13 DEF FirstInv, MembersAreDue

\* The admin changes a price.
LEMMA RepriceMembers == ASSUME MembersInv, Reprice PROVE MembersInv'
<1> USE DEF MembersInv
<1>u. UNCHANGED <<founded, role, branch, invitation, twiceFounder, item, linked, charged>>
  BY DEF Reprice, tenantVars
<1>1. catalogue' \in [Keys -> [price : Nat, active : BOOLEAN]]
  BY BillingAssumption DEF Reprice, BillingType
<1>2. ASSUME NEW d \in BillingCalls
      PROVE  /\ billingCall'[d] \in BillingCallType /\ CallShape(billingCall'[d])
             /\ billingCall'[d].step = billingCall[d].step
             /\ billingCall'[d].user = billingCall[d].user
             /\ billingCall'[d].invite = billingCall[d].invite
  <2> DEFINE r == [billingCall[d] EXCEPT !.alone = FALSE]
  <2>1. billingCall[d] \in BillingCallType /\ CallShape(billingCall[d])
    BY DEF BillingType, BillShapes
  <2>2. /\ r \in BillingCallType /\ r.step = billingCall[d].step /\ ~r.alone
        /\ r.user = billingCall[d].user /\ r.invite = billingCall[d].invite
        /\ r.rows = billingCall[d].rows
    BY <2>1 DEF BillingCallType
  <2>3. billingCall'[d] = r
    BY DEF Reprice
  <2> HIDE DEF r
  <2>4. CallShape(r)
    BY <2>1, <2>2 DEF CallShape
  <2> QED BY <2>2, <2>3, <2>4
<1>3. billingCall' \in [BillingCalls -> BillingCallType]
  <2>1. billingCall' = [d \in BillingCalls |-> [billingCall[d] EXCEPT !.alone = FALSE]]
    BY DEF Reprice
  <2> QED BY <2>1, <1>2
<1>4. BillingType' /\ BillShapes'
  BY <1>1, <1>2, <1>3, <1>u DEF BillingType, BillShapes, CallShape
<1>5. FirstInv' /\ InviteInv' /\ FoundInv'
  <2>1. FirstInv'
    BY <1>2, <1>u DEF FirstInv, Exists
  <2>2. InviteInv'
    BY <1>2, <1>u DEF InviteInv
  <2>3. FoundInv'
    BY <1>2, <1>u DEF FoundInv
  <2> QED BY <2>1, <2>2, <2>3
<1>6. Members' = Members /\ Open' = Open
  BY <1>u DEF Members, Open
<1>7. MembersAreDue'
  BY <1>u, DueStays
<1> QED BY <1>4, <1>5, <1>6, <1>7

\* What recomputeSubscription counts is a number.
LEMMA CountsType ==
  ASSUME IsFiniteSet(Members), IsFiniteSet(Open)
  PROVE  AtLeastOne(ActiveBranches) \in Nat /\ AtLeastOne(BillableUsers) \in Nat
<1>1. ActiveBranches \in Nat /\ BillableUsers \in Nat
  BY FS_CardinalityType DEF Members, Open, ActiveBranches, BillableUsers
<1> QED BY <1>1 DEF AtLeastOne

\* The steps of a recomputation, each as the record it leaves the request with.
LEMMA CountBranchesStep ==
  ASSUME MembersInv, NEW c \in BillingCalls, CountBranches(c)
  PROVE  \E r \in BillingCallType :
           /\ CallShape(r) /\ billingCall' = [billingCall EXCEPT ![c] = r]
           /\ r.step = "users" /\ r.alone = billingCall[c].alone
           /\ r.prices = ResolvedPrices /\ r.branches = AtLeastOne(ActiveBranches)
<1> DEFINE pp == ResolvedPrices
           nn == AtLeastOne(ActiveBranches)
           r == [billingCall[c] EXCEPT !.step = "users", !.prices = pp, !.branches = nn]
<1>0. /\ billingCall[c] \in BillingCallType /\ CallShape(billingCall[c])
      /\ billingCall[c].step = "recompute"
  BY DEF MembersInv, BillingType, BillShapes, CountBranches
<1>1. pp \in [Keys -> Nat] /\ nn \in Nat
  BY CountsType, PricesType DEF MembersInv
<1>2. billingCall' = [billingCall EXCEPT ![c] = r]
  BY <1>0 DEF CountBranches, MembersInv, BillingType, BillingCallType
<1> HIDE DEF pp, nn
<1>3. /\ r \in BillingCallType /\ r.step = "users" /\ r.alone = billingCall[c].alone
      /\ r.prices = pp /\ r.branches = nn
      /\ r.user = billingCall[c].user /\ r.invite = billingCall[c].invite
  BY <1>0, <1>1 DEF BillingCallType
<1> HIDE DEF r
<1>4. CallShape(r)
  BY <1>0, <1>3 DEF CallShape
<1> QED BY <1>2, <1>3, <1>4 DEF pp, nn

\* The users are counted: what the request becomes.
LEMMA CountUsersStep ==
  ASSUME MembersInv, NEW c \in BillingCalls, CountUsers(c)
  PROVE  \E r \in BillingCallType :
           /\ CallShape(r) /\ billingCall' = [billingCall EXCEPT ![c] = r]
           /\ r.step = "upsert" /\ r.alone = billingCall[c].alone
           /\ r.prices = billingCall[c].prices /\ r.branches = billingCall[c].branches
           /\ r.users = AtLeastOne(BillableUsers)
<1> DEFINE nn == AtLeastOne(BillableUsers)
           r == [billingCall[c] EXCEPT !.step = "upsert", !.users = nn]
<1>0. /\ billingCall[c] \in BillingCallType /\ CallShape(billingCall[c])
      /\ billingCall[c].step = "users"
  BY DEF MembersInv, BillingType, BillShapes, CountUsers
<1>1. nn \in Nat
  BY CountsType DEF MembersInv
<1>2. billingCall' = [billingCall EXCEPT ![c] = r]
  BY <1>0 DEF CountUsers, MembersInv, BillingType, BillingCallType
<1> HIDE DEF nn
<1>3. /\ r \in BillingCallType /\ r.step = "upsert" /\ r.alone = billingCall[c].alone
      /\ r.prices = billingCall[c].prices /\ r.branches = billingCall[c].branches
      /\ r.users = nn
      /\ r.user = billingCall[c].user /\ r.invite = billingCall[c].invite
  BY <1>0, <1>1 DEF BillingCallType
<1> HIDE DEF r
<1>4. CallShape(r)
  BY <1>0, <1>3 DEF CallShape
<1> QED BY <1>2, <1>3, <1>4 DEF nn

\* The items are written: what the request becomes.
LEMMA UpsertItemsStep ==
  ASSUME MembersInv, NEW c \in BillingCalls, UpsertItems(c)
  PROVE  \E r \in BillingCallType :
           /\ CallShape(r) /\ billingCall' = [billingCall EXCEPT ![c] = r]
           /\ r.step \in {"push", "answer"}
           /\ linked => r.rows = StripePriced
           /\ r.alone = billingCall[c].alone
           /\ r.total = MonthlyTotal(billingCall[c].prices, billingCall[c].branches,
                                     billingCall[c].users)
<1> DEFINE q == billingCall[c]
           tt == MonthlyTotal(q.prices, q.branches, q.users)
           st == IF ToPush = {} THEN "answer" ELSE "push"
           rr == ToPush
           r == [BillingIdle EXCEPT !.step = st, !.rows = rr, !.alone = q.alone, !.total = tt]
<1>0. /\ q \in BillingCallType /\ CallShape(q) /\ q.step = "upsert"
  BY DEF MembersInv, BillingType, BillShapes, UpsertItems
<1>1. tt \in Int
  <2>1. /\ q.prices["base"] \in Nat /\ q.prices["extra_branch"] \in Nat
        /\ q.prices["extra_user"] \in Nat
        /\ AtLeastOne(q.branches) \in Nat /\ AtLeastOne(q.users) \in Nat
    BY <1>0 DEF BillingCallType, Keys, AtLeastOne
  <2> QED BY <2>1 DEF MonthlyTotal
<1>2. /\ st \in {"push", "answer"} /\ rr \in SUBSET ExtraKeys /\ q.alone \in BOOLEAN
      /\ st = "answer" => rr = {}
      /\ linked => rr = StripePriced
  BY <1>0, BillingAssumption DEF BillingCallType, ToPush
<1>3. billingCall' = [billingCall EXCEPT ![c] = r]
  BY DEF UpsertItems
<1> HIDE DEF tt, st, rr
<1>4. /\ r \in BillingCallType /\ r.step = st /\ r.rows = rr /\ r.alone = q.alone
      /\ r.total = tt /\ r.user = "none" /\ r.invite = "none"
  BY <1>1, <1>2, BillingIdleType DEF BillingCallType
<1> HIDE DEF r
<1>5. CallShape(r)
  BY <1>2, <1>4 DEF CallShape
<1> QED BY <1>2, <1>3, <1>4, <1>5 DEF tt

\* The next item is read: what the request becomes.
LEMMA ReadItemStep ==
  ASSUME MembersInv, NEW c \in BillingCalls, ReadItem(c)
  PROVE  \E r \in BillingCallType, k \in ExtraKeys :
           /\ CallShape(r) /\ billingCall' = [billingCall EXCEPT ![c] = r]
           /\ r.step = "send" /\ r.alone = billingCall[c].alone
           /\ r.rows = billingCall[c].rows \ {k} /\ r.total = billingCall[c].total
           /\ r.key = k /\ r.quantity = item[k].quantity
<1>0. /\ billingCall[c] \in BillingCallType /\ CallShape(billingCall[c])
      /\ billingCall[c].step = "push"
  BY DEF MembersInv, BillingType, BillShapes, ReadItem
<1>1. PICK k \in billingCall[c].rows :
        billingCall' = [billingCall EXCEPT ![c].step = "send", ![c].key = k,
                          ![c].rows = @ \ {k}, ![c].quantity = item[k].quantity]
  BY DEF ReadItem
<1> DEFINE nn == item[k].quantity
           r == [billingCall[c] EXCEPT !.step = "send", !.key = k,
                   !.rows = billingCall[c].rows \ {k}, !.quantity = nn]
<1>2. k \in ExtraKeys /\ nn \in Int
  BY <1>0 DEF BillingCallType, MembersInv, BillingType, Keys, ExtraKeys
<1>3. billingCall' = [billingCall EXCEPT ![c] = r]
  BY <1>0, <1>1 DEF MembersInv, BillingType, BillingCallType
<1> HIDE DEF nn
<1>4. /\ r \in BillingCallType /\ r.step = "send" /\ r.alone = billingCall[c].alone
      /\ r.rows = billingCall[c].rows \ {k} /\ r.total = billingCall[c].total
      /\ r.key = k /\ r.quantity = nn
      /\ r.user = billingCall[c].user /\ r.invite = billingCall[c].invite
  BY <1>0, <1>2 DEF BillingCallType
<1> HIDE DEF r
<1>5. CallShape(r)
  BY <1>0, <1>4 DEF CallShape
<1> QED BY <1>2, <1>3, <1>4, <1>5 DEF nn

\* The item's quantity is sent to Stripe: what the request becomes.
LEMMA PushItemStep ==
  ASSUME MembersInv, NEW c \in BillingCalls, PushItem(c)
  PROVE  /\ \E r \in BillingCallType :
              /\ CallShape(r) /\ billingCall' = [billingCall EXCEPT ![c] = r]
              /\ r.step \in {"push", "answer"} /\ r.alone = billingCall[c].alone
              /\ r.rows = billingCall[c].rows /\ r.total = billingCall[c].total
         /\ billingCall[c].quantity \in Int
<1> DEFINE st == IF billingCall[c].rows = {} THEN "answer" ELSE "push"
           kk == "none"
           nn == 0
           r == [billingCall[c] EXCEPT !.key = kk, !.quantity = nn, !.step = st]
<1>0. /\ billingCall[c] \in BillingCallType /\ CallShape(billingCall[c])
      /\ billingCall[c].step = "send"
  BY DEF MembersInv, BillingType, BillShapes, PushItem
<1>s. st \in {"push", "answer"} /\ kk \in ExtraKeys \union {"none"} /\ nn \in Int
  OBVIOUS
<1>1. st = "answer" => billingCall[c].rows = {}
  OBVIOUS
<1>2. billingCall' = [billingCall EXCEPT ![c] = r]
  BY <1>0 DEF PushItem, MembersInv, BillingType, BillingCallType
<1> HIDE DEF st, kk, nn
<1>3. /\ r \in BillingCallType /\ r.step = st /\ r.alone = billingCall[c].alone
      /\ r.rows = billingCall[c].rows /\ r.total = billingCall[c].total
      /\ r.user = billingCall[c].user /\ r.invite = billingCall[c].invite
  <2>1. r \in BillingCallType
    BY <1>0, <1>s DEF BillingCallType
  <2>2. r.step = st /\ r.alone = billingCall[c].alone
    BY <1>0, <1>s DEF BillingCallType
  <2>3. r.rows = billingCall[c].rows /\ r.total = billingCall[c].total
    BY <1>0 DEF BillingCallType
  <2>4. r.user = billingCall[c].user /\ r.invite = billingCall[c].invite
    BY <1>0 DEF BillingCallType
  <2> QED BY ONLY <2>1, <2>2, <2>3, <2>4
<1> HIDE DEF r
<1>4. CallShape(r)
  BY <1>0, <1>s, <1>1, <1>3 DEF CallShape
<1>5. billingCall[c].quantity \in Int
  BY <1>0 DEF BillingCallType
<1> QED BY <1>s, <1>2, <1>3, <1>4, <1>5

\* The statements of a recomputation keep MembersInv.
LEMMA RecomputeMembers ==
  ASSUME MembersInv, NEW c \in BillingCalls,
         \/ CountBranches(c) \/ CountUsers(c) \/ ReadItem(c) \/ PushItem(c)
         \/ UpsertItems(c) \/ Answer(c) \/ CutBilling(c)
  PROVE  MembersInv'
<1>1. PICK r \in BillingCallType :
        /\ CallShape(r) /\ billingCall' = [billingCall EXCEPT ![c] = r]
        /\ r.step \notin {"found", "invite", "accept"}
  <2>1. CASE CountBranches(c) \/ CountUsers(c)
    BY <2>1, CountBranchesStep, CountUsersStep
  <2>2. CASE ReadItem(c) \/ PushItem(c)
    BY <2>2, ReadItemStep, PushItemStep
  <2>3. CASE UpsertItems(c)
    BY <2>3, UpsertItemsStep
  <2>4. CASE Answer(c) \/ CutBilling(c)
    BY <2>4, BillingIdleType DEF Answer, CutBilling, EndBilling
  <2> QED BY <2>1, <2>2, <2>3, <2>4
<1>2. UNCHANGED <<tenantVars, linked, catalogue>>
  BY DEF CountBranches, CountUsers, ReadItem, PushItem, UpsertItems, Answer, CutBilling, moneyVars
<1>3. item' \in [Keys -> [quantity : Int, snapshot : Int]]
  <2>1. CASE UpsertItems(c)
    <3>1. billingCall[c] \in BillingCallType
      BY DEF MembersInv, BillingType
    <3>2. ASSUME NEW k \in Keys PROVE QuantityOf(c, k) \in Int
      <4>1. billingCall[c].branches - 1 \in Int /\ billingCall[c].users - 1 \in Int
        BY <3>1 DEF BillingCallType
      <4> QED BY <4>1 DEF QuantityOf, Keys
    <3>3. \A k \in Keys : /\ item[k].snapshot \in Int /\ catalogue[k].price \in Int
      BY DEF MembersInv, BillingType
    <3> QED BY <2>1, <3>2, <3>3 DEF UpsertItems
  <2>2. CASE ~UpsertItems(c)
    BY <2>2 DEF CountBranches, CountUsers, ReadItem, PushItem, Answer, CutBilling, moneyVars,
                MembersInv, BillingType
  <2> QED BY <2>1, <2>2
<1>4. charged' \in [ExtraKeys -> Int]
  <2>1. CASE PushItem(c)
    BY <2>1, PushItemStep DEF PushItem, MembersInv, BillingType
  <2>2. CASE ~PushItem(c)
    BY <2>2 DEF CountBranches, CountUsers, ReadItem, UpsertItems, Answer, CutBilling, moneyVars,
                MembersInv, BillingType
  <2> QED BY <2>1, <2>2
<1>5. catalogue' \in [Keys -> [price : Nat, active : BOOLEAN]]
  BY <1>2 DEF MembersInv, BillingType
<1> QED BY <1>1, <1>2, <1>3, <1>4, <1>5, QuietMembers

\* A stutter keeps MembersInv.
LEMMA MembersStutter == ASSUME MembersInv, UNCHANGED billingVars PROVE MembersInv'
<1> USE DEF MembersInv, billingVars
<1>1. BillingType' /\ BillShapes' /\ FirstInv' /\ InviteInv' /\ FoundInv'
  BY DEF BillingType, BillShapes, CallShape, FirstInv, Exists, InviteInv, FoundInv
<1>2. Members' = Members /\ Open' = Open
  BY DEF Members, Open
<1>3. MembersAreDue'
  BY DueStays
<1> QED BY <1>1, <1>2, <1>3

\* Every step keeps MembersInv.
LEMMA MembersStep == MembersInv /\ [BillingNext]_billingVars => MembersInv'
<1> SUFFICES ASSUME MembersInv, [BillingNext]_billingVars PROVE MembersInv'
  OBVIOUS
<1>1. CASE UNCHANGED billingVars
  BY <1>1, MembersStutter
<1>2. ASSUME NEW c \in BillingCalls,
             \/ StartTenant(c) \/ CommitTenant(c) \/ CreateBranch(c) \/ ArchiveBranch(c)
             \/ StartInvite(c) \/ CommitInvite(c) \/ StartAccept(c) \/ CommitAccept(c)
      PROVE  MembersInv'
  BY <1>2, StartTenantMembers, CommitTenantMembers, BranchMembers, StartInviteMembers,
     CommitInviteMembers, StartAcceptMembers, CommitAcceptMembers
<1>3. ASSUME NEW c \in BillingCalls,
             \/ CountBranches(c) \/ CountUsers(c) \/ UpsertItems(c)
             \/ ReadItem(c) \/ PushItem(c) \/ Answer(c) \/ CutBilling(c)
      PROVE  MembersInv'
  BY <1>3, RecomputeMembers
<1>4. ASSUME NEW i \in Invitations, ExpireInvitation(i) PROVE MembersInv'
  BY <1>4, ExpireMembers
<1>5. CASE Reprice
  BY <1>5, RepriceMembers
<1> QED BY <1>1, <1>2, <1>3, <1>4, <1>5 DEF BillingNext

\* Who belongs to a tenant founded it, once, or accepted an invitation, once, and has
\* its role, whichever submits, invitations and acceptances overlap (OnboardingService,
\* InvitationsService), for any users, roles, invitations and requests.
THEOREM MembersAlwaysDue == BillingSpec => []MembersAreDue
<1>1. MembersInv => MembersAreDue
  BY DEF MembersInv
<1> QED BY <1>1, MembersInit, MembersStep, PTL DEF BillingSpec

\* BillingInv holds of a tenant that does not exist yet.
LEMMA BillingInitInv == BillingInit => BillingInv
<1> SUFFICES ASSUME BillingInit PROVE BillingInv
  OBVIOUS
<1>1. MembersInv
  BY MembersInit
<1>2. PricesInv
  BY BillingIdleType DEF BillingInit, PricesInv
<1>3. AllSettled
  BY DEF BillingInit, AllSettled
<1>4. \A c \in BillingCalls : ~billingCall[c].alone
  BY BillingIdleType DEF BillingInit
<1> QED BY <1>1, <1>2, <1>3, <1>4 DEF BillingInv

\* A running request takes a step: what has been computed so far stays true of
\* it, and no other request is alone.
LEMMA AloneCallStep ==
  ASSUME BillingInv, MembersInv', PricesInv', NEW c \in BillingCalls,
         billingCall[c].step # "idle",
         NEW r \in BillingCallType, billingCall' = [billingCall EXCEPT ![c] = r],
         r.alone => billingCall[c].alone,
         billingCall[c].alone /\ r.alone => ComputedSoFar(r)',
         UNCHANGED settled
  PROVE  BillingInv'
<1> USE DEF BillingInv
<1>1. billingCall'[c] = r /\ \A d \in BillingCalls \ {c} : billingCall'[d] = billingCall[d]
  BY DEF MembersInv, BillingType
<1>2. ~settled'
  BY DEF AllSettled
<1>3. ASSUME NEW d \in BillingCalls, billingCall'[d].alone
      PROVE  /\ \A e \in BillingCalls \ {d} : billingCall'[e].step = "idle"
             /\ ComputedSoFar(r)' /\ d = c
  BY <1>1, <1>3
<1>4. \A d \in BillingCalls : billingCall'[d].alone => ComputedSoFar(billingCall[d])'
  BY <1>1, <1>3 DEF ComputedSoFar, RightQuantities, SnapshotsAreCatalogue, RightTotal
<1> QED BY <1>2, <1>3, <1>4 DEF AllSettled

\* A request begins: it alone may be alone.
LEMMA AloneBegins ==
  ASSUME BillingInv, MembersInv', PricesInv', NEW c \in BillingCalls,
         NEW call \in BillingCallType, CallShape(call),
         call.step \in {"found", "recompute", "invite", "accept"}, BeginBilling(c, call)
  PROVE  BillingInv'
<1> USE DEF BillingInv
<1>1. /\ billingCall'[c].step = call.step
      /\ \A d \in BillingCalls \ {c} :
           billingCall'[d].step = billingCall[d].step /\ ~billingCall'[d].alone
      /\ billingCall'[c].alone => \A d \in BillingCalls \ {c} : billingCall[d].step = "idle"
      /\ ~settled'
  BY BillingBegins DEF MembersInv
<1>2. ASSUME NEW d \in BillingCalls, billingCall'[d].alone
      PROVE  /\ \A e \in BillingCalls \ {d} : billingCall'[e].step = "idle"
             /\ billingCall'[d].step \in {"found", "recompute", "invite", "accept"}
  BY <1>1, <1>2
<1>3. \A d \in BillingCalls : billingCall'[d].alone => ComputedSoFar(billingCall[d])'
  BY <1>2 DEF ComputedSoFar
<1> QED BY <1>1, <1>2, <1>3 DEF AllSettled

\* PricesInv lasts while nothing is read or written.
LEMMA PricesStay ==
  ASSUME PricesInv, UNCHANGED <<catalogue, item>>, repriced' = repriced,
         \A d \in BillingCalls : billingCall'[d].step = "found" =>
           billingCall[d].step = "found" /\ billingCall'[d].prices = billingCall[d].prices
  PROVE  PricesInv'
  BY DEF PricesInv

\* A request begins.
LEMMA BeginSettled ==
  ASSUME BillingInv, MembersInv', NEW c \in BillingCalls,
         \/ StartTenant(c) \/ CreateBranch(c) \/ ArchiveBranch(c)
         \/ StartInvite(c) \/ StartAccept(c)
  PROVE  BillingInv'
<1> USE DEF BillingInv
<1>1. PICK call \in BillingCallType :
        /\ CallShape(call) /\ BeginBilling(c, call)
        /\ call.step \in {"found", "recompute", "invite", "accept"}
        /\ call.step = "found" => call.prices = ResolvedPrices
  <2>1. CASE StartTenant(c)
    <3>1. PICK u \in Users :
            BeginBilling(c, [BillingIdle EXCEPT !.step = "found", !.user = u,
                                                 !.prices = ResolvedPrices])
      BY <2>1 DEF StartTenant
    <3> DEFINE pp == ResolvedPrices
               call == [BillingIdle EXCEPT !.step = "found", !.user = u, !.prices = pp]
    <3>2. BeginBilling(c, call)
      BY <3>1
    <3>3. pp \in [Keys -> Nat]
      BY PricesType DEF MembersInv
    <3> HIDE DEF pp
    <3>4. /\ call \in BillingCallType /\ call.step = "found" /\ call.user = u
          /\ call.invite = "none" /\ call.prices = pp
      BY <3>3, BillingIdleType DEF BillingCallType
    <3> HIDE DEF call
    <3>5. CallShape(call)
      BY <3>4, BillingAssumption DEF CallShape
    <3> QED BY <3>2, <3>4, <3>5 DEF pp
  <2>2. CASE CreateBranch(c) \/ ArchiveBranch(c)
    BY <2>2, RecomputeCall DEF CreateBranch, ArchiveBranch
  <2>3. CASE StartInvite(c)
    <3>1. PICK u \in Users : BeginBilling(c, [BillingIdle EXCEPT !.step = "invite", !.user = u])
      BY <2>3 DEF StartInvite
    <3> DEFINE call == [BillingIdle EXCEPT !.step = "invite", !.user = u]
    <3>2. BeginBilling(c, call)
      BY <3>1
    <3>3. /\ call \in BillingCallType /\ call.step = "invite" /\ call.user = u
          /\ call.invite = "none"
      BY BillingIdleType DEF BillingCallType
    <3> HIDE DEF call
    <3>4. CallShape(call)
      BY <3>3, BillingAssumption DEF CallShape
    <3> QED BY <3>2, <3>3, <3>4
  <2>4. CASE StartAccept(c)
    <3>1. PICK i \in Invitations :
            BeginBilling(c, [BillingIdle EXCEPT !.step = "accept", !.invite = i])
      BY <2>4 DEF StartAccept
    <3> DEFINE call == [BillingIdle EXCEPT !.step = "accept", !.invite = i]
    <3>2. BeginBilling(c, call)
      BY <3>1
    <3>3. /\ call \in BillingCallType /\ call.step = "accept" /\ call.user = "none"
          /\ call.invite = i
      BY BillingIdleType DEF BillingCallType
    <3> HIDE DEF call
    <3>4. CallShape(call)
      BY <3>3, BillingAssumption DEF CallShape
    <3> QED BY <3>2, <3>3, <3>4
  <2> QED BY <2>1, <2>2, <2>3, <2>4
<1>2. /\ billingCall'[c].step = call.step /\ billingCall'[c].prices = call.prices
      /\ \A d \in BillingCalls \ {c} :
           /\ billingCall'[d].step = billingCall[d].step
           /\ billingCall'[d].prices = billingCall[d].prices
      /\ UNCHANGED <<item, catalogue, repriced>>
  BY <1>1, BillingBegins DEF MembersInv
<1>3. ~repriced => ResolvedPrices["base"] = Catalogue["base"].price
  BY BillingAssumption DEF PricesInv, ResolvedPrices, Keys
<1>4. PricesInv'
  BY <1>1, <1>2, <1>3 DEF PricesInv
<1> QED BY <1>1, <1>4, AloneBegins

\* A transaction commits, or a request is cut off.
LEMMA CommitSettled ==
  ASSUME BillingInv, MembersInv', NEW c \in BillingCalls,
         CommitTenant(c) \/ CommitInvite(c) \/ CommitAccept(c) \/ CutBilling(c)
  PROVE  BillingInv'
<1> USE DEF BillingInv
<1>1. PICK r \in BillingCallType :
        /\ billingCall' = [billingCall EXCEPT ![c] = r]
        /\ r.step \in {"idle", "recompute"}
        /\ r.alone => billingCall[c].alone
  BY BillingIdleType, ThenRecomputeStep
     DEF CommitTenant, CommitInvite, CommitAccept, CutBilling, EndBilling, MembersInv
<1>2. billingCall'[c] = r /\ \A d \in BillingCalls \ {c} : billingCall'[d] = billingCall[d]
  BY <1>1 DEF MembersInv, BillingType
<1>3. billingCall[c].step # "idle" /\ UNCHANGED <<settled, catalogue, repriced>>
  BY DEF CommitTenant, CommitInvite, CommitAccept, CutBilling, moneyVars
<1>4. PricesInv'
  <2>1. CASE CommitTenant(c) /\ ~Exists
    <3>1. /\ item' = [item EXCEPT !["base"] =
                        [quantity |-> 1, snapshot |-> billingCall[c].prices["base"]]]
          /\ billingCall[c].step = "found"
      BY <2>1 DEF CommitTenant
    <3>2. /\ item'["base"].snapshot = billingCall[c].prices["base"]
          /\ \A k \in Keys : k # "base" => item'[k] = item[k]
      BY <3>1 DEF MembersInv, BillingType, Keys
    <3> QED BY <3>1, <3>2, <1>1, <1>2, <1>3 DEF PricesInv
  <2>2. CASE ~(CommitTenant(c) /\ ~Exists)
    <3>1. UNCHANGED item
      BY <2>2 DEF CommitTenant, CommitInvite, CommitAccept, CutBilling, moneyVars
    <3> QED BY <3>1, <1>1, <1>2, <1>3, PricesStay
  <2> QED BY <2>1, <2>2
<1>5. ComputedSoFar(r)'
  BY <1>1 DEF ComputedSoFar
<1> QED BY <1>1, <1>3, <1>4, <1>5, AloneCallStep

\* What is counted stays when neither branches nor members change.
LEMMA CountsStay ==
  ASSUME UNCHANGED tenantVars
  PROVE  ActiveBranches' = ActiveBranches /\ BillableUsers' = BillableUsers
  BY DEF tenantVars, ActiveBranches, BillableUsers

\* The floor at one is taken once or twice alike.
LEMMA AtLeastOneTwice == \A n : AtLeastOne(AtLeastOne(n)) = AtLeastOne(n)
  BY DEF AtLeastOne

\* Branches or users are counted.
LEMMA CountSettled ==
  ASSUME BillingInv, MembersInv', NEW c \in BillingCalls, CountBranches(c) \/ CountUsers(c)
  PROVE  BillingInv'
<1> USE DEF BillingInv
<1>u. /\ UNCHANGED <<item, catalogue, linked, charged, settled, repriced>>
      /\ UNCHANGED tenantVars
      /\ billingCall[c].step \in {"recompute", "users"}
  BY DEF CountBranches, CountUsers, moneyVars
<1>1. PICK r \in BillingCallType :
        /\ billingCall' = [billingCall EXCEPT ![c] = r] /\ r.alone = billingCall[c].alone
        /\ r.step \in {"users", "upsert"}
        /\ billingCall[c].alone =>
             /\ r.prices = ResolvedPrices /\ r.branches = AtLeastOne(ActiveBranches)
             /\ r.step = "upsert" => r.users = AtLeastOne(BillableUsers)
  <2>1. CASE CountBranches(c)
    BY <2>1, CountBranchesStep
  <2>2. CASE CountUsers(c)
    <3>1. billingCall[c].step = "users"
      BY <2>2 DEF CountUsers
    <3> QED BY <2>2, <3>1, CountUsersStep DEF ComputedSoFar
  <2> QED BY <2>1, <2>2
<1>2. billingCall'[c] = r /\ \A d \in BillingCalls \ {c} : billingCall'[d] = billingCall[d]
  BY <1>1 DEF MembersInv, BillingType
<1>3. PricesInv'
  BY <1>u, <1>1, <1>2, PricesStay
<1>4. ResolvedPrices' = ResolvedPrices
  BY <1>u DEF ResolvedPrices
<1>5. billingCall[c].alone => ComputedSoFar(r)'
  BY <1>u, <1>1, <1>4, CountsStay DEF ComputedSoFar
<1> QED BY <1>u, <1>1, <1>3, <1>5, AloneCallStep

\* The items are written.
LEMMA UpsertSettled ==
  ASSUME BillingInv, MembersInv', NEW c \in BillingCalls, UpsertItems(c)
  PROVE  BillingInv'
<1> USE DEF BillingInv
<1>u. /\ UNCHANGED <<catalogue, linked, charged, settled, repriced>>
      /\ UNCHANGED tenantVars
      /\ billingCall[c].step = "upsert"
  BY DEF UpsertItems
<1>1. PICK r \in BillingCallType :
        /\ billingCall' = [billingCall EXCEPT ![c] = r] /\ r.alone = billingCall[c].alone
        /\ r.step \in {"push", "answer"} /\ (linked => r.rows = StripePriced)
        /\ r.total = MonthlyTotal(billingCall[c].prices, billingCall[c].branches,
                                  billingCall[c].users)
  BY UpsertItemsStep
<1>2. billingCall'[c] = r /\ \A d \in BillingCalls \ {c} : billingCall'[d] = billingCall[d]
  BY <1>1 DEF MembersInv, BillingType
<1>3. \A k \in Keys :
        /\ item'[k].quantity = QuantityOf(c, k)
        /\ item'[k].snapshot = IF item[k].snapshot = NoRow THEN catalogue[k].price
                                                           ELSE item[k].snapshot
  BY DEF UpsertItems
<1>4. PricesInv' /\ SnapshotsAreCatalogue'
  <2>1. ~repriced => \A k \in Keys : item'[k].snapshot = Catalogue[k].price
    BY <1>3 DEF PricesInv
  <2>2. PricesInv'
    BY <2>1, <1>u, <1>1, <1>2 DEF PricesInv
  <2> QED BY <2>1, <2>2, <1>u DEF SnapshotsAreCatalogue
<1>5. billingCall[c].alone => ComputedSoFar(r)'
  <2> SUFFICES ASSUME billingCall[c].alone PROVE ComputedSoFar(r)'
    OBVIOUS
  <2>1. /\ billingCall[c].prices = ResolvedPrices
        /\ billingCall[c].branches = AtLeastOne(ActiveBranches)
        /\ billingCall[c].users = AtLeastOne(BillableUsers)
    BY <1>u DEF ComputedSoFar
  <2>2. RightQuantities'
    BY <2>1, <1>3, <1>u, CountsStay DEF RightQuantities, QuantityOf, Keys
  <2>3. RightTotal(r.total)'
    <3>1. ResolvedPrices' = ResolvedPrices
      BY <1>u DEF ResolvedPrices
    <3>2. r.total = MonthlyTotal(ResolvedPrices, ActiveBranches, BillableUsers)
      BY <2>1, <1>1, AtLeastOneTwice DEF MonthlyTotal
    <3> QED BY <3>1, <3>2, <1>u, CountsStay DEF RightTotal, MonthlyTotal
  <2> QED BY <2>2, <2>3, <1>1, <1>4, <1>u DEF ComputedSoFar
<1> QED BY <1>u, <1>1, <1>4, <1>5, AloneCallStep

\* An item is read.
LEMMA ReadSettled ==
  ASSUME BillingInv, MembersInv', NEW c \in BillingCalls, ReadItem(c)
  PROVE  BillingInv'
<1> USE DEF BillingInv
<1>u. /\ UNCHANGED <<item, catalogue, linked, charged, settled, repriced>>
      /\ UNCHANGED tenantVars
      /\ billingCall[c].step = "push"
  BY DEF ReadItem, moneyVars
<1>1. PICK r \in BillingCallType, k \in ExtraKeys :
        /\ billingCall' = [billingCall EXCEPT ![c] = r] /\ r.alone = billingCall[c].alone
        /\ r.step = "send" /\ r.rows = billingCall[c].rows \ {k}
        /\ r.total = billingCall[c].total /\ r.key = k /\ r.quantity = item[k].quantity
  BY ReadItemStep
<1>2. billingCall'[c] = r /\ \A d \in BillingCalls \ {c} : billingCall'[d] = billingCall[d]
  BY <1>1 DEF MembersInv, BillingType
<1>3. PricesInv'
  BY <1>u, <1>1, <1>2, PricesStay
<1>4. ResolvedPrices' = ResolvedPrices
  BY <1>u DEF ResolvedPrices
<1>5. billingCall[c].alone => ComputedSoFar(r)'
  <2> SUFFICES ASSUME billingCall[c].alone PROVE ComputedSoFar(r)'
    OBVIOUS
  <2>1. ComputedSoFar(billingCall[c])
    OBVIOUS
  <2>2. RightQuantities' /\ SnapshotsAreCatalogue'
    BY <2>1, <1>u, CountsStay DEF ComputedSoFar, RightQuantities, SnapshotsAreCatalogue
  <2>3. RightTotal(r.total)'
    BY <2>1, <1>u, <1>1, <1>4, CountsStay DEF ComputedSoFar, RightTotal, MonthlyTotal
  <2>4. linked => \A j \in StripePriced \ r.rows : charged[j] = item[j].quantity \/ j = r.key
    BY <2>1, <1>u, <1>1 DEF ComputedSoFar
  <2>5. r.key # "none"
    BY <1>1 DEF ExtraKeys
  <2> QED BY <2>2, <2>3, <2>4, <2>5, <1>1, <1>u DEF ComputedSoFar
<1> QED BY <1>u, <1>1, <1>3, <1>5, AloneCallStep

\* An item is sent to Stripe.
LEMMA PushSettled ==
  ASSUME BillingInv, MembersInv', NEW c \in BillingCalls, PushItem(c)
  PROVE  BillingInv'
<1> USE DEF BillingInv
<1>u. /\ UNCHANGED <<item, catalogue, linked, settled, repriced>>
      /\ UNCHANGED tenantVars
      /\ billingCall[c].step = "send"
  BY DEF PushItem
<1>1. PICK r \in BillingCallType :
        /\ billingCall' = [billingCall EXCEPT ![c] = r] /\ r.alone = billingCall[c].alone
        /\ r.step \in {"push", "answer"} /\ r.rows = billingCall[c].rows
        /\ r.total = billingCall[c].total
  BY PushItemStep
<1>2. billingCall'[c] = r /\ \A d \in BillingCalls \ {c} : billingCall'[d] = billingCall[d]
  BY <1>1 DEF MembersInv, BillingType
<1>3. PricesInv'
  BY <1>u, <1>1, <1>2, PricesStay
<1>4. ResolvedPrices' = ResolvedPrices
  BY <1>u DEF ResolvedPrices
<1>5. billingCall[c].alone => ComputedSoFar(r)'
  <2> SUFFICES ASSUME billingCall[c].alone PROVE ComputedSoFar(r)'
    OBVIOUS
  <2>1. ComputedSoFar(billingCall[c])
    OBVIOUS
  <2>2. RightQuantities' /\ SnapshotsAreCatalogue'
    BY <2>1, <1>u, CountsStay DEF ComputedSoFar, RightQuantities, SnapshotsAreCatalogue
  <2>3. RightTotal(r.total)'
    BY <2>1, <1>u, <1>1, <1>4, CountsStay DEF ComputedSoFar, RightTotal, MonthlyTotal
  <2>k. /\ charged' = [charged EXCEPT ![billingCall[c].key] = billingCall[c].quantity]
        /\ charged \in [ExtraKeys -> Int]
    BY DEF PushItem, MembersInv, BillingType
  <2>q. billingCall[c].quantity = item[billingCall[c].key].quantity
    BY <2>1, <1>u DEF ComputedSoFar
  <2>4. linked => \A j \in StripePriced \ r.rows : charged'[j] = item[j].quantity
    <3> SUFFICES ASSUME linked, NEW j \in StripePriced \ r.rows
                 PROVE  charged'[j] = item[j].quantity
      OBVIOUS
    <3>0. j \in ExtraKeys
      BY BillingAssumption
    <3>1. CASE j = billingCall[c].key
      BY <3>0, <3>1, <2>k, <2>q
    <3>2. CASE j # billingCall[c].key
      <4>1. charged[j] = item[j].quantity
        BY <3>2, <2>1, <1>u, <1>1 DEF ComputedSoFar
      <4> QED BY <3>0, <4>1, <3>2, <2>k
    <3> QED BY <3>1, <3>2
  <2> QED BY <2>2, <2>3, <2>4, <1>1, <1>u DEF ComputedSoFar
<1> QED BY <1>u, <1>1, <1>3, <1>5, AloneCallStep

\* The recomputation answers.
LEMMA AnswerSettled ==
  ASSUME BillingInv, MembersInv', NEW c \in BillingCalls, Answer(c)
  PROVE  BillingInv'
<1> USE DEF BillingInv
<1>u. /\ UNCHANGED <<item, catalogue, linked, charged, repriced>>
      /\ UNCHANGED tenantVars
      /\ billingCall[c].step = "answer"
      /\ billingCall' = [billingCall EXCEPT ![c] = BillingIdle]
      /\ settled' = billingCall[c].alone
  BY DEF Answer, EndBilling
<1>2. /\ billingCall'[c] = BillingIdle
      /\ \A d \in BillingCalls \ {c} : billingCall'[d] = billingCall[d]
  BY <1>u DEF MembersInv, BillingType
<1>3. PricesInv'
  BY <1>u, <1>2, BillingIdleType, PricesStay
<1>4. \A d \in BillingCalls : ~billingCall'[d].alone
  BY <1>u, <1>2, BillingIdleType
<1>5. AllSettled'
  <2> SUFFICES ASSUME billingCall[c].alone
               PROVE  /\ \A d \in BillingCalls : billingCall'[d].step = "idle"
                      /\ RightQuantities' /\ SnapshotsAreCatalogue' /\ RightTotal(answer.total)'
                      /\ linked' => \A k \in StripePriced : charged'[k] = item'[k].quantity
    BY <1>u DEF AllSettled
  <2>1. ComputedSoFar(billingCall[c]) /\ \A d \in BillingCalls \ {c} : billingCall[d].step = "idle"
    OBVIOUS
  <2>2. RightQuantities' /\ SnapshotsAreCatalogue'
    BY <2>1, <1>u, CountsStay DEF ComputedSoFar, RightQuantities, SnapshotsAreCatalogue
  <2>3. RightTotal(answer.total)'
    <3>1. answer'.total = billingCall[c].total
      BY DEF Answer
    <3>2. ResolvedPrices' = ResolvedPrices
      BY <1>u DEF ResolvedPrices
    <3> QED BY <2>1, <1>u, <3>1, <3>2, CountsStay DEF ComputedSoFar, RightTotal, MonthlyTotal
  <2>4. billingCall[c].rows = {}
    BY <1>u DEF MembersInv, BillShapes, CallShape
  <2>5. linked => \A k \in StripePriced : charged[k] = item[k].quantity
    BY <2>1, <2>4, <1>u DEF ComputedSoFar
  <2> QED BY <2>1, <2>2, <2>3, <2>5, <1>2, <1>u, BillingIdleType
<1> QED BY <1>3, <1>4, <1>5

\* An invitation expires, the admin changes a price, or nothing happens.
LEMMA OthersSettled ==
  ASSUME BillingInv, MembersInv',
         \/ \E i \in Invitations : ExpireInvitation(i)
         \/ Reprice
         \/ UNCHANGED billingVars
  PROVE  BillingInv'
<1> USE DEF BillingInv
<1>1. CASE Reprice
  <2>1. repriced' /\ ~settled'
    BY <1>1 DEF Reprice
  <2>2. ASSUME NEW d \in BillingCalls PROVE ~billingCall'[d].alone
    <3>1. billingCall'[d] = [billingCall[d] EXCEPT !.alone = FALSE]
      BY <1>1 DEF Reprice
    <3>2. billingCall[d] \in BillingCallType
      BY DEF MembersInv, BillingType
    <3> QED BY <3>1, <3>2 DEF BillingCallType
  <2> QED BY <2>1, <2>2 DEF PricesInv, AllSettled
<1>2. CASE ~Reprice
  <2>1. UNCHANGED <<role, branch, item, catalogue, linked, charged, answer, repriced,
                    billingCall, settled>>
    BY <1>2 DEF ExpireInvitation, billingVars, moneyVars
  <2>2. ActiveBranches' = ActiveBranches /\ BillableUsers' = BillableUsers
    BY <2>1 DEF ActiveBranches, BillableUsers
  <2>3. ResolvedPrices' = ResolvedPrices
    BY <2>1 DEF ResolvedPrices
  <2>4. PricesInv'
    BY <2>1, PricesStay
  <2>5. /\ RightQuantities => RightQuantities'
        /\ SnapshotsAreCatalogue => SnapshotsAreCatalogue'
    BY <2>1, <2>2 DEF RightQuantities, SnapshotsAreCatalogue
  <2>6. AllSettled'
    BY <2>1, <2>2, <2>3, <2>5 DEF AllSettled, RightTotal, MonthlyTotal
  <2>7. ASSUME NEW c \in BillingCalls, billingCall'[c].alone
        PROVE  /\ \A d \in BillingCalls \ {c} : billingCall'[d].step = "idle"
               /\ ComputedSoFar(billingCall[c])'
    <3>1. ComputedSoFar(billingCall[c]) /\ \A d \in BillingCalls \ {c} : billingCall[d].step = "idle"
      BY <2>1, <2>7
    <3>2. ComputedSoFar(billingCall[c])'
      BY <3>1, <2>1, <2>2, <2>3, <2>5 DEF ComputedSoFar, RightTotal, MonthlyTotal
    <3> QED BY <3>1, <3>2, <2>1
  <2> QED BY <2>4, <2>6, <2>7
<1> QED BY <1>1, <1>2

\* Every step keeps BillingInv.
LEMMA BillingStep == BillingInv /\ [BillingNext]_billingVars => BillingInv'
<1> SUFFICES ASSUME BillingInv, [BillingNext]_billingVars PROVE BillingInv'
  OBVIOUS
<1>0. MembersInv'
  BY MembersStep DEF BillingInv
<1>1. ASSUME NEW c \in BillingCalls,
             \/ StartTenant(c) \/ CommitTenant(c) \/ CreateBranch(c) \/ ArchiveBranch(c)
             \/ StartInvite(c) \/ CommitInvite(c) \/ StartAccept(c) \/ CommitAccept(c)
             \/ CutBilling(c)
      PROVE  BillingInv'
  BY <1>0, <1>1, BeginSettled, CommitSettled
<1>2. ASSUME NEW c \in BillingCalls,
             \/ CountBranches(c) \/ CountUsers(c) \/ UpsertItems(c)
             \/ ReadItem(c) \/ PushItem(c) \/ Answer(c)
      PROVE  BillingInv'
  BY <1>0, <1>2, CountSettled, UpsertSettled, ReadSettled, PushSettled, AnswerSettled
<1>3. CASE \/ \E i \in Invitations : ExpireInvitation(i)
           \/ Reprice
           \/ UNCHANGED billingVars
  BY <1>0, <1>3, OthersSettled
<1> QED BY <1>1, <1>2, <1>3 DEF BillingNext

\* What a settled subscription promises.
LEMMA SettledMeans == BillingInv => AloneSettles
<1> SUFFICES ASSUME BillingInv, settled
             PROVE  /\ Charges([k \in ExtraKeys |-> item[k].quantity])
                    /\ linked => \A k \in StripePriced : charged[k] = item[k].quantity
                    /\ answer.total = MonthlyTotal(ResolvedPrices, ActiveBranches, BillableUsers)
                    /\ ~repriced => Revenue = answer.total
  BY DEF AloneSettles
<1>1. /\ RightQuantities /\ SnapshotsAreCatalogue /\ RightTotal(answer.total)
      /\ linked => \A k \in StripePriced : charged[k] = item[k].quantity
  BY DEF BillingInv, AllSettled
<1>2. Charges([k \in ExtraKeys |-> item[k].quantity])
  BY <1>1 DEF Charges, RightQuantities, ExtraKeys
<1>4. ASSUME ~repriced PROVE Revenue = answer.total
  <2>1. \A k \in Keys : ResolvedPrices[k] = Catalogue[k].price /\ Catalogue[k].price \in Nat
    BY <1>4, BillingAssumption DEF BillingInv, PricesInv, ResolvedPrices
  <2>2. \A k \in Keys : item[k].snapshot = ResolvedPrices[k]
    BY <1>1, <1>4, <2>1 DEF SnapshotsAreCatalogue
  <2>3. item["base"].snapshot * item["base"].quantity = ResolvedPrices["base"]
    BY <2>1, <2>2, <1>1 DEF RightQuantities, Keys
  <2> QED BY <2>2, <2>3, <1>1 DEF Revenue, RightQuantities, RightTotal, MonthlyTotal, Keys
<1> QED BY <1>1, <1>2, <1>4 DEF RightTotal

\* Whatever overlapped or broke off before, an activation that runs alone to its end
\* leaves items, Stripe's quantities, the preview and the admin's revenue in agreement
\* (recomputeSubscription), for any catalogue, branches, users and requests.
THEOREM ActivationAlwaysSettles == BillingSpec => []AloneSettles
  BY BillingInitInv, BillingStep, SettledMeans, PTL DEF BillingSpec
-----------------------------------------------------------------------------
(* Sales *)

\* Whole cents, in quarters of a cent.
Whole == {n \in Nat : n % 4 = 0}

\* An amount that fits whole cents still fits them when it is rounded, and one
\* that is whole is not changed.
LEMMA CentsFit ==
  ASSUME NEW a \in Nat, NEW w \in Whole, a <= w
  PROVE  Cents(a) \in Whole /\ Cents(a) <= w /\ (a \in Whole => Cents(a) = a)
<1>1. PICK k \in Nat : w = 4 * k
  BY DEF Whole
<1>2. PICK j \in Nat : j = (2 * a + 4) \div 8
  OBVIOUS
<1>3. Cents(a) = 4 * j
  BY <1>2 DEF Cents, RoundQuotient
<1>4. j <= k
  BY <1>1, <1>2
<1>5. a % 4 = 0 => 4 * j = a
  BY <1>2
<1> QED BY <1>1, <1>3, <1>4, <1>5 DEF Whole

\* A set of positions has a last one.
LEMMA LastPosition ==
  ASSUME NEW N \in Nat, NEW s \in SUBSET (1..N), s # {}
  PROVE  Max(s) \in s
<1> DEFINE T == {N - x : x \in s}
<1>1. T \subseteq Nat /\ T # {}
  <2>1. \A x \in s : N - x \in Nat
    BY SMT
  <2> QED BY <2>1
<1>2. PICK d \in T : \A e \in T : d <= e
  <2> HIDE DEF T
  <2> QED BY <1>1, LeastNat
<1>3. PICK x \in s : d = N - x
  BY <1>2
<1>4. ASSUME NEW y \in s PROVE x >= y
  <2>1. N - y \in T
    OBVIOUS
  <2>2. N - x <= N - y
    BY <1>2, <1>3, <2>1
  <2> QED BY <2>2
<1> QED BY <1>4 DEF Max

\* Money.add over a sequence is the sum of its amounts.
LEMMA AddingIsSigma ==
  ASSUME NEW N \in Nat, NEW q, DOMAIN q = 1..N, \A i \in 1..N : q[i] \in Int
  PROVE  Adding(q) = Sigma(q, 1..N)
<1> DEFINE S == 1..N
           Step(g) == [s \in SUBSET S |-> IF s = {} THEN 0 ELSE g[s \ {Max(s)}] + q[Max(s)]]
<1>0. IsFiniteSet(S)
  BY FS_Interval
<1>1. PICK m : Measure(m, q, S)
  BY <1>0, MeasureExists
<1>2. \A s \in SUBSET S : s # {} => Max(s) \in s
  BY LastPosition
<1>3. m = Step(m)
  <2>1. m = [s \in SUBSET S |-> m[s]]
    BY <1>1 DEF Measure
  <2>2. ASSUME NEW s \in SUBSET S, s # {} PROVE m[s] = m[s \ {Max(s)}] + q[Max(s)]
    <3> DEFINE x == Max(s)
               u == s \ {x}
    <3>0. x \in s
      BY <1>2, <2>2
    <3> HIDE DEF x, S
    <3>1. u \in SUBSET S /\ x \in S \ u /\ u \union {x} = s
      BY <3>0
    <3> HIDE DEF u
    <3>2. m[u \union {x}] = m[u] + q[x]
      BY <1>1, <3>1 DEF Measure
    <3> QED BY <3>1, <3>2 DEF x, u
  <2>3. m[{}] = 0
    BY <1>1 DEF Measure
  <2>4. \A s \in SUBSET S : m[s] = IF s = {} THEN 0 ELSE m[s \ {Max(s)}] + q[Max(s)]
    BY <2>2, <2>3
  <2> HIDE DEF S
  <2> QED BY <2>1, <2>4
<1>4. PICK g : g = CHOOSE h : h = Step(h)
  OBVIOUS
<1>5. g = Step(g)
  <2> HIDE DEF Step
  <2>1. \E h : h = Step(h)
    BY <1>3
  <2> QED BY <1>4, <2>1, Zenon
<1>6. Adding(q) = g[S]
  BY <1>4 DEF Adding, FoldLeft, MapThenFoldSet
<1> HIDE DEF S
<1>7. IsFold(g, q, S)
  <2>1. g[{}] = 0
    BY <1>5
  <2>2. ASSUME NEW s \in SUBSET S, s # {} PROVE g[s] = g[s \ {Max(s)}] + q[Max(s)]
    BY <1>5, <2>2
  <2> HIDE DEF Step
  <2> QED BY <1>2, <2>1, <2>2 DEF IsFold
<1>8. \A i \in S : q[i] \in Int
  BY DEF S
<1>9. g[S] = Sigma(q, S)
  BY <1>0, <1>7, <1>8, FoldIsSigma
<1> QED BY <1>6, <1>9 DEF S

\* The ids in a sequence, each once.
LEMMA IdsOnce ==
  LET ids == SetToSeq(SaleIds) IN
    /\ DOMAIN ids = 1..Cardinality(SaleIds) /\ Cardinality(SaleIds) \in Nat
    /\ \A n \in 1..Cardinality(SaleIds) : ids[n] \in SaleIds
    /\ \A m \in SaleIds : \E n \in 1..Cardinality(SaleIds) :
         /\ ids[n] = m
         /\ \A k \in 1..Cardinality(SaleIds) : k # n => ids[k] # m
<1>1. PICK N \in Nat : N = Cardinality(SaleIds) /\ ExistsBijection(1..N, SaleIds)
  BY SalesAssumption, FS_CardinalityType
<1>2. PICK f \in [1..N -> SaleIds] : IsInjective(f)
  BY <1>1 DEF ExistsBijection, Bijection, Injection, IsInjective
<1>3. PICK ids : ids = SetToSeq(SaleIds)
  OBVIOUS
<1>4. ids \in [1..N -> SaleIds] /\ IsInjective(ids)
  BY <1>1, <1>2, <1>3 DEF SetToSeq
<1>5. ids \in Surjection(1..N, SaleIds)
  <2>1. ids \in Injection(1..N, SaleIds)
    BY <1>4 DEF Injection, IsInjective
  <2>2. Cardinality(1..N) = N
    BY FS_Interval
  <2> QED BY <1>1, <2>1, <2>2, SalesAssumption, FS_Injection
<1>6. ASSUME NEW m \in SaleIds
      PROVE  \E n \in 1..N : ids[n] = m /\ \A k \in 1..N : k # n => ids[k] # m
  <2>1. PICK n \in 1..N : ids[n] = m
    BY <1>5 DEF Surjection
  <2> QED BY <1>4, <2>1 DEF IsInjective
<1> QED BY <1>1, <1>3, <1>4, <1>6

\* A sum changes by what one of its amounts changes.
LEMMA AddingChange ==
  ASSUME NEW N \in Nat, NEW q, NEW p, NEW a \in 1..N, DOMAIN q = 1..N, DOMAIN p = 1..N,
         \A i \in 1..N : q[i] \in Int /\ p[i] \in Int, \A i \in 1..N : i # a => p[i] = q[i]
  PROVE  Adding(p) = Adding(q) + p[a] - q[a]
<1>1. Adding(p) = Sigma(p, 1..N) /\ Adding(q) = Sigma(q, 1..N)
  BY AddingIsSigma
<1>2. IsFiniteSet(1..N)
  BY FS_Interval
<1>3. Sigma(p, 1..N) = Sigma(q, 1..N) + p[a] - q[a]
  BY <1>2, SigmaChange
<1> QED BY <1>1, <1>3

\* The same over the sales, by their ids.
LEMMA OverSales ==
  ASSUME NEW f \in [SaleIds -> Int], NEW g \in [SaleIds -> Int], NEW m \in SaleIds,
         \A k \in SaleIds \ {m} : g[k] = f[k]
  PROVE  LET ids == SetToSeq(SaleIds) IN
         Adding([n \in DOMAIN ids |-> g[ids[n]]])
           = Adding([n \in DOMAIN ids |-> f[ids[n]]]) + g[m] - f[m]
<1>1. PICK ids : ids = SetToSeq(SaleIds)
  OBVIOUS
<1>2. PICK N \in Nat : N = Cardinality(SaleIds)
  BY IdsOnce
<1>3. /\ DOMAIN ids = 1..N
      /\ \A n \in 1..N : ids[n] \in SaleIds
      /\ \E n \in 1..N : ids[n] = m /\ \A k \in 1..N : k # n => ids[k] # m
  BY <1>1, <1>2, IdsOnce
<1>4. PICK a \in 1..N : ids[a] = m /\ \A k \in 1..N : k # a => ids[k] # m
  BY <1>3
<1>5. PICK q : q = [n \in 1..N |-> f[ids[n]]]
  OBVIOUS
<1>6. PICK p : p = [n \in 1..N |-> g[ids[n]]]
  OBVIOUS
<1>7. DOMAIN q = 1..N /\ DOMAIN p = 1..N /\ \A i \in 1..N : q[i] \in Int /\ p[i] \in Int
  BY <1>3, <1>5, <1>6
<1>8. \A i \in 1..N : i # a => p[i] = q[i]
  BY <1>3, <1>4, <1>5, <1>6
<1>9. Adding(p) = Adding(q) + p[a] - q[a]
  BY <1>7, <1>8, AddingChange
<1>10. p[a] = g[m] /\ q[a] = f[m]
  BY <1>4, <1>5, <1>6
<1> QED BY <1>1, <1>3, <1>5, <1>6, <1>9, <1>10

\* Rounding to the cent moves an amount by half a cent at most.
LEMMA CentsNear ==
  ASSUME NEW x \in Int
  PROVE  Cents(x) \in Int /\ Cents(x) - x <= 2 /\ x - Cents(x) <= 2
<1>1. CASE x >= 0
  <2>1. PICK j \in Int : j = (2 * x + 4) \div 8
    OBVIOUS
  <2>2. Cents(x) = 4 * j
    BY <1>1, <2>1 DEF Cents, RoundQuotient
  <2>3. 8 * j <= 2 * x + 4 /\ 2 * x + 4 < 8 * j + 8
    BY <2>1
  <2> QED BY <2>2, <2>3
<1>2. CASE x < 0
  <2>1. PICK j \in Int : j = (4 - 2 * x) \div 8
    OBVIOUS
  <2>2. Cents(x) = 4 * (-j)
    BY <1>2, <2>1 DEF Cents, RoundQuotient
  <2>3. 8 * j <= 4 - 2 * x /\ 4 - 2 * x < 8 * j + 8
    BY <2>1
  <2> QED BY <2>2, <2>3
<1> QED BY <1>1, <1>2

\* The amounts of a line are integers.
LEMMA LineAmounts ==
  ASSUME NEW l \in CartLines
  PROVE  /\ Gross(l) \in Int /\ l.discount \in Int /\ Tax(l) \in Int
         /\ LineTotal(l) \in Int /\ l.quantity \in Nat
         /\ LineTotal(l) + l.discount = Gross(l) + Tax(l)
<1>1. PICK p \in Nat, n \in Nat, d \in Nat, r \in Nat :
        p = l.price /\ n = l.quantity /\ d = l.discount /\ r = l.rate
  BY DEF CartLines
<1>2. PICK y \in Int : y = Gross(l)
  <2>1. p * n \in Int
    OBVIOUS
  <2> QED BY <1>1, <2>1 DEF Gross
<1>3. PICK z \in Int : z = (Gross(l) - l.discount) * l.rate
  <2>1. (y - d) * r \in Int
    OBVIOUS
  <2> QED BY <1>1, <1>2, <2>1
<1>4. RoundQuotient(z, 400) \in Int
  <2>1. 2 * z + 400 \in Int /\ 400 - 2 * z \in Int
    OBVIOUS
  <2>2. (2 * z + 400) \div (2 * 400) \in Int /\ (400 - 2 * z) \div (2 * 400) \in Int
    BY <2>1
  <2> QED BY <2>2 DEF RoundQuotient
<1>5. PICK t \in Int : t = Tax(l)
  BY <1>3, <1>4 DEF Tax
<1>6. LineTotal(l) = y - d + t
  BY <1>1, <1>2, <1>5 DEF LineTotal
<1> QED BY <1>1, <1>2, <1>5, <1>6

\* The total of a cart, rounded, is within half a cent a line and one of the sum
\* of its lines, each of which is rounded by itself.
LEMMA TotalsNear ==
  ASSUME NEW cart \in Carts
  PROVE  LET sum == Adding([n \in DOMAIN cart |-> Cents(LineTotal(cart[n]))])
             total == Cents(CartTotal(cart))
         IN  /\ Len(cart) \in Nat /\ CartTotal(cart) \in Int /\ Units(cart) \in Nat
             /\ sum \in Int /\ total \in Int
             /\ sum - total <= 2 * (Len(cart) + 1) /\ total - sum <= 2 * (Len(cart) + 1)
<1>1. cart \in Seq(CartLines)
  BY CartsAssumption
<1>2. PICK N \in Nat : N = Len(cart) /\ DOMAIN cart = 1..N
  BY <1>1, LenProperties
<1>3. \A i \in 1..N : cart[i] \in CartLines
  BY <1>1, <1>2, ElementOfSeq
<1>4. PICK S : S = 1..N
  OBVIOUS
<1>5. IsFiniteSet(S) /\ Cardinality(S) = N
  BY <1>4, FS_Interval
<1>6. PICK gross, disc, tax, whole, cents, units :
        /\ gross = [i \in S |-> Gross(cart[i])]
        /\ disc = [i \in S |-> cart[i].discount]
        /\ tax = [i \in S |-> Tax(cart[i])]
        /\ whole = [i \in S |-> LineTotal(cart[i])]
        /\ cents = [i \in S |-> Cents(LineTotal(cart[i]))]
        /\ units = [i \in S |-> cart[i].quantity]
  OBVIOUS
<1>7. \A i \in S : /\ gross[i] \in Int /\ disc[i] \in Int /\ tax[i] \in Int /\ whole[i] \in Int
                   /\ units[i] \in Nat /\ whole[i] + disc[i] = gross[i] + tax[i]
  BY <1>3, <1>4, <1>6, LineAmounts
<1>8. \A i \in S : cents[i] \in Int /\ cents[i] - whole[i] <= 2 /\ whole[i] - cents[i] <= 2
  BY <1>6, <1>7, CentsNear
<1>9. /\ Adding(gross) = Sigma(gross, S) /\ Adding(disc) = Sigma(disc, S)
      /\ Adding(tax) = Sigma(tax, S) /\ Adding(cents) = Sigma(cents, S)
      /\ Adding(units) = Sigma(units, S)
  <2>1. Adding(gross) = Sigma(gross, S)
    BY <1>4, <1>6, <1>7, AddingIsSigma
  <2>2. Adding(disc) = Sigma(disc, S)
    BY <1>4, <1>6, <1>7, AddingIsSigma
  <2>3. Adding(tax) = Sigma(tax, S)
    BY <1>4, <1>6, <1>7, AddingIsSigma
  <2>4. Adding(cents) = Sigma(cents, S)
    BY <1>4, <1>6, <1>8, AddingIsSigma
  <2>5. Adding(units) = Sigma(units, S)
    <3>1. \A i \in S : units[i] \in Int
      BY <1>7
    <3> QED BY <1>4, <1>6, <3>1, AddingIsSigma
  <2> QED BY <2>1, <2>2, <2>3, <2>4, <2>5
<1>10. PICK a, b, c, d, e : /\ a = Sigma(gross, S) /\ b = Sigma(disc, S) /\ c = Sigma(tax, S)
                            /\ d = Sigma(whole, S) /\ e = Sigma(cents, S)
  OBVIOUS
<1>11. a \in Int /\ b \in Int /\ c \in Int /\ d \in Int /\ e \in Int
  BY <1>5, <1>7, <1>8, <1>10, SigmaRules
<1>12. d + b = a + c
  <2>1. PICK h : h = [i \in S |-> whole[i] + disc[i]]
    OBVIOUS
  <2>2. Sigma(h, S) = d + b
    BY <1>5, <1>7, <1>10, <2>1, SigmaLinear
  <2>3. \A i \in S : h[i] = gross[i] + tax[i]
    BY <1>7, <2>1
  <2>4. Sigma(h, S) = a + c
    BY <1>5, <1>7, <1>10, <2>3, SigmaLinear
  <2> QED BY <2>2, <2>4
<1>13. e - d <= 2 * N /\ d - e <= 2 * N
  BY <1>5, <1>7, <1>8, <1>10, SigmaClose
<1>14. CartTotal(cart) = a - b + c /\ CartTotal(cart) = d
  <2>1. CartTotal(cart) = a - b + c
    BY <1>2, <1>4, <1>6, <1>9, <1>10 DEF CartTotal
  <2> QED BY <1>11, <1>12, <2>1
<1>15. PICK t \in Int : t = Cents(CartTotal(cart)) /\ t - d <= 2 /\ d - t <= 2
  BY <1>11, <1>14, CentsNear
<1>16. Adding([n \in DOMAIN cart |-> Cents(LineTotal(cart[n]))]) = e
  BY <1>2, <1>4, <1>6, <1>9, <1>10
<1>17. Units(cart) \in Nat
  <2>1. Units(cart) = Adding(units)
    BY <1>2, <1>4, <1>6 DEF Units
  <2> QED BY <1>5, <1>7, <1>9, <2>1, SigmaNat
<1>18. e - t <= 2 * (N + 1) /\ t - e <= 2 * (N + 1)
  BY <1>11, <1>13, <1>15
<1> QED BY <1>2, <1>11, <1>14, <1>15, <1>16, <1>17, <1>18

Statuses == {"absent", "COMPLETED", "PARTIALLY_REFUNDED", "REFUNDED"}
RowFields == {"status", "total", "lineTotals", "paid", "credit", "units", "lines"}

SalesType ==
  /\ sale = [m \in SaleIds |-> sale[m]]
  /\ \A m \in SaleIds :
       /\ DOMAIN sale[m] = RowFields
       /\ sale[m].status \in Statuses
       /\ sale[m].total \in Whole
       /\ sale[m].units \in Nat
  /\ refunded \in [SaleIds -> Whole]
  /\ returned \in [SaleIds -> Nat]
  /\ saleCall = [c \in SaleCalls |-> saleCall[c]]

\* What a request has established.
CallFits(r) ==
  /\ r.step = "create" =>
       /\ r.id \in SaleIds /\ r.cart \in Carts /\ r.tender \in Tenders
       /\ r.tender.cash + r.tender.credit = CartTotal(r.cart)
  /\ r.step = "refund" =>
       /\ r.id \in SaleIds /\ r.amount \in Nat /\ r.read \in Whole
       /\ sale[r.id].status # "absent"
       /\ r.amount > 0
       /\ r.read + r.amount <= sale[r.id].total

CallsFit == \A c \in SaleCalls : CallFits(saleCall[c])

SalesInv ==
  /\ SalesType
  /\ CallsFit
  /\ RefundsWithinTotal
  /\ StatusTellsRefunds
  /\ ReturnedOnce

\* No sales and no requests.
LEMMA SalesInitInv == SalesInit => SalesInv
<1> SUFFICES ASSUME SalesInit PROVE SalesInv
  OBVIOUS
<1>1. SalesType
  BY DEF SalesInit, SalesType, NoSale, Statuses, RowFields, Whole
<1>2. CallsFit
  BY DEF SalesInit, CallsFit, CallFits, SaleIdle
<1> QED
  BY <1>1, <1>2 DEF SalesInit, SalesInv, RefundsWithinTotal, StatusTellsRefunds, ReturnedOnce, NoSale

\* The row createSale inserts.
LEMMA SaleRowFits ==
  ASSUME NEW cart \in Carts, NEW tender \in Tenders,
         tender.cash + tender.credit = CartTotal(cart)
  PROVE  /\ DOMAIN SaleRow(cart, tender) = RowFields
         /\ SaleRow(cart, tender).status = "COMPLETED"
         /\ SaleRow(cart, tender).total \in Whole
         /\ SaleRow(cart, tender).units \in Nat
<1>1. CartTotal(cart) \in Nat
  BY SalesAssumption
<1>2. PICK a \in Nat : a = CartTotal(cart)
  BY <1>1
<1>3. PICK w \in Whole : a <= w
  <2>1. 4 * a \in Whole /\ a <= 4 * a
    BY DEF Whole
  <2> QED BY <2>1
<1>4. Cents(CartTotal(cart)) \in Whole
  BY <1>2, <1>3, CentsFit
<1>5. Units(cart) \in Nat
  BY TotalsNear
<1> QED BY <1>4, <1>5 DEF SaleRow, RowFields

\* A request ends; the sales and refunds stay, or a sale's status and total do
\* so for the other requests.
LEMMA OthersFit ==
  ASSUME SalesInv, NEW c \in SaleCalls, NEW r, saleCall' = [saleCall EXCEPT ![c] = r],
         \A m \in SaleIds : sale[m].status # "absent" =>
           sale'[m].status # "absent" /\ sale'[m].total = sale[m].total,
         CallFits(r)'
  PROVE  CallsFit'
<1> SUFFICES ASSUME NEW d \in SaleCalls PROVE CallFits(saleCall[d])'
  BY DEF CallsFit
<1>1. CASE d = c
  <2>1. saleCall'[d] = r
    BY <1>1 DEF SalesInv, SalesType
  <2> QED BY <2>1 DEF CallFits
<1>2. CASE d # c
  <2>1. PICK q : q = saleCall[d]
    OBVIOUS
  <2>2. saleCall'[d] = q
    BY <1>2, <2>1 DEF SalesInv, SalesType
  <2>3. CallFits(q)
    BY <2>1 DEF SalesInv, CallsFit
  <2>4. CallFits(q)'
    BY <2>3 DEF CallFits
  <2> QED BY <2>2, <2>4 DEF CallFits
<1> QED BY <1>1, <1>2

\* A step that changes requests alone.
LEMMA OnlyCalls ==
  ASSUME SalesInv, UNCHANGED <<sale, refunded, returned, refundRace, fractional>>,
         saleCall' = [c \in SaleCalls |-> saleCall'[c]], CallsFit'
  PROVE  SalesInv'
  BY DEF SalesInv, SalesType, RefundsWithinTotal, StatusTellsRefunds, ReturnedOnce

\* createSale reads.
LEMMA StartSaleInv == ASSUME SalesInv, NEW c \in SaleCalls, StartSale(c) PROVE SalesInv'
<1>1. PICK m \in SaleIds, cart \in Carts, tender \in Tenders :
        /\ tender.cash + tender.credit = CartTotal(cart)
        /\ saleCall' = [saleCall EXCEPT ![c] =
                          [SaleIdle EXCEPT !.step = "create", !.id = m,
                                           !.cart = cart, !.tender = tender]]
  BY DEF StartSale
<1>2. PICK r : r = [SaleIdle EXCEPT !.step = "create", !.id = m, !.cart = cart, !.tender = tender]
  OBVIOUS
<1>3. r.step = "create" /\ r.id = m /\ r.cart = cart /\ r.tender = tender
  BY <1>2 DEF SaleIdle
<1>4. CallFits(r)'
  BY <1>1, <1>3 DEF CallFits
<1>5. CallsFit'
  BY <1>1, <1>2, <1>4, OthersFit DEF StartSale
<1> QED BY <1>1, <1>5, OnlyCalls DEF StartSale, SalesInv, SalesType

\* createSale commits.
LEMMA CommitSaleInv == ASSUME SalesInv, NEW c \in SaleCalls, CommitSale(c) PROVE SalesInv'
<1>1. PICK m \in SaleIds, cart \in Carts, tender \in Tenders :
        /\ m = saleCall[c].id /\ cart = saleCall[c].cart /\ tender = saleCall[c].tender
        /\ tender.cash + tender.credit = CartTotal(cart)
  BY DEF CommitSale, SalesInv, CallsFit, CallFits
<1>2. PICK row : row = SaleRow(cart, tender)
  OBVIOUS
<1>3. /\ DOMAIN row = RowFields /\ row.status = "COMPLETED"
      /\ row.total \in Whole /\ row.units \in Nat
  BY <1>1, <1>2, SaleRowFits
<1>4. sale' = [sale EXCEPT ![m] = row] /\ sale[m].status = "absent"
  BY <1>1, <1>2 DEF CommitSale, Insertable
<1>5. UNCHANGED <<refunded, returned, refundRace, fractional>>
  BY DEF CommitSale
<1>6. sale'[m] = row /\ \A n \in SaleIds \ {m} : sale'[n] = sale[n]
  BY <1>4 DEF SalesInv, SalesType
<1>7. saleCall' = [saleCall EXCEPT ![c] = SaleIdle]
  BY DEF CommitSale, SaleDone
<1>8. SalesType'
  BY <1>3, <1>4, <1>5, <1>6, <1>7 DEF SalesInv, SalesType, Statuses
<1>9. CallsFit'
  <2>1. PICK r : r = SaleIdle
    OBVIOUS
  <2>2. CallFits(r)'
    BY <2>1 DEF CallFits, SaleIdle
  <2> QED BY <1>4, <1>6, <1>7, <2>1, <2>2, OthersFit
<1>10. m \notin refundRace => refunded[m] = 0 /\ returned[m] = 0
  BY <1>4 DEF SalesInv, StatusTellsRefunds, ReturnedOnce
<1>11. RefundsWithinTotal'
  BY <1>5, <1>6, <1>10 DEF SalesInv, RefundsWithinTotal
<1>12. StatusTellsRefunds'
  BY <1>3, <1>5, <1>6, <1>10 DEF SalesInv, StatusTellsRefunds
<1>13. ReturnedOnce'
  BY <1>5, <1>6, <1>10 DEF SalesInv, ReturnedOnce
<1> QED BY <1>8, <1>9, <1>11, <1>12, <1>13 DEF SalesInv

\* refundSale reads and checks.
LEMMA StartRefundInv == ASSUME SalesInv, NEW c \in SaleCalls, StartRefund(c) PROVE SalesInv'
<1>1. PICK m \in SaleIds, asked \in RefundAmounts, restock \in BOOLEAN :
        LET a == IF asked = 0 THEN sale[m].total - refunded[m] ELSE asked
        IN  /\ Refundable(m, a)
            /\ saleCall' = [saleCall EXCEPT ![c] =
                              [SaleIdle EXCEPT !.step = "refund", !.id = m,
                                 !.amount = a, !.read = refunded[m], !.restock = restock]]
  BY DEF StartRefund
<1>2. PICK a : a = IF asked = 0 THEN sale[m].total - refunded[m] ELSE asked
  OBVIOUS
<1>3. refunded[m] \in Whole /\ sale[m].total \in Whole
  BY DEF SalesInv, SalesType
<1>4. a \in Int
  BY <1>2, <1>3, SalesAssumption DEF Whole
<1>5. /\ a \in Nat /\ a > 0 /\ refunded[m] + a <= sale[m].total
      /\ sale[m].status # "absent"
  BY <1>1, <1>2, <1>4 DEF Refundable
<1>6. PICK r : r = [SaleIdle EXCEPT !.step = "refund", !.id = m, !.amount = a,
                                    !.read = refunded[m], !.restock = restock]
  OBVIOUS
<1>7. r.step = "refund" /\ r.id = m /\ r.amount = a /\ r.read = refunded[m]
  BY <1>6 DEF SaleIdle
<1>8. sale' = sale /\ saleCall' = [saleCall EXCEPT ![c] = r]
  BY <1>1, <1>2, <1>6 DEF StartRefund
<1>9. CallFits(r)'
  BY <1>3, <1>5, <1>7, <1>8 DEF CallFits
<1>10. CallsFit'
  BY <1>8, <1>9, OthersFit
<1> QED BY <1>8, <1>10, OnlyCalls DEF StartRefund, SalesInv, SalesType

\* refundSale commits: if it read what is there now, the refund completes the
\* sale exactly when the sum of the refunds becomes the total.
LEMMA CommitRefundInv == ASSUME SalesInv, NEW c \in SaleCalls, CommitRefund(c) PROVE SalesInv'
<1>1. PICK m \in SaleIds, a \in Nat, read \in Whole :
        /\ m = saleCall[c].id /\ a = saleCall[c].amount /\ read = saleCall[c].read
        /\ sale[m].status # "absent" /\ a > 0 /\ read + a <= sale[m].total
  BY DEF CommitRefund, SalesInv, CallsFit, CallFits
<1>2. PICK total \in Whole : total = sale[m].total
  BY DEF SalesInv, SalesType
<1>3. PICK got : got = Cents(a)
  OBVIOUS
<1>4. /\ got \in Whole /\ read + got <= total
      /\ read + a = total => got = a
  <2>1. total - read \in Whole /\ a <= total - read
    BY <1>1, <1>2 DEF Whole
  <2>2. got \in Whole /\ got <= total - read /\ (a \in Whole => got = a)
    BY <1>3, <2>1, CentsFit
  <2>3. read + a = total => a = total - read
    BY <1>1, <1>2 DEF Whole
  <2> QED BY <2>1, <2>2, <2>3 DEF Whole
<1>5. PICK st : st = IF InFull(c) THEN "REFUNDED" ELSE "PARTIALLY_REFUNDED"
  OBVIOUS
<1>6. InFull(c) <=> read + a = total
  BY <1>1, <1>2 DEF InFull
<1>7. /\ sale' = [sale EXCEPT ![m].status = st]
      /\ refunded' = [refunded EXCEPT ![m] = @ + got]
      /\ saleCall' = [saleCall EXCEPT ![c] = SaleIdle]
  BY <1>1, <1>3, <1>5 DEF CommitRefund, SaleDone
<1>8. /\ DOMAIN sale'[m] = RowFields /\ sale'[m].status = st
      /\ sale'[m].total = total /\ sale'[m].units = sale[m].units
      /\ \A n \in SaleIds \ {m} : sale'[n] = sale[n]
  BY <1>2, <1>7 DEF SalesInv, SalesType, RowFields
<1>9. /\ refunded'[m] = refunded[m] + got
      /\ \A n \in SaleIds \ {m} : refunded'[n] = refunded[n] /\ returned'[n] = returned[n]
  BY <1>1, <1>7 DEF CommitRefund, SalesInv, SalesType
<1>10. /\ \/ returned'[m] = returned[m]
          \/ returned'[m] = returned[m] + sale[m].units /\ read + a = total
       /\ returned' = [returned EXCEPT ![m] = returned'[m]]
  BY <1>1, <1>6 DEF CommitRefund, Restocks, SalesInv, SalesType
<1>11. refundRace \subseteq refundRace' /\ refundRace' \subseteq refundRace \union {m}
  BY <1>1 DEF CommitRefund
<1>12. m \notin refundRace' => refunded[m] = read
  BY <1>1 DEF CommitRefund
<1>13. /\ fractional' \subseteq fractional \union {m} /\ fractional \subseteq fractional'
       /\ m \notin fractional' => got = a
  BY <1>1, <1>3 DEF CommitRefund
<1>14. refunded[m] \in Whole /\ returned[m] \in Nat /\ sale[m].units \in Nat
  BY DEF SalesInv, SalesType
<1>15. SalesType'
  <2>1. refunded[m] + got \in Whole
    BY <1>4, <1>14 DEF Whole
  <2>2. refunded' \in [SaleIds -> Whole]
    BY <1>7, <2>1 DEF SalesInv, SalesType
  <2>3. returned'[m] \in Nat
    BY <1>10, <1>14
  <2>4. returned' \in [SaleIds -> Nat]
    BY <1>10, <2>3 DEF SalesInv, SalesType
  <2>5. st \in Statuses
    BY <1>5 DEF Statuses
  <2> QED BY <1>7, <1>8, <1>14, <2>2, <2>4, <2>5 DEF SalesInv, SalesType
<1>16. CallsFit'
  <2>1. PICK r : r = SaleIdle
    OBVIOUS
  <2>2. CallFits(r)'
    BY <2>1 DEF CallFits, SaleIdle
  <2>3. st # "absent"
    BY <1>5
  <2> QED BY <1>2, <1>7, <1>8, <2>1, <2>2, <2>3, OthersFit
<1>17. RefundsWithinTotal'
  BY <1>4, <1>8, <1>9, <1>11, <1>12 DEF SalesInv, RefundsWithinTotal, Whole
<1>18. m \notin refundRace' =>
         /\ st = "REFUNDED" => refunded'[m] = total
         /\ st = "PARTIALLY_REFUNDED" /\ m \notin fractional' => 0 < refunded'[m] /\ refunded'[m] < total
  <2> SUFFICES ASSUME m \notin refundRace'
               PROVE  /\ st = "REFUNDED" => refunded'[m] = total
                      /\ st = "PARTIALLY_REFUNDED" /\ m \notin fractional'
                           => 0 < refunded'[m] /\ refunded'[m] < total
    OBVIOUS
  <2>1. refunded'[m] = read + got
    BY <1>9, <1>12
  <2>2. CASE read + a = total
    BY <2>1, <2>2, <1>4, <1>5, <1>6
  <2>3. CASE read + a # total
    BY <2>1, <2>3, <1>1, <1>2, <1>4, <1>5, <1>6, <1>13 DEF Whole
  <2> QED BY <2>2, <2>3
<1>19. StatusTellsRefunds'
  BY <1>5, <1>8, <1>9, <1>11, <1>13, <1>18 DEF SalesInv, StatusTellsRefunds
<1>20. m \notin refundRace' => returned[m] = 0
  <2> SUFFICES ASSUME m \notin refundRace' PROVE returned[m] = 0
    OBVIOUS
  <2>1. refunded[m] < total
    BY <1>1, <1>2, <1>12 DEF Whole
  <2> QED BY <2>1, <1>2, <1>11, <1>14 DEF SalesInv, StatusTellsRefunds, ReturnedOnce, Whole
<1>21. ReturnedOnce'
  BY <1>5, <1>6, <1>8, <1>9, <1>10, <1>11, <1>14, <1>20 DEF SalesInv, ReturnedOnce
<1> QED BY <1>15, <1>16, <1>17, <1>19, <1>21 DEF SalesInv

\* A request that ends has written nothing.
LEMMA EndSaleCallInv == ASSUME SalesInv, NEW c \in SaleCalls, EndSaleCall(c) PROVE SalesInv'
<1>1. PICK r : r = SaleIdle
  OBVIOUS
<1>2. CallFits(r)'
  BY <1>1 DEF CallFits, SaleIdle
<1>3. CallsFit'
  BY <1>1, <1>2, OthersFit DEF EndSaleCall, SaleDone
<1> QED BY <1>3, OnlyCalls DEF EndSaleCall, SaleDone, SalesInv, SalesType

\* The invariant holds throughout every behaviour.
LEMMA SalesInvariant == SalesSpec => []SalesInv
<1>1. SalesInv /\ [SalesNext]_salesVars => SalesInv'
  <2> SUFFICES ASSUME SalesInv, [SalesNext]_salesVars PROVE SalesInv'
    OBVIOUS
  <2>1. CASE UNCHANGED salesVars
    BY <2>1 DEF salesVars, SalesInv, SalesType, CallsFit, CallFits, RefundsWithinTotal,
                StatusTellsRefunds, ReturnedOnce
  <2> QED BY <2>1, StartSaleInv, CommitSaleInv, StartRefundInv, CommitRefundInv,
             EndSaleCallInv DEF SalesNext
<1> QED BY <1>1, SalesInitInv, PTL DEF SalesSpec

\* Refunds that do not overlap never exceed the sale.
THEOREM AmountsFit == SalesSpec => []RefundsWithinTotal
  BY SalesInvariant, PTL DEF SalesInv

\* Without overlaps and fractions of a cent, REFUNDED means the whole total was
\* refunded and PARTIALLY_REFUNDED a part of it.
THEOREM StatusesTell == SalesSpec => []StatusTellsRefunds
  BY SalesInvariant, PTL DEF SalesInv

\* Without overlaps, the goods of a sale return at most once.
THEOREM GoodsReturnOnce == SalesSpec => []ReturnedOnce
  BY SalesInvariant, PTL DEF SalesInv

\* Refunds fit the sale in amount, status and goods, for any amounts and any
\* number of requests, unless they overlap or are rounded.
THEOREM RefundsAlwaysFit == SalesSpec => []RefundsFit
  BY AmountsFit, StatusesTell, GoodsReturnOnce, PTL DEF RefundsFit
-----------------------------------------------------------------------------
(* Sales add up *)

\* The sum over all sales, in the order CountedOnce takes them.
Over(f) == LET ids == SetToSeq(SaleIds) IN Adding([n \in DOMAIN ids |-> f[ids[n]]])

CreditsOf(s) == [m \in SaleIds |-> s[m].credit]
StockOf(s, r) == [m \in SaleIds |-> r[m] - s[m].units]

\* CountedOnce in these words.
LEMMA CountedForm ==
  ASSUME NEW s, NEW r
  PROVE  LET ids == SetToSeq(SaleIds)
         IN  /\ Adding([n \in DOMAIN ids |-> s[ids[n]].credit]) = Over(CreditsOf(s))
             /\ Adding([n \in DOMAIN ids |-> r[ids[n]] - s[ids[n]].units]) = Over(StockOf(s, r))
<1>1. PICK ids : ids = SetToSeq(SaleIds)
  OBVIOUS
<1>2. \A n \in DOMAIN ids : ids[n] \in SaleIds
  BY <1>1, IdsOnce
<1>3. [n \in DOMAIN ids |-> s[ids[n]].credit] = [n \in DOMAIN ids |-> CreditsOf(s)[ids[n]]]
  BY <1>2 DEF CreditsOf
<1>4. [n \in DOMAIN ids |-> r[ids[n]] - s[ids[n]].units]
        = [n \in DOMAIN ids |-> StockOf(s, r)[ids[n]]]
  BY <1>2 DEF StockOf
<1> QED BY <1>1, <1>3, <1>4 DEF Over

\* Nothing adds up to nothing.
LEMMA OverNothing ==
  ASSUME NEW f, \A m \in SaleIds : f[m] = 0
  PROVE  Over(f) = 0
<1>1. PICK ids : ids = SetToSeq(SaleIds)
  OBVIOUS
<1>2. PICK N \in Nat : DOMAIN ids = 1..N /\ \A n \in 1..N : ids[n] \in SaleIds
  BY <1>1, IdsOnce
<1>3. PICK q : q = [n \in 1..N |-> f[ids[n]]]
  OBVIOUS
<1>4. DOMAIN q = 1..N /\ \A n \in 1..N : q[n] = 0 /\ q[n] \in Int /\ q[n] = q[n] + q[n]
  BY <1>2, <1>3
<1>5. IsFiniteSet(1..N)
  BY FS_Interval
<1>6. Sigma(q, 1..N) \in Int
  BY <1>4, <1>5, SigmaRules
<1>7. Sigma(q, 1..N) = Sigma(q, 1..N) + Sigma(q, 1..N)
  BY <1>4, <1>5, SigmaLinear
<1>8. Adding(q) = Sigma(q, 1..N)
  BY <1>4, AddingIsSigma
<1>9. Adding(q) = 0
  BY <1>6, <1>7, <1>8
<1> QED BY <1>1, <1>2, <1>3, <1>9 DEF Over

\* The amounts of the rows, and that an absent sale counts for nothing.
RowsCount ==
  \A m \in SaleIds :
    /\ sale[m].credit \in Int
    /\ sale[m].status = "absent" => sale[m].credit = 0 /\ sale[m].units = 0

AddInv == RowsCount /\ CountedOnce /\ TotalsAgree

\* No sales add up.
LEMMA AddInit == SalesInit => AddInv
<1> SUFFICES ASSUME SalesInit PROVE AddInv
  OBVIOUS
<1>1. RowsCount /\ TotalsAgree
  BY DEF SalesInit, RowsCount, TotalsAgree, NoSale
<1>2. Over(CreditsOf(sale)) = 0
  <2>1. \A m \in SaleIds : CreditsOf(sale)[m] = 0
    BY DEF SalesInit, CreditsOf, NoSale
  <2> QED BY <2>1, OverNothing
<1>3. Over(StockOf(sale, returned)) = 0
  <2>1. \A m \in SaleIds : StockOf(sale, returned)[m] = 0
    BY DEF SalesInit, StockOf, NoSale
  <2> QED BY <2>1, OverNothing
<1>4. owed = 0 /\ shelf = 0
  BY DEF SalesInit
<1>5. CountedOnce
  BY <1>2, <1>3, <1>4, CountedForm DEF CountedOnce
<1> QED BY <1>1, <1>5 DEF AddInv

\* Sums of integers are integers.
LEMMA OverInt ==
  ASSUME NEW f \in [SaleIds -> Int]
  PROVE  Over(f) \in Int
<1>1. PICK ids : ids = SetToSeq(SaleIds)
  OBVIOUS
<1>2. PICK N \in Nat : DOMAIN ids = 1..N /\ \A n \in 1..N : ids[n] \in SaleIds
  BY <1>1, IdsOnce
<1>3. PICK q : q = [n \in 1..N |-> f[ids[n]]]
  OBVIOUS
<1>4. DOMAIN q = 1..N /\ \A n \in 1..N : q[n] \in Int
  BY <1>2, <1>3
<1>5. IsFiniteSet(1..N)
  BY FS_Interval
<1>6. Sigma(q, 1..N) \in Int
  BY <1>4, <1>5, SigmaRules
<1>7. Adding(q) = Sigma(q, 1..N)
  BY <1>4, AddingIsSigma
<1> QED BY <1>1, <1>2, <1>3, <1>6, <1>7 DEF Over

\* What is owed and in stock are integers.
LEMMA ShelfInt ==
  ASSUME SalesInv, AddInv
  PROVE  owed \in Int /\ shelf \in Int
<1>1. owed = Over(CreditsOf(sale)) /\ shelf = Over(StockOf(sale, returned))
  BY CountedForm DEF AddInv, CountedOnce
<1>2. CreditsOf(sale) \in [SaleIds -> Int]
  BY DEF AddInv, RowsCount, CreditsOf
<1>3. \A k \in SaleIds : returned[k] - sale[k].units \in Int
  BY DEF SalesInv, SalesType
<1>4. StockOf(sale, returned) \in [SaleIds -> Int]
  BY <1>3 DEF StockOf
<1> QED BY <1>1, <1>2, <1>4, OverInt

\* A step that changes one sale, and what is owed and in stock by as much.
LEMMA OneSaleCounted ==
  ASSUME SalesInv, SalesInv', AddInv, NEW m \in SaleIds,
         \A k \in SaleIds \ {m} : sale'[k] = sale[k] /\ returned'[k] = returned[k],
         sale'[m].credit \in Int,
         owed' = owed + (sale'[m].credit - sale[m].credit),
         shelf' = shelf + ((returned'[m] - sale'[m].units) - (returned[m] - sale[m].units))
  PROVE  CountedOnce'
<1>1. owed = Over(CreditsOf(sale)) /\ shelf = Over(StockOf(sale, returned))
  BY CountedForm DEF AddInv, CountedOnce
<1>2. CreditsOf(sale) \in [SaleIds -> Int] /\ CreditsOf(sale') \in [SaleIds -> Int]
  BY DEF AddInv, RowsCount, CreditsOf
<1>3. /\ \A k \in SaleIds : /\ returned[k] - sale[k].units \in Int
                            /\ returned'[k] - sale'[k].units \in Int
  BY DEF SalesInv, SalesType
<1>4. StockOf(sale, returned) \in [SaleIds -> Int] /\ StockOf(sale', returned') \in [SaleIds -> Int]
  BY <1>3 DEF StockOf
<1>5. \A k \in SaleIds \ {m} : /\ CreditsOf(sale')[k] = CreditsOf(sale)[k]
                               /\ StockOf(sale', returned')[k] = StockOf(sale, returned)[k]
  BY DEF CreditsOf, StockOf
<1>6. Over(CreditsOf(sale')) = Over(CreditsOf(sale)) + CreditsOf(sale')[m] - CreditsOf(sale)[m]
  BY <1>2, <1>5, OverSales DEF Over
<1>7. Over(StockOf(sale', returned')) = Over(StockOf(sale, returned))
        + StockOf(sale', returned')[m] - StockOf(sale, returned)[m]
  BY <1>4, <1>5, OverSales DEF Over
<1>8. Over(CreditsOf(sale)) \in Int /\ Over(StockOf(sale, returned)) \in Int
  BY <1>2, <1>4, OverInt
<1>9. owed' = Over(CreditsOf(sale'))
  <2>1. /\ CreditsOf(sale')[m] = sale'[m].credit /\ CreditsOf(sale)[m] = sale[m].credit
        /\ sale[m].credit \in Int
    BY DEF CreditsOf, AddInv, RowsCount
  <2> QED BY <1>1, <1>6, <1>8, <2>1
<1>10. shelf' = Over(StockOf(sale', returned'))
  <2>1. /\ StockOf(sale', returned')[m] = returned'[m] - sale'[m].units
        /\ StockOf(sale, returned)[m] = returned[m] - sale[m].units
    BY DEF StockOf
  <2> QED BY <1>1, <1>3, <1>7, <1>8, <2>1
<1> QED BY <1>9, <1>10, CountedForm DEF CountedOnce

\* A sale is inserted.
LEMMA CommitSaleAdds == ASSUME SalesInv, SalesInv', AddInv, NEW c \in SaleCalls, CommitSale(c) PROVE AddInv'
<1>1. PICK m \in SaleIds, cart \in Carts, tender \in Tenders :
        /\ m = saleCall[c].id /\ cart = saleCall[c].cart /\ tender = saleCall[c].tender
        /\ tender.cash + tender.credit = CartTotal(cart)
  BY DEF CommitSale, SalesInv, CallsFit, CallFits
<1>2. PICK row : row = SaleRow(cart, tender)
  OBVIOUS
<1>3. /\ sale' = [sale EXCEPT ![m] = row] /\ sale[m].status = "absent" /\ returned' = returned
      /\ owed' = owed + row.credit /\ shelf' = shelf - row.units
  BY <1>1, <1>2 DEF CommitSale, Insertable
<1>4. sale'[m] = row /\ \A k \in SaleIds \ {m} : sale'[k] = sale[k]
  BY <1>3 DEF SalesInv, SalesType
<1>5. /\ row.status = "COMPLETED" /\ row.total = Cents(CartTotal(cart))
      /\ row.lineTotals = Adding([n \in DOMAIN cart |-> Cents(LineTotal(cart[n]))])
      /\ row.paid = CartTotal(cart) /\ row.lines = Len(cart)
      /\ row.credit = IF tender.customer THEN Cents(tender.credit) ELSE 0
  BY <1>1, <1>2 DEF SaleRow
<1>6. row.credit \in Int
  <2>1. tender.credit \in Int
    BY SalesAssumption
  <2>2. Cents(tender.credit) \in Int /\ 0 \in Int
    BY <2>1, CentsNear
  <2>3. row.credit = Cents(tender.credit) \/ row.credit = 0
    BY <1>5, Zenon
  <2> QED BY <2>2, <2>3
<1>7. sale[m].credit = 0 /\ sale[m].units = 0
  BY <1>3 DEF AddInv, RowsCount
<1>8. CountedOnce'
  <2>1. row.units \in Nat /\ returned[m] \in Nat /\ owed' = owed + (row.credit - 0)
        /\ shelf' = shelf + ((returned'[m] - row.units) - (returned[m] - 0))
    <3>1. row.units \in Nat /\ returned[m] \in Nat
      BY <1>4 DEF SalesInv, SalesType
    <3>2. shelf \in Int
      BY ShelfInt
    <3> QED BY <1>3, <1>6, <3>1, <3>2
  <2> QED BY <1>3, <1>4, <1>6, <1>7, <2>1, OneSaleCounted
<1>9. RowsCount'
  BY <1>4, <1>5, <1>6 DEF AddInv, RowsCount
<1>10. TotalsAgree'
  <2>1. /\ -2 * (row.lines + 1) <= row.lineTotals - row.total
        /\ row.lineTotals - row.total <= 2 * (row.lines + 1)
    <3>1. PICK k \in Nat, x \in Int, y \in Int :
            /\ k = Len(cart) /\ x = row.lineTotals /\ y = row.total
            /\ x - y <= 2 * (k + 1) /\ y - x <= 2 * (k + 1)
      BY <1>5, TotalsNear
    <3> QED BY <1>5, <3>1
  <2>2. -2 * 1 <= row.paid - row.total /\ row.paid - row.total <= 2 * 1
    <3>1. PICK x \in Int : x = CartTotal(cart)
      BY TotalsNear
    <3> QED BY <1>5, <3>1, CentsNear
  <2> QED BY <1>4, <2>1, <2>2 DEF AddInv, TotalsAgree
<1> QED BY <1>8, <1>9, <1>10 DEF AddInv

\* A refund leaves the amounts of its sale alone.
LEMMA CommitRefundAdds == ASSUME SalesInv, SalesInv', AddInv, NEW c \in SaleCalls, CommitRefund(c) PROVE AddInv'
<1>1. PICK m \in SaleIds : m = saleCall[c].id /\ sale[m].status # "absent"
  BY DEF CommitRefund, SalesInv, CallsFit, CallFits
<1>2. PICK st \in {"REFUNDED", "PARTIALLY_REFUNDED"} : sale' = [sale EXCEPT ![m].status = st]
  BY <1>1 DEF CommitRefund
<1>3. /\ sale'[m].status = st /\ sale'[m].total = sale[m].total
      /\ sale'[m].lineTotals = sale[m].lineTotals /\ sale'[m].paid = sale[m].paid
      /\ sale'[m].credit = sale[m].credit /\ sale'[m].units = sale[m].units
      /\ sale'[m].lines = sale[m].lines
      /\ \A k \in SaleIds \ {m} : sale'[k] = sale[k]
  BY <1>2 DEF SalesInv, SalesType, RowFields
<1>4. /\ \A k \in SaleIds \ {m} : returned'[k] = returned[k]
      /\ shelf' = shelf + (returned'[m] - returned[m])
      /\ owed' = owed
  <2>1. returned[m] \in Nat /\ sale[m].units \in Nat /\ shelf \in Int
    BY ShelfInt DEF SalesInv, SalesType
  <2>2. CASE Restocks(c)
    BY <1>1, <2>1, <2>2 DEF CommitRefund, SalesInv, SalesType
  <2>3. CASE ~Restocks(c)
    BY <2>1, <2>3 DEF CommitRefund
  <2> QED BY <2>2, <2>3
<1>5. RowsCount'
  BY <1>2, <1>3 DEF AddInv, RowsCount
<1>6. TotalsAgree'
  BY <1>3 DEF AddInv, TotalsAgree
<1>7. CountedOnce'
  <2>1. /\ returned[m] \in Nat /\ returned'[m] \in Nat /\ sale[m].units \in Nat
        /\ sale[m].credit \in Int /\ shelf \in Int /\ owed \in Int
    BY ShelfInt DEF SalesInv, SalesType, AddInv, RowsCount
  <2>2. owed' = owed + (sale'[m].credit - sale[m].credit)
    BY <1>3, <1>4, <2>1
  <2>3. shelf' = shelf + ((returned'[m] - sale'[m].units) - (returned[m] - sale[m].units))
    BY <1>3, <1>4, <2>1
  <2>4. sale'[m].credit \in Int
    BY <1>3, <2>1
  <2> QED BY <1>3, <1>4, <2>2, <2>3, <2>4, OneSaleCounted
<1> QED BY <1>5, <1>6, <1>7 DEF AddInv

\* Every step keeps the sales adding up.
LEMMA NextAdds == SalesInv /\ SalesInv' /\ AddInv /\ [SalesNext]_salesVars => AddInv'
<1> SUFFICES ASSUME SalesInv, SalesInv', AddInv, [SalesNext]_salesVars PROVE AddInv'
  OBVIOUS
<1>1. CASE UNCHANGED <<sale, returned, owed, shelf>>
  <2>1. sale' = sale /\ returned' = returned /\ owed' = owed /\ shelf' = shelf
    BY <1>1
  <2> QED BY <2>1 DEF AddInv, RowsCount, CountedOnce, TotalsAgree
<1>2. ASSUME NEW c \in SaleCalls, StartSale(c) \/ StartRefund(c) \/ EndSaleCall(c)
      PROVE  UNCHANGED <<sale, returned, owed, shelf>>
  BY <1>2 DEF StartSale, StartRefund, EndSaleCall
<1>3. UNCHANGED salesVars => UNCHANGED <<sale, returned, owed, shelf>>
  BY DEF salesVars
<1> QED BY <1>1, <1>2, <1>3, CommitSaleAdds, CommitRefundAdds DEF SalesNext

\* Sales add up: a sale's lines and payments agree with its total to half a cent
\* for each amount that createSale rounds, and over all sales the customer owes
\* their credit and the shelf is down by their units less what refunds returned,
\* for any carts and any number of requests.
THEOREM SalesAlwaysAddUp == SalesSpec => []SalesAddUp
<1>1. AddInv => SalesAddUp
  BY DEF AddInv, SalesAddUp
<1>2. SalesInit => SalesInv /\ AddInv
  BY SalesInitInv, AddInit
<1>3. SalesInv /\ SalesInv' /\ AddInv /\ [SalesNext]_salesVars => AddInv'
  BY NextAdds
<1> QED BY <1>1, <1>2, <1>3, SalesInvariant, PTL DEF SalesSpec
-----------------------------------------------------------------------------
(* Reports *)

\* The rows that are reported on.
SaleRecord ==
  [id : Nat, at : Nat, total : Int, cost : Int, status : {"COMPLETED", "PARTIALLY_REFUNDED"}]

\* The inductive invariant: no sale is of the future.
ReportsInv ==
  /\ halfDay \in Nat
  /\ saleRows \subseteq SaleRecord /\ IsFiniteSet(saleRows)
  /\ \A r \in saleRows : r.at <= halfDay
  /\ expenseRows \subseteq [id : Nat, at : Nat, total : Int] /\ IsFiniteSet(expenseRows)
  /\ onShelf \in [Wares -> [Shelves -> Int]]

\* Sales, expenses and stock keep their types and times.
LEMMA ReportsAlwaysInv == ReportsSpec => []ReportsInv
<1>1. ReportsInit => ReportsInv
  BY FS_EmptySet DEF ReportsInit, ReportsInv
<1>2. ReportsInv /\ [ReportsNext]_reportVars => ReportsInv'
  <2> SUFFICES ASSUME ReportsInv, [ReportsNext]_reportVars PROVE ReportsInv'
    OBVIOUS
  <2> USE DEF ReportsInv
  <2>1. CASE TimePasses
    BY <2>1 DEF TimePasses, SaleRecord
  <2>2. ASSUME NEW d \in 0..DayOf(MaxClock), MoneySpent(d) PROVE ReportsInv'
    <3> DEFINE e == [id |-> Cardinality(expenseRows), at |-> Midnight(d), total |-> 1]
    <3>1. e \in [id : Nat, at : Nat, total : Int]
      BY FS_CardinalityType DEF Midnight
    <3>2. expenseRows' = expenseRows \union {e} /\ UNCHANGED <<halfDay, saleRows, onShelf>>
      BY <2>2 DEF MoneySpent
    <3> HIDE DEF e
    <3>3. IsFiniteSet(expenseRows')
      BY <3>2, FS_AddElement
    <3> QED BY <3>1, <3>2, <3>3
  <2>3. ASSUME NEW size \in SaleSizes, SaleMade(size) PROVE ReportsInv'
    <3> DEFINE r == [id |-> Cardinality(saleRows), at |-> halfDay, total |-> size.total,
                     cost |-> size.cost, status |-> "COMPLETED"]
    <3>1. r \in SaleRecord /\ r.at = halfDay
      BY ReportsAssumption, FS_CardinalityType DEF SaleRecord
    <3>2. saleRows' = saleRows \union {r} /\ UNCHANGED <<halfDay, expenseRows, onShelf>>
      BY <2>3 DEF SaleMade
    <3> HIDE DEF r
    <3>3. IsFiniteSet(saleRows')
      BY <3>2, FS_AddElement
    <3> QED BY <3>1, <3>2, <3>3
  <2>4. ASSUME NEW r \in saleRows, SaleUndone(r) PROVE ReportsInv'
    <3> DEFINE q == [r EXCEPT !.status = "PARTIALLY_REFUNDED"]
    <3>1. q \in SaleRecord /\ q.at = r.at
      BY DEF SaleRecord
    <3>2. saleRows' = (saleRows \ {r}) \union {q} /\ UNCHANGED <<halfDay, expenseRows, onShelf>>
      BY <2>4 DEF SaleUndone
    <3> HIDE DEF q
    <3>3. IsFiniteSet(saleRows')
      BY <3>2, FS_AddElement, FS_RemoveElement
    <3> QED BY <3>1, <3>2, <3>3
  <2>5. ASSUME NEW w \in Wares, NEW l \in Shelves, NEW n \in {-1, 1}, StockMoves(w, l, n)
        PROVE  ReportsInv'
    BY <2>5 DEF StockMoves
  <2>6. CASE UNCHANGED reportVars
    BY <2>6 DEF reportVars
  <2> QED BY <2>1, <2>2, <2>3, <2>4, <2>5, <2>6 DEF ReportsNext
<1> QED BY <1>1, <1>2, PTL DEF ReportsSpec
-----------------------------------------------------------------------------
\* The transactions of a report's rows, and their profits.
Transactions(W) == MapThenSumSet(LAMBDA r : r.transactionCount, W)
Profits(W) == MapThenSumSet(LAMBDA r : r.grossProfit, W)

\* The totals of some rows are a sum.
LEMMA TotalIsSigma ==
  ASSUME NEW W, IsFiniteSet(W), \A r \in W : r.total \in Int, NEW U \in SUBSET W
  PROVE  Total(U) = Sigma([r \in W |-> r.total], U)
<1> DEFINE f == [r \in U |-> r.total]
           h == [r \in W |-> r.total]
           any(s) == CHOOSE x \in s : TRUE
           Step(g) == [s \in SUBSET U |-> IF s = {} THEN 0 ELSE any(s).total + g[s \ {any(s)}]]
<1>1. ASSUME NEW g PROVE Step(g) = AddUp(f, U, g)
  <2>1. \A s \in SUBSET U : s # {} => AnyOf(s) \in s /\ AnyOf(s) = any(s)
    BY DEF AnyOf
  <2>2. \A s \in SUBSET U : s # {} => f[AnyOf(s)] = any(s).total /\ AnyOf(s) = any(s)
    BY <2>1
  <2> HIDE DEF f, any
  <2> QED BY <2>2 DEF AddUp
<1>2. PICK g : g = CHOOSE k : k = Step(k)
  OBVIOUS
<1>3. Total(U) = g[U]
  BY <1>2 DEF Total, MapThenSumSet, MapThenFoldSet
<1>4. IsFiniteSet(U) /\ \A r \in U : f[r] \in Int /\ h[r] = f[r]
  BY FS_Subset
<1> HIDE DEF Step, f, h
<1>5. \E k : k = Step(k)
  BY <1>1, <1>4, AddUpIsSigma
<1>6. g = Step(g)
  BY <1>2, <1>5, Zenon
<1>7. g[U] = Sigma(f, U)
  BY <1>1, <1>4, <1>6, AddUpIsSigma
<1>8. Sigma(h, U) = Sigma(f, U)
  BY <1>4, SigmaSame
<1> QED BY <1>3, <1>7, <1>8 DEF h

\* So are their costs.
LEMMA CostIsSigma ==
  ASSUME NEW W, IsFiniteSet(W), \A r \in W : r.cost \in Int, NEW U \in SUBSET W
  PROVE  Cost(U) = Sigma([r \in W |-> r.cost], U)
<1> DEFINE f == [r \in U |-> r.cost]
           h == [r \in W |-> r.cost]
           any(s) == CHOOSE x \in s : TRUE
           Step(g) == [s \in SUBSET U |-> IF s = {} THEN 0 ELSE any(s).cost + g[s \ {any(s)}]]
<1>1. ASSUME NEW g PROVE Step(g) = AddUp(f, U, g)
  <2>1. \A s \in SUBSET U : s # {} => AnyOf(s) \in s /\ AnyOf(s) = any(s)
    BY DEF AnyOf
  <2>2. \A s \in SUBSET U : s # {} => f[AnyOf(s)] = any(s).cost /\ AnyOf(s) = any(s)
    BY <2>1
  <2> HIDE DEF f, any
  <2> QED BY <2>2 DEF AddUp
<1>2. PICK g : g = CHOOSE k : k = Step(k)
  OBVIOUS
<1>3. Cost(U) = g[U]
  BY <1>2 DEF Cost, MapThenSumSet, MapThenFoldSet
<1>4. IsFiniteSet(U) /\ \A r \in U : f[r] \in Int /\ h[r] = f[r]
  BY FS_Subset
<1> HIDE DEF Step, f, h
<1>5. \E k : k = Step(k)
  BY <1>1, <1>4, AddUpIsSigma
<1>6. g = Step(g)
  BY <1>2, <1>5, Zenon
<1>7. g[U] = Sigma(f, U)
  BY <1>1, <1>4, <1>6, AddUpIsSigma
<1>8. Sigma(h, U) = Sigma(f, U)
  BY <1>4, SigmaSame
<1> QED BY <1>3, <1>7, <1>8 DEF h

\* So are their transactions.
LEMMA TransactionsAreSigma ==
  ASSUME NEW W, IsFiniteSet(W), \A r \in W : r.transactionCount \in Int, NEW U \in SUBSET W
  PROVE  Transactions(U) = Sigma([r \in W |-> r.transactionCount], U)
<1> DEFINE f == [r \in U |-> r.transactionCount]
           h == [r \in W |-> r.transactionCount]
           any(s) == CHOOSE x \in s : TRUE
           Step(g) == [s \in SUBSET U |-> IF s = {} THEN 0 ELSE any(s).transactionCount + g[s \ {any(s)}]]
<1>1. ASSUME NEW g PROVE Step(g) = AddUp(f, U, g)
  <2>1. \A s \in SUBSET U : s # {} => AnyOf(s) \in s /\ AnyOf(s) = any(s)
    BY DEF AnyOf
  <2>2. \A s \in SUBSET U : s # {} => f[AnyOf(s)] = any(s).transactionCount /\ AnyOf(s) = any(s)
    BY <2>1
  <2> HIDE DEF f, any
  <2> QED BY <2>2 DEF AddUp
<1>2. PICK g : g = CHOOSE k : k = Step(k)
  OBVIOUS
<1>3. Transactions(U) = g[U]
  BY <1>2 DEF Transactions, MapThenSumSet, MapThenFoldSet
<1>4. IsFiniteSet(U) /\ \A r \in U : f[r] \in Int /\ h[r] = f[r]
  BY FS_Subset
<1> HIDE DEF Step, f, h
<1>5. \E k : k = Step(k)
  BY <1>1, <1>4, AddUpIsSigma
<1>6. g = Step(g)
  BY <1>2, <1>5, Zenon
<1>7. g[U] = Sigma(f, U)
  BY <1>1, <1>4, <1>6, AddUpIsSigma
<1>8. Sigma(h, U) = Sigma(f, U)
  BY <1>4, SigmaSame
<1> QED BY <1>3, <1>7, <1>8 DEF h

\* So are their profits.
LEMMA ProfitsAreSigma ==
  ASSUME NEW W, IsFiniteSet(W), \A r \in W : r.grossProfit \in Int, NEW U \in SUBSET W
  PROVE  Profits(U) = Sigma([r \in W |-> r.grossProfit], U)
<1> DEFINE f == [r \in U |-> r.grossProfit]
           h == [r \in W |-> r.grossProfit]
           any(s) == CHOOSE x \in s : TRUE
           Step(g) == [s \in SUBSET U |-> IF s = {} THEN 0 ELSE any(s).grossProfit + g[s \ {any(s)}]]
<1>1. ASSUME NEW g PROVE Step(g) = AddUp(f, U, g)
  <2>1. \A s \in SUBSET U : s # {} => AnyOf(s) \in s /\ AnyOf(s) = any(s)
    BY DEF AnyOf
  <2>2. \A s \in SUBSET U : s # {} => f[AnyOf(s)] = any(s).grossProfit /\ AnyOf(s) = any(s)
    BY <2>1
  <2> HIDE DEF f, any
  <2> QED BY <2>2 DEF AddUp
<1>2. PICK g : g = CHOOSE k : k = Step(k)
  OBVIOUS
<1>3. Profits(U) = g[U]
  BY <1>2 DEF Profits, MapThenSumSet, MapThenFoldSet
<1>4. IsFiniteSet(U) /\ \A r \in U : f[r] \in Int /\ h[r] = f[r]
  BY FS_Subset
<1> HIDE DEF Step, f, h
<1>5. \E k : k = Step(k)
  BY <1>1, <1>4, AddUpIsSigma
<1>6. g = Step(g)
  BY <1>2, <1>5, Zenon
<1>7. g[U] = Sigma(f, U)
  BY <1>1, <1>4, <1>6, AddUpIsSigma
<1>8. Sigma(h, U) = Sigma(f, U)
  BY <1>4, SigmaSame
<1> QED BY <1>3, <1>7, <1>8 DEF h

\* The quantity of a variant is a sum of integers.
LEMMA QuantityType == ASSUME ReportsInv, NEW w \in Wares PROVE Quantity(w) \in Int
<1> DEFINE f == [l \in Shelves |-> onShelf[w][l]]
           any(s) == CHOOSE x \in s : TRUE
           Step(g) == [s \in SUBSET Shelves |->
                         IF s = {} THEN 0 ELSE onShelf[w][any(s)] + g[s \ {any(s)}]]
<1>1. ASSUME NEW g PROVE Step(g) = AddUp(f, Shelves, g)
  <2>1. \A s \in SUBSET Shelves : s # {} => AnyOf(s) \in s /\ AnyOf(s) = any(s)
    BY DEF AnyOf
  <2>2. \A s \in SUBSET Shelves : s # {} => f[AnyOf(s)] = onShelf[w][any(s)] /\ AnyOf(s) = any(s)
    BY <2>1
  <2> HIDE DEF f, any
  <2> QED BY <2>2 DEF AddUp
<1>2. PICK g : g = CHOOSE k : k = Step(k)
  OBVIOUS
<1>3. Quantity(w) = g[Shelves]
  BY <1>2 DEF Quantity, MapThenSumSet, MapThenFoldSet
<1>4. IsFiniteSet(Shelves) /\ \A l \in Shelves : f[l] \in Int
  BY ReportsAssumption DEF ReportsInv
<1> HIDE DEF Step, f
<1>5. \E k : k = Step(k)
  BY <1>1, <1>4, AddUpIsSigma
<1>6. g = Step(g)
  BY <1>2, <1>5, Zenon
<1>7. g[Shelves] = Sigma(f, Shelves)
  BY <1>1, <1>4, <1>6, AddUpIsSigma
<1>8. Sigma(f, Shelves) \in Int
  BY <1>4, SigmaRules
<1> QED BY <1>3, <1>7, <1>8
-----------------------------------------------------------------------------
\* The completed sales of the days of a range.
SalesDue(from, to) == {r \in Completed : from <= r.at /\ DayOf(r.at) <= DayOf(to)}

\* The sales S of a period, and its row.
Bucket(S, groupBy, p) == {r \in S : PeriodLabel(r.at, groupBy) = p}
RowOf(S, groupBy, p) ==
  LET b == Bucket(S, groupBy, p) IN
    [period |-> p, total |-> Total(b), cost |-> Cost(b), grossProfit |-> Total(b) - Cost(b),
     transactionCount |-> Cardinality(b)]

\* What is reported on is finite and has amounts.
LEMMA CompletedType ==
  ASSUME ReportsInv
  PROVE  /\ IsFiniteSet(Completed) /\ Completed \subseteq SaleRecord
         /\ \A r \in Completed : /\ r.at \in Nat /\ r.at <= halfDay
                                 /\ r.total \in Int /\ r.cost \in Int
<1>1. Completed \subseteq saleRows
  BY DEF Completed
<1>2. IsFiniteSet(Completed)
  BY <1>1, FS_Subset DEF ReportsInv
<1> QED BY <1>1, <1>2 DEF ReportsInv, SaleRecord

\* A moment and the midnight before it have one label.
LEMMA LabelOfDay ==
  ASSUME NEW t \in Int, NEW groupBy
  PROVE  /\ PeriodLabel(Midnight(DayOf(t)), groupBy) = PeriodLabel(t, groupBy)
         /\ DayOf(t) \in Int
<1>1. DayOf(t) \in Int /\ DayOf(Midnight(DayOf(t))) = DayOf(t)
  BY DEF DayOf, Midnight
<1> QED BY <1>1 DEF PeriodLabel

\* The rows of a report: one for each label, which is some sale's or not, and every
\* sale that is due has its label among them.
LEMMA RowsOfReport ==
  ASSUME ReportsInv, NEW from \in Int, NEW to \in Int, NEW groupBy,
         NEW S, S = SalesDue(from, to)
  PROVE  LET rows == GetSalesByPeriod(from, to, groupBy) IN
         /\ IsFiniteSet(rows)
         /\ rows = {RowOf(S, groupBy, p) : p \in EnumeratePeriods(from, to, groupBy)}
         /\ \A r \in S : PeriodLabel(r.at, groupBy) \in EnumeratePeriods(from, to, groupBy)
<1> DEFINE P == EnumeratePeriods(from, to, groupBy)
           I == DayOf(from)..DayOf(to)
           F == [d \in I |-> RowOf(S, groupBy, PeriodLabel(Midnight(d), groupBy))]
<1>1. S = {r \in Completed : from <= r.at /\ r.at < ToExclusive(to)}
  <2>1. \A t \in Nat : DayOf(t) <= DayOf(to) <=> t < ToExclusive(to)
    BY DEF DayOf, ToExclusive, Midnight
  <2> QED BY <2>1, CompletedType DEF SalesDue
<1>2. PICK rows : rows = {RowOf(S, groupBy, p) : p \in P}
  OBVIOUS
<1>3. GetSalesByPeriod(from, to, groupBy) = rows
  BY <1>1, <1>2 DEF GetSalesByPeriod, RowOf, Bucket
<1>4. rows = {F[d] : d \in I}
  <2>1. P = {PeriodLabel(Midnight(d), groupBy) : d \in I}
    BY DEF EnumeratePeriods
  <2> HIDE DEF P, I
  <2> QED BY <1>2, <2>1
<1>5. IsFiniteSet(I)
  BY FS_Interval, LabelOfDay
<1>6. IsFiniteSet(rows)
  <2> HIDE DEF I, F
  <2> QED BY <1>4, <1>5, FiniteImage
<1>7. ASSUME NEW r \in S PROVE PeriodLabel(r.at, groupBy) \in P
  <2>1. r.at \in Int /\ from <= r.at /\ DayOf(r.at) <= DayOf(to)
    BY CompletedType DEF SalesDue
  <2>2. DayOf(r.at) \in I
    BY <2>1 DEF DayOf
  <2> QED BY <2>1, <2>2, LabelOfDay DEF EnumeratePeriods
<1> QED BY <1>2, <1>3, <1>6, <1>7

\* What adds up over each bucket adds up over the rows.
LEMMA BucketRows ==
  ASSUME ReportsInv, NEW from \in Int, NEW to \in Int, NEW groupBy,
         NEW S, S = SalesDue(from, to),
         NEW rows, rows = GetSalesByPeriod(from, to, groupBy),
         NEW f, \A r \in S : f[r] \in Int,
         NEW h, \A row \in rows : h[row] = Sigma(f, Bucket(S, groupBy, row.period))
  PROVE  Sigma(h, rows) = Sigma(f, S)
<1> DEFINE label == [r \in S |-> RowOf(S, groupBy, PeriodLabel(r.at, groupBy))]
<1>1. /\ IsFiniteSet(rows)
      /\ rows = {RowOf(S, groupBy, p) : p \in EnumeratePeriods(from, to, groupBy)}
      /\ \A r \in S : PeriodLabel(r.at, groupBy) \in EnumeratePeriods(from, to, groupBy)
  BY RowsOfReport
<1>2. \A r \in S : label[r] \in rows
  BY <1>1
<1>3. IsFiniteSet(S)
  <2>1. S \subseteq Completed
    BY DEF SalesDue
  <2> QED BY <2>1, CompletedType, FS_Subset
<1>4. ASSUME NEW row \in rows PROVE In(S, label, {row}) = Bucket(S, groupBy, row.period)
  <2>1. PICK p : row = RowOf(S, groupBy, p)
    BY <1>1
  <2>2. \A q : RowOf(S, groupBy, q).period = q
    BY DEF RowOf
  <2>3. \A q : RowOf(S, groupBy, q) = row <=> q = row.period
    BY <2>1, <2>2
  <2>4. \A r \in S : label[r] = row <=> PeriodLabel(r.at, groupBy) = row.period
    BY <2>3
  <2> HIDE DEF label
  <2> QED BY <2>4 DEF In, Bucket
<1> HIDE DEF label
<1>5. \A row \in rows : h[row] = Sigma(f, In(S, label, {row}))
  BY <1>4
<1>6. IsFiniteSet(rows) /\ \A r \in S : f[r] \in Int
  BY <1>1
<1>7. Bucketed(S, f, label, rows, h)
  BY <1>2, <1>3, <1>5, <1>6 DEF Bucketed
<1> QED BY <1>7, SigmaBuckets

\* A report adds up to the sales of its range.
LEMMA ReportAddsUp ==
  ASSUME ReportsInv, NEW from \in Int, NEW to \in Int, NEW groupBy,
         NEW S, S = SalesDue(from, to),
         NEW rows, rows = GetSalesByPeriod(from, to, groupBy)
  PROVE  /\ Total(rows) = Total(S) /\ Cost(rows) = Cost(S)
         /\ Transactions(rows) = Cardinality(S)
         /\ Profits(rows) = Total(S) - Cost(S)
         /\ Total(S) \in Int /\ Cost(S) \in Int
<1> DEFINE t == [r \in S |-> r.total]
           c == [r \in S |-> r.cost]
           n == [r \in S |-> 1]
           g == [r \in S |-> r.total - r.cost]
           B(row) == Bucket(S, groupBy, row.period)
<1>0. IsFiniteSet(S) /\ \A r \in S : r.total \in Int /\ r.cost \in Int
  <2>1. S \subseteq Completed
    BY DEF SalesDue
  <2> QED BY <2>1, CompletedType, FS_Subset
<1>1. /\ \A r \in S : t[r] \in Int /\ c[r] \in Int /\ n[r] \in Int /\ g[r] \in Int
      /\ \A r \in S : t[r] = g[r] + c[r] /\ n[r] = 1
  BY <1>0
<1>2. \A U \in SUBSET S : /\ Total(U) = Sigma(t, U) /\ Cost(U) = Sigma(c, U)
                         /\ Sigma(t, U) \in Int /\ Sigma(c, U) \in Int
  <2>1. \A U \in SUBSET S : Total(U) = Sigma(t, U) /\ Cost(U) = Sigma(c, U)
    BY <1>0, TotalIsSigma, CostIsSigma
  <2> HIDE DEF t, c
  <2>2. \A U \in SUBSET S : Sigma(t, U) \in Int
    BY <1>0, <1>1, SigmaRules
  <2>3. \A U \in SUBSET S : Sigma(c, U) \in Int
    BY <1>0, <1>1, SigmaRules
  <2> QED BY <2>1, <2>2, <2>3
<1> HIDE DEF t, c, n, g
<1>3. \A U \in SUBSET S : Sigma(n, U) = Cardinality(U)
  BY <1>0, <1>1, SigmaCard
<1>4. \A U \in SUBSET S : Sigma(g, U) = Sigma(t, U) - Sigma(c, U) /\ Sigma(g, U) \in Int
  <2> SUFFICES ASSUME NEW U \in SUBSET S
               PROVE  Sigma(g, U) = Sigma(t, U) - Sigma(c, U) /\ Sigma(g, U) \in Int
    OBVIOUS
  <2>1. IsFiniteSet(U) /\ \A r \in U : g[r] \in Int /\ c[r] \in Int /\ t[r] = g[r] + c[r]
    BY <1>0, <1>1, FS_Subset
  <2>2. Sigma(t, U) = Sigma(g, U) + Sigma(c, U)
    BY <2>1, SigmaLinear
  <2>3. Sigma(g, U) \in Int
    BY <1>0, <1>1, SigmaRules
  <2> QED BY <1>2, <2>2, <2>3
<1>5. /\ IsFiniteSet(rows)
      /\ rows = {RowOf(S, groupBy, p) : p \in EnumeratePeriods(from, to, groupBy)}
  BY RowsOfReport
<1>6. \A row \in rows : /\ row.total = Sigma(t, B(row)) /\ row.cost = Sigma(c, B(row))
                        /\ row.transactionCount = Sigma(n, B(row))
                        /\ row.grossProfit = Sigma(g, B(row))
                        /\ row.total \in Int /\ row.cost \in Int
                        /\ row.transactionCount \in Int /\ row.grossProfit \in Int
  <2> SUFFICES ASSUME NEW row \in rows
               PROVE  /\ row.total = Sigma(t, B(row)) /\ row.cost = Sigma(c, B(row))
                      /\ row.transactionCount = Sigma(n, B(row))
                      /\ row.grossProfit = Sigma(g, B(row))
                      /\ row.total \in Int /\ row.cost \in Int
                      /\ row.transactionCount \in Int /\ row.grossProfit \in Int
    OBVIOUS
  <2>1. PICK p : row = RowOf(S, groupBy, p)
    BY <1>5
  <2>2. PICK b : b = Bucket(S, groupBy, p)
    OBVIOUS
  <2>3. /\ row.period = p /\ row.total = Total(b) /\ row.cost = Cost(b)
        /\ row.grossProfit = Total(b) - Cost(b) /\ row.transactionCount = Cardinality(b)
    BY <2>1, <2>2 DEF RowOf
  <2>4. b \in SUBSET S /\ B(row) = b
    BY <2>2, <2>3 DEF Bucket
  <2>5. Cardinality(b) \in Int
    BY <1>0, <2>4, FS_Subset, FS_CardinalityType
  <2> HIDE DEF B
  <2> QED BY <1>2, <1>3, <1>4, <2>3, <2>4, <2>5
<1>7. Total(rows) = Sigma(t, S)
  <2>1. PICK h : h = [row \in rows |-> row.total]
    OBVIOUS
  <2>2. Total(rows) = Sigma(h, rows)
    BY <1>5, <1>6, <2>1, TotalIsSigma
  <2>3. \A row \in rows : h[row] = Sigma(t, Bucket(S, groupBy, row.period))
    BY <1>6, <2>1
  <2> QED BY <1>1, <2>2, <2>3, BucketRows
<1>8. Cost(rows) = Sigma(c, S)
  <2>1. PICK h : h = [row \in rows |-> row.cost]
    OBVIOUS
  <2>2. Cost(rows) = Sigma(h, rows)
    BY <1>5, <1>6, <2>1, CostIsSigma
  <2>3. \A row \in rows : h[row] = Sigma(c, Bucket(S, groupBy, row.period))
    BY <1>6, <2>1
  <2> QED BY <1>1, <2>2, <2>3, BucketRows
<1>9. Transactions(rows) = Sigma(n, S)
  <2>1. PICK h : h = [row \in rows |-> row.transactionCount]
    OBVIOUS
  <2>2. Transactions(rows) = Sigma(h, rows)
    BY <1>5, <1>6, <2>1, TransactionsAreSigma
  <2>3. \A row \in rows : h[row] = Sigma(n, Bucket(S, groupBy, row.period))
    BY <1>6, <2>1
  <2> QED BY <1>1, <2>2, <2>3, BucketRows
<1>10. Profits(rows) = Sigma(g, S)
  <2>1. PICK h : h = [row \in rows |-> row.grossProfit]
    OBVIOUS
  <2>2. Profits(rows) = Sigma(h, rows)
    BY <1>5, <1>6, <2>1, ProfitsAreSigma
  <2>3. \A row \in rows : h[row] = Sigma(g, Bucket(S, groupBy, row.period))
    BY <1>6, <2>1
  <2> QED BY <1>1, <2>2, <2>3, BucketRows
<1>11. S \in SUBSET S
  OBVIOUS
<1> QED BY <1>2, <1>3, <1>4, <1>7, <1>8, <1>9, <1>10, <1>11
-----------------------------------------------------------------------------
\* The larger of two.
LEMMA MaxTwo == ASSUME NEW a \in Int, NEW b \in Int PROVE Max({a, b}) = IF a >= b THEN a ELSE b
<1> DEFINE m == IF a >= b THEN a ELSE b
<1>1. m \in {a, b} /\ \A y \in {a, b} : m >= y
  OBVIOUS
<1>2. \A x \in {a, b} : (\A y \in {a, b} : x >= y) => x = m
  OBVIOUS
<1> HIDE DEF m
<1>3. Max({a, b}) = m
  BY <1>1, <1>2 DEF Max
<1> QED BY <1>3 DEF m

\* A month begins on or before its days, and the next one after them.
LEMMA MonthStart ==
  ASSUME NEW d \in Nat
  PROVE  /\ StartOfMonth(d) \in FirstDays /\ StartOfMonth(d) \in Nat /\ StartOfMonth(d) <= d
         /\ \A f \in FirstDays : f <= d => f <= StartOfMonth(d)
<1> DEFINE T == {f \in FirstDays : f <= d}
           D == {d - f : f \in T}
<1>1. FirstDays \subseteq Nat /\ 0 \in T
  BY ReportsAssumption
<1>2. D \subseteq Nat /\ D # {}
  <2>1. \A f \in T : d - f \in Nat
    BY <1>1
  <2> QED BY <1>1, <2>1
<1>3. PICK k \in D : \A l \in D : k <= l
  <2> HIDE DEF D
  <2> QED BY <1>2, LeastNat
<1>4. PICK m \in T : k = d - m
  BY <1>3
<1>5. ASSUME NEW f \in T PROVE m >= f
  <2>1. d - m <= d - f
    BY <1>3, <1>4
  <2> QED BY <1>1, <2>1
<1>6. \A x \in T : (\A y \in T : x >= y) => x = m
  BY <1>1, <1>5
<1> HIDE DEF T
<1>7. Max(T) = m
  BY <1>5, <1>6 DEF Max
<1> QED BY <1>1, <1>5, <1>7 DEF T, StartOfMonth

\* Two days are in one month if the earlier is not before the later one's first.
LEMMA SameMonth ==
  ASSUME NEW d \in Nat, NEW e \in Nat, d <= e
  PROVE  StartOfMonth(d) = StartOfMonth(e) <=> StartOfMonth(e) <= d
<1>1. /\ StartOfMonth(d) \in FirstDays /\ StartOfMonth(d) \in Nat /\ StartOfMonth(d) <= d
      /\ \A f \in FirstDays : f <= d => f <= StartOfMonth(d)
  BY MonthStart
<1>2. /\ StartOfMonth(e) \in FirstDays /\ StartOfMonth(e) \in Nat
      /\ \A f \in FirstDays : f <= e => f <= StartOfMonth(e)
  BY MonthStart
<1> QED BY <1>1, <1>2

\* Every completed sale of the range is in one row of the report.
LEMMA ReportIsComplete == ReportsInv => ReportComplete
<1> SUFFICES ASSUME ReportsInv, NEW from \in 0..MaxClock, NEW to \in 0..MaxClock,
                    NEW groupBy \in {"day", "week", "month"}
             PROVE  LET rows == GetSalesByPeriod(from, to, groupBy)
                        due == {r \in Completed : from <= r.at /\ DayOf(r.at) <= DayOf(to)} IN
                    /\ Total(rows) = Total(due) /\ Cost(rows) = Cost(due)
                    /\ MapThenSumSet(LAMBDA r : r.transactionCount, rows) = Cardinality(due)
  BY DEF ReportComplete
<1>1. from \in Int /\ to \in Int
  BY ReportsAssumption
<1>2. PICK rows, S : rows = GetSalesByPeriod(from, to, groupBy) /\ S = SalesDue(from, to)
  OBVIOUS
<1>3. Total(rows) = Total(S) /\ Cost(rows) = Cost(S) /\ Transactions(rows) = Cardinality(S)
  BY <1>1, <1>2, ReportAddsUp
<1> QED BY <1>2, <1>3 DEF Transactions, SalesDue

\* A window of the dashboard is the report for its days.
LEMMA WindowIsReport ==
  ASSUME ReportsInv, NEW k \in Nat \ {0}
  PROVE  /\ SalesSince(DaysBack(k)) = SalesDue(Midnight(DayOf(halfDay) - (k - 1)), halfDay)
         /\ Midnight(DayOf(halfDay) - (k - 1)) \in Int
<1>1. \A r \in Completed : r.at \in Nat /\ r.at <= halfDay /\ halfDay \in Nat
  BY CompletedType DEF ReportsInv
<1>2. \A r \in Completed : DayOf(r.at) <= DayOf(halfDay)
  BY <1>1 DEF DayOf
<1>3. halfDay \in Nat /\ Midnight(DayOf(halfDay) - (k - 1)) \in Int
  BY DEF ReportsInv, Midnight, DayOf
<1> QED BY <1>1, <1>2, <1>3 DEF SalesSince, SalesDue, DaysBack

\* The month to date is the month's row.
LEMMA MonthIsRow ==
  ASSUME ReportsInv
  PROVE  LET m == StartOfMonth(DayOf(halfDay)) IN
         Total({r \in GetSalesByPeriod(0, halfDay, "month") : r.period = m})
           = Total(SalesSince(Midnight(m)))
<1>1. PICK day, m : day = DayOf(halfDay) /\ m = StartOfMonth(day)
  OBVIOUS
<1>2. day \in Nat /\ m \in Nat /\ m <= day /\ halfDay \in Nat
  BY <1>1, MonthStart DEF ReportsInv, DayOf
<1>3. PICK rows, S : rows = GetSalesByPeriod(0, halfDay, "month") /\ S = SalesDue(0, halfDay)
  OBVIOUS
<1>4. rows = {RowOf(S, "month", p) : p \in EnumeratePeriods(0, halfDay, "month")}
  BY <1>2, <1>3, RowsOfReport
<1>5. m \in EnumeratePeriods(0, halfDay, "month")
  <2>1. day \in DayOf(0)..DayOf(halfDay)
    BY <1>1, <1>2 DEF DayOf
  <2>2. PeriodLabel(Midnight(day), "month") = m
    <3>1. PeriodLabel(Midnight(DayOf(halfDay)), "month") = PeriodLabel(halfDay, "month")
      BY <1>2, LabelOfDay
    <3> QED BY <1>1, <3>1 DEF PeriodLabel
  <2> QED BY <2>1, <2>2 DEF EnumeratePeriods
<1>6. PICK row : row = RowOf(S, "month", m)
  OBVIOUS
<1>7. {r \in rows : r.period = m} = {row}
  <2>1. \A p : RowOf(S, "month", p).period = p
    BY DEF RowOf
  <2> QED BY <1>4, <1>5, <1>6, <2>1
<1>8. row.total = Total(Bucket(S, "month", m))
  BY <1>6 DEF RowOf
<1>9. Bucket(S, "month", m) = SalesSince(Midnight(m))
  <2>1. \A r \in Completed : r.at \in Nat /\ DayOf(r.at) \in Nat /\ DayOf(r.at) <= day
    BY <1>1, <1>2, CompletedType DEF DayOf
  <2>2. S = Completed
    BY <1>1, <1>3, <2>1 DEF SalesDue
  <2>3. \A r \in Completed : PeriodLabel(r.at, "month") = m <=> m <= DayOf(r.at)
    BY <1>1, <1>2, <2>1, SameMonth DEF PeriodLabel
  <2>4. \A r \in Completed : m <= DayOf(r.at) <=> r.at >= Midnight(m)
    BY <1>2, <2>1 DEF DayOf, Midnight
  <2> QED BY <2>2, <2>3, <2>4 DEF Bucket, SalesSince
<1>10. Total({row}) = row.total
  <2>1. SalesSince(Midnight(m)) \subseteq Completed
    BY DEF SalesSince
  <2>2. PICK U : U = SalesSince(Midnight(m))
    OBVIOUS
  <2>3. Total(U) \in Int
    <3>1. IsFiniteSet(U) /\ \A r \in U : r.total \in Int
      BY <2>1, <2>2, CompletedType, FS_Subset
    <3>2. PICK f : f = [r \in U |-> r.total]
      OBVIOUS
    <3>3. U \in SUBSET U /\ \A r \in U : f[r] \in Int
      BY <3>1, <3>2
    <3>4. Total(U) = Sigma(f, U)
      BY <3>1, <3>2, <3>3, TotalIsSigma
    <3> QED BY <3>1, <3>3, <3>4, SigmaRules
  <2>4. row.total \in Int
    BY <1>8, <1>9, <2>2, <2>3
  <2>5. PICK f : f = [r \in {row} |-> r.total]
    OBVIOUS
  <2>6. IsFiniteSet({row}) /\ {row} \in SUBSET {row} /\ f[row] = row.total
        /\ \A r \in {row} : r.total \in Int /\ f[r] \in Int
    BY <2>4, <2>5, FS_Singleton
  <2>7. Total({row}) = Sigma(f, {row})
    BY <2>5, <2>6, TotalIsSigma
  <2>8. Sigma(f, {} \union {row}) = Sigma(f, {}) + f[row] /\ Sigma(f, {}) = 0
    <3>1. {} \in SUBSET {row} /\ row \in {row} \ {}
      OBVIOUS
    <3>2. /\ Sigma(f, {}) = 0
          /\ \A V \in SUBSET {row} : \A x \in {row} \ V : Sigma(f, V \union {x}) = Sigma(f, V) + f[x]
      BY <2>6, SigmaRules
    <3> QED BY <3>1, <3>2, Zenon
  <2>9. {} \union {row} = {row}
    OBVIOUS
  <2> QED BY <2>4, <2>6, <2>7, <2>8, <2>9
<1> QED BY <1>1, <1>3, <1>7, <1>8, <1>9, <1>10

\* The dashboard tells what the reports tell.
LEMMA DashboardIsReport == ReportsInv => DashboardAgrees
<1> SUFFICES ASSUME ReportsInv PROVE DashboardAgrees
  OBVIOUS
<1> DEFINE day == DayOf(halfDay)
           rows(n) == GetSalesByPeriod(Midnight(day - (n - 1)), halfDay, "day")
<1>1. ASSUME NEW n \in Nat \ {0}
      PROVE  /\ Total(rows(n)) = Total(SalesSince(DaysBack(n)))
             /\ Profits(rows(n)) = Total(SalesSince(DaysBack(n))) - Cost(SalesSince(DaysBack(n)))
  <2>1. PICK from, R, S : from = Midnight(day - (n - 1)) /\ R = rows(n) /\ S = SalesSince(DaysBack(n))
    OBVIOUS
  <2>2. from \in Int /\ halfDay \in Int /\ S = SalesDue(from, halfDay)
    BY <2>1, WindowIsReport DEF ReportsInv
  <2>3. R = GetSalesByPeriod(from, halfDay, "day")
    BY <2>1
  <2> HIDE DEF rows, day
  <2>4. Total(R) = Total(S) /\ Profits(R) = Total(S) - Cost(S)
    BY <2>2, <2>3, ReportAddsUp
  <2> QED BY <2>1, <2>4
<1>2. {e \in expenseRows : e.at >= DaysBack(LongDays)} = {e \in expenseRows : DayOf(e.at) > day - LongDays}
  <2>1. \A e \in expenseRows : e.at \in Nat
    BY DEF ReportsInv
  <2>2. halfDay \in Nat /\ LongDays \in Nat
    BY ReportsAssumption DEF ReportsInv
  <2>3. day \in Nat
    BY <2>2 DEF DayOf
  <2>4. \A t \in Nat : t >= DaysBack(LongDays) <=> DayOf(t) > day - LongDays
    BY <2>2, <2>3 DEF DaysBack, Midnight, DayOf
  <2> QED BY <2>1, <2>4
<1>3. WeekLength \in Nat \ {0} /\ LongDays \in Nat \ {0} /\ 1 \in Nat \ {0}
  BY ReportsAssumption
<1>4. /\ GetDashboard.today = Total(SalesSince(DaysBack(1)))
      /\ GetDashboard.week = Total(SalesSince(DaysBack(WeekLength)))
      /\ GetDashboard.month = Total(SalesSince(Midnight(StartOfMonth(day))))
      /\ GetDashboard.netSales = Total(SalesSince(DaysBack(LongDays)))
      /\ GetDashboard.netProfit
           = (Total(SalesSince(DaysBack(LongDays))) - Cost(SalesSince(DaysBack(LongDays))))
               - Total({e \in expenseRows : e.at >= DaysBack(LongDays)})
  BY DEF GetDashboard
<1>5. Total({r \in GetSalesByPeriod(0, halfDay, "month") : r.period = StartOfMonth(day)})
        = Total(SalesSince(Midnight(StartOfMonth(day))))
  BY MonthIsRow
<1>6. /\ GetDashboard.today = Total(rows(1)) /\ GetDashboard.week = Total(rows(WeekLength))
      /\ GetDashboard.netSales = Total(rows(LongDays))
  <2> HIDE DEF rows, day
  <2> QED BY <1>1, <1>3, <1>4
<1>7. GetDashboard.netProfit
        = Profits(rows(LongDays)) - Total({e \in expenseRows : DayOf(e.at) > day - LongDays})
  <2> HIDE DEF rows, day
  <2> QED BY <1>1, <1>2, <1>3, <1>4
<1>8. GetDashboard.month
        = Total({r \in GetSalesByPeriod(0, halfDay, "month") : r.period = StartOfMonth(day)})
  BY <1>4, <1>5
<1> QED BY <1>6, <1>7, <1>8 DEF DashboardAgrees, Profits

\* The low-stock list and the counts tell the same variants.
LEMMA LowStockIsCounted == ReportsInv => LowStockAgrees
<1> SUFFICES ASSUME ReportsInv PROVE LowStockAgrees
  OBVIOUS
<1> DEFINE entry == [w \in Wares |-> [ware |-> w, quantity |-> Quantity(w),
                                   status |-> ComputeStockStatus(Quantity(w))]]
           red == {i \in GetLowStockItems : i.status = "red"}
           low == {w \in Short : Quantity(w) > 0}
           out == {w \in Short : Quantity(w) <= 0}
<1>1. \A w \in Wares : Quantity(w) \in Int
  BY QuantityType
<1>2. \A w \in Wares : /\ entry[w].ware = w /\ entry[w].quantity = Quantity(w)
                       /\ entry[w].status = ComputeStockStatus(Quantity(w))
  OBVIOUS
<1>3. GetLowStockItems = {i \in {entry[w] : w \in Wares} : i.status # "green"}
  BY DEF GetLowStockItems
<1> HIDE DEF entry
<1>4. red = {entry[w] : w \in Short}
  BY <1>2, <1>3 DEF Short
<1>5. IsFiniteSet(Short)
  <2>1. Short \subseteq Wares
    BY DEF Short
  <2> QED BY <2>1, ReportsAssumption, FS_Subset
<1>6. Cardinality(red) = Cardinality(Short)
  <2>1. \A x, y \in Short : entry[x] = entry[y] => x = y
    BY <1>2 DEF Short
  <2> HIDE DEF red
  <2> QED BY <1>4, <1>5, <2>1, FiniteImage
<1>7. Cardinality(low) + Cardinality(out) = Cardinality(Short)
  <2>1. low \union out = Short /\ low \cap out = {}
    BY <1>1 DEF Short
  <2>2. IsFiniteSet(low) /\ IsFiniteSet(out)
    BY <1>5, FS_Subset
  <2> HIDE DEF low, out
  <2>3. Cardinality(Short) = Cardinality(low) + Cardinality(out) - 0
    BY <2>1, <2>2, FS_Union, FS_EmptySet
  <2>4. Cardinality(low) \in Nat /\ Cardinality(out) \in Nat
    BY <2>2, FS_CardinalityType
  <2> QED BY <2>3, <2>4
<1>8. ASSUME NEW i \in GetLowStockItems
      PROVE  i.status = "red" <=> i.quantity < Max({ReorderPoint, 1})
  <2>1. PICK w \in Wares : i = entry[w]
    BY <1>3
  <2>2. PICK q \in Int : q = Quantity(w)
    BY <1>1
  <2>3. i.quantity = q /\ i.status = ComputeStockStatus(q)
    BY <1>2, <2>1, <2>2
  <2>4. ReorderPoint \in Int
    BY ReportsAssumption
  <2>5. Max({ReorderPoint, 1}) = IF ReorderPoint >= 1 THEN ReorderPoint ELSE 1
    BY <2>4, MaxTwo
  <2>6. ComputeStockStatus(q) = "red" <=> (q <= 0 \/ q < ReorderPoint)
    BY <2>2, <2>4 DEF ComputeStockStatus
  <2> QED BY <2>2, <2>3, <2>4, <2>5, <2>6
<1> QED BY <1>6, <1>7, <1>8 DEF LowStockAgrees, LowStockCount, OutOfStockCount

\* The figures agree, for any sales, expenses and stock, any lengths of week and
\* window and any months: reports lose no sale, and the dashboard and the low-stock
\* list tell what the reports tell.
THEOREM FiguresAlwaysAgree == ReportsSpec => []FiguresAgree
<1>1. ReportsInv => FiguresAgree
  BY ReportIsComplete, DashboardIsReport, LowStockIsCounted DEF FiguresAgree
<1> QED BY <1>1, ReportsAlwaysInv, PTL
=============================================================================
