---------------------------- MODULE StripeEvents ----------------------------
(***************************************************************************)
(* The status of a tenant's subscription: BillingWebhookController, which  *)
(* learns it from Stripe's events, and BillingService.cancelSubscription.  *)
(*                                                                         *)
(* Stripe (external) emits an event for each change of its subscription    *)
(* and delivers events more than once, together and out of order.  An      *)
(* invoice event names no subscription: it concerns the tenant only when   *)
(* its metadata says so.                                                   *)
(***************************************************************************)
EXTENDS Integers, Sequences

CONSTANTS
  Hooks,     \* slots for concurrent deliveries
  MaxEvents  \* bound: events Stripe emits

ASSUME StripeAssumption == MaxEvents \in Nat

VARIABLES
  stripeStatus, \* external: the status of Stripe's subscription
  stripeLog,    \* external: the events, in the order Stripe emitted them
  subStatus,    \* Subscription.status
  billingEvent, \* BillingEvent: the stripeEventIds recorded
  applications, \* history: how often each event was applied
  hook,         \* the deliveries: 0, or the event being handled
  canceller,    \* the cancelSubscription request: "idle", "asked" or "done"
  late          \* history: an event was applied after a newer one

stripeVars == <<stripeStatus, stripeLog, subStatus, billingEvent, applications,
                hook, canceller, late>>

EventIds == 1..MaxEvents
StripeStatuses == {"trialing", "active", "past_due", "unpaid", "canceled", "incomplete"}

\* A trial whose subscription is linked to Stripe's.
StripeInit ==
  /\ stripeStatus = "trialing"
  /\ stripeLog = <<>>
  /\ subStatus = "TRIALING"
  /\ billingEvent = {}
  /\ applications = [e \in EventIds |-> 0]
  /\ hook = [h \in Hooks |-> 0]
  /\ canceller = "idle"
  /\ late = FALSE

UpdatedEvent(s) == [type |-> "customer.subscription.updated", status |-> s, tenant |-> TRUE]
DeletedEvent == [type |-> "customer.subscription.deleted", status |-> "canceled", tenant |-> TRUE]
FailedEvent(known) == [type |-> "invoice.payment_failed", status |-> "past_due", tenant |-> known]
-----------------------------------------------------------------------------
(* Stripe *)

\* The subscription changes; a cancelled one does not.
StripeUpdates ==
  /\ stripeStatus # "canceled" /\ Len(stripeLog) < MaxEvents
  /\ \E s \in StripeStatuses \ {"canceled", stripeStatus} :
       /\ stripeStatus' = s
       /\ stripeLog' = Append(stripeLog, UpdatedEvent(s))
  /\ UNCHANGED <<subStatus, billingEvent, applications, hook, canceller, late>>

\* A payment fails: an event of the invoice, and one of the subscription.
StripePaymentFails ==
  /\ stripeStatus \in {"active", "trialing"} /\ Len(stripeLog) + 1 < MaxEvents
  /\ stripeStatus' = "past_due"
  /\ \E known \in BOOLEAN :
       stripeLog' = stripeLog \o <<FailedEvent(known), UpdatedEvent("past_due")>>
  /\ UNCHANGED <<subStatus, billingEvent, applications, hook, canceller, late>>
-----------------------------------------------------------------------------
(* handleStripeWebhook *)

\* A delivery whose event is not recorded, and whose tenant is resolved.
\* (Others are answered and change nothing.)
ReceiveEvent(h) ==
  /\ hook[h] = 0
  /\ \E e \in 1..Len(stripeLog) :
       /\ e \notin billingEvent
       /\ stripeLog[e].tenant
       /\ hook' = [hook EXCEPT ![h] = e]
  /\ UNCHANGED <<stripeStatus, stripeLog, subStatus, billingEvent, applications,
                 canceller, late>>

MapStripeStatus(s) ==
  CASE s = "trialing" -> "TRIALING" [] s = "active" -> "ACTIVE"
    [] s = "past_due" -> "PAST_DUE" [] s \in {"canceled", "unpaid"} -> "CANCELED"
    [] OTHER -> "INCOMPLETE"

\* Mutant: every status but the known ones is passed over.
StatusFromIgnoring(event) ==
  IF event.status \in {"unpaid", "incomplete"} THEN subStatus
                                               ELSE MapStripeStatus(event.status)

\* applyEvent: what each type of event writes.
StatusFrom(event) ==
  CASE event.type = "customer.subscription.updated" -> MapStripeStatus(event.status)
    [] event.type = "customer.subscription.deleted" -> "CANCELED"
    [] event.type = "invoice.payment_failed" -> "PAST_DUE"

\* stripeEventId is unique.
Recordable(e) == e \notin billingEvent

\* One transaction: the BillingEvent row and the status.
ApplyEvent(h) ==
  LET e == hook[h]
  IN  /\ e # 0
      /\ Recordable(e)
      /\ billingEvent' = billingEvent \union {e}
      /\ subStatus' = StatusFrom(stripeLog[e])
      /\ applications' = [applications EXCEPT ![e] = @ + 1]
      /\ late' = (late \/ \E f \in billingEvent : f > e)
      /\ hook' = [hook EXCEPT ![h] = 0]
      /\ UNCHANGED <<stripeStatus, stripeLog, canceller>>

\* The insert fails, or the process ends; Stripe sends the event again.
DropDelivery(h) ==
  /\ hook[h] # 0
  /\ hook' = [hook EXCEPT ![h] = 0]
  /\ UNCHANGED <<stripeStatus, stripeLog, subStatus, billingEvent, applications,
                 canceller, late>>
-----------------------------------------------------------------------------
(* cancelSubscription *)

\* The provider cancels at once and emits its event ...
AskProvider ==
  /\ canceller = "idle"
  /\ stripeStatus # "canceled" /\ Len(stripeLog) < MaxEvents
  /\ stripeStatus' = "canceled"
  /\ stripeLog' = Append(stripeLog, DeletedEvent)
  /\ canceller' = "asked"
  /\ UNCHANGED <<subStatus, billingEvent, applications, hook, late>>

\* ... and the row is updated afterwards, unless the process has ended.
CancelLocally ==
  /\ canceller = "asked"
  /\ subStatus' \in {"CANCELED", subStatus}
  /\ canceller' = "done"
  /\ UNCHANGED <<stripeStatus, stripeLog, billingEvent, applications, hook, late>>

StripeNext ==
  \/ StripeUpdates \/ StripePaymentFails \/ AskProvider \/ CancelLocally
  \/ \E h \in Hooks : ReceiveEvent(h) \/ ApplyEvent(h) \/ DropDelivery(h)

StripeSpec == StripeInit /\ [][StripeNext]_stripeVars
-----------------------------------------------------------------------------
(* Properties *)

\* An event delivered twice, also at the same time, is applied once.
EventAppliedOnce == \A e \in EventIds : applications[e] <= 1

\* When the events that name the tenant have all been applied, none after a
\* newer one, the status is Stripe's: also when cancelSubscription was cut off
\* between the provider and the row, and when older updates undid its CANCELED.
CaughtUp ==
  ( /\ ~late /\ canceller # "asked"
    /\ \A e \in 1..Len(stripeLog) : stripeLog[e].tenant => e \in billingEvent )
  => subStatus = MapStripeStatus(stripeStatus)

\* Events delivered again, together or out of order take effect once, and the
\* status ends as Stripe's, unless an older one was applied after a newer one.
EventsSettle == EventAppliedOnce /\ CaughtUp
=============================================================================
