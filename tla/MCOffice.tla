------------------------------ MODULE MCOffice ------------------------------
(***************************************************************************)
(* The services of the back office, for one TLC run.  They share no state: *)
(* each behaviour exercises one of them (focus), the others stay as they   *)
(* began, so the states of the run are those of the services added up.     *)
(***************************************************************************)
EXTENDS Sales, Billing, StripeEvents, Integrations, InventoryPush, Accounts,
        TLC

VARIABLE focus   \* the component exercised

officeVars == <<salesVars, billingVars, stripeVars, integrationVars, pushVars,
                accountVars, focus>>

MCInit ==
  /\ focus \in {"sales", "billing", "stripe", "integrations", "push", "accounts"}
  /\ SalesInit /\ BillingInit /\ StripeInit /\ IntegrationsInit /\ PushInit
  /\ AccountsInit
  /\ focus # "billing" => linked

\* A step of the component in focus.
Only(name) == focus = name /\ UNCHANGED focus

MCNext ==
  \/ /\ Only("sales") /\ SalesNext
     /\ UNCHANGED <<billingVars, stripeVars, integrationVars, pushVars, accountVars>>
  \/ /\ Only("billing") /\ BillingNext
     /\ UNCHANGED <<salesVars, stripeVars, integrationVars, pushVars, accountVars>>
  \/ /\ Only("stripe") /\ StripeNext
     /\ UNCHANGED <<salesVars, billingVars, integrationVars, pushVars, accountVars>>
  \/ /\ Only("integrations") /\ IntegrationsNext
     /\ UNCHANGED <<salesVars, billingVars, stripeVars, pushVars, accountVars>>
  \/ /\ Only("push") /\ PushNext
     /\ UNCHANGED <<salesVars, billingVars, stripeVars, integrationVars, accountVars>>
  \/ /\ Only("accounts") /\ AccountsNext
     /\ UNCHANGED <<salesVars, billingVars, stripeVars, integrationVars, pushVars>>

MCSpec == MCInit /\ [][MCNext]_officeVars
-----------------------------------------------------------------------------
\* Amounts in quarters of a cent: one plain line; two lines that are rounded.
MCCarts ==
  {<<[price |-> 18, quantity |-> 1, discount |-> 0, rate |-> 25]>>,
   <<[price |-> 10, quantity |-> 3, discount |-> 1, rate |-> 10],
     [price |-> 22, quantity |-> 1, discount |-> 30, rate |-> 50]>>}
MCTenders ==
  {[cash |-> 22, credit |-> 0, customer |-> FALSE],
   [cash |-> 9, credit |-> 12, customer |-> TRUE],
   [cash |-> 0, credit |-> 22, customer |-> TRUE]}

MCDefaultPrice == [base |-> 10, extra_branch |-> 5, extra_user |-> 2]
MCCatalogue == [k \in DOMAIN MCDefaultPrice |-> [price |-> MCDefaultPrice[k], active |-> TRUE]]
MCRepricings == {[key |-> "extra_branch", to |-> [price |-> 6, active |-> TRUE]]}

\* One product with a SKU the merchant has a variant for, one without a SKU.
MCSkuOf == [x1 |-> "s1", x2 |-> "none"]
MCExtSku == [x1 |-> "e1", x2 |-> "e2"]

\* The addresses the provider names with a subject.
MCAddressesOf == [g1 |-> {"ann"}, g2 |-> {"ann", "p"}, g3 |-> {"p"}]

\* The slots of concurrent calls are the same two values in every service.
MCSymmetry == Permutations(SaleCalls)
=============================================================================
