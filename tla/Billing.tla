------------------------------ MODULE Billing ------------------------------
(***************************************************************************)
(* What a tenant is billed for: founding a tenant, branches, invitations   *)
(* that become members, and BillingService.recomputeSubscriptionItems,     *)
(* which every activation runs after its own transaction.                  *)
(*                                                                         *)
(* Statements of a READ COMMITTED transaction see what is committed when   *)
(* they run.  The recomputation counts before it writes; its upserts take  *)
(* effect together, behind the lock on the first of the rows they write.   *)
(* A request may end between any two statements.                           *)
(***************************************************************************)
EXTENDS Integers, FiniteSets

CONSTANTS
  BillingCalls,  \* slots for concurrent requests
  Users,
  Branches,      \* Branch rows there may be
  Invitations,   \* Invitation rows there may be
  Roles,         \* role keys an invitation may carry ("owner" is one)
  Catalogue,     \* the seeded catalogue: [Keys -> [price, active]]
  DefaultPrice,  \* DEFAULT_*_PRICE_USD_CENTS by key
  Repricings,    \* what an admin may change: [key, to]
  StripePriced,  \* the extra items whose PricingCatalogItem has a stripePriceId
                 \* (nothing in the repository sets one, the seed included)
  MaxFounded     \* bound: tenants a user founds

Keys == {"base", "extra_branch", "extra_user"}
ExtraKeys == {"extra_branch", "extra_user"}

\* The seed makes every item of the catalogue active.
ASSUME BillingAssumption ==
  /\ "none" \notin Users \union Invitations \union Roles
  /\ Catalogue \in [Keys -> [price : Nat, active : {TRUE}]]
  /\ DefaultPrice \in [Keys -> Nat]
  /\ \A r \in Repricings : r.key \in Keys /\ r.to \in [price : Nat, active : BOOLEAN]
  /\ StripePriced \subseteq ExtraKeys
  /\ MaxFounded \in Nat

VARIABLES
  founded,     \* tenants each user has founded; the first of all is this one
  role,        \* Membership: the role of each member, "none" for the others
  branch,      \* Branch: "absent", "active" or "archived"
  invitation,  \* Invitation rows
  item,        \* SubscriptionItem: quantity and unitPriceUsdCentsSnapshot
  catalogue,   \* PricingCatalogItem
  linked,      \* stripeSubscriptionId is set and a provider is configured
  charged,     \* external: the quantities of the subscription at Stripe
  answer,      \* the preview returned last, if its request ran alone
  billingCall, \* the requests
  settled,     \* history: the last activation ran alone, to its end
  cut,         \* history: a request ended before it was done
  repriced,    \* history: the catalogue was changed
  twiceFounder \* history: users with overlapping foundings

billingVars == <<founded, role, branch, invitation, item, catalogue, linked,
                 charged, answer, billingCall, settled, cut, repriced,
                 twiceFounder>>
tenantVars == <<founded, role, branch, invitation, twiceFounder>>
moneyVars  == <<item, catalogue, linked, charged, answer, repriced>>

BillingIdle == [step |-> "idle", user |-> "none", invite |-> "none",
                prices |-> DefaultPrice, branches |-> 0, users |-> 0, total |-> 0,
                rows |-> {}, key |-> "none", quantity |-> 0, alone |-> FALSE]

\* The snapshot of an item without a row.
NoRow == -1

NoAnswer == [total |-> 0, branches |-> 0, users |-> 0]

\* Seeded catalogue; nobody has a tenant.
BillingInit ==
  /\ founded = [u \in Users |-> 0]
  /\ role = [u \in Users |-> "none"]
  /\ branch = [b \in Branches |-> "absent"]
  /\ invitation = [i \in Invitations |-> [state |-> "absent", user |-> "none", role |-> "none"]]
  /\ item = [k \in Keys |-> [quantity |-> 0, snapshot |-> NoRow]]
  /\ catalogue = Catalogue
  /\ linked \in BOOLEAN
  /\ charged = [k \in ExtraKeys |-> 0]
  /\ answer = NoAnswer
  /\ billingCall = [c \in BillingCalls |-> BillingIdle]
  /\ settled = FALSE /\ cut = FALSE /\ repriced = FALSE /\ twiceFounder = {}

Exists == \E u \in Users : role[u] = "owner"

\* Rows not inserted yet; which of them is next does not matter.
NewBranches == {b \in Branches : branch[b] = "absent"}
NewInvitations == {i \in Invitations : invitation[i].state = "absent"}
Fresh(rows) == CHOOSE x \in rows : TRUE

\* A request takes a free slot; it runs alone as long as no other begins.
BeginBilling(c, call) ==
  LET others == {d \in BillingCalls : billingCall[d].step # "idle"}
  IN  /\ billingCall[c].step = "idle"
      /\ billingCall' = [d \in BillingCalls |->
                           IF d = c THEN [call EXCEPT !.alone = (others = {})]
                           ELSE IF d \in others
                                  THEN [billingCall[d] EXCEPT !.alone = FALSE]
                                  ELSE billingCall[d]]
      /\ settled' = FALSE
      /\ answer' = NoAnswer
      /\ UNCHANGED <<cut, item, catalogue, linked, charged, repriced>>

ThenRecompute(c) ==
  billingCall' = [billingCall EXCEPT ![c] = [BillingIdle EXCEPT !.step = "recompute",
                                                  !.alone = billingCall[c].alone]]

EndBilling(c) == billingCall' = [billingCall EXCEPT ![c] = BillingIdle]

\* PricingCatalogService.resolve: an inactive item falls back to the default.
ResolvedPrices == [k \in Keys |-> IF catalogue[k].active THEN catalogue[k].price
                                                         ELSE DefaultPrice[k]]
-----------------------------------------------------------------------------
(* OnboardingService.createTenant *)

\* tx.membership.findFirst({ userId })
Unattached(u) == founded[u] = 0 /\ role[u] = "none"

\* The catalogue is resolved, and the transaction begins and finds no membership
\* of the user.  (Bound: once this tenant exists, users who do not belong to it
\* found no other.)
StartTenant(c) ==
  /\ \E u \in Users :
       /\ Exists => role[u] # "none"
       /\ Unattached(u)
       /\ BeginBilling(c, [BillingIdle EXCEPT !.step = "found", !.user = u,
                                                 !.prices = ResolvedPrices])
       /\ twiceFounder' = IF \E d \in BillingCalls : billingCall[d].user = u
                            THEN twiceFounder \union {u} ELSE twiceFounder
  /\ UNCHANGED <<founded, role, branch, invitation>>

\* ... and commits tenant, first branch, owner and trial subscription.  A tenant
\* after the first is only counted.
CommitTenant(c) ==
  LET u == billingCall[c].user
  IN  /\ billingCall[c].step = "found"
      /\ founded[u] < MaxFounded
      /\ founded' = [founded EXCEPT ![u] = @ + 1]
      /\ IF Exists
           THEN UNCHANGED <<role, branch, item>>
           ELSE /\ role' = [role EXCEPT ![u] = "owner"]
                /\ branch' = [branch EXCEPT ![Fresh(NewBranches)] = "active"]
                /\ item' = [item EXCEPT !["base"] =
                              [quantity |-> 1, snapshot |-> billingCall[c].prices["base"]]]
      /\ EndBilling(c)
      /\ UNCHANGED <<invitation, catalogue, linked, charged, answer, settled, cut,
                     repriced, twiceFounder>>
-----------------------------------------------------------------------------
(* Activations, each followed by a recomputation *)

\* BranchesController.create
CreateBranch(c) ==
  /\ Exists
  /\ NewBranches # {}
  /\ branch' = [branch EXCEPT ![Fresh(NewBranches)] = "active"]
  /\ BeginBilling(c, [BillingIdle EXCEPT !.step = "recompute"])
  /\ UNCHANGED <<founded, role, invitation, twiceFounder>>

\* BranchesController.archive, also of a branch that is archived already
ArchiveBranch(c) ==
  /\ \E b \in Branches : /\ branch[b] # "absent"
                         /\ branch' = [branch EXCEPT ![b] = "archived"]
  /\ BeginBilling(c, [BillingIdle EXCEPT !.step = "recompute"])
  /\ UNCHANGED <<founded, role, invitation, twiceFounder>>

\* OnboardingService.inviteUser: the user is not a member when it looks ...
StartInvite(c) ==
  /\ Exists
  /\ \E u \in Users :
       /\ role[u] = "none"
       /\ BeginBilling(c, [BillingIdle EXCEPT !.step = "invite", !.user = u])
  /\ UNCHANGED tenantVars

\* ... and the invitation is inserted (event and audit row follow).
CommitInvite(c) ==
  /\ billingCall[c].step = "invite"
  /\ NewInvitations # {}
  /\ \E r \in Roles :
       invitation' = [invitation EXCEPT ![Fresh(NewInvitations)] =
                        [state |-> "open", user |-> billingCall[c].user, role |-> r]]
  /\ EndBilling(c)
  /\ UNCHANGED <<founded, role, branch, twiceFounder, moneyVars, settled, cut>>

\* expiresAt passes.
ExpireInvitation(i) ==
  /\ invitation[i].state = "open"
  /\ invitation' = [invitation EXCEPT ![i].state = "expired"]
  /\ UNCHANGED <<founded, role, branch, twiceFounder, moneyVars, billingCall,
                 settled, cut>>

\* OnboardingService.acceptInvitation reads an invitation of the user's own that
\* is neither accepted nor expired ...
StartAccept(c) ==
  /\ \E i \in Invitations :
       /\ invitation[i].state = "open"
       /\ BeginBilling(c, [BillingIdle EXCEPT !.step = "accept", !.invite = i])
  /\ UNCHANGED tenantVars

\* Mutant: acceptedAt is not set.
CommitAcceptUnmarked(c) ==
  LET u == invitation[billingCall[c].invite].user
  IN  /\ billingCall[c].step = "accept"
      /\ role[u] = "none"
      /\ role' = [role EXCEPT ![u] = invitation[billingCall[c].invite].role]
      /\ ThenRecompute(c)
      /\ UNCHANGED <<founded, branch, invitation, twiceFounder, moneyVars, settled, cut>>

\* ... and, in one transaction, inserts the membership (unique by tenant and
\* user) and sets acceptedAt.
CommitAccept(c) ==
  LET i == billingCall[c].invite
      u == invitation[i].user
  IN  /\ billingCall[c].step = "accept"
      /\ role[u] = "none"
      /\ role' = [role EXCEPT ![u] = invitation[i].role]
      /\ invitation' = [invitation EXCEPT ![i].state = "accepted"]
      /\ ThenRecompute(c)
      /\ UNCHANGED <<founded, branch, twiceFounder, moneyVars, settled, cut>>
-----------------------------------------------------------------------------
(* BillingService.recomputeSubscriptionItems *)

ActiveBranches == Cardinality({b \in Branches : branch[b] = "active"})
BillableUsers == Cardinality({u \in Users : role[u] # "none"})
AtLeastOne(n) == IF n < 1 THEN 1 ELSE n

\* The catalogue is resolved and the transaction begins with the count of the
\* branches, which no price can change; the count of the users is a statement of
\* its own.
CountBranches(c) ==
  /\ billingCall[c].step = "recompute"
  /\ billingCall' = [billingCall EXCEPT ![c].step = "users",
                       ![c].prices = ResolvedPrices,
                       ![c].branches = AtLeastOne(ActiveBranches)]
  /\ UNCHANGED <<tenantVars, moneyVars, settled, cut>>

CountUsers(c) ==
  /\ billingCall[c].step = "users"
  /\ billingCall' = [billingCall EXCEPT ![c].step = "upsert",
                       ![c].users = AtLeastOne(BillableUsers)]
  /\ UNCHANGED <<tenantVars, moneyVars, settled, cut>>

\* Mutant: the included branch is charged too.
QuantityOfCountPlusOne(c, k) ==
  CASE k = "base" -> 1
    [] k = "extra_branch" -> billingCall[c].branches
    [] k = "extra_user" -> billingCall[c].users - 1

\* One of each is included in the base price.
QuantityOf(c, k) ==
  CASE k = "base" -> 1
    [] k = "extra_branch" -> billingCall[c].branches - 1
    [] k = "extra_user" -> billingCall[c].users - 1

\* calculateMonthlyBilling
MonthlyTotal(prices, branches, users) ==
  prices["base"] + prices["extra_branch"] * (AtLeastOne(branches) - 1)
                 + prices["extra_user"] * (AtLeastOne(users) - 1)

\* After the commit: the extra items that are pushed.  Those without a
\* stripePriceId are passed over; each has a row by then.
ToPush == IF linked THEN StripePriced ELSE {}

\* The upserts: the price is snapshot when the row is made, and kept.
UpsertItems(c) ==
  /\ billingCall[c].step = "upsert"
  /\ item' = [k \in Keys |->
                [quantity |-> QuantityOf(c, k),
                 snapshot |-> IF item[k].snapshot = NoRow THEN catalogue[k].price
                                                      ELSE item[k].snapshot]]
  /\ billingCall' = [billingCall EXCEPT ![c] =
                       [BillingIdle EXCEPT
                          !.step = IF ToPush = {} THEN "answer" ELSE "push",
                          !.rows = ToPush,
                          !.alone = billingCall[c].alone,
                          !.total = MonthlyTotal(billingCall[c].prices,
                                      billingCall[c].branches, billingCall[c].users)]]
  /\ UNCHANGED <<tenantVars, catalogue, linked, charged, answer, repriced,
                 settled, cut>>

\* Each of them is read, in no particular order ...
ReadItem(c) ==
  /\ billingCall[c].step = "push"
  /\ \E k \in billingCall[c].rows :
       billingCall' = [billingCall EXCEPT ![c].step = "send", ![c].key = k,
                         ![c].rows = @ \ {k}, ![c].quantity = item[k].quantity]
  /\ UNCHANGED <<tenantVars, moneyVars, settled, cut>>

\* ... and sent to Stripe.
PushItem(c) ==
  /\ billingCall[c].step = "send"
  /\ charged' = [charged EXCEPT ![billingCall[c].key] = billingCall[c].quantity]
  /\ billingCall' = [billingCall EXCEPT ![c].key = "none", ![c].quantity = 0,
                       ![c].step = IF billingCall[c].rows = {} THEN "answer" ELSE "push"]
  /\ UNCHANGED <<tenantVars, item, catalogue, linked, answer, repriced, settled, cut>>

\* The total of the transaction is returned with units that are counted anew.
Answer(c) ==
  /\ billingCall[c].step = "answer"
  /\ answer' = IF billingCall[c].alone
                 THEN [total |-> billingCall[c].total,
                       branches |-> AtLeastOne(ActiveBranches),
                       users |-> AtLeastOne(BillableUsers)]
                 ELSE NoAnswer
  /\ settled' = billingCall[c].alone
  /\ EndBilling(c)
  /\ UNCHANGED <<tenantVars, item, catalogue, linked, charged, repriced, cut>>
-----------------------------------------------------------------------------
\* AdminController.updatePricingItem
Reprice ==
  /\ \E r \in Repricings : /\ catalogue[r.key] # r.to
                           /\ catalogue' = [catalogue EXCEPT ![r.key] = r.to]
  /\ repriced' = TRUE
  /\ settled' = FALSE
  /\ billingCall' = [c \in BillingCalls |-> [billingCall[c] EXCEPT !.alone = FALSE]]
  /\ UNCHANGED <<tenantVars, item, linked, charged, answer, cut>>

\* The process ends, a statement fails (on a unique index, for one), or Stripe
\* answers with an error: what is committed stays.  (Bound: once.)
CutBilling(c) ==
  /\ billingCall[c].step # "idle" /\ ~cut
  /\ cut' = TRUE
  /\ EndBilling(c)
  /\ UNCHANGED <<tenantVars, moneyVars, settled>>

BillingNext ==
  \/ \E c \in BillingCalls :
       \/ StartTenant(c) \/ CommitTenant(c) \/ CreateBranch(c) \/ ArchiveBranch(c)
       \/ StartInvite(c) \/ CommitInvite(c) \/ StartAccept(c) \/ CommitAccept(c)
       \/ CountBranches(c) \/ CountUsers(c) \/ UpsertItems(c)
       \/ ReadItem(c) \/ PushItem(c) \/ Answer(c) \/ CutBilling(c)
  \/ \E i \in Invitations : ExpireInvitation(i)
  \/ Reprice

BillingSpec == BillingInit /\ [][BillingNext]_billingVars
-----------------------------------------------------------------------------
(* Properties *)

Charges(q) == /\ q["extra_branch"] = AtLeastOne(ActiveBranches) - 1
              /\ q["extra_user"] = AtLeastOne(BillableUsers) - 1

\* AdminController.metrics: what this tenant adds to the monthly revenue.
Revenue ==
  item["base"].snapshot * item["base"].quantity
    + item["extra_branch"].snapshot * item["extra_branch"].quantity
    + item["extra_user"].snapshot * item["extra_user"].quantity

\* Whatever overlapped or broke off before, an activation that then runs alone
\* to its end mends it: items and preview agree with the branches and members
\* there are, Stripe's quantities with the items, of those that have a price at
\* Stripe (the others are never charged there), and the admin's revenue with the
\* preview unless prices were changed.
AloneSettles ==
  settled =>
    /\ Charges([k \in ExtraKeys |-> item[k].quantity])
    /\ linked => \A k \in StripePriced : charged[k] = item[k].quantity
    /\ answer.total = MonthlyTotal(ResolvedPrices, ActiveBranches, BillableUsers)
    /\ ~repriced => Revenue = answer.total

\* The invitations to this tenant that the user has accepted.
AcceptedBy(u) ==
  {i \in Invitations : invitation[i].state = "accepted" /\ invitation[i].user = u}

\* Every member but the founder came by one accepted invitation and has its role,
\* whichever foundings, invitations and acceptances overlap.
MemberByInvitation ==
  \A u \in Users :
    /\ AcceptedBy(u) # {} =>
         \E i \in Invitations : AcceptedBy(u) = {i} /\ role[u] = invitation[i].role
    /\ AcceptedBy(u) = {} =>
         /\ role[u] \in {"none", "owner"}
         /\ role[u] = "owner" =>
              \A v \in Users \ {u} : role[v] # "none" => AcceptedBy(v) # {}

\* A user founds a second tenant only by two requests that overlap (the
\* membership of the first is not there when the second one looks).
FoundsOnce == \A u \in Users \ twiceFounder : founded[u] <= 1

\* "Concurrent callers serialize on Postgres row locks rather than racing": when
\* no request is running and none broke off, the items are what is counted.
UnitsNeverDrift ==
  (Exists /\ ~cut /\ \A c \in BillingCalls : billingCall[c].step = "idle") =>
     Charges([k \in ExtraKeys |-> item[k].quantity])

\* Who belongs to a tenant founded it, once, or accepted an invitation, once,
\* whichever submits, invitations and acceptances overlap.
MembersAreDue == MemberByInvitation /\ FoundsOnce
=============================================================================
