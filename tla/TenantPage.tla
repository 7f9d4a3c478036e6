----------------------------- MODULE TenantPage -----------------------------
(***************************************************************************)
(* A page of the web client with a list and a form: products, customers,   *)
(* invoices, expenses, integrations, and the till, whose form is the cart. *)
(* The list is the first page of what the API has, newest first; expenses  *)
(* by the date that was filled in.                                         *)
(*                                                                         *)
(* The list is loaded when the page is mounted, when another tenant is     *)
(* chosen (useEffect on api) and after a creation.  Requests are bound to  *)
(* the tenant of the render they come from; nothing is ever cancelled, and *)
(* answers arrive in any order.                                            *)
(***************************************************************************)
EXTENDS Integers, FiniteSets

CONSTANTS
  Shops,       \* tenants of the user
  Loads,       \* slots for list requests under way
  Posts,       \* slots for creations under way
  MaxLoads,    \* bound: lists asked for
  MaxDrafts,   \* bound: forms filled in
  MaxRecords,  \* bound: records created
  Days,        \* dates that may be filled in for an expense
  PageSize     \* pageSize: 25; 100 of invoices; of integrations, all there are

ASSUME TenantPageAssumption ==
  /\ MaxLoads \in Nat \ {0} /\ MaxDrafts \in Nat /\ MaxRecords \in Nat
  /\ Days \subseteq Nat /\ PageSize \in Nat \ {0}

VARIABLES
  form,        \* which page: products and the till have a submitting flag, the
               \* others have none ("plain" is all but expenses); the till does not
               \* load again
  shopNow,     \* currentTenantId
  onPage,      \* the list shown: whose, and which records are in it
  load,        \* list requests
  asked,       \* history: lists asked for
  shownLoad,   \* history: the list request answered last
  draft,       \* history: the number of the form's content, counted from 1
  submitting,  \* the flag
  post,        \* creations
  records,     \* external: records, as [shop, draft, day, id]; draft 0 was made
               \* elsewhere, and ids tell the order
  strayed,     \* history: the list was asked for a tenant that had been left
  lostPost,    \* history: the answer to a creation was lost
  twice        \* history: drafts edited or sent again while under way, lost, or
               \* emptied by the answer to another

tenantPageVars == <<form, shopNow, onPage, load, asked, shownLoad, draft, submitting,
                    post, records, strayed, lostPost, twice>>

LoadIdle == [step |-> "idle", shop |-> "none", seq |-> 0, got |-> {}]
PostIdle == [step |-> "idle", shop |-> "none", draft |-> 0]

\* A load of a shop's list, in the slots and as the one asked for last.
Asking(slots, s) ==
  /\ \E l \in Loads :
       /\ slots[l].step = "idle"
       /\ load' = [slots EXCEPT ![l] = [LoadIdle EXCEPT !.step = "sent", !.shop = s,
                                                        !.seq = asked + 1]]
  /\ asked < MaxLoads /\ asked' = asked + 1
  /\ strayed' = (s # shopNow')

\* The page is mounted and its list asked for.
TenantPageInit ==
  /\ form \in {"products", "till", "plain", "expenses"}
  /\ shopNow \in Shops
  /\ onPage = [shop |-> "none", ids |-> {}]
  /\ \E l \in Loads : load = [k \in Loads |->
       IF k = l THEN [LoadIdle EXCEPT !.step = "sent", !.shop = shopNow, !.seq = 1]
                ELSE LoadIdle]
  /\ asked = 1 /\ shownLoad = 0
  /\ draft = 1 /\ submitting = FALSE
  /\ post = [p \in Posts |-> PostIdle]
  /\ records = {} /\ strayed = FALSE /\ lostPost = FALSE /\ twice = {}

Guarded == form \in {"products", "till"}
RecordsOf(s) == {r \in records : r.shop = s}
IdsOf(R) == {r.id : r \in R}

\* orderBy: { createdAt: 'desc' } or { date: 'desc' }
Rank(r) == IF form = "expenses" THEN r.day ELSE r.id

\* take: what may be the first page of R (a date says nothing about equals).
FirstPages(R) ==
  {P \in SUBSET R : /\ Cardinality(P) <= PageSize /\ (P # R => Cardinality(P) = PageSize)
                    /\ \A p \in P, r \in R \ P : Rank(p) >= Rank(r)}

Sending == {p \in Posts : post[p].step # "idle"}
-----------------------------------------------------------------------------
(* The list *)

\* Another tenant is chosen in the layout, and useEffect(load, [api]) runs; the
\* list shown stays until the answer.
SwitchShop(s) ==
  /\ s # shopNow
  /\ shopNow' = s
  /\ Asking(load, s)
  /\ UNCHANGED <<form, onPage, shownLoad, draft, submitting, post, records,
                 lostPost, twice>>

ServeList(l) ==
  /\ load[l].step = "sent"
  /\ \E page \in FirstPages(RecordsOf(load[l].shop)) :
       load' = [load EXCEPT ![l].step = "served", ![l].got = IdsOf(page)]
  /\ UNCHANGED <<form, shopNow, onPage, asked, shownLoad, draft, submitting, post, records,
                 strayed, lostPost, twice>>

\* .then(setProducts): whatever is answered is shown.
ListArrives(l) ==
  /\ load[l].step = "served"
  /\ onPage' = [shop |-> load[l].shop, ids |-> load[l].got]
  /\ shownLoad' = load[l].seq
  /\ load' = [load EXCEPT ![l] = LoadIdle]
  /\ UNCHANGED <<form, shopNow, asked, draft, submitting, post, records, strayed,
                 lostPost, twice>>

\* .catch: an error is shown, above the list of before.
ListFails(l) ==
  /\ load[l].step # "idle"
  /\ load' = [load EXCEPT ![l] = LoadIdle]
  /\ UNCHANGED <<form, shopNow, onPage, asked, shownLoad, draft, submitting, post,
                 records, strayed, lostPost, twice>>
-----------------------------------------------------------------------------
(* The form *)

\* The content is edited (at the till: an article is added) while it is under way.
EditForm ==
  /\ Sending # {} /\ draft \notin twice
  /\ twice' = twice \union {draft}
  /\ UNCHANGED <<form, shopNow, onPage, load, asked, shownLoad, draft, submitting, post,
                 records, strayed, lostPost>>

\* Mutant: the button is never disabled.
MaySubmitAlways == TRUE

\* disabled={submitting}
MaySubmit == Guarded => ~submitting

\* handleCreate, handleCheckout: the request carries a new id every time.
Submit(p) ==
  /\ post[p].step = "idle" /\ MaySubmit /\ draft <= MaxDrafts
  /\ Cardinality(records) + Cardinality(Sending) < MaxRecords
  /\ post' = [post EXCEPT ![p] = [step |-> "sent", shop |-> shopNow, draft |-> draft]]
  /\ submitting' = Guarded
  /\ twice' = IF ~Guarded /\ Sending # {} THEN twice \union {draft} ELSE twice
  /\ UNCHANGED <<form, shopNow, onPage, load, asked, shownLoad, draft, records,
                 strayed, lostPost>>

\* A record is created in s; only an expense has a day.
NewRecord(s, d) ==
  \E day \in IF form = "expenses" THEN Days ELSE {0} :
    records' = records \union {[shop |-> s, draft |-> d, day |-> day,
                               id |-> Cardinality(records) + 1]}

\* The API creates the record, or refuses.
ServePost(p) ==
  /\ post[p].step = "sent"
  /\ \/ /\ NewRecord(post[p].shop, post[p].draft)
        /\ post' = [post EXCEPT ![p].step = "created"]
     \/ /\ post' = [post EXCEPT ![p].step = "refused"]
        /\ UNCHANGED records
  /\ UNCHANGED <<form, shopNow, onPage, load, asked, shownLoad, draft, submitting,
                 strayed, lostPost, twice>>

\* Mutant: the list is left as it is after a creation.
AfterCreateNothing(p) == UNCHANGED <<load, asked, strayed>>

\* load(), of the render that submitted.
AfterCreate(p) ==
  IF form = "till" THEN UNCHANGED <<load, asked, strayed>> ELSE Asking(load, post[p].shop)

\* The form is emptied, whatever is in it by now, and the list loaded again;
\* finally, the flag.
CreateAnswered(p) ==
  /\ post[p].step = "created"
  /\ draft' = draft + 1 /\ submitting' = FALSE
  /\ shopNow' = shopNow
  /\ AfterCreate(p)
  /\ post' = [post EXCEPT ![p] = PostIdle]
  /\ twice' = IF post[p].draft # draft THEN twice \union {draft} ELSE twice
  /\ UNCHANGED <<form, onPage, shownLoad, records, lostPost>>

\* The error is shown and the form kept; finally, the flag.  An answer that is
\* lost looks the same, and the record may be there.
CreateFails(p) ==
  /\ post[p].step # "idle"
  /\ submitting' = FALSE
  /\ lostPost' = (lostPost \/ post[p].step # "refused")
  /\ twice' = IF post[p].step = "refused" THEN twice ELSE twice \union {post[p].draft}
  /\ post' = [post EXCEPT ![p] = PostIdle]
  /\ UNCHANGED <<form, shopNow, onPage, load, asked, shownLoad, draft, records, strayed>>

\* Somebody else creates one.
RecordElsewhere(s) ==
  /\ Cardinality(records) + Cardinality(Sending) < MaxRecords
  /\ NewRecord(s, 0)
  /\ UNCHANGED <<form, shopNow, onPage, load, asked, shownLoad, draft, submitting, post,
                 strayed, lostPost, twice>>

TenantPageNext ==
  \/ \E s \in Shops : SwitchShop(s) \/ RecordElsewhere(s)
  \/ \E l \in Loads : ServeList(l) \/ ListArrives(l) \/ ListFails(l)
  \/ EditForm
  \/ \E p \in Posts : Submit(p) \/ ServePost(p) \/ CreateAnswered(p) \/ CreateFails(p)

TenantPageSpec == TenantPageInit /\ [][TenantPageNext]_tenantPageVars
-----------------------------------------------------------------------------
(* Properties *)

\* With the list asked for last on screen, the page shows the first page of the
\* current tenant's records, as of a moment after the last that it created
\* itself: the new record is on it unless it ranks below a page of others.  (It
\* shows another tenant's when that list came late or failed, or when the
\* tenant was changed during a creation, whose list is the old tenant's.)
ListIsCurrent ==
  form # "till" /\ shownLoad = asked /\ Sending = {} /\ ~strayed /\ ~lostPost =>
    /\ onPage.shop = shopNow
    /\ \E R \in SUBSET RecordsOf(shopNow) :
         /\ \A r \in RecordsOf(shopNow) \ R : r.draft = 0 /\ \A q \in R : q.id < r.id
         /\ \E page \in FirstPages(R) : onPage.ids = IdsOf(page)

\* What is filled in becomes one record, unless it was edited while under way,
\* or sent again: without a flag at any time, with one after its answer was
\* lost.  The API cannot tell; even the till's second request has another
\* clientMutationId.
OneRecordPerDraft ==
  \A d \in (1..MaxDrafts) \ twice :
    Cardinality({r \in records : r.draft = d}) = IF d < draft THEN 1
      ELSE Cardinality({p \in Posts : post[p].step = "created" /\ post[p].draft = d})
=============================================================================
