----------------------------- MODULE WebSession -----------------------------
(***************************************************************************)
(* The session of the web client: SessionProvider with the pages that      *)
(* change it (sign-in, onboarding, the tenant menu, sign-out).             *)
(*                                                                         *)
(* One browser tab and one user.  A request carries the cookie of the      *)
(* moment it is made.  It is served and, later, answered; both may happen  *)
(* in another order than requests were made, and requests may fail.        *)
(***************************************************************************)
EXTENDS Integers, FiniteSets

CONSTANTS
  Tenants,      \* tenants there may be
  WebCalls,     \* slots for requests under way
  MaxWebCalls   \* bound: requests made and sessions opened

ASSUME WebSessionAssumption == MaxWebCalls \in Nat /\ "none" \notin Tenants

VARIABLES
  cookie,      \* external: the session the browser's cookie names, 0 for none
  accepted,    \* external: the sessions that the server accepts
  belongs,     \* external: tenants the user is a member of
  webUser,     \* user # null
  members,     \* memberships
  current,     \* currentTenantId, or "none"
  loading,     \* loading
  stored,      \* localStorage: sm_current_tenant
  webCall,     \* requests: what for, with which session, what was answered
  issued,      \* history: requests made and sessions opened
  moved,       \* history: the server has changed since the answer was given that
               \* the page took over last
  chosen       \* history: the tenant chosen last

webSessionVars == <<cookie, accepted, belongs, webUser, members, current, loading, stored,
                    webCall, issued, moved, chosen>>
serverVars == <<cookie, accepted, belongs>>
tabVars    == <<webUser, members, current, stored, chosen>>

WebIdle == [kind |-> "none", step |-> "idle", session |-> 0, ok |-> FALSE, got |-> {},
            tenant |-> "none", fresh |-> FALSE]

\* The page has just been opened and its first refresh is on the way; the user
\* may be signed in and a member somewhere, and have chosen a tenant before.
WebSessionInit ==
  /\ cookie \in {0, 1} /\ accepted \in SUBSET ({cookie} \ {0})
  /\ belongs \in SUBSET Tenants
  /\ webUser = FALSE /\ members = {} /\ current = "none" /\ loading = TRUE
  /\ stored \in Tenants \union {"none"} /\ chosen = stored
  /\ \E c \in WebCalls :
       webCall = [d \in WebCalls |->
                    IF d = c THEN [WebIdle EXCEPT !.kind = "refresh", !.step = "sent",
                                                  !.session = cookie]
                             ELSE WebIdle]
  /\ issued = 1 /\ moved = TRUE

\* A request, with the cookie there is now.
Sent(kind) == [WebIdle EXCEPT !.kind = kind, !.step = "sent", !.session = cookie]

Send(c, kind) ==
  /\ webCall[c].step = "idle" /\ issued < MaxWebCalls
  /\ webCall' = [webCall EXCEPT ![c] = Sent(kind)]
  /\ issued' = issued + 1

\* refresh is called, for a tenant just founded or for none.
Refresh(c, t) ==
  /\ webCall' = [webCall EXCEPT ![c] = [Sent("refresh") EXCEPT !.tenant = t]]
  /\ loading' = TRUE
  /\ issued' = issued + 1

Answered(c) == webCall' = [webCall EXCEPT ![c] = WebIdle]

\* The server changes: no answer given so far is fresh any more.
Aged == [d \in WebCalls |-> [webCall[d] EXCEPT !.fresh = FALSE]]
-----------------------------------------------------------------------------
(* What the user starts *)

\* The sign-in page looks at nothing but its own submitting flag, and there is
\* another one each time the page is opened: it may be used while a refresh is
\* under way, and again while an earlier sign-in is.
SubmitLogin(c) ==
  /\ Send(c, "login")
  /\ UNCHANGED <<serverVars, tabVars, loading, moved>>

\* handleCreateTenant, on the onboarding page: the same.
SubmitTenant(c) ==
  /\ Send(c, "found")
  /\ UNCHANGED <<serverVars, tabVars, loading, moved>>

\* What the layout waits for before it shows its menu.
LayoutShown == ~loading /\ webUser /\ members # {}

\* Sign out, from the layout.
SubmitLogout(c) ==
  /\ LayoutShown
  /\ Send(c, "logout")
  /\ UNCHANGED <<serverVars, tabVars, loading, moved>>

\* setCurrentTenantId
Choose(t) == /\ current' = t /\ stored' = t /\ chosen' = t

\* The tenant menu is there when there is more than one.
ChooseTenant(t) ==
  /\ LayoutShown /\ Cardinality(members) > 1 /\ t \in members
  /\ Choose(t)
  /\ UNCHANGED <<serverVars, webUser, members, loading, webCall, issued, moved>>
-----------------------------------------------------------------------------
(* The server *)

\* SessionAuthGuard accepts the session the request was made with.
Admitted(c) == webCall[c].session \in accepted

\* GET /auth/me.  The answer is fresh if it is about the session of the cookie.
ServeRefresh(c) ==
  /\ webCall[c].kind = "refresh"
  /\ webCall' = [webCall EXCEPT ![c] =
                   [@ EXCEPT !.step = "answered", !.ok = Admitted(c),
                             !.got = IF Admitted(c) THEN belongs ELSE {},
                             !.fresh = (webCall[c].session = cookie)]]
  /\ UNCHANGED <<serverVars, issued, moved>>

\* A session is issued, and its cookie set.
ServeLogin(c) ==
  /\ webCall[c].kind = "login"
  /\ cookie' = issued + 1 /\ accepted' = accepted \union {issued + 1}
  /\ issued' = issued + 1
  /\ moved' = TRUE
  /\ webCall' = [Aged EXCEPT ![c] = [@ EXCEPT !.step = "answered", !.ok = TRUE]]
  /\ UNCHANGED belongs

\* The session is revoked, and the cookie cleared, whichever it is by now.
ServeLogout(c) ==
  /\ webCall[c].kind = "logout" /\ Admitted(c)
  /\ cookie' = 0 /\ accepted' = accepted \ {webCall[c].session}
  /\ moved' = TRUE
  /\ webCall' = [Aged EXCEPT ![c] = [@ EXCEPT !.step = "answered", !.ok = TRUE,
                                              !.fresh = TRUE]]
  /\ UNCHANGED <<belongs, issued>>

\* createTenant, for a user without a membership.
ServeFound(c, t) ==
  /\ webCall[c].kind = "found" /\ Admitted(c) /\ belongs = {}
  /\ belongs' = {t} /\ moved' = TRUE
  /\ webCall' = [Aged EXCEPT ![c] = [@ EXCEPT !.step = "answered", !.ok = TRUE,
                                              !.tenant = t]]
  /\ UNCHANGED <<cookie, accepted, issued>>

\* Any other request may fail, with an error for an answer.
Refuse(c) ==
  /\ webCall[c].kind # "refresh"
  /\ webCall' = [webCall EXCEPT ![c] = [@ EXCEPT !.step = "answered"]]
  /\ UNCHANGED <<serverVars, issued, moved>>

\* A request is carried out, or refused.
Serve(c) ==
  /\ webCall[c].step = "sent"
  /\ \/ ServeRefresh(c) \/ ServeLogin(c) \/ ServeLogout(c) \/ Refuse(c)
     \/ \E t \in Tenants : ServeFound(c, t)
  /\ UNCHANGED <<tabVars, loading>>

\* The network loses a request or its answer; for this tab both have failed.
LoseCall(c) ==
  /\ webCall[c].step \in {"sent", "answered"}
  /\ webCall' = [webCall EXCEPT ![c] =
                   [@ EXCEPT !.step = "answered", !.ok = FALSE, !.got = {}, !.fresh = FALSE]]
  /\ UNCHANGED <<serverVars, tabVars, loading, issued, moved>>

\* The session expires, or the user joins or leaves a tenant, elsewhere.
ChangesElsewhere ==
  /\ \/ /\ cookie \in accepted /\ accepted' = accepted \ {cookie}
        /\ UNCHANGED belongs
     \/ /\ \E t \in Tenants :
             belongs' \in {belongs \union {t}, belongs \ {t}} \ {belongs}
        /\ UNCHANGED accepted
  /\ moved' = TRUE /\ webCall' = Aged
  /\ UNCHANGED <<cookie, tabVars, loading, issued>>
-----------------------------------------------------------------------------
(* Answers *)

Forget == /\ webUser' = FALSE /\ members' = {} /\ current' = "none"

\* Mutant: what is stored is taken without a look at the memberships.
PickStored(got) ==
  {IF stored # "none" THEN stored ELSE IF got = {} THEN "none" ELSE CHOOSE t \in got : TRUE}

\* validStored, else the first (the API gives no order), else null.
Pick(got) == IF stored \in got THEN {stored} ELSE IF got = {} THEN {"none"} ELSE got

\* refresh: the user and the memberships are taken over; any failure forgets them.
RefreshAnswered(c) ==
  /\ webCall[c].kind = "refresh" /\ webCall[c].step = "answered"
  /\ IF webCall[c].ok
       THEN /\ webUser' = TRUE /\ members' = webCall[c].got
            /\ current' \in Pick(webCall[c].got)
       ELSE Forget
  /\ moved' = ~webCall[c].fresh
  /\ loading' = FALSE
  /\ Answered(c)
  /\ UNCHANGED <<serverVars, stored, issued, chosen>>

\* The sign-in page goes on with a refresh, or shows the error.
LoginAnswered(c) ==
  /\ webCall[c].kind = "login" /\ webCall[c].step = "answered"
  /\ IF webCall[c].ok THEN Refresh(c, "none")
                       ELSE Answered(c) /\ UNCHANGED <<loading, issued>>
  /\ UNCHANGED <<serverVars, tabVars, moved>>

\* handleCreateTenant chooses the new tenant and goes on with a refresh.
TenantAnswered(c) ==
  /\ webCall[c].kind = "found" /\ webCall[c].step = "answered"
  /\ IF webCall[c].ok
       THEN Choose(webCall[c].tenant) /\ Refresh(c, webCall[c].tenant)
       ELSE Answered(c) /\ UNCHANGED <<current, stored, chosen, loading, issued>>
  /\ UNCHANGED <<serverVars, webUser, members, moved>>

\* logout forgets the user only if the API agreed.
LogoutAnswered(c) ==
  /\ webCall[c].kind = "logout" /\ webCall[c].step = "answered"
  /\ IF webCall[c].ok THEN Forget /\ moved' = ~webCall[c].fresh
                       ELSE UNCHANGED <<webUser, members, current, moved>>
  /\ Answered(c)
  /\ UNCHANGED <<serverVars, loading, stored, issued, chosen>>

WebSessionNext ==
  \/ \E c \in WebCalls :
       \/ SubmitLogin(c) \/ SubmitTenant(c) \/ SubmitLogout(c)
       \/ Serve(c) \/ LoseCall(c)
       \/ RefreshAnswered(c) \/ LoginAnswered(c) \/ TenantAnswered(c) \/ LogoutAnswered(c)
  \/ \E t \in Tenants : ChooseTenant(t)
  \/ ChangesElsewhere

WebSessionSpec == WebSessionInit /\ [][WebSessionNext]_webSessionVars
-----------------------------------------------------------------------------
(* Properties *)

\* The tenant that requests are bound to is one of the memberships the page
\* knows; only a business just founded is chosen before its refresh has come.
CurrentIsMember ==
  \/ current \in members \union {"none"}
  \/ \E c \in WebCalls : webCall[c].kind = "refresh" /\ webCall[c].tenant = current

\* The choice lasts: through refreshes that answer late, sign-out and sign-in,
\* as long as the page knows the user to be a member, the tenant chosen last is
\* the current one.
ChoiceLasts == webUser /\ chosen \in members => current = chosen

\* The page agrees with the server about who is signed in and where, unless the
\* server has changed since it gave the answer that the page took over last:
\* a late answer or a lost one can mislead the page, nothing else can.
PageKnowsSession ==
  ~moved => /\ webUser <=> cookie \in accepted
            /\ members = IF cookie \in accepted THEN belongs ELSE {}

\* The tab is in step: its tenant is a membership it knows and the one chosen
\* last, and it agrees with the server unless an answer came late or was lost.
TabInStep == CurrentIsMember /\ ChoiceLasts /\ PageKnowsSession
=============================================================================
