---------------------------- MODULE ClientsProofs ---------------------------
(***************************************************************************)
(* Proofs about the clients: the rows of a page and its lists and forms    *)
(* (RowActions, TenantPage), the web tab's session (WebSession), the       *)
(* mobile app's sign-in and point of sale (MobileAuth, Checkout) and the   *)
(* assistant's chat (Assistant), for any number of requests.               *)
(*                                                                         *)
(* A client writes its state when an answer comes, from what it had when   *)
(* it asked.  Each invariant therefore says of every request under way     *)
(* that what it carries is still right, or that the history variable of    *)
(* the race that made it wrong is set.                                     *)
(***************************************************************************)
EXTENDS Checkout, RowActions, MobileAuth, WebSession, TenantPage, Assistant,
        FiniteSetTheorems, SequenceTheorems, Sums, TLAPS

(* RowActions *)

\* The types.
RowsType ==
  /\ busyId \in Rows \union {"none"} /\ act \in [Acts -> Rows \union {"none"}]
  /\ qrId \in Rows \union {"none"} /\ qrData \in Rows \union {"none"}
  /\ qrCall \in [QrCalls -> Rows \union {"none"}]
  /\ mixed \in BOOLEAN /\ qrRaced \in BOOLEAN

\* Unless two rows were acted on together, there is at most one action, and it
\* has the busy id.
BusyInv ==
  ~mixed =>
    /\ \A a, b \in Acts : act[a] # "none" /\ act[b] # "none" => a = b
    /\ \A a \in Acts : act[a] # "none" => busyId = act[a]
    /\ QuietRows => busyId = "none"

\* Unless the row was changed meanwhile, a code under way is for the open row.
QrInv ==
  ~qrRaced => /\ qrData \in {"none", qrId}
              /\ \A q \in QrCalls : qrCall[q] \in {"none", qrId}

\* The inductive invariant of RowsInStep.
RowsInv == RowsType /\ BusyInv /\ QrInv

\* Every step keeps the rows in step.
LEMMA RowsStep == RowsInv /\ [RowActionsNext]_rowVars => RowsInv'
<1> SUFFICES ASSUME RowsInv, [RowActionsNext]_rowVars PROVE RowsInv'
  OBVIOUS
<1> USE RowActionsAssumption DEF RowsInv, RowsType, BusyInv, QrInv
<1>1. ASSUME NEW a \in Acts, NEW r \in Rows, StartAct(a, r) PROVE RowsInv'
  <2>1. CASE \E b \in Acts : act[b] \notin {"none", r}
    BY <1>1, <2>1 DEF StartAct
  <2>2. CASE ~\E b \in Acts : act[b] \notin {"none", r}
    <3>1. CASE mixed
      BY <1>1, <3>1 DEF StartAct
    <3>2. CASE ~mixed
      <4>1. \A b \in Acts : act[b] = "none"
        BY <1>1, <2>2, <3>2 DEF StartAct, RowFree
      <4> QED BY <1>1, <3>2, <4>1 DEF StartAct, QuietRows
    <3> QED BY <3>1, <3>2
  <2> QED BY <2>1, <2>2
<1>2. ASSUME NEW a \in Acts, EndAct(a) PROVE RowsInv'
  BY <1>2 DEF EndAct, QuietRows
<1>3. ASSUME NEW q \in QrCalls, NEW r \in Rows, ToggleQr(q, r) PROVE RowsInv'
  BY <1>3 DEF ToggleQr, OpenQr, QrQuiet, QuietRows
<1>4. ASSUME NEW q \in QrCalls, QrAnswered(q) PROVE RowsInv'
  BY <1>4 DEF QrAnswered, QuietRows
<1>5. CASE UNCHANGED rowVars
  BY <1>5 DEF rowVars, QuietRows
<1> QED BY <1>1, <1>2, <1>3, <1>4, <1>5 DEF RowActionsNext

\* No row is acted on twice at a time and the picture shown is that of the open
\* row, but for the races the property names, for any rows and requests.
THEOREM RowsAlwaysInStep == RowActionsSpec => []RowsInStep
<1>1. RowActionsInit => RowsInv
  BY DEF RowActionsInit, RowsInv, RowsType, BusyInv, QrInv
<1>2. RowsInv => RowsInStep
  <2> SUFFICES ASSUME RowsInv PROVE RowsInStep
    OBVIOUS
  <2>1. ASSUME ~mixed, NEW r \in Rows PROVE Cardinality(InAction(r)) <= 1
    <3>1. \A a, b \in InAction(r) : a = b
      BY <2>1, RowActionsAssumption DEF RowsInv, BusyInv, InAction
    <3>2. CASE InAction(r) = {}
      BY <3>2, FS_EmptySet
    <3>3. ASSUME NEW a \in InAction(r) PROVE Cardinality(InAction(r)) <= 1
      <4>1. InAction(r) = {a}
        BY <3>1
      <4>2. Cardinality({a}) = 1
        BY FS_Singleton
      <4> QED BY <4>1, <4>2
    <3> QED BY <3>1, <3>2, <3>3
  <2>2. OneActPerRow
    BY <2>1 DEF RowsInv, BusyInv, OneActPerRow
  <2>3. QrMatchesRow
    BY DEF RowsInv, QrInv, QrMatchesRow
  <2> QED BY <2>2, <2>3 DEF RowsInStep
<1> QED BY <1>1, <1>2, RowsStep, PTL DEF RowActionsSpec
-----------------------------------------------------------------------------
(* MobileAuth *)

\* A call of the mobile app's authentication.
AppCallType ==
  [kind : {"none", "start", "login", "logout"},
   step : {"idle", "save", "read", "me", "post", "clear", "forget"}, session : Nat]

\* The steps of start-up, login and logout.
ShapeInv ==
  \A c \in AppCalls :
    /\ appCall[c].kind = "none" <=> appCall[c].step = "idle"
    /\ appCall[c].kind = "start" => appCall[c].step = "me"
    /\ appCall[c].kind = "login" => appCall[c].step \in {"save", "read", "me"}
    /\ appCall[c].kind = "logout" => appCall[c].step \in {"post", "clear", "forget"}

\* Sessions are numbered in the order they are opened.
MobileType ==
  /\ given \in Nat
  /\ token \in Nat /\ appUser \in Nat /\ wasIn \in Nat
  /\ token <= given /\ appUser <= given /\ wasIn <= given
  /\ \A n \in tokens : n \in Nat /\ 0 < n /\ n <= given
  /\ appCall \in [AppCalls -> AppCallType]
  /\ \A c \in AppCalls : appCall[c].session <= given

\* Some call is at a statement.
At(kind, step) == \E c \in AppCalls : appCall[c].kind = kind /\ appCall[c].step = step

\* What start-up, sign-in and sign-out rely on while they wait: nobody is signed
\* in while a user is asked for, and the one asked for is that of the token, which
\* only a second sign-out may have cleared meanwhile.
WaitingInv ==
  \A c \in AppCalls :
    /\ appCall[c].kind = "start" =>
         /\ appUser = 0 /\ token = wasIn /\ appCall[c].session = token
         /\ \A d \in AppCalls \ {c} : appCall[d].kind = "none"
    /\ appCall[c].kind = "login" =>
         /\ appUser = 0
         /\ \A d \in AppCalls \ {c} : appCall[d].kind # "login"
         /\ appCall[c].step = "me" => \/ appCall[c].session = token
                                      \/ crossed /\ token = 0
    /\ appCall[c].kind = "logout" /\ ~crossed =>
         /\ appUser # 0
         /\ appCall[c].step = "forget" => token = 0
         /\ \A d \in AppCalls \ {c} : appCall[d].kind # "logout"

\* Token and user are of one session, or one of them is missing: between the
\* writes of a call, or in one of the cases the property names.
EqualInv ==
  /\ token # 0 /\ appUser # 0 => token = appUser
  /\ token # 0 /\ appUser = 0 =>
       \/ halfIn \/ crossed
       \/ At("start", "me") \/ At("login", "read") \/ At("login", "me")
  /\ token = 0 /\ appUser # 0 => stripped \/ crossed \/ At("logout", "forget")

\* Once start-up has its answer, a session that is still live is the user's.
KeptInv ==
  \/ unreached \/ At("start", "me") \/ wasIn \notin tokens
  \/ appUser = wasIn

\* The inductive invariant of TokenInStep.
MobileInv == MobileType /\ ShapeInv /\ WaitingInv /\ EqualInv /\ KeptInv

\* Every step keeps MobileInv.
LEMMA MobileStep == MobileInv /\ [MobileAuthNext]_mobileAuthVars => MobileInv'
<1> SUFFICES ASSUME MobileInv, [MobileAuthNext]_mobileAuthVars PROVE MobileInv'
  OBVIOUS
<1> USE DEF caseVars, MobileInv, MobileType, AppCallType, ShapeInv, AppIdle
<1>i. AppIdle \in AppCallType
  OBVIOUS
<1>e. ASSUME NEW c \in AppCalls, AppEnds(c), given' = given
      PROVE  /\ appCall' \in [AppCalls -> AppCallType]
             /\ \A d \in AppCalls : appCall'[d].session <= given'
             /\ ShapeInv'
  <2>1. appCall' \in [AppCalls -> AppCallType]
    BY <1>e, <1>i DEF AppEnds
  <2> QED BY <1>e, <2>1 DEF AppEnds
<1>1. ASSUME NEW c \in AppCalls, OpenApp(c) PROVE MobileInv'
  <2>1. MobileType' /\ ShapeInv'
    <3>1. [kind |-> "start", step |-> "me", session |-> token] \in AppCallType
      OBVIOUS
    <3>2. appCall' \in [AppCalls -> AppCallType]
      BY <1>1, <1>i, <3>1 DEF OpenApp
    <3> QED BY <1>1, <3>2 DEF OpenApp
  <2>2. WaitingInv'
    BY <1>1 DEF OpenApp, WaitingInv
  <2>3. EqualInv' /\ KeptInv'
    BY <1>1 DEF OpenApp, WaitingInv, EqualInv, KeptInv, At
  <2> QED BY <2>1, <2>2, <2>3
<1>2. ASSUME NEW c \in AppCalls, StartAnswered(c) PROVE MobileInv'
  <2>1. MobileType' /\ ShapeInv'
    BY <1>2, <1>e DEF StartAnswered, StartLoads, StartFails, AfterFailedStart
  <2>2. WaitingInv'
    BY <1>2 DEF StartAnswered, StartLoads, StartFails, AfterFailedStart, AppEnds, WaitingInv
  <2>3. EqualInv' /\ KeptInv'
    BY <1>2 DEF StartAnswered, StartLoads, StartFails, AfterFailedStart, AppEnds, WaitingInv, EqualInv, KeptInv, At
  <2> QED BY <2>1, <2>2, <2>3
<1>3. ASSUME NEW c \in AppCalls, SubmitAppLogin(c) PROVE MobileInv'
  <2>1. MobileType' /\ ShapeInv'
    BY <1>3 DEF SubmitAppLogin, StartUp
  <2>2. WaitingInv'
    BY <1>3 DEF SubmitAppLogin, StartUp, WaitingInv
  <2>3. EqualInv' /\ KeptInv'
    BY <1>3 DEF SubmitAppLogin, StartUp, WaitingInv, EqualInv, KeptInv, At
  <2> QED BY <2>1, <2>2, <2>3
<1>4. ASSUME NEW c \in AppCalls, SaveToken(c) PROVE MobileInv'
  <2>1. MobileType' /\ ShapeInv'
    BY <1>4, <1>e DEF SaveToken
  <2>2. WaitingInv'
    BY <1>4 DEF SaveToken, AppEnds, WaitingInv
  <2>3. EqualInv' /\ KeptInv'
    BY <1>4 DEF SaveToken, AppEnds, WaitingInv, EqualInv, KeptInv, At
  <2> QED BY <2>1, <2>2, <2>3
<1>12. ASSUME NEW c \in AppCalls, ReadToken(c) PROVE MobileInv'
  <2>1. MobileType' /\ ShapeInv'
    BY <1>12 DEF ReadToken
  <2>2. WaitingInv'
    BY <1>12 DEF ReadToken, WaitingInv
  <2>3. EqualInv' /\ KeptInv'
    BY <1>12 DEF ReadToken, WaitingInv, EqualInv, KeptInv, At
  <2> QED BY <2>1, <2>2, <2>3
<1>5. ASSUME NEW c \in AppCalls, LoginAnsweredApp(c) PROVE MobileInv'
  <2>1. MobileType' /\ ShapeInv'
    BY <1>5, <1>e DEF LoginAnsweredApp
  <2>2. WaitingInv'
    BY <1>5 DEF LoginAnsweredApp, AppEnds, WaitingInv
  <2>3. EqualInv' /\ KeptInv'
    BY <1>5 DEF LoginAnsweredApp, AppEnds, WaitingInv, EqualInv, KeptInv, At
  <2> QED BY <2>1, <2>2, <2>3
<1>6. ASSUME NEW c \in AppCalls, SubmitAppLogout(c) PROVE MobileInv'
  <2>1. MobileType' /\ ShapeInv'
    BY <1>6 DEF SubmitAppLogout
  <2>2. WaitingInv'
    BY <1>6 DEF SubmitAppLogout, WaitingInv
  <2>3. EqualInv' /\ KeptInv'
    BY <1>6 DEF SubmitAppLogout, WaitingInv, EqualInv, KeptInv, At
  <2> QED BY <2>1, <2>2, <2>3
<1>7. ASSUME NEW c \in AppCalls, LogoutAnsweredApp(c) PROVE MobileInv'
  <2>1. MobileType' /\ ShapeInv'
    BY <1>7 DEF LogoutAnsweredApp
  <2>2. WaitingInv'
    BY <1>7 DEF LogoutAnsweredApp, WaitingInv
  <2>3. EqualInv' /\ KeptInv'
    BY <1>7 DEF LogoutAnsweredApp, WaitingInv, EqualInv, KeptInv, At
  <2> QED BY <2>1, <2>2, <2>3
<1>8. ASSUME NEW c \in AppCalls, ClearToken(c) PROVE MobileInv'
  <2>1. MobileType' /\ ShapeInv'
    BY <1>8, <1>e DEF ClearToken, TokenAfterLogout
  <2>2. WaitingInv'
    BY <1>8 DEF ClearToken, TokenAfterLogout, AppEnds, WaitingInv
  <2>3. EqualInv' /\ KeptInv'
    BY <1>8 DEF ClearToken, TokenAfterLogout, AppEnds, WaitingInv, EqualInv, KeptInv, At
  <2> QED BY <2>1, <2>2, <2>3
<1>9. ASSUME NEW c \in AppCalls, ForgetUser(c) PROVE MobileInv'
  <2>1. MobileType' /\ ShapeInv'
    BY <1>9 DEF ForgetUser, AppEnds
  <2>2. WaitingInv'
    BY <1>9 DEF ForgetUser, AppEnds, WaitingInv
  <2>3. EqualInv' /\ KeptInv'
    BY <1>9 DEF ForgetUser, AppEnds, WaitingInv, EqualInv, KeptInv, At
  <2> QED BY <2>1, <2>2, <2>3
<1>10. ASSUME NEW n \in tokens, SessionEnds(n) PROVE MobileInv'
  BY <1>10 DEF SessionEnds, WaitingInv, EqualInv, KeptInv, At
<1>11. CASE UNCHANGED mobileAuthVars
  BY <1>11 DEF mobileAuthVars, WaitingInv, EqualInv, KeptInv, At
<1> QED BY <1>1, <1>2, <1>3, <1>4, <1>5, <1>6, <1>7, <1>8, <1>9, <1>10, <1>11, <1>12 DEF MobileAuthNext

\* Token and user are in step and a restart keeps a live session (AuthProvider of the
\* mobile app), but for the cases the property names, for any number of calls.
THEOREM TokenAlwaysInStep == MobileAuthSpec => []TokenInStep
<1>1. MobileAuthInit => MobileInv
  <2>1. AppIdle \in AppCallType
    BY DEF AppIdle, AppCallType
  <2>2. MobileAuthInit => MobileType
    BY <2>1 DEF MobileAuthInit, MobileType, AppIdle
  <2> QED BY <2>2 DEF MobileAuthInit, MobileInv, ShapeInv, WaitingInv, EqualInv, KeptInv, AppIdle
<1>2. MobileInv => TokenInStep
  BY DEF MobileInv, MobileType, AppCallType, ShapeInv, EqualInv, KeptInv, At, TokenInStep, TokenIsUsers,
         RestartKeepsSession, Calm
<1> QED BY <1>1, <1>2, MobileStep, PTL DEF MobileAuthSpec
-----------------------------------------------------------------------------
(* WebSession *)

\* A call of the web tab.
WebCallType ==
  [kind : {"none", "refresh", "login", "logout", "found"},
   step : {"idle", "sent", "answered"}, session : Nat, ok : BOOLEAN,
   got : SUBSET Tenants, tenant : Tenants \union {"none"}, fresh : BOOLEAN]

\* The types.
WebType ==
  /\ webCall \in [WebCalls -> WebCallType]
  /\ cookie \in Nat /\ 0 \notin accepted /\ issued \in Nat
  /\ belongs \subseteq Tenants /\ members \subseteq Tenants
  /\ \A c \in WebCalls :
       (webCall[c].kind = "none" <=> webCall[c].step = "idle")

\* A fresh answer says what the server would say now.
FreshInv ==
  \A c \in WebCalls : webCall[c].fresh =>
    /\ webCall[c].step = "answered"
    /\ webCall[c].kind \in {"refresh", "logout"}
    /\ webCall[c].kind = "refresh" =>
         /\ webCall[c].ok <=> cookie \in accepted
         /\ webCall[c].got = (IF cookie \in accepted THEN belongs ELSE {})
    /\ webCall[c].kind = "logout" => webCall[c].ok /\ cookie \notin accepted

\* The inductive invariant.
WebInv ==
  /\ WebType /\ FreshInv
  /\ CurrentIsMember
  /\ stored = chosen /\ ChoiceLasts
  /\ PageKnowsSession

\* A request that is sent.
LEMMA WebSend ==
  ASSUME WebInv, NEW c \in WebCalls,
         NEW kind \in {"refresh", "login", "logout", "found"}, Send(c, kind),
         UNCHANGED <<serverVars, tabVars, moved>>
  PROVE  WebInv'
<1> USE DEF WebInv
<1>1. Sent(kind) \in WebCallType
  BY DEF Sent, WebIdle, WebCallType, WebType
<1>2. WebType'
  BY <1>1 DEF Send, WebType, serverVars, tabVars, Sent, WebIdle
<1>3. FreshInv'
  BY DEF Send, WebType, FreshInv, serverVars, tabVars, Sent, WebIdle
<1>4. CurrentIsMember'
  BY DEF Send, WebType, WebCallType, CurrentIsMember, serverVars, tabVars, Sent, WebIdle
<1> QED BY <1>2, <1>3, <1>4 DEF ChoiceLasts, PageKnowsSession, serverVars, tabVars

\* Requests change, the page does not, and the page is not said to agree.
LEMMA WebServed ==
  ASSUME WebInv, UNCHANGED tabVars, WebType', FreshInv',
         \A c \in WebCalls : webCall[c].kind = "refresh" =>
           webCall'[c].kind = "refresh" /\ webCall'[c].tenant = webCall[c].tenant,
         moved' \/ UNCHANGED <<serverVars, moved>>
  PROVE  WebInv'
  BY DEF WebInv, tabVars, serverVars, CurrentIsMember, ChoiceLasts, PageKnowsSession

\* The server changes, and no answer is fresh any more.
LEMMA WebAged ==
  ASSUME WebType
  PROVE  /\ Aged \in [WebCalls -> WebCallType]
         /\ \A c \in WebCalls : /\ Aged[c].kind = webCall[c].kind
                                /\ Aged[c].step = webCall[c].step
                                /\ Aged[c].tenant = webCall[c].tenant
                                /\ ~Aged[c].fresh
  BY DEF Aged, WebType, WebCallType

\* A request is answered by the server or the network.
LEMMA WebReply ==
  ASSUME WebInv, NEW c \in WebCalls, NEW calls \in {webCall, Aged},
         NEW r \in WebCallType, r.kind = webCall[c].kind, r.step = "answered",
         r.kind = "refresh" => r.tenant = webCall[c].tenant,
         webCall[c].step # "idle",
         webCall' = [calls EXCEPT ![c] = r],
         r.fresh => /\ r.kind \in {"refresh", "logout"}
                    /\ r.kind = "refresh" =>
                         /\ r.ok <=> cookie' \in accepted'
                         /\ r.got = (IF cookie' \in accepted' THEN belongs' ELSE {})
                    /\ r.kind = "logout" => r.ok /\ cookie' \notin accepted',
         cookie' \in Nat, 0 \notin accepted', issued' \in Nat, belongs' \subseteq Tenants,
         calls = Aged \/ UNCHANGED serverVars,
         moved' \/ UNCHANGED <<serverVars, moved>>, UNCHANGED tabVars
  PROVE  WebInv'
<1> USE DEF WebInv
<1>0. calls \in [WebCalls -> WebCallType]
      /\ \A d \in WebCalls : calls[d].kind = webCall[d].kind
                            /\ calls[d].step = webCall[d].step
                            /\ calls[d].tenant = webCall[d].tenant
  BY WebAged DEF WebType
<1>1. webCall' \in [WebCalls -> WebCallType]
      /\ webCall'[c] = r /\ \A d \in WebCalls \ {c} : webCall'[d] = calls[d]
  BY <1>0
<1>2. WebType'
  BY <1>0, <1>1 DEF WebType, tabVars
<1>3. ASSUME NEW d \in WebCalls \ {c}, webCall'[d].fresh
      PROVE  webCall'[d] = webCall[d] /\ UNCHANGED serverVars
  BY <1>1, <1>3, WebAged
<1>4. FreshInv'
  BY <1>1, <1>3 DEF FreshInv, serverVars
<1>5. \A d \in WebCalls : webCall[d].kind = "refresh" =>
        webCall'[d].kind = "refresh" /\ webCall'[d].tenant = webCall[d].tenant
  BY <1>0, <1>1
<1> QED BY <1>2, <1>4, <1>5, WebServed

\* The API serves a call.
LEMMA WebServe == ASSUME WebInv, NEW c \in WebCalls, Serve(c) PROVE WebInv'
<1> USE DEF WebInv
<1>0. webCall[c].step = "sent" /\ UNCHANGED tabVars
      /\ webCall[c] \in WebCallType /\ Aged[c] \in WebCallType
      /\ cookie \in Nat /\ 0 \notin accepted /\ issued \in Nat /\ belongs \subseteq Tenants
      /\ Aged[c].kind = webCall[c].kind /\ Aged[c].tenant = webCall[c].tenant
      /\ ~Aged[c].fresh
  BY WebAged DEF Serve, WebType
<1>f. webCall[c].kind # "refresh" => ~webCall[c].fresh
  BY <1>0 DEF FreshInv
<1>1. CASE ServeRefresh(c)
  <2> DEFINE r == [webCall[c] EXCEPT !.step = "answered", !.ok = Admitted(c),
                     !.got = IF Admitted(c) THEN belongs ELSE {},
                     !.fresh = (webCall[c].session = cookie)]
  <2>1. r \in WebCallType /\ r.kind = "refresh" /\ r.step = "answered"
        /\ (r.ok <=> Admitted(c)) /\ r.got = (IF Admitted(c) THEN belongs ELSE {})
        /\ r.tenant = webCall[c].tenant
        /\ (r.fresh => webCall[c].session = cookie)
    <3>1. CASE Admitted(c)
      BY <1>0, <1>1, <3>1 DEF ServeRefresh, WebCallType
    <3>2. CASE ~Admitted(c)
      <4>1. Admitted(c) = FALSE
        BY <3>2 DEF Admitted
      <4> QED BY <1>0, <1>1, <4>1 DEF ServeRefresh, WebCallType
    <3> QED BY <3>1, <3>2
  <2>2. webCall' = [webCall EXCEPT ![c] = r] /\ UNCHANGED <<serverVars, moved>>
        /\ issued' = issued
    BY <1>1 DEF ServeRefresh
  <2> HIDE DEF r
  <2>3. r.fresh => /\ r.ok <=> cookie' \in accepted'
                   /\ r.got = (IF cookie' \in accepted' THEN belongs' ELSE {})
    <3> SUFFICES ASSUME r.fresh PROVE /\ r.ok <=> cookie' \in accepted'
                                      /\ r.got = (IF cookie' \in accepted' THEN belongs' ELSE {})
      OBVIOUS
    <3>1. cookie' = cookie /\ accepted' = accepted /\ belongs' = belongs
      BY <2>2 DEF serverVars
    <3>2. Admitted(c) <=> cookie' \in accepted'
      BY <2>1, <3>1, Zenon DEF Admitted
    <3> QED BY <2>1, <3>1, <3>2, Zenon
  <2>4. cookie' \in Nat /\ 0 \notin accepted' /\ issued' \in Nat /\ belongs' \subseteq Tenants
    BY <1>0, <2>2 DEF serverVars
  <2>5. r.fresh =>
          /\ r.kind \in {"refresh", "logout"}
          /\ r.kind = "refresh" =>
               /\ r.ok <=> cookie' \in accepted'
               /\ r.got = (IF cookie' \in accepted' THEN belongs' ELSE {})
          /\ r.kind = "logout" => r.ok /\ cookie' \notin accepted'
    <3>1. r.kind = "refresh" /\ r.kind \in {"refresh", "logout"} /\ r.kind # "logout"
      BY <2>1
    <3> QED BY <2>3, <3>1, Zenon
  <2>6. r.kind = webCall[c].kind /\ webCall[c].step # "idle"
    <3>1. webCall[c].kind = "refresh"
      BY <1>1 DEF ServeRefresh
    <3>2. webCall[c].step # "idle"
      BY <1>0
    <3> QED BY <2>1, <3>1, <3>2, Zenon
  <2>7. webCall \in {webCall, Aged} /\ (webCall = Aged \/ UNCHANGED serverVars)
    BY <2>2
  <2>8. (r.kind = "refresh" => r.tenant = webCall[c].tenant)
        /\ (moved' \/ UNCHANGED <<serverVars, moved>>) /\ UNCHANGED tabVars
    BY <1>0, <2>1, <2>2
  <2> QED BY <2>1, <2>2, <2>4, <2>5, <2>6, <2>7, <2>8, WebReply, Zenon
<1>2. CASE ServeLogin(c)
  <2> DEFINE r == [Aged[c] EXCEPT !.step = "answered", !.ok = TRUE]
  <2>1. r \in WebCallType /\ r.kind = "login" /\ r.step = "answered" /\ ~r.fresh
    BY <1>0, <1>2 DEF ServeLogin, WebCallType
  <2>2. webCall' = [Aged EXCEPT ![c] = r] /\ moved' /\ belongs' = belongs
        /\ cookie' \in Nat /\ 0 \notin accepted' /\ issued' \in Nat
    BY <1>0, <1>2 DEF ServeLogin
  <2> HIDE DEF r
  <2> QED BY <1>0, <1>2, <2>1, <2>2, WebReply DEF ServeLogin
<1>3. CASE ServeLogout(c)
  <2> DEFINE r == [Aged[c] EXCEPT !.step = "answered", !.ok = TRUE, !.fresh = TRUE]
  <2>1. r \in WebCallType /\ r.kind = "logout" /\ r.step = "answered" /\ r.ok
    BY <1>0, <1>3 DEF ServeLogout, WebCallType
  <2>2. webCall' = [Aged EXCEPT ![c] = r] /\ moved' /\ belongs' = belongs
        /\ cookie' = 0 /\ 0 \notin accepted' /\ issued' = issued
    BY <1>0, <1>3 DEF ServeLogout
  <2> HIDE DEF r
  <2>3. cookie' \notin accepted' /\ cookie' \in Nat /\ issued' \in Nat
    BY <1>0, <2>2
  <2>4. r.kind = webCall[c].kind /\ webCall[c].step # "idle" /\ UNCHANGED tabVars
    BY <1>0, <1>3, <2>1 DEF ServeLogout
  <2> QED BY <1>0, <2>1, <2>2, <2>3, <2>4, WebReply
<1>4. ASSUME NEW t \in Tenants, ServeFound(c, t) PROVE WebInv'
  <2> DEFINE r == [Aged[c] EXCEPT !.step = "answered", !.ok = TRUE, !.tenant = t]
  <2>1. r \in WebCallType /\ r.kind = "found" /\ r.step = "answered" /\ ~r.fresh
    BY <1>0, <1>4 DEF ServeFound, WebCallType
  <2>2. /\ webCall' = [Aged EXCEPT ![c] = r] /\ moved' /\ cookie' = cookie
        /\ accepted' = accepted /\ issued' = issued /\ belongs' \subseteq Tenants
    BY <1>0, <1>4 DEF ServeFound
  <2> HIDE DEF r
  <2> QED BY <1>0, <1>4, <2>1, <2>2, WebReply DEF ServeFound
<1>5. CASE Refuse(c)
  <2> DEFINE r == [webCall[c] EXCEPT !.step = "answered"]
  <2>1. r \in WebCallType /\ r.kind = webCall[c].kind /\ r.step = "answered" /\ ~r.fresh
        /\ r.kind # "refresh"
    BY <1>0, <1>5, <1>f DEF Refuse, WebCallType
  <2>2. webCall' = [webCall EXCEPT ![c] = r] /\ UNCHANGED <<serverVars, moved>>
        /\ issued' = issued
    BY <1>5 DEF Refuse
  <2> HIDE DEF r
  <2>3. cookie' \in Nat /\ 0 \notin accepted' /\ issued' \in Nat /\ belongs' \subseteq Tenants
    BY <1>0, <2>2 DEF serverVars
  <2> QED BY <1>0, <2>1, <2>2, <2>3, WebReply
<1> QED BY <1>1, <1>2, <1>3, <1>4, <1>5 DEF Serve

\* Every step keeps the tab in step.
LEMMA WebStep == WebInv /\ [WebSessionNext]_webSessionVars => WebInv'
<1> SUFFICES ASSUME WebInv, [WebSessionNext]_webSessionVars PROVE WebInv'
  OBVIOUS
<1> USE DEF WebInv
<1>i. WebIdle \in WebCallType
  BY DEF WebIdle, WebCallType
<1>a. ASSUME NEW c \in WebCalls, Answered(c), UNCHANGED serverVars, members' \subseteq Tenants,
             issued' \in Nat
      PROVE  WebType' /\ FreshInv'
  <2>1. WebType'
    BY <1>a, <1>i DEF Answered, WebType, serverVars, WebIdle
  <2> QED BY <1>a, <2>1 DEF Answered, WebType, FreshInv, serverVars, WebIdle
<1>1. ASSUME NEW c \in WebCalls, SubmitLogin(c) \/ SubmitTenant(c) \/ SubmitLogout(c)
      PROVE  WebInv'
  BY <1>1, WebSend DEF SubmitLogin, SubmitTenant, SubmitLogout
<1>2. ASSUME NEW c \in WebCalls, LoseCall(c) PROVE WebInv'
  <2> DEFINE r == [webCall[c] EXCEPT !.step = "answered", !.ok = FALSE, !.got = {},
                                     !.fresh = FALSE]
  <2>1. r \in WebCallType /\ r.kind = webCall[c].kind /\ r.step = "answered" /\ ~r.fresh
        /\ r.tenant = webCall[c].tenant
    BY DEF WebType, WebCallType
  <2>2. /\ webCall' = [webCall EXCEPT ![c] = r] /\ webCall[c].step # "idle"
        /\ UNCHANGED <<serverVars, tabVars, moved, issued>>
    BY <1>2 DEF LoseCall
  <2> HIDE DEF r
  <2> QED BY <2>1, <2>2, WebReply DEF serverVars, WebType
<1>3. ASSUME NEW c \in WebCalls, RefreshAnswered(c) PROVE WebInv'
  <2>1. webCall[c].got \subseteq Tenants /\ "none" \notin Tenants /\ issued \in Nat
    BY WebSessionAssumption DEF WebType, WebCallType
  <2>2. WebType' /\ FreshInv'
    BY <1>3, <1>a, <2>1 DEF RefreshAnswered, Forget
  <2>3. CurrentIsMember'
    BY <1>3 DEF RefreshAnswered, Forget, Pick, CurrentIsMember
  <2>4. ChoiceLasts'
    BY <1>3 DEF RefreshAnswered, Forget, Pick, ChoiceLasts
  <2>5. PageKnowsSession'
    <3> SUFFICES ASSUME ~moved'
                 PROVE  /\ (webUser' <=> cookie' \in accepted')
                        /\ members' = IF cookie' \in accepted' THEN belongs' ELSE {}
      BY DEF PageKnowsSession
    <3>1. /\ webCall[c].ok <=> cookie \in accepted
          /\ webCall[c].got = (IF cookie \in accepted THEN belongs ELSE {})
      BY <1>3 DEF RefreshAnswered, FreshInv
    <3>2. cookie' = cookie /\ accepted' = accepted /\ belongs' = belongs
      BY <1>3 DEF RefreshAnswered, serverVars
    <3>3. CASE cookie \in accepted
      BY <1>3, <3>1, <3>2, <3>3 DEF RefreshAnswered
    <3>4. CASE cookie \notin accepted
      BY <1>3, <3>1, <3>2, <3>4 DEF RefreshAnswered, Forget
    <3> QED BY <3>3, <3>4
  <2> QED BY <1>3, <2>2, <2>3, <2>4, <2>5 DEF RefreshAnswered
<1>g. ASSUME NEW c \in WebCalls, NEW r \in WebCallType, UNCHANGED serverVars,
             members' = members, issued' \in Nat, r.kind = "refresh", r.step = "sent",
             ~r.fresh,
             webCall' = [webCall EXCEPT ![c] = r]
      PROVE  WebType' /\ FreshInv' /\ webCall'[c] = r
  <2>1. webCall' \in [WebCalls -> WebCallType] /\ webCall'[c] = r
        /\ \A d \in WebCalls \ {c} : webCall'[d] = webCall[d]
    BY <1>g DEF WebType
  <2>2. WebType'
    BY <1>g, <2>1 DEF WebType, serverVars
  <2>3. FreshInv'
    BY <1>g, <2>1 DEF FreshInv, serverVars
  <2> QED BY <2>1, <2>2, <2>3
<1>4. ASSUME NEW c \in WebCalls, LoginAnswered(c) PROVE WebInv'
  <2>1. WebType' /\ FreshInv'
    <3>1. CASE webCall[c].ok
      <4> DEFINE r == [Sent("refresh") EXCEPT !.tenant = "none"]
      <4>1. r \in WebCallType /\ r.kind = "refresh" /\ r.step = "sent" /\ ~r.fresh
        BY DEF Sent, WebIdle, WebCallType, WebType
      <4>2. webCall' = [webCall EXCEPT ![c] = r] /\ issued' \in Nat
        BY <1>4, <3>1 DEF LoginAnswered, Refresh, WebType
      <4> HIDE DEF r
      <4> QED BY <1>4, <4>1, <4>2, <1>g DEF LoginAnswered, tabVars
    <3>2. CASE ~webCall[c].ok
      BY <1>4, <3>2, <1>a DEF LoginAnswered, WebType, tabVars
    <3> QED BY <3>1, <3>2
  <2> QED BY <1>4, <2>1, WebServed DEF LoginAnswered, Refresh, Answered, WebType
<1>5. ASSUME NEW c \in WebCalls, TenantAnswered(c) PROVE WebInv'
  <2>1. CASE webCall[c].ok
    <3>1. webCall[c].tenant \in Tenants \union {"none"}
      BY DEF WebType, WebCallType
    <3>2. /\ WebType' /\ FreshInv'
          /\ webCall'[c].tenant = webCall[c].tenant /\ webCall'[c].kind = "refresh"
      <4> DEFINE r == [Sent("refresh") EXCEPT !.tenant = webCall[c].tenant]
      <4>1. r \in WebCallType /\ r.kind = "refresh" /\ r.step = "sent" /\ ~r.fresh
            /\ r.tenant = webCall[c].tenant
        BY <3>1 DEF Sent, WebIdle, WebCallType, WebType
      <4>2. webCall' = [webCall EXCEPT ![c] = r] /\ issued' \in Nat
        BY <1>5, <2>1 DEF TenantAnswered, Refresh, WebType
      <4> HIDE DEF r
      <4> QED BY <1>5, <4>1, <4>2, <1>g DEF TenantAnswered
    <3>3. current' = webCall[c].tenant /\ stored' = current' /\ chosen' = current'
      BY <1>5, <2>1 DEF TenantAnswered, Choose
    <3>4. CurrentIsMember'
      BY <3>2, <3>3 DEF CurrentIsMember
    <3> QED BY <1>5, <2>1, <3>2, <3>3, <3>4
            DEF TenantAnswered, ChoiceLasts, PageKnowsSession, serverVars
  <2>2. CASE ~webCall[c].ok
    <3>1. WebType' /\ FreshInv'
      BY <1>5, <2>2, <1>a DEF TenantAnswered, WebType
    <3> QED BY <1>5, <2>2, <3>1, WebServed DEF TenantAnswered, Answered, WebType, tabVars
  <2> QED BY <2>1, <2>2
<1>6. ASSUME NEW c \in WebCalls, LogoutAnswered(c) PROVE WebInv'
  <2>1. WebType' /\ FreshInv'
    BY <1>6, <1>a DEF LogoutAnswered, Forget, WebType
  <2>2. CASE webCall[c].ok
    <3>1. PageKnowsSession'
      <4>1. ~moved' => webCall[c].fresh
        BY <1>6, <2>2 DEF LogoutAnswered
      <4>2. ~moved' => cookie' \notin accepted'
        BY <1>6, <4>1 DEF LogoutAnswered, FreshInv, serverVars
      <4>3. webUser' = FALSE /\ members' = {}
        BY <1>6, <2>2 DEF LogoutAnswered, Forget
      <4>4. ~moved' => (webUser' <=> cookie' \in accepted')
        BY <4>2, <4>3, Zenon
      <4>5. ~moved' => members' = IF cookie' \in accepted' THEN belongs' ELSE {}
        BY <4>2, <4>3
      <4> QED BY <4>4, <4>5 DEF PageKnowsSession
    <3> QED BY <1>6, <2>1, <2>2, <3>1 DEF LogoutAnswered, Forget, CurrentIsMember, ChoiceLasts
  <2>3. CASE ~webCall[c].ok
    BY <1>6, <2>1, <2>3, WebServed DEF LogoutAnswered, Answered, WebType, tabVars
  <2> QED BY <2>2, <2>3
<1>7. ASSUME NEW t \in Tenants, ChooseTenant(t) PROVE WebInv'
  BY <1>7 DEF ChooseTenant, Choose, WebType, FreshInv, CurrentIsMember, ChoiceLasts,
              PageKnowsSession, serverVars
<1>8. CASE ChangesElsewhere
  <2>1. WebType'
    BY <1>8, WebAged DEF ChangesElsewhere, WebType, tabVars
  <2> QED BY <1>8, <2>1, WebAged, WebServed DEF ChangesElsewhere, FreshInv
<1>9. CASE UNCHANGED webSessionVars
  BY <1>9, WebServed DEF webSessionVars, WebType, FreshInv, serverVars, tabVars
<1> QED BY <1>1, <1>2, <1>3, <1>4, <1>5, <1>6, <1>7, <1>8, <1>9, WebServe DEF WebSessionNext

\* The tab is in step: its tenant is a membership it knows and the one chosen last,
\* and it agrees with the server unless an answer came late or was lost
\* (SessionProvider), for any tenants and number of requests.
THEOREM TabAlwaysInStep == WebSessionSpec => []TabInStep
<1>1. WebSessionInit => WebInv
  <2> SUFFICES ASSUME WebSessionInit PROVE WebInv
    OBVIOUS
  <2>0. cookie \in Nat
    BY DEF WebSessionInit
  <2>1. WebIdle \in WebCallType
        /\ [WebIdle EXCEPT !.kind = "refresh", !.step = "sent", !.session = cookie]
             \in WebCallType
    BY <2>0 DEF WebIdle, WebCallType
  <2>2. WebType
    BY <2>1 DEF WebSessionInit, WebType, WebIdle
  <2>3. FreshInv
    BY DEF WebSessionInit, FreshInv, WebIdle
  <2> QED BY <2>2, <2>3 DEF WebSessionInit, WebInv, CurrentIsMember, ChoiceLasts, PageKnowsSession
<1> QED BY <1>1, WebStep, PTL DEF WebSessionSpec, WebInv, TabInStep
-----------------------------------------------------------------------------
(* Checkout *)

\* A cart: how many of each good.
CartType == [Goods -> Nat]

\* A tap on Charge that is under way.
TapType ==
  [step : {"idle", "enqueue", "decrement", "reload"}, lines : CartType, no : Nat,
   sale : Nat, todo : SUBSET Goods, mounted : BOOLEAN]

\* A queued sale.
SaleType ==
  [no : Nat, lines : CartType, state : {"queued", "applied", "lost"}, inside : BOOLEAN]

\* A table of variants, and the download.
TableType ==
  [rows : SUBSET Goods, left : [Goods -> Int], gross : [Goods -> Int], counted : SUBSET Nat,
   off : [Goods -> SUBSET Nat], strays : SUBSET Nat]
DownloadType ==
  [step : {"idle", "answered", "begun", "filling", "between", "customers"},
   page : SUBSET Goods, got : [Goods -> Int], counted : SUBSET Nat,
   saved : TableType, queued : SUBSET Nat, charged : SUBSET Nat]

\* The types.
CheckoutType ==
  /\ cart \in CartType /\ cartNo \in Nat
  /\ tap \in [Taps -> TapType]
  /\ sold \in Seq(SaleType)
  /\ closed \in [1..MaxCarts -> CartType]
  /\ onScreen \in TableType /\ cached \in TableType
  /\ download \in DownloadType
  /\ stocked \in [Goods -> Int]

\* A charge that has yet to queue its sale, or to empty the cart; one with a sale.
Selling(t) == tap[t].step \in {"enqueue", "decrement"}
Rung(t) == tap[t].step \in {"decrement", "reload"}

\* A charge and its own sale.
TapInv ==
  \A t \in Taps :
    /\ Rung(t) => /\ tap[t].sale \in Sales
                  /\ sold[tap[t].sale].lines = tap[t].lines
                  /\ sold[tap[t].sale].no = tap[t].no
    /\ ~Rung(t) => tap[t].sale = 0
    /\ tap[t].step # "decrement" => tap[t].todo = {}
    /\ \A v \in tap[t].todo : tap[t].lines[v] > 0
    /\ \A u \in Taps : Rung(t) /\ Rung(u) /\ tap[u].sale = tap[t].sale => u = t

\* lines is no more than the cart it was rung up from, which is on screen, or
\* was emptied, or is gone.
Within(a, b) == \A v \in Goods : a[v] <= b[v]
Fits(lines, no) ==
  /\ no <= cartNo
  /\ no = cartNo => Within(lines, cart)
  /\ no < cartNo /\ no \in 1..MaxCarts /\ closed[no] # EmptyCart => Within(lines, closed[no])

\* A charge and the cart: unless it was added to meanwhile, what is on screen is
\* what is charged.
ChargeInv ==
  \A t \in Taps : Selling(t) =>
    /\ tap[t].lines # EmptyCart /\ Fits(tap[t].lines, tap[t].no)
    /\ ~tap[t].mounted => tap[t].no < cartNo
    /\ tap[t].mounted /\ cart # EmptyCart /\ cartNo \notin touched =>
         tap[t].no = cartNo /\ tap[t].lines = cart

\* The sales; one of the cart on screen belongs to a charge that will empty it.
SoldInv ==
  \A k \in Sales :
    /\ sold[k].lines # EmptyCart /\ Fits(sold[k].lines, sold[k].no)
    /\ sold[k].state = "lost" => sold[k].inside
    /\ sold[k].no = cartNo /\ cartNo \notin broken =>
         \E t \in Taps : tap[t].step = "decrement" /\ tap[t].mounted /\ tap[t].no = cartNo

\* Of a cart there is one sale, or one charge that will queue one.
Twice == pressed \union broken
OnceInv ==
  /\ \A j, k \in Sales : sold[j].no = sold[k].no /\ sold[j].no \notin Twice => j = k
  /\ \A t \in Taps, k \in Sales :
       tap[t].step = "enqueue" /\ tap[t].no = sold[k].no => tap[t].no \in Twice
  /\ \A t, u \in Taps :
       tap[t].step = "enqueue" /\ tap[u].step = "enqueue" /\ tap[t].no = tap[u].no
         => tap[t].no \in Twice \/ t = u

\* A cart that was emptied is a sale.
ClosedInv ==
  /\ \A n \in 1..MaxCarts : n >= cartNo => closed[n] = EmptyCart
  /\ \A n \in (1..MaxCarts) \ touched : closed[n] # EmptyCart =>
       \E k \in Sales : sold[k].no = n /\ sold[k].lines = closed[n]

\* What a rollback may undo was queued inside the transaction.
InsideInv == \A k \in download.queued : k \in Sales /\ sold[k].inside

\* The inductive invariant.
CartInv == CheckoutType /\ TapInv /\ ChargeInv /\ SoldInv /\ OnceInv /\ ClosedInv /\ InsideInv

\* The empty cart and the idle tap have their types.
LEMMA EmptyCartType ==
  /\ EmptyCart \in CartType /\ TapIdle \in TapType
  /\ TapIdle.step = "idle" /\ TapIdle.sale = 0 /\ TapIdle.todo = {}
  BY DEF EmptyCart, CartType, TapIdle, TapType

\* A cart that is not more than the empty one is empty.
LEMMA EmptyWithin == ASSUME NEW a \in CartType, Within(a, EmptyCart) PROVE a = EmptyCart
<1>1. \A v \in Goods : a[v] = 0
  BY DEF Within, CartType, EmptyCart
<1> QED BY <1>1 DEF CartType, EmptyCart

\* Tables keep their type.
LEMMA TableTypes ==
  /\ EmptyTable \in TableType /\ OpeningTable \in TableType /\ OpeningStock \in [Goods -> Int]
  /\ \A table \in TableType, sales \in SUBSET Nat :
       /\ Astray(table, sales) \in TableType
       /\ Astray(table, sales).strays = table.strays \union sales
       /\ Astray(table, sales).rows = table.rows /\ Astray(table, sales).off = table.off
       /\ Astray(table, sales).left = table.left /\ Astray(table, sales).gross = table.gross
       /\ Astray(table, sales).counted = table.counted
<1>1. EmptyTable \in TableType /\ OpeningStock \in [Goods -> Int]
  BY CheckoutAssumption DEF EmptyTable, TableType, EmptyCart, OpeningStock
<1>2. OpeningTable \in TableType
  BY <1>1 DEF OpeningTable, TableType
<1> QED BY <1>1, <1>2 DEF Astray, TableType

\* No download is one.
LEMMA NoDownloadType ==
  /\ NoDownload \in DownloadType /\ NoDownload.queued = {} /\ NoDownload.charged = {}
  /\ NoDownload.step = "idle"
  BY TableTypes DEF NoDownload, DownloadType, EmptyCart

\* The types of what charges and sales carry.
LEMMA CarriedType ==
  ASSUME CheckoutType
  PROVE  /\ \A t \in Taps : tap[t].lines \in CartType /\ tap[t].no \in Nat /\ tap[t].sale \in Nat
                            /\ tap[t].todo \subseteq Goods
         /\ \A k \in Sales : sold[k] \in SaleType /\ sold[k].lines \in CartType /\ sold[k].no \in Nat
         /\ Sales = 1..Len(sold) /\ Len(sold) \in Nat /\ Sales \subseteq Nat
<1>1. \A t \in Taps : tap[t] \in TapType
  BY DEF CheckoutType
<1>2. Sales = 1..Len(sold) /\ Len(sold) \in Nat
  BY DEF CheckoutType, Sales
<1>3. \A k \in Sales : sold[k] \in SaleType
  BY <1>2 DEF CheckoutType
<1> QED BY <1>1, <1>2, <1>3 DEF TapType, SaleType

\* A sale more, at the end.
LEMMA SoldMore ==
  ASSUME CheckoutType, NEW s \in SaleType, sold' = Append(sold, s)
  PROVE  /\ sold' \in Seq(SaleType) /\ Sales' = Sales \union {Len(sold) + 1}
         /\ Len(sold) + 1 \notin Sales /\ Len(sold) + 1 \in Nat \ {0} /\ sold'[Len(sold) + 1] = s
         /\ \A n \in Sales : sold'[n] = sold[n]
<1>1. sold \in Seq(SaleType)
  BY DEF CheckoutType
<1>2. /\ sold' \in Seq(SaleType) /\ Len(sold') = Len(sold) + 1 /\ sold'[Len(sold) + 1] = s
      /\ \A n \in 1..Len(sold) : sold'[n] = sold[n]
  BY <1>1
<1>3. DOMAIN sold' = 1..(Len(sold) + 1) /\ Len(sold) \in Nat
  BY <1>1, <1>2
<1> QED BY <1>2, <1>3, CarriedType DEF Sales

\* A sale's state changes.
LEMMA SoldStates ==
  ASSUME CheckoutType, NEW S \in [Sales -> {"queued", "applied", "lost"}],
         sold' = [n \in Sales |-> [sold[n] EXCEPT !.state = S[n]]]
  PROVE  /\ sold' \in Seq(SaleType) /\ Sales' = Sales
         /\ \A n \in Sales : /\ sold'[n].no = sold[n].no /\ sold'[n].lines = sold[n].lines
                             /\ sold'[n].inside = sold[n].inside /\ sold'[n].state = S[n]
<1>1. \A n \in Sales : sold[n] \in SaleType
  BY CarriedType
<1>2. \A n \in Sales : /\ sold'[n] \in SaleType
                       /\ sold'[n].no = sold[n].no /\ sold'[n].lines = sold[n].lines
                       /\ sold'[n].inside = sold[n].inside /\ sold'[n].state = S[n]
  BY <1>1 DEF SaleType
<1>3. Sales' = Sales
  BY DEF Sales
<1>4. sold' \in Seq(SaleType)
  <2>1. Sales = 1..Len(sold) /\ Len(sold) \in Nat
    BY CarriedType
  <2> QED BY <1>2, <2>1
<1> QED BY <1>2, <1>3, <1>4

\* A rollback: sales queued in the transaction may be lost, tables keep their type.
LEMMA UndoTypes ==
  ASSUME CheckoutType, NEW S \in SUBSET Nat, Undo(S)
  PROVE  /\ cached' \in TableType /\ download' = NoDownload
         /\ sold' \in Seq(SaleType) /\ Sales' = Sales
         /\ \A n \in Sales :
              /\ sold'[n].no = sold[n].no /\ sold'[n].lines = sold[n].lines
              /\ sold'[n].inside = sold[n].inside
              /\ \/ sold'[n].state = sold[n].state
                 \/ sold'[n].state = "lost" /\ n \in download.queued
<1>1. PICK gone \in SUBSET {n \in download.queued : sold[n].state = "queued"} :
        sold' = [n \in Sales |-> IF n \in gone THEN [sold[n] EXCEPT !.state = "lost"]
                                               ELSE sold[n]]
  BY DEF Undo
<1> DEFINE s == [n \in Sales |-> IF n \in gone THEN "lost" ELSE sold[n].state]
<1>2. \A n \in Sales : sold[n] \in SaleType
  BY CarriedType
<1>3. s \in [Sales -> {"queued", "applied", "lost"}]
  BY <1>2 DEF SaleType
<1>4. \A n \in Sales : [sold[n] EXCEPT !.state = sold[n].state] = sold[n]
  BY <1>2 DEF SaleType
<1>5. sold' = [n \in Sales |-> [sold[n] EXCEPT !.state = s[n]]]
  BY <1>1, <1>4
<1> HIDE DEF s
<1>6. /\ sold' \in Seq(SaleType) /\ Sales' = Sales
      /\ \A n \in Sales :
           /\ sold'[n].no = sold[n].no /\ sold'[n].lines = sold[n].lines
           /\ sold'[n].inside = sold[n].inside /\ sold'[n].state = s[n]
  BY <1>3, <1>5, SoldStates
<1>7. cached' \in TableType
  <2>1. /\ download.saved \in TableType /\ cached \in TableType
        /\ download.queued \union download.charged \union S \in SUBSET Nat
    BY DEF CheckoutType, DownloadType
  <2> QED BY <2>1, TableTypes DEF Undo
<1> QED BY <1>1, <1>6, <1>7 DEF s, Undo

\* The types are kept by what the screen does.
LEMMA TillTypes ==
  ASSUME CheckoutType,
         \/ \E v \in Goods : AddToCart(v)
         \/ \E t \in Taps : Charge(t) \/ QueueSale(t) \/ EmptyAfter(t) \/ Reload(t)
         \/ Remount
  PROVE  CheckoutType'
<1>0. \A t \in Taps : tap[t] \in TapType
  BY DEF CheckoutType
<1>1. ASSUME NEW v \in Goods, AddToCart(v) PROVE CheckoutType'
  BY <1>1 DEF AddToCart, CheckoutType, CartType
<1>2. ASSUME NEW t \in Taps, Charge(t) PROVE CheckoutType'
  <2>1. [TapIdle EXCEPT !.step = "enqueue", !.lines = cart, !.no = cartNo] \in TapType
    BY DEF TapIdle, TapType, EmptyCart, CartType, CheckoutType
  <2> QED BY <1>2, <2>1 DEF Charge, CheckoutType
<1>3. ASSUME NEW t \in Taps, QueueSale(t) PROVE CheckoutType'
  <2> DEFINE s == [no |-> tap[t].no, lines |-> tap[t].lines, state |-> "queued",
                   inside |-> InTransaction]
             r == [tap[t] EXCEPT !.step = "decrement", !.sale = Len(sold) + 1,
                                 !.todo = {v \in Goods : tap[t].lines[v] > 0}]
  <2>1. s \in SaleType
    BY <1>0 DEF SaleType, TapType, InTransaction
  <2>2. sold' = Append(sold, s)
    BY <1>3 DEF QueueSale
  <2>3. sold' \in Seq(SaleType) /\ Len(sold) + 1 \in Nat
    BY <2>1, <2>2, SoldMore
  <2>4. r \in TapType
    BY <1>0, <2>3 DEF TapType
  <2>5. tap' = [tap EXCEPT ![t] = r]
    BY <1>0, <1>3 DEF QueueSale, CheckoutType, TapType
  <2>6. download' \in DownloadType
    BY <1>3, <2>3 DEF QueueSale, CheckoutType, DownloadType
  <2> QED BY <1>3, <2>3, <2>4, <2>5, <2>6 DEF QueueSale, CheckoutType, cartVars
<1>4. ASSUME NEW t \in Taps, EmptyAfter(t) PROVE CheckoutType'
  <2>1. cart' \in CartType
    BY <1>4, EmptyCartType DEF EmptyAfter, CartAfter, CheckoutType
  <2>2. closed' \in [1..MaxCarts -> CartType] /\ cartNo' \in Nat
    BY <1>4 DEF EmptyAfter, CheckoutType
  <2>3. tap' \in [Taps -> TapType]
    BY <1>0, <1>4 DEF EmptyAfter, CheckoutType, TapType
  <2> QED BY <1>4, <2>1, <2>2, <2>3 DEF EmptyAfter, CheckoutType
<1>5. ASSUME NEW t \in Taps, Reload(t) PROVE CheckoutType'
  BY <1>5, EmptyCartType DEF Reload, CheckoutType, cartVars
<1>6. ASSUME Remount PROVE CheckoutType'
  <2>1. tap' \in [Taps -> TapType]
    BY <1>0, <1>6 DEF Remount, CheckoutType, TapType
  <2> QED BY <1>6, <2>1, EmptyCartType DEF Remount, DropCart, CheckoutType
<1> QED BY <1>1, <1>2, <1>3, <1>4, <1>5, <1>6

\* And by what touches the table, the download and the server.
LEMMA StockTypes ==
  ASSUME CheckoutType,
         \/ \E t \in Taps : DecrementCached(t) \/ ChargeThrows(t)
         \/ KillApp \/ RollBack
         \/ FetchCatalog \/ FetchFails \/ Begin \/ DeleteCached \/ Commit
         \/ \E v \in Goods : InsertCached(v) \/ SoldElsewhere(v)
         \/ \E n \in Sales : ApplySale(n)
  PROVE  CheckoutType'
<1>0. /\ \A t \in Taps : tap[t] \in TapType /\ tap[t].sale \in Nat
      /\ Sales \subseteq Nat
  BY CarriedType DEF CheckoutType
<1>1. ASSUME NEW t \in Taps PROVE Charged(t) \in DownloadType
  BY <1>0 DEF Charged, CheckoutType, DownloadType
<1>2. ASSUME NEW t \in Taps, DecrementCached(t) PROVE CheckoutType'
  <2>1. PICK v \in tap[t].todo :
          /\ cached' = IF v \in cached.rows
                         THEN [cached EXCEPT !.left[v] = @ - TakenOff(t, v),
                                             !.off[v] = @ \union {tap[t].sale}]
                         ELSE cached
          /\ tap' = [tap EXCEPT ![t].todo = @ \ {v}]
    BY <1>2 DEF DecrementCached
  <2>2. v \in Goods /\ TakenOff(t, v) \in Int
    BY <1>0 DEF TapType, CartType, TakenOff
  <2>3. cached' \in TableType
    <3> DEFINE left == [cached.left EXCEPT ![v] = @ - TakenOff(t, v)]
               off == [cached.off EXCEPT ![v] = @ \union {tap[t].sale}]
    <3>1. cached \in TableType
      BY DEF CheckoutType
    <3>2. left \in [Goods -> Int] /\ off \in [Goods -> SUBSET Nat]
      BY <1>0, <2>2, <3>1 DEF TableType
    <3>3. [cached EXCEPT !.left = left, !.off = off] \in TableType
      BY <3>1, <3>2 DEF TableType
    <3>4. cached' = cached \/ cached' = [cached EXCEPT !.left = left, !.off = off]
      BY <2>1
    <3> QED BY <3>1, <3>3, <3>4
  <2>4. tap' \in [Taps -> TapType]
    BY <1>0, <2>1 DEF CheckoutType, TapType
  <2>5. onScreen' \in TableType
    BY <1>0, <1>2, TableTypes DEF DecrementCached, CheckoutType
  <2> QED BY <1>1, <1>2, <2>3, <2>4, <2>5 DEF DecrementCached, CheckoutType, cartVars
<1>3. ASSUME NEW t \in Taps, ChargeThrows(t) PROVE CheckoutType'
  <2>1. cached' \in TableType /\ onScreen' \in TableType
    BY <1>0, <1>3, TableTypes DEF ChargeThrows, CheckoutType
  <2> QED BY <1>1, <1>3, <2>1, EmptyCartType DEF ChargeThrows, CheckoutType
<1>4. ASSUME KillApp PROVE CheckoutType'
  <2>1. {tap[t].sale : t \in {u \in Taps : tap[u].todo # {}}} \in SUBSET Nat
    BY <1>0
  <2>2. cached' \in TableType /\ sold' \in Seq(SaleType) /\ download' \in DownloadType
    BY <1>4, <2>1, UndoTypes, NoDownloadType DEF KillApp
  <2> QED BY <1>4, <2>2, EmptyCartType DEF KillApp, DropCart, CheckoutType
<1>5. ASSUME RollBack PROVE CheckoutType'
  <2>1. cached' \in TableType /\ sold' \in Seq(SaleType) /\ download' \in DownloadType
    BY <1>5, UndoTypes, NoDownloadType DEF RollBack
  <2>2. onScreen' \in TableType
    BY <1>5, TableTypes DEF RollBack, CheckoutType, DownloadType
  <2> QED BY <1>5, <2>1, <2>2 DEF RollBack, CheckoutType, cartVars
<1>6. ASSUME FetchCatalog PROVE CheckoutType'
  <2>1. PICK page \in Pages :
          download' = [NoDownload EXCEPT !.step = "answered", !.page = page, !.got = stocked,
                                         !.counted = {n \in Sales : sold[n].state = "applied"}]
    BY <1>6 DEF FetchCatalog
  <2>2. download' \in DownloadType
    BY <1>0, <2>1, NoDownloadType, CheckoutAssumption DEF DownloadType, CheckoutType
  <2> QED BY <1>6, <2>2 DEF FetchCatalog, TillUnchanged, CheckoutType, cartVars
<1>7. ASSUME FetchFails PROVE CheckoutType'
  BY <1>7, NoDownloadType DEF FetchFails, TillUnchanged, CheckoutType, cartVars
<1>8. ASSUME Begin PROVE CheckoutType'
  BY <1>8 DEF Begin, TillUnchanged, CheckoutType, cartVars, DownloadType
<1>9. ASSUME DeleteCached PROVE CheckoutType'
  <2>1. cached' \in TableType
    BY <1>9, TableTypes DEF DeleteCached, CheckoutType, DownloadType, TableType
  <2>2. download' \in DownloadType
    BY <1>9 DEF DeleteCached, CheckoutType, DownloadType
  <2> QED BY <1>9, <2>1, <2>2 DEF DeleteCached, TillUnchanged, CheckoutType, cartVars
<1>10. ASSUME Commit PROVE CheckoutType'
  <2>1. download' \in DownloadType
    BY <1>10, NoDownloadType DEF Commit, DownloadType
  <2> QED BY <1>10, <2>1 DEF Commit, TillUnchanged, CheckoutType, cartVars
<1>11. ASSUME NEW v \in Goods, InsertCached(v) PROVE CheckoutType'
  <2>1. Astray(cached, Crossing(v)) \in TableType
    BY <1>0, TableTypes DEF Crossing, CheckoutType
  <2>2. download.got[v] \in Int
    BY DEF CheckoutType, DownloadType
  <2>3. cached' \in TableType
    BY <1>11, <2>1, <2>2 DEF InsertCached, TableType
  <2> QED BY <1>11, <2>3 DEF InsertCached, TillUnchanged, CheckoutType, cartVars
<1>12. ASSUME NEW v \in Goods, SoldElsewhere(v) PROVE CheckoutType'
  BY <1>12 DEF SoldElsewhere, CheckoutType, cartVars
<1>13. ASSUME NEW n \in Sales, ApplySale(n) PROVE CheckoutType'
  <2>1. \A k \in Sales : sold[k] \in SaleType
    BY CarriedType
  <2>2. sold' \in Seq(SaleType)
    <3> DEFINE s == [k \in Sales |-> IF k = n THEN "applied" ELSE sold[k].state]
    <3>1. s \in [Sales -> {"queued", "applied", "lost"}]
      BY <2>1 DEF SaleType
    <3>2. \A k \in Sales : [sold[k] EXCEPT !.state = sold[k].state] = sold[k]
      BY <2>1 DEF SaleType
    <3>3. sold' = [k \in Sales |-> [sold[k] EXCEPT !.state = s[k]]]
      BY <1>13, <3>2 DEF ApplySale, Sales, CheckoutType
    <3> QED BY <3>1, <3>3, SoldStates
  <2>3. stocked' \in [Goods -> Int]
    BY <1>13, <2>1 DEF ApplySale, CheckoutType, SaleType, CartType
  <2> QED BY <1>13, <2>2, <2>3 DEF ApplySale, CheckoutType, cartVars
<1> QED BY <1>2, <1>3, <1>4, <1>5, <1>6, <1>7, <1>8, <1>9, <1>10, <1>11, <1>12, <1>13

\* What sold knows of sales is the same; none is lost but of the transaction.
SoldStill ==
  /\ sold' \in Seq(SaleType) /\ Sales' = Sales
  /\ \A n \in Sales :
       /\ sold'[n].no = sold[n].no /\ sold'[n].lines = sold[n].lines
       /\ sold'[n].inside = sold[n].inside
       /\ sold'[n].state = "lost" => sold[n].state = "lost" \/ n \in download.queued

\* What a cart fits, it fits on.
LEMMA FitsOn ==
  ASSUME CheckoutType, ClosedInv, NEW l \in CartType, NEW n \in Nat, Fits(l, n),
         \/ UNCHANGED <<cart, cartNo, closed>>
         \/ UNCHANGED <<cartNo, closed>> /\ Within(cart, cart') /\ cart' \in CartType
         \/ cartNo' = cartNo + 1 /\ closed' \in {closed, [closed EXCEPT ![cartNo] = cart]}
  PROVE  Fits(l, n)'
<1>1. CASE UNCHANGED <<cart, cartNo, closed>>
  BY <1>1 DEF Fits
<1>2. CASE UNCHANGED <<cartNo, closed>> /\ Within(cart, cart') /\ cart' \in CartType
  <2>1. Within(l, cart) => Within(l, cart')
    BY <1>2 DEF Within, CartType, CheckoutType
  <2> QED BY <1>2, <2>1 DEF Fits
<1>3. CASE cartNo' = cartNo + 1 /\ closed' = closed
  BY <1>3 DEF Fits, ClosedInv, CheckoutType
<1>4. CASE cartNo' = cartNo + 1 /\ closed' = [closed EXCEPT ![cartNo] = cart]
  <2>1. \A m \in 1..MaxCarts : closed'[m] = IF m = cartNo THEN cart ELSE closed[m]
    BY <1>4 DEF CheckoutType
  <2> QED BY <1>4, <2>1 DEF Fits, CheckoutType
<1> QED BY <1>1, <1>2, <1>3, <1>4

\* A charge on screen holds the cart.
LEMMA OnScreenCharging ==
  ASSUME NEW t \in Taps, Selling(t), tap[t].mounted
  PROVE  Charging # {}
  BY DEF Selling, Charging, UnderWay

\* The cart on screen is not empty when a sale or a charge of it is there.
LEMMA CartThere ==
  ASSUME CartInv
  PROVE  /\ \A k \in Sales : sold[k].no = cartNo => cart # EmptyCart
         /\ \A t \in Taps : Selling(t) /\ tap[t].no = cartNo => cart # EmptyCart
<1>1. ASSUME NEW k \in Sales, sold[k].no = cartNo PROVE cart # EmptyCart
  <2>1. sold[k].lines \in CartType /\ sold[k].lines # EmptyCart /\ Within(sold[k].lines, cart)
    BY <1>1, CarriedType DEF CartInv, SoldInv, Fits
  <2> QED BY <2>1, EmptyWithin
<1>2. ASSUME NEW t \in Taps, Selling(t), tap[t].no = cartNo PROVE cart # EmptyCart
  <2>1. tap[t].lines \in CartType /\ tap[t].lines # EmptyCart /\ Within(tap[t].lines, cart)
    BY <1>2, CarriedType DEF CartInv, ChargeInv, Fits
  <2> QED BY <2>1, EmptyWithin
<1> QED BY <1>1, <1>2

\* A charge ends, or it goes on, perhaps without its screen.
TapFades(t) ==
  \/ tap'[t].step = "idle" /\ tap'[t].sale = 0 /\ tap'[t].todo = {}
  \/ /\ tap'[t].step = tap[t].step /\ tap'[t].lines = tap[t].lines
     /\ tap'[t].no = tap[t].no /\ tap'[t].sale = tap[t].sale
     /\ tap'[t].todo \subseteq tap[t].todo /\ (tap'[t].mounted => tap[t].mounted)

\* Its screen stays, and so does the charge, or else the cart is one of a charge
\* that broke off.
TapStays(t) ==
  \/ tap'[t].step = "idle" /\ (tap[t].step = "decrement" => tap[t].no \in broken')
  \/ tap'[t].step = tap[t].step /\ (tap'[t].mounted <=> tap[t].mounted)

\* Nothing is rung up: charges end or go on, sales may be lost, and the cart is
\* what it was, or goes with its screen.
LEMMA TapsFade ==
  ASSUME CartInv, CheckoutType', SoldStill, UNCHANGED <<closed, pressed, touched>>,
         broken \subseteq broken', download'.queued \subseteq download.queued,
         \A t \in Taps : TapFades(t),
         \/ UNCHANGED <<cart, cartNo>> /\ (cart = EmptyCart \/ \A t \in Taps : TapStays(t))
         \/ cart' = EmptyCart /\ cartNo' = cartNo + 1
  PROVE  CartInv'
<1> USE DEF CartInv
<1>1. TapInv'
  BY DEF TapInv, SoldStill, Rung, TapFades
<1>2. \A l \in CartType, n \in Nat : Fits(l, n) => Fits(l, n)'
  BY FitsOn
<1>3. \A t \in Taps : Selling(t)' => Selling(t) /\ tap'[t].lines = tap[t].lines
                                     /\ tap'[t].no = tap[t].no
                                     /\ (tap'[t].mounted => tap[t].mounted)
  BY DEF Selling, TapFades
<1>4. ChargeInv'
  <2> SUFFICES ASSUME NEW t \in Taps, Selling(t)'
               PROVE  /\ tap[t].lines # EmptyCart
                      /\ Fits(tap[t].lines, tap[t].no)'
                      /\ ~tap'[t].mounted => tap[t].no < cartNo'
                      /\ tap'[t].mounted /\ cart' # EmptyCart /\ cartNo' \notin touched =>
                           tap[t].no = cartNo' /\ tap[t].lines = cart'
    BY <1>3 DEF ChargeInv
  <2>1. /\ Selling(t) /\ tap[t].lines # EmptyCart /\ Fits(tap[t].lines, tap[t].no)
        /\ ~tap[t].mounted => tap[t].no < cartNo
        /\ tap[t].mounted /\ cart # EmptyCart /\ cartNo \notin touched =>
             tap[t].no = cartNo /\ tap[t].lines = cart
    BY <1>3 DEF ChargeInv
  <2>2. Fits(tap[t].lines, tap[t].no)'
    <3>1. \A l \in CartType, n \in Nat : Fits(l, n)' => Fits(l, n)'
      OBVIOUS
    <3>2. PICK l \in CartType, n \in Nat : l = tap[t].lines /\ n = tap[t].no
      BY CarriedType
    <3>3. Fits(l, n)'
      BY <1>2, <2>1, <3>2
    <3> QED BY <1>3, <3>2, <3>3
  <2>3. tap[t].no <= cartNo /\ tap[t].no \in Nat /\ cartNo \in Nat
        /\ (cart = EmptyCart => tap[t].no # cartNo)
    BY <2>1, CarriedType, CartThere DEF Fits, CheckoutType
  <2>4. CASE UNCHANGED <<cart, cartNo>> /\ cart = EmptyCart
    BY <2>1, <2>2, <2>3, <2>4
  <2>5. CASE UNCHANGED <<cart, cartNo>> /\ TapStays(t)
    BY <1>3, <2>1, <2>2, <2>5 DEF TapStays, Selling
  <2>6. CASE cart' = EmptyCart /\ cartNo' = cartNo + 1
    BY <2>1, <2>2, <2>3, <2>6
  <2> QED BY <2>4, <2>5, <2>6
<1>5. SoldInv'
  <2> SUFFICES ASSUME NEW k \in Sales
               PROVE  /\ sold[k].lines # EmptyCart /\ Fits(sold[k].lines, sold[k].no)'
                      /\ sold'[k].state = "lost" => sold[k].inside
                      /\ sold[k].no = cartNo' /\ cartNo' \notin broken' =>
                           \E t \in Taps : /\ tap'[t].step = "decrement"
                                           /\ tap'[t].mounted /\ tap'[t].no = cartNo'
    BY DEF SoldInv, SoldStill
  <2>1. /\ sold[k].lines # EmptyCart /\ Fits(sold[k].lines, sold[k].no)
        /\ sold[k].no \in Nat /\ sold[k].no <= cartNo /\ cartNo \in Nat
    BY CarriedType DEF SoldInv, Fits, CheckoutType
  <2>2. Fits(sold[k].lines, sold[k].no)'
    <3>1. PICK l \in CartType, n \in Nat : l = sold[k].lines /\ n = sold[k].no
      BY CarriedType
    <3>2. Fits(l, n)'
      BY <1>2, <2>1, <3>1
    <3>3. sold'[k].lines = l /\ sold'[k].no = n
      BY <3>1 DEF SoldStill
    <3> QED BY <3>2, <3>3
  <2>3. sold'[k].state = "lost" => sold[k].inside
    BY DEF SoldInv, SoldStill, InsideInv
  <2>4. CASE UNCHANGED <<cart, cartNo>> /\ cart = EmptyCart
    BY <2>1, <2>2, <2>3, <2>4, CartThere
  <2>5. CASE UNCHANGED <<cart, cartNo>> /\ \A t \in Taps : TapStays(t)
    <3>1. ASSUME sold[k].no = cartNo, cartNo \notin broken'
          PROVE  \E t \in Taps : /\ tap'[t].step = "decrement"
                                 /\ tap'[t].mounted /\ tap'[t].no = cartNo
      <4>1. PICK t \in Taps : tap[t].step = "decrement" /\ tap[t].mounted /\ tap[t].no = cartNo
        BY <3>1 DEF SoldInv
      <4> QED BY <2>5, <3>1, <4>1 DEF TapStays, TapFades
    <3> QED BY <2>1, <2>2, <2>3, <2>5, <3>1
  <2>6. CASE cart' = EmptyCart /\ cartNo' = cartNo + 1
    BY <2>1, <2>2, <2>3, <2>6
  <2> QED BY <2>4, <2>5, <2>6
<1>6. OnceInv'
  BY DEF OnceInv, SoldStill, Twice, TapFades
<1>7. ClosedInv'
  <2>1. \A n \in 1..MaxCarts : n >= cartNo' => closed'[n] = EmptyCart
    BY DEF ClosedInv, CheckoutType
  <2>2. ASSUME NEW n \in (1..MaxCarts) \ touched, closed[n] # EmptyCart
        PROVE  \E k \in Sales : sold'[k].no = n /\ sold'[k].lines = closed[n]
    BY <2>2 DEF ClosedInv, SoldStill
  <2> QED BY <2>1, <2>2 DEF ClosedInv, SoldStill
<1>8. InsideInv'
  BY DEF InsideInv, SoldStill
<1> QED BY <1>1, <1>4, <1>5, <1>6, <1>7, <1>8

\* A good is added to the cart.
LEMMA AddToCartInv == ASSUME CartInv, NEW v \in Goods, AddToCart(v) PROVE CartInv'
<1> USE DEF CartInv
<1>0. /\ UNCHANGED <<cartNo, tap, sold, closed, download, pressed, broken>>
      /\ touched \subseteq touched' /\ (Charging # {} => cartNo \in touched')
      /\ cart' = [cart EXCEPT ![v] = @ + 1]
  BY DEF AddToCart
<1>1. cart' \in CartType /\ Within(cart, cart')
  BY <1>0 DEF CheckoutType, CartType, Within
<1>2. CheckoutType'
  BY TillTypes
<1>3. \A l \in CartType, n \in Nat : Fits(l, n) => Fits(l, n)'
  BY <1>0, <1>1, FitsOn
<1>4. ChargeInv'
  BY <1>0, <1>3, OnScreenCharging, CarriedType DEF ChargeInv, Selling
<1>5. SoldInv'
  BY <1>0, <1>3, CarriedType DEF SoldInv, Sales
<1>6. TapInv' /\ OnceInv' /\ InsideInv'
  BY <1>0 DEF TapInv, Rung, OnceInv, Twice, InsideInv, Sales
<1>7. ClosedInv'
  BY <1>0 DEF ClosedInv, Sales
<1> QED BY <1>2, <1>4, <1>5, <1>6, <1>7

\* Charge is tapped.
LEMMA ChargeStep == ASSUME CartInv, NEW t \in Taps, Charge(t) PROVE CartInv'
<1> USE DEF CartInv
<1> DEFINE r == [TapIdle EXCEPT !.step = "enqueue", !.lines = cart, !.no = cartNo]
<1>0. /\ UNCHANGED <<cart, cartNo, sold, closed, download, touched, broken>>
      /\ pressed \subseteq pressed' /\ (Charging # {} => cartNo \in pressed')
      /\ tap' = [tap EXCEPT ![t] = r] /\ cart # EmptyCart /\ tap[t].step = "idle"
  BY DEF Charge
<1>1. /\ r \in TapType /\ r.step = "enqueue" /\ r.lines = cart /\ r.no = cartNo
      /\ r.mounted /\ r.sale = 0 /\ r.todo = {}
  BY DEF TapIdle, TapType, EmptyCart, CartType, CheckoutType
<1> HIDE DEF r
<1>2. /\ tap' \in [Taps -> TapType] /\ tap'[t] = r
      /\ \A u \in Taps \ {t} : tap'[u] = tap[u]
  BY <1>0, <1>1 DEF CheckoutType
<1>3. CheckoutType'
  BY TillTypes
<1>4. TapInv'
  BY <1>0, <1>1, <1>2 DEF TapInv, Rung, Sales
<1>5. \A l, n : Fits(l, n)' <=> Fits(l, n)
  BY <1>0 DEF Fits
<1>6. Fits(cart, cartNo)
  BY DEF Fits, CheckoutType, CartType, Within
<1>7. ChargeInv'
  BY <1>0, <1>1, <1>2, <1>5, <1>6 DEF ChargeInv, Selling
<1>8. SoldInv'
  BY <1>0, <1>2, <1>5 DEF SoldInv, Sales
<1>9. OnceInv'
  <2>1. Twice \subseteq Twice' /\ (Charging # {} => cartNo \in Twice')
    BY <1>0 DEF Twice
  <2>2. ASSUME NEW k \in Sales, sold[k].no = cartNo PROVE cartNo \in Twice'
    BY <1>0, <2>1, <2>2, OnScreenCharging DEF SoldInv, Selling, Twice
  <2>3. ASSUME NEW u \in Taps, tap[u].step = "enqueue", tap[u].no = cartNo PROVE cartNo \in Twice'
    BY <2>1, <2>3, OnScreenCharging DEF ChargeInv, Selling, CheckoutType
  <2> QED BY <1>0, <1>1, <1>2, <2>1, <2>2, <2>3 DEF OnceInv, Sales
<1>10. ClosedInv' /\ InsideInv'
  BY <1>0 DEF ClosedInv, InsideInv, Sales
<1> QED BY <1>3, <1>4, <1>7, <1>8, <1>9, <1>10

\* The sale is queued.
LEMMA QueueSaleInv == ASSUME CartInv, NEW t \in Taps, QueueSale(t) PROVE CartInv'
<1> USE DEF CartInv
<1>k. PICK k : k = Len(sold) + 1
  OBVIOUS
<1> DEFINE s == [no |-> tap[t].no, lines |-> tap[t].lines, state |-> "queued",
                 inside |-> InTransaction]
           r == [tap[t] EXCEPT !.step = "decrement", !.sale = k,
                               !.todo = {v \in Goods : tap[t].lines[v] > 0}]
<1>0. /\ UNCHANGED <<cart, cartNo, closed, pressed, touched, broken>>
      /\ sold' = Append(sold, s) /\ tap[t].step = "enqueue"
      /\ download' = IF InTransaction
                       THEN [download EXCEPT !.queued = @ \union {k}] ELSE download
  BY <1>k DEF QueueSale, cartVars
<1>1. tap' = [tap EXCEPT ![t] = r]
  BY <1>k DEF QueueSale, CheckoutType, TapType
<1>2. /\ r \in TapType /\ r.step = "decrement" /\ r.lines = tap[t].lines
      /\ r.no = tap[t].no /\ r.mounted = tap[t].mounted /\ r.sale = k
      /\ r.todo = {v \in Goods : tap[t].lines[v] > 0}
  <2>1. tap[t] \in TapType /\ k \in Nat
    BY <1>k, CarriedType DEF CheckoutType
  <2> QED BY <2>1 DEF TapType
<1>3. s \in SaleType /\ s.no = tap[t].no /\ s.lines = tap[t].lines /\ s.state = "queued"
      /\ s.inside = InTransaction /\ InTransaction \in BOOLEAN
  <2>1. InTransaction \in BOOLEAN
    BY DEF InTransaction
  <2> QED BY <2>1, CarriedType DEF SaleType
<1>4. /\ sold' \in Seq(SaleType) /\ Sales' = Sales \union {k} /\ k \notin Sales /\ k # 0
      /\ sold'[k] = s /\ \A n \in Sales : sold'[n] = sold[n]
  BY <1>0, <1>3, <1>k, SoldMore
<1> HIDE DEF r, s
<1>5. /\ tap' \in [Taps -> TapType] /\ tap'[t] = r
      /\ \A u \in Taps \ {t} : tap'[u] = tap[u]
  BY <1>1, <1>2 DEF CheckoutType
<1>6. CheckoutType'
  BY TillTypes
<1>7. TapInv'
  BY <1>2, <1>3, <1>4, <1>5 DEF TapInv, Rung
<1>8. \A l, n : Fits(l, n)' <=> Fits(l, n)
  BY <1>0 DEF Fits
<1>9. ChargeInv'
  BY <1>0, <1>2, <1>5, <1>8 DEF ChargeInv, Selling
<1>10. SoldInv'
  <2>1. /\ r.lines # EmptyCart /\ Fits(tap[t].lines, tap[t].no)'
        /\ ~r.mounted => r.no < cartNo
    BY <1>0, <1>2, <1>5, <1>8 DEF ChargeInv, Selling
  <2>2. ASSUME NEW n \in Sales
        PROVE  /\ sold[n].lines # EmptyCart /\ Fits(sold[n].lines, sold[n].no)'
               /\ sold[n].state = "lost" => sold[n].inside
               /\ sold[n].no = cartNo /\ cartNo \notin broken =>
                    \E u \in Taps : tap'[u].step = "decrement" /\ tap'[u].mounted /\ tap'[u].no = cartNo
    BY <1>0, <1>4, <1>5, <1>8 DEF SoldInv
  <2>3. r.no = cartNo =>
          \E u \in Taps : tap'[u].step = "decrement" /\ tap'[u].mounted /\ tap'[u].no = cartNo
    BY <1>2, <1>5, <2>1 DEF CheckoutType
  <2>4. sold'[k].lines = tap'[t].lines /\ sold'[k].no = tap'[t].no /\ sold'[k].state # "lost"
    BY <1>2, <1>3, <1>4, <1>5
  <2>5. cartNo' = cartNo /\ broken' = broken
    BY <1>0
  <2> SUFFICES ASSUME NEW n \in Sales'
               PROVE  /\ sold'[n].lines # EmptyCart /\ Fits(sold[n].lines, sold[n].no)'
                      /\ sold'[n].state = "lost" => sold'[n].inside
                      /\ sold'[n].no = cartNo /\ cartNo \notin broken =>
                           \E u \in Taps : /\ tap'[u].step = "decrement"
                                           /\ tap'[u].mounted /\ tap'[u].no = cartNo
    BY <2>5 DEF SoldInv
  <2>6. CASE n \in Sales /\ sold'[n] = sold[n]
    BY <2>2, <2>6
  <2>7. CASE n = k
    <3>1. sold'[k].lines = r.lines /\ sold'[k].no = r.no
      BY <1>5, <2>4
    <3>2. Fits(sold[k].lines, sold[k].no)'
      BY <2>1, <2>4 DEF Fits
    <3> QED BY <2>1, <2>3, <2>4, <2>7, <3>1, <3>2
  <2> QED BY <1>4, <2>6, <2>7
<1>11. OnceInv'
  <2>1. Twice' = Twice
    BY <1>0 DEF Twice
  <2>2. \A n \in Sales' : \/ n \in Sales /\ sold'[n] = sold[n]
                          \/ n = k /\ sold'[n].no = tap[t].no
    <3>1. sold'[k].no = tap[t].no
      BY <1>3, <1>4
    <3> SUFFICES ASSUME NEW n \in Sales', n # k PROVE n \in Sales /\ sold'[n] = sold[n]
      BY <3>1
    <3> QED BY <1>4
  <2>3. \A u \in Taps : tap'[u].step = "enqueue" => u # t /\ tap'[u] = tap[u]
    BY <1>2, <1>5
  <2>4. \A i, j \in Sales' : sold'[i].no = sold'[j].no /\ sold'[i].no \notin Twice => i = j
    <3> TAKE i, j \in Sales'
    <3>1. CASE i \in Sales /\ sold'[i] = sold[i] /\ j \in Sales /\ sold'[j] = sold[j]
      BY <3>1 DEF OnceInv
    <3>2. ASSUME NEW n \in Sales, sold[n].no = tap[t].no PROVE tap[t].no \in Twice
      BY <1>0, <3>2 DEF OnceInv
    <3> QED BY <2>2, <3>1, <3>2
  <2>5. \A u \in Taps, j \in Sales' :
          tap'[u].step = "enqueue" /\ tap'[u].no = sold'[j].no => tap'[u].no \in Twice
    <3> TAKE u \in Taps, j \in Sales'
    <3> HAVE tap'[u].step = "enqueue" /\ tap'[u].no = sold'[j].no
    <3>1. u # t /\ tap'[u] = tap[u]
      BY <2>3
    <3>2. CASE j \in Sales /\ sold'[j] = sold[j]
      BY <3>1, <3>2 DEF OnceInv
    <3>3. CASE sold'[j].no = tap[t].no
      BY <1>0, <3>1, <3>3 DEF OnceInv
    <3> QED BY <2>2, <3>2, <3>3
  <2>6. \A u, w \in Taps :
          tap'[u].step = "enqueue" /\ tap'[w].step = "enqueue" /\ tap'[u].no = tap'[w].no
            => tap'[u].no \in Twice \/ u = w
    BY <2>3 DEF OnceInv
  <2> QED BY <2>1, <2>4, <2>5, <2>6 DEF OnceInv
<1>12. ClosedInv'
  <2>1. \A n \in Sales : n \in Sales' /\ sold'[n].no = sold[n].no /\ sold'[n].lines = sold[n].lines
    BY <1>4
  <2>2. cartNo' = cartNo /\ closed' = closed /\ touched' = touched
    BY <1>0
  <2>3. ASSUME NEW n \in (1..MaxCarts) \ touched, closed[n] # EmptyCart
        PROVE  \E j \in Sales' : sold'[j].no = n /\ sold'[j].lines = closed[n]
    BY <2>1, <2>3 DEF ClosedInv
  <2> QED BY <2>2, <2>3 DEF ClosedInv
<1>13. InsideInv'
  <2>1. CASE InTransaction
    <3>1. download \in DownloadType
      BY DEF CheckoutType
    <3>2. download'.queued = download.queued \union {k}
      BY <1>0, <2>1, <3>1 DEF DownloadType
    <3>3. sold'[k].inside
      BY <1>3, <1>4, <2>1
    <3> QED BY <1>4, <3>2, <3>3 DEF InsideInv
  <2>2. CASE ~InTransaction
    BY <1>0, <1>4, <2>2 DEF InsideInv
  <2> QED BY <2>1, <2>2
<1> QED BY <1>6, <1>7, <1>9, <1>10, <1>11, <1>12, <1>13

\* The cart is emptied.
LEMMA EmptyAfterInv == ASSUME CartInv, NEW t \in Taps, EmptyAfter(t) PROVE CartInv'
<1> USE DEF CartInv
<1>0. /\ UNCHANGED <<sold, download, pressed, touched, broken>> /\ tap[t].step = "decrement"
      /\ tap[t].todo = {}
  BY DEF EmptyAfter
<1>1. CheckoutType'
  BY TillTypes
<1>2. /\ \A u \in Taps : /\ tap'[u].lines = tap[u].lines /\ tap'[u].no = tap[u].no
                         /\ tap'[u].sale = tap[u].sale /\ tap'[u].todo = tap[u].todo
                         /\ (tap'[u].mounted <=> tap[u].mounted)
                         /\ (u # t => tap'[u].step = tap[u].step)
      /\ tap'[t].step = "reload"
  BY DEF EmptyAfter, CheckoutType, TapType
<1>3. TapInv'
  BY <1>0, <1>2 DEF TapInv, Rung, Sales
<1>4. OnceInv' /\ InsideInv'
  BY <1>0, <1>2 DEF OnceInv, Twice, InsideInv, Sales
<1>5. CASE tap[t].mounted /\ cart # EmptyCart
  <2>1. cart' = EmptyCart /\ cartNo' = cartNo + 1 /\ closed' = [closed EXCEPT ![cartNo] = cart]
    BY <1>5 DEF EmptyAfter, CartAfter
  <2>2. \A l \in CartType, n \in Nat : Fits(l, n) => Fits(l, n)'
    BY <2>1, FitsOn
  <2>3. ChargeInv'
    <3> SUFFICES ASSUME NEW u \in Taps, Selling(u)'
                 PROVE  /\ tap[u].lines # EmptyCart /\ Fits(tap[u].lines, tap[u].no)'
                        /\ tap[u].no < cartNo'
      BY <1>2, <2>1 DEF ChargeInv
    <3>1. Selling(u) /\ tap[u].lines \in CartType /\ tap[u].no \in Nat
      BY <1>2, CarriedType DEF Selling
    <3>2. tap[u].lines # EmptyCart /\ Fits(tap[u].lines, tap[u].no)
      BY <3>1 DEF ChargeInv
    <3>3. PICK l \in CartType, n \in Nat : l = tap[u].lines /\ n = tap[u].no
      BY <3>1
    <3>4. Fits(l, n)'
      BY <2>2, <3>2, <3>3
    <3>5. tap[u].no < cartNo'
      BY <2>1, <3>1, <3>2 DEF Fits, CheckoutType
    <3> QED BY <1>2, <3>2, <3>3, <3>4, <3>5
  <2>4. SoldInv'
    <3> SUFFICES ASSUME NEW k \in Sales
                 PROVE  /\ sold[k].lines # EmptyCart /\ Fits(sold[k].lines, sold[k].no)'
                        /\ sold[k].state = "lost" => sold[k].inside
                        /\ sold[k].no # cartNo'
      BY <1>0 DEF SoldInv, Sales
    <3>1. /\ sold[k].lines # EmptyCart /\ Fits(sold[k].lines, sold[k].no)
          /\ sold[k].state = "lost" => sold[k].inside
      BY DEF SoldInv
    <3>2. PICK l \in CartType, n \in Nat : l = sold[k].lines /\ n = sold[k].no
      BY CarriedType
    <3>3. Fits(l, n)'
      BY <2>2, <3>1, <3>2
    <3>4. sold[k].no # cartNo'
      BY <2>1, <3>1, CarriedType DEF Fits, CheckoutType
    <3> QED BY <1>0, <3>1, <3>2, <3>3, <3>4
  <2>5. ClosedInv'
    <3>1. \A n \in 1..MaxCarts : closed'[n] = IF n = cartNo THEN cart ELSE closed[n]
      BY <2>1 DEF CheckoutType
    <3>2. \A n \in 1..MaxCarts : n >= cartNo' => closed'[n] = EmptyCart
      BY <2>1, <3>1 DEF ClosedInv, CheckoutType
    <3>3. ASSUME NEW n \in (1..MaxCarts) \ touched, closed'[n] # EmptyCart
          PROVE  \E k \in Sales : sold[k].no = n /\ sold[k].lines = closed'[n]
      <4>1. CASE n = cartNo
        <5>1. tap[t].no = cartNo /\ tap[t].lines = cart
          BY <1>0, <1>5, <4>1 DEF ChargeInv, Selling
        <5>2. /\ tap[t].sale \in Sales /\ sold[tap[t].sale].lines = tap[t].lines
              /\ sold[tap[t].sale].no = tap[t].no
          BY <1>0 DEF TapInv, Rung
        <5> QED BY <3>1, <4>1, <5>1, <5>2
      <4>2. CASE n # cartNo
        BY <3>1, <3>3, <4>2 DEF ClosedInv
      <4> QED BY <4>1, <4>2
    <3> QED BY <1>0, <3>2, <3>3 DEF ClosedInv, Sales
  <2> QED BY <1>1, <1>3, <1>4, <2>3, <2>4, <2>5
<1>6. CASE ~(tap[t].mounted /\ cart # EmptyCart)
  <2>1. UNCHANGED <<cart, cartNo, closed>>
    BY <1>6 DEF EmptyAfter, CartAfter
  <2>2. \A l, n : Fits(l, n)' <=> Fits(l, n)
    BY <2>1 DEF Fits
  <2>3. ChargeInv'
    BY <1>0, <1>2, <2>1, <2>2 DEF ChargeInv, Selling
  <2>4. SoldInv'
    <3> SUFFICES ASSUME NEW k \in Sales
                 PROVE  /\ sold[k].lines # EmptyCart /\ Fits(sold[k].lines, sold[k].no)'
                        /\ sold[k].state = "lost" => sold[k].inside
                        /\ sold[k].no = cartNo /\ cartNo \notin broken =>
                             \E u \in Taps : /\ tap'[u].step = "decrement"
                                             /\ tap'[u].mounted /\ tap'[u].no = cartNo
      BY <1>0, <2>1 DEF SoldInv, Sales
    <3>1. /\ sold[k].lines # EmptyCart /\ Fits(sold[k].lines, sold[k].no)'
          /\ sold[k].state = "lost" => sold[k].inside
      BY <1>0, <2>2 DEF SoldInv
    <3>2. ASSUME sold[k].no = cartNo, cartNo \notin broken
          PROVE  \E u \in Taps : /\ tap'[u].step = "decrement"
                                 /\ tap'[u].mounted /\ tap'[u].no = cartNo
      <4>1. PICK u \in Taps : tap[u].step = "decrement" /\ tap[u].mounted /\ tap[u].no = cartNo
        BY <3>2 DEF SoldInv
      <4>2. u # t
        BY <1>6, <3>2, <4>1, CartThere
      <4> QED BY <1>2, <4>1, <4>2
    <3> QED BY <3>1, <3>2
  <2>5. ClosedInv'
    BY <1>0, <2>1 DEF ClosedInv, Sales
  <2> QED BY <1>1, <1>3, <1>4, <2>3, <2>4, <2>5
<1> QED BY <1>5, <1>6

\* What a step leaves of a charge.
LEMMA TapSame == ASSUME NEW t \in Taps, tap'[t] = tap[t] PROVE TapFades(t) /\ TapStays(t)
  BY DEF TapFades, TapStays

\* Sales that do not change are the same.
LEMMA SoldSame == ASSUME CheckoutType, sold' = sold PROVE SoldStill
  BY DEF SoldStill, CheckoutType, Sales

\* The other steps of a charge, and what ends it.
LEMMA ChargeOnInv ==
  ASSUME CartInv, NEW t \in Taps, DecrementCached(t) \/ Reload(t) \/ ChargeThrows(t)
  PROVE  CartInv'
<1> USE DEF CartInv
<1>1. CheckoutType'
  BY TillTypes, StockTypes
<1>2. SoldStill /\ UNCHANGED <<cart, cartNo, closed, pressed, touched>> /\ broken \subseteq broken'
  BY SoldSame DEF DecrementCached, Reload, ChargeThrows, cartVars
<1>3. download'.queued \subseteq download.queued
  <2>1. download \in DownloadType
    BY DEF CheckoutType
  <2>2. Charged(t).queued = download.queued
    BY <2>1 DEF Charged, DownloadType
  <2> QED BY <2>2 DEF DecrementCached, Reload, ChargeThrows
<1>4. \A u \in Taps : TapFades(u) /\ TapStays(u)
  <2>1. CASE DecrementCached(t)
    <3>1. PICK v \in Goods : tap' = [tap EXCEPT ![t].todo = @ \ {v}]
      BY <2>1, CarriedType DEF DecrementCached
    <3>2. \A u \in Taps : tap[u] \in TapType
      BY DEF CheckoutType
    <3>3. \A u \in Taps \ {t} : tap'[u] = tap[u]
      BY <3>1 DEF CheckoutType
    <3>4. tap'[t] = [tap[t] EXCEPT !.todo = @ \ {v}]
      BY <3>1 DEF CheckoutType
    <3>5. TapFades(t) /\ TapStays(t)
      BY <3>2, <3>4 DEF TapFades, TapStays, TapType
    <3> QED BY <3>3, <3>5, TapSame
  <2>2. CASE Reload(t)
    BY <2>2, EmptyCartType DEF Reload, TapFades, TapStays, CheckoutType
  <2>3. CASE ChargeThrows(t)
    BY <2>3, EmptyCartType DEF ChargeThrows, TapFades, TapStays, CheckoutType
  <2> QED BY <2>1, <2>2, <2>3
<1> QED BY <1>1, <1>2, <1>3, <1>4, TapsFade

\* The screen goes.
LEMMA ScreenGoneInv == ASSUME CartInv, Remount \/ KillApp PROVE CartInv'
<1> USE DEF CartInv
<1>1. CheckoutType'
  BY TillTypes, StockTypes
<1>2. /\ UNCHANGED <<closed, pressed, touched, broken>>
      /\ \/ UNCHANGED <<cart, cartNo>> /\ cart = EmptyCart
         \/ cart' = EmptyCart /\ cartNo' = cartNo + 1
  BY DEF Remount, KillApp, DropCart
<1>3. SoldStill /\ download'.queued \subseteq download.queued
  <2>1. CASE Remount
    BY <2>1, SoldSame DEF Remount
  <2>2. CASE KillApp
    <3>1. {tap[t].sale : t \in {u \in Taps : tap[u].todo # {}}} \in SUBSET Nat
      BY CarriedType
    <3> QED BY <2>2, <3>1, UndoTypes, NoDownloadType DEF KillApp, SoldStill
  <2> QED BY <2>1, <2>2
<1>4. \A t \in Taps : TapFades(t)
  <2>1. CASE Remount
    BY <2>1 DEF Remount, TapFades, CheckoutType, TapType
  <2>2. CASE KillApp
    BY <2>2, EmptyCartType DEF KillApp, TapFades
  <2> QED BY <2>1, <2>2
<1> QED BY <1>1, <1>2, <1>3, <1>4, TapsFade

\* The download and the server.
LEMMA ElsewhereInv ==
  ASSUME CartInv, \/ FetchCatalog \/ FetchFails \/ Begin \/ DeleteCached \/ Commit \/ RollBack
                  \/ \E v \in Goods : InsertCached(v) \/ SoldElsewhere(v)
                  \/ \E n \in Sales : ApplySale(n)
  PROVE  CartInv'
<1> USE DEF CartInv
<1>1. CheckoutType'
  BY StockTypes
<1>2. UNCHANGED <<cartVars, tap>>
  BY DEF FetchCatalog, FetchFails, Begin, DeleteCached, Commit, RollBack, InsertCached,
         SoldElsewhere, ApplySale, TillUnchanged
<1>3. SoldStill
  <2>1. CASE RollBack
    BY <2>1, UndoTypes DEF RollBack, SoldStill
  <2>2. CASE \E n \in Sales : ApplySale(n)
    <3>1. \A k \in Sales : sold[k] \in SaleType
      BY CarriedType
    <3> QED BY <1>1, <2>2, <3>1 DEF ApplySale, SoldStill, Sales, SaleType, CheckoutType
  <2>3. CASE sold' = sold
    BY <2>3, SoldSame
  <2> QED BY <2>1, <2>2, <2>3 DEF FetchCatalog, FetchFails, Begin, DeleteCached, Commit,
             InsertCached, SoldElsewhere, TillUnchanged
<1>4. download'.queued \subseteq download.queued
  <2>1. download \in DownloadType
    BY DEF CheckoutType
  <2> QED BY <2>1, NoDownloadType, UndoTypes DEF FetchCatalog, FetchFails, Begin, DeleteCached,
             Commit, RollBack, InsertCached, SoldElsewhere, ApplySale, DownloadType, Undo
<1> QED BY <1>1, <1>2, <1>3, <1>4, TapSame, TapsFade DEF cartVars

\* The invariant holds at first.
LEMMA CartStarts == CheckoutInit => CartInv
<1> SUFFICES ASSUME CheckoutInit PROVE CartInv
  OBVIOUS
<1> USE DEF CheckoutInit
<1>1. CheckoutType
  BY EmptyCartType, TableTypes, NoDownloadType DEF CheckoutType
<1>2. Sales = {}
  BY DEF Sales
<1>3. TapInv /\ ChargeInv /\ SoldInv /\ OnceInv /\ InsideInv
  BY <1>2, EmptyCartType, NoDownloadType DEF TapInv, ChargeInv, SoldInv, OnceInv, InsideInv, Selling, Rung
<1>4. ClosedInv
  BY DEF ClosedInv
<1> QED BY <1>1, <1>3, <1>4 DEF CartInv

\* And is kept.
LEMMA CartStep == CartInv /\ [CheckoutNext]_checkoutVars => CartInv'
<1> SUFFICES ASSUME CartInv, [CheckoutNext]_checkoutVars PROVE CartInv'
  OBVIOUS
<1>1. CASE UNCHANGED checkoutVars
  BY <1>1 DEF checkoutVars, CartInv, CheckoutType, TapInv, ChargeInv, SoldInv, OnceInv, ClosedInv,
              InsideInv, Selling, Rung, Fits, Twice, Sales
<1> QED BY <1>1, AddToCartInv, ChargeStep, QueueSaleInv, EmptyAfterInv, ChargeOnInv, ScreenGoneInv,
           ElsewhereInv DEF CheckoutNext

\* A cart that was emptied is one sale, with all that was in it.
LEMMA CartSold == CartInv => OneSalePerCart
<1> SUFFICES ASSUME CartInv, NEW n \in 1..MaxCarts
             PROVE  LET of == {k \in Sales : sold[k].no = n}
                    IN  /\ n \notin pressed \union broken => Cardinality(of) <= 1
                        /\ closed[n] # EmptyCart /\ n \notin touched =>
                             \E k \in of : /\ sold[k].lines = closed[n]
                                           /\ sold[k].state = "lost" => sold[k].inside
                        /\ closed[n] # EmptyCart =>
                             \A k \in of, v \in Goods : sold[k].lines[v] <= closed[n][v]
  BY DEF OneSalePerCart
<1> DEFINE of == {k \in Sales : sold[k].no = n}
<1> USE DEF CartInv
<1>1. ASSUME n \notin pressed \union broken PROVE Cardinality(of) <= 1
  <2>1. CASE of = {}
    BY <2>1, FS_EmptySet
  <2>2. CASE of # {}
    <3>1. PICK k \in of : TRUE
      BY <2>2
    <3>2. of = {k}
      BY <1>1, <3>1 DEF OnceInv, Twice
    <3>3. Cardinality({k}) = 1
      BY FS_Singleton
    <3> QED BY <3>2, <3>3
  <2> QED BY <2>1, <2>2
<1>2. ASSUME closed[n] # EmptyCart, n \notin touched
      PROVE  \E k \in of : sold[k].lines = closed[n] /\ (sold[k].state = "lost" => sold[k].inside)
  BY <1>2 DEF ClosedInv, SoldInv
<1>3. ASSUME closed[n] # EmptyCart, NEW k \in of, NEW v \in Goods
      PROVE  sold[k].lines[v] <= closed[n][v]
  <2>1. n < cartNo
    BY <1>3 DEF ClosedInv, CheckoutType
  <2> QED BY <1>3, <2>1 DEF SoldInv, Fits, Within
<1> QED BY <1>1, <1>2, <1>3

\* OneSalePerCart, of every till: however the taps, the download and the ends of
\* the app fall, a cart is not sold twice but by a second tap or after a charge
\* that broke off, and is lost only with a download's rollback.
THEOREM CartsSoldOnce == CheckoutSpec => []OneSalePerCart
<1>1. CheckoutInit => CartInv
  BY CartStarts
<1>2. CartInv /\ [CheckoutNext]_checkoutVars => CartInv'
  BY CartStep
<1>3. CartInv => OneSalePerCart
  BY CartSold
<1> QED BY <1>1, <1>2, <1>3, PTL DEF CheckoutSpec
-----------------------------------------------------------------------------
(* What the screen shows *)

\* The units of v in the sales W of s; and sale by sale.
UnitsIn(s, W, v) == MapThenSumSet(LAMBDA n : s[n].lines[v], W)
LinesIn(s, W, v) == [n \in W |-> s[n].lines[v]]

\* The sales that a table should have taken off row v.
DueIn(s, T, v) ==
  {n \in DOMAIN s \ T.counted : s[n].lines[v] > 0 /\ s[n].state # "lost"}

\* A table adds up; and, but for strays and the sales P of each row and X, it has
\* taken off what is due.
Shown(s, T, P, X) ==
  /\ T.counted \subseteq DOMAIN s /\ \A v \in Goods : T.off[v] \subseteq DOMAIN s
  /\ \A v \in T.rows :
       /\ T.left[v] = T.gross[v] - UnitsIn(s, T.off[v], v)
       /\ \A n \in DOMAIN s \ (T.strays \union P[v] \union X) :
            n \in T.off[v] <=> n \in DueIn(s, T, v)

\* The sales P of a row wait for it: they are not taken off and, but for X and
\* strays, are due.
Waiting(s, T, P, X) ==
  \A v \in Goods :
    /\ v \notin T.rows => T.off[v] = {}
    /\ \A n \in P[v] :
         /\ n \in DOMAIN s /\ n \notin T.off[v]
         /\ v \in T.rows /\ n \notin T.strays \union X => n \in DueIn(s, T, v)

\* The sales still to be taken off each row; and those of the charges on screen.
Pending == [v \in Goods |-> {tap[t].sale : t \in {u \in Taps : v \in tap[u].todo}}]
Held == {tap[t].sale : t \in {u \in Taps : tap[u].mounted /\ Rung(u)}}
Unsaved == download.queued \union download.charged

\* The inductive invariant.
ShowInv ==
  /\ Shown(sold, cached, Pending, {}) /\ Waiting(sold, cached, Pending, {})
  /\ Shown(sold, onScreen, Pending, Held)
  /\ InTransaction => /\ Shown(sold, download.saved, Pending, Unsaved)
                      /\ Waiting(sold, download.saved, Pending, Unsaved)
  /\ download.counted \subseteq Sales
  /\ download.step = "filling" => cached.counted = download.counted

\* They are the sum over the sales.
LEMMA UnitsAreSigma ==
  ASSUME NEW s, NEW W, IsFiniteSet(W), NEW v, \A n \in W : s[n].lines[v] \in Int
  PROVE  UnitsIn(s, W, v) = Sigma(LinesIn(s, W, v), W) /\ \A n \in W : LinesIn(s, W, v)[n] \in Int
<1> DEFINE f == LinesIn(s, W, v)
           any(S) == CHOOSE x \in S : TRUE
           Step(g) == [S \in SUBSET W |->
                         IF S = {} THEN 0 ELSE s[any(S)].lines[v] + g[S \ {any(S)}]]
<1>1. \A n \in W : f[n] \in Int /\ f[n] = s[n].lines[v]
  BY DEF LinesIn
<1>2. ASSUME NEW g PROVE Step(g) = AddUp(f, W, g)
  <2>1. \A S \in SUBSET W : S # {} => AnyOf(S) \in S /\ AnyOf(S) = any(S)
    BY DEF AnyOf
  <2> HIDE DEF f, any
  <2>2. \A S \in SUBSET W : S # {} => f[AnyOf(S)] = s[any(S)].lines[v] /\ AnyOf(S) = any(S)
    BY <1>1, <2>1
  <2> QED BY <2>2 DEF AddUp
<1>3. PICK g : g = CHOOSE h : h = Step(h)
  OBVIOUS
<1>4. UnitsIn(s, W, v) = g[W]
  BY <1>3 DEF UnitsIn, MapThenSumSet, MapThenFoldSet
<1> HIDE DEF Step, f
<1>5. \E h : h = Step(h)
  BY <1>1, <1>2, AddUpIsSigma
<1>6. g = Step(g)
  BY <1>3, <1>5, Zenon
<1>7. g[W] = Sigma(f, W)
  BY <1>1, <1>2, <1>6, AddUpIsSigma
<1> QED BY <1>1, <1>4, <1>7 DEF f

\* One sale more.
LEMMA UnitsMore ==
  ASSUME NEW s, NEW W, IsFiniteSet(W), NEW n, n \notin W, NEW v,
         \A k \in W \union {n} : s[k].lines[v] \in Int
  PROVE  UnitsIn(s, W \union {n}, v) = UnitsIn(s, W, v) + s[n].lines[v] /\ UnitsIn(s, W, v) \in Int
<1> DEFINE V == W \union {n}
           f == LinesIn(s, W, v)
           h == LinesIn(s, V, v)
<1>1. IsFiniteSet(V)
  BY FS_AddElement
<1>2. UnitsIn(s, W, v) = Sigma(f, W) /\ \A x \in W : f[x] \in Int
  BY UnitsAreSigma
<1>3. UnitsIn(s, V, v) = Sigma(h, V) /\ \A x \in V : h[x] \in Int
  BY <1>1, UnitsAreSigma
<1>4. h[n] = s[n].lines[v] /\ \A x \in W : h[x] = f[x]
  BY DEF LinesIn
<1> HIDE DEF f, h
<1>5. Sigma(h, V) = Sigma(h, W) + h[n]
  <2>1. W \in SUBSET V /\ n \in V \ W
    OBVIOUS
  <2> HIDE DEF V
  <2>2. Sigma(h, W \union {n}) = Sigma(h, W) + h[n]
    BY <1>1, <1>3, <2>1, SigmaRules
  <2> QED BY <2>2 DEF V
<1>6. Sigma(h, W) = Sigma(f, W)
  BY <1>2, <1>4, SigmaSame
<1>7. Sigma(f, W) \in Int
  BY <1>2, SigmaRules
<1> QED BY <1>2, <1>3, <1>4, <1>5, <1>6, <1>7

\* No sales, no units.
LEMMA NoUnits == ASSUME NEW s, NEW v PROVE UnitsIn(s, {}, v) = 0
<1>1. IsFiniteSet({}) /\ \A n \in {} : s[n].lines[v] \in Int
  BY FS_EmptySet
<1>2. UnitsIn(s, {}, v) = Sigma(LinesIn(s, {}, v), {}) /\ \A n \in {} : LinesIn(s, {}, v)[n] \in Int
  BY <1>1, UnitsAreSigma
<1>3. Sigma(LinesIn(s, {}, v), {}) = 0
  BY <1>1, <1>2, SigmaRules
<1> QED BY <1>2, <1>3

\* The same lines, the same units.
LEMMA UnitsSame ==
  ASSUME NEW s, NEW r, NEW W, IsFiniteSet(W), NEW v,
         \A n \in W : s[n].lines[v] \in Int /\ r[n].lines[v] = s[n].lines[v]
  PROVE  UnitsIn(r, W, v) = UnitsIn(s, W, v)
<1> DEFINE f == LinesIn(s, W, v)
           h == LinesIn(r, W, v)
<1>1. UnitsIn(s, W, v) = Sigma(f, W) /\ \A x \in W : f[x] \in Int
  BY UnitsAreSigma
<1>2. UnitsIn(r, W, v) = Sigma(h, W)
  BY UnitsAreSigma
<1>3. \A x \in W : h[x] = f[x]
  BY DEF LinesIn
<1> HIDE DEF f, h
<1> QED BY <1>1, <1>2, <1>3, SigmaSame

\* Sets of sales are finite, and sales have lines.
LEMMA SalesFinite ==
  ASSUME NEW s \in Seq(SaleType), NEW W \in SUBSET DOMAIN s
  PROVE  IsFiniteSet(W) /\ \A n \in W, v \in Goods : s[n].lines[v] \in Int
<1>1. DOMAIN s = 1..Len(s) /\ Len(s) \in Nat
  OBVIOUS
<1>2. IsFiniteSet(DOMAIN s)
  BY <1>1, FS_Interval
<1>3. \A n \in DOMAIN s : s[n] \in SaleType
  BY <1>1
<1> QED BY <1>2, <1>3, FS_Subset DEF SaleType, CartType

\* What tables are kept through: there may be more sales, of which Q are to wait,
\* sales that may be lost, and strays.
Later(T, U) ==
  /\ U.rows = T.rows /\ U.left = T.left /\ U.gross = T.gross
  /\ U.counted = T.counted /\ U.off = T.off /\ T.strays \subseteq U.strays
SalesGo(s, r, L) ==
  /\ DOMAIN s \subseteq DOMAIN r
  /\ \A n \in DOMAIN s : r[n].lines = s[n].lines
                         /\ (n \in L \/ (r[n].state = "lost" <=> s[n].state = "lost"))
NewIn(s, r, v) == {n \in DOMAIN r \ DOMAIN s : r[n].lines[v] > 0 /\ r[n].state # "lost"}

LEMMA StaysShown ==
  ASSUME NEW s \in Seq(SaleType), NEW r \in Seq(SaleType), NEW T, NEW U, NEW P, NEW Q, NEW X, NEW Y,
         T.rows \subseteq Goods, Shown(s, T, P, X), Later(T, U), SalesGo(s, r, Y \union U.strays),
         \A v \in T.rows : /\ NewIn(s, r, v) \subseteq Q[v]
                           /\ P[v] \subseteq Q[v] \union Y \union U.strays,
         X \subseteq Y \union U.strays
  PROVE  Shown(r, U, Q, Y)
<1>1. U.counted \subseteq DOMAIN r /\ \A v \in Goods : U.off[v] \subseteq DOMAIN r
  BY DEF Shown, Later, SalesGo
<1>2. ASSUME NEW v \in U.rows PROVE U.left[v] = U.gross[v] - UnitsIn(r, U.off[v], v)
  <2>1. v \in Goods /\ T.off[v] \in SUBSET DOMAIN s
    BY <1>2 DEF Shown, Later
  <2>2. IsFiniteSet(T.off[v]) /\ \A n \in T.off[v] : s[n].lines[v] \in Int
    BY <2>1, SalesFinite
  <2>3. \A n \in T.off[v] : r[n].lines[v] = s[n].lines[v]
    BY <2>1 DEF SalesGo
  <2>4. UnitsIn(r, T.off[v], v) = UnitsIn(s, T.off[v], v)
    BY <2>2, <2>3, UnitsSame
  <2> QED BY <1>2, <2>4 DEF Shown, Later
<1>3. ASSUME NEW v \in U.rows, NEW n \in DOMAIN r \ (U.strays \union Q[v] \union Y)
      PROVE  n \in U.off[v] <=> n \in DueIn(r, U, v)
  <2>1. v \in Goods /\ v \in T.rows /\ U.off[v] = T.off[v] /\ U.counted = T.counted
    BY DEF Later
  <2>2. CASE n \in DOMAIN s
    <3>1. n \notin T.strays \union P[v] \union X
      BY <1>3, <2>1 DEF Later
    <3>2. n \in T.off[v] <=> n \in DueIn(s, T, v)
      BY <2>1, <2>2, <3>1 DEF Shown
    <3>3. r[n].lines[v] = s[n].lines[v] /\ (r[n].state = "lost" <=> s[n].state = "lost")
      BY <1>3, <2>2 DEF SalesGo
    <3> QED BY <1>3, <2>1, <2>2, <3>2, <3>3 DEF DueIn
  <2>3. CASE n \notin DOMAIN s
    <3>1. n \notin T.off[v]
      BY <2>1, <2>3 DEF Shown
    <3>2. n \notin NewIn(s, r, v)
      BY <1>3, <2>1
    <3> QED BY <1>3, <2>1, <2>3, <3>1, <3>2 DEF DueIn, NewIn
  <2> QED BY <2>2, <2>3
<1> QED BY <1>1, <1>2, <1>3 DEF Shown

LEMMA StaysWaiting ==
  ASSUME NEW s \in Seq(SaleType), NEW r \in Seq(SaleType), NEW T, NEW U, NEW P, NEW Q, NEW X, NEW Y,
         Shown(s, T, P, X), Waiting(s, T, P, X), Later(T, U), SalesGo(s, r, Y \union U.strays),
         \A v \in Goods : Q[v] \subseteq P[v] \union NewIn(s, r, v),
         X \subseteq Y \union U.strays
  PROVE  Waiting(r, U, Q, Y)
<1>1. ASSUME NEW v \in Goods, NEW n \in Q[v]
      PROVE  /\ n \in DOMAIN r /\ n \notin U.off[v]
             /\ v \in U.rows /\ n \notin U.strays \union Y => n \in DueIn(r, U, v)
  <2>1. CASE n \in P[v]
    <3>1. /\ n \in DOMAIN s /\ n \notin T.off[v]
          /\ v \in T.rows /\ n \notin T.strays \union X => n \in DueIn(s, T, v)
      BY <2>1 DEF Waiting
    <3> QED BY <3>1 DEF Later, SalesGo, DueIn
  <2>2. CASE n \in NewIn(s, r, v)
    BY <2>2 DEF Later, NewIn, DueIn, Shown
  <2> QED BY <1>1, <2>1, <2>2
<1> QED BY <1>1 DEF Waiting, Later

\* The tables have their types.
LEMMA TableParts ==
  ASSUME CheckoutType
  PROVE  /\ sold \in Seq(SaleType) /\ cached \in TableType /\ onScreen \in TableType
         /\ download.saved \in TableType /\ cached.rows \subseteq Goods
         /\ onScreen.rows \subseteq Goods /\ download.saved.rows \subseteq Goods
  BY DEF CheckoutType, DownloadType, TableType

\* The cached table through a step that only adds strays.
LEMMA CachedKept ==
  ASSUME CheckoutType, CheckoutType', ShowInv, Later(cached, cached'),
         SalesGo(sold, sold', cached'.strays),
         \A v \in Goods : Pending'[v] \subseteq Pending[v] \union NewIn(sold, sold', v),
         \A v \in cached.rows : /\ NewIn(sold, sold', v) \subseteq Pending'[v]
                                /\ Pending[v] \subseteq Pending'[v] \union cached'.strays
  PROVE  Shown(sold, cached, Pending, {})' /\ Waiting(sold, cached, Pending, {})'
<1>1. /\ sold \in Seq(SaleType) /\ sold' \in Seq(SaleType) /\ cached.rows \subseteq Goods
      /\ {} \union cached'.strays = cached'.strays
  BY TableParts DEF CheckoutType
<1>2. Shown(sold, cached, Pending, {}) /\ Waiting(sold, cached, Pending, {})
  BY DEF ShowInv
<1>3. PICK P, Q, T, U, s, r : P = Pending /\ Q = Pending' /\ T = cached /\ U = cached'
                              /\ s = sold /\ r = sold'
  OBVIOUS
<1>4. Shown(r, U, Q, {})
  BY <1>1, <1>2, <1>3, StaysShown
<1>5. Waiting(r, U, Q, {})
  BY <1>1, <1>2, <1>3, StaysWaiting
<1> QED BY <1>3, <1>4, <1>5

\* The screen.
LEMMA ScreenKept ==
  ASSUME CheckoutType, CheckoutType', ShowInv, Later(onScreen, onScreen'),
         SalesGo(sold, sold', Held' \union onScreen'.strays),
         \A v \in Goods : /\ NewIn(sold, sold', v) \subseteq Pending'[v]
                          /\ Pending[v] \subseteq Pending'[v] \union Held' \union onScreen'.strays,
         Held \subseteq Held' \union onScreen'.strays
  PROVE  Shown(sold, onScreen, Pending, Held)'
<1>1. sold \in Seq(SaleType) /\ sold' \in Seq(SaleType) /\ onScreen.rows \subseteq Goods
  BY TableParts DEF CheckoutType
<1>2. Shown(sold, onScreen, Pending, Held)
  BY DEF ShowInv
<1>3. PICK P, Q, T, U, X, Y, s, r :
        /\ P = Pending /\ Q = Pending' /\ T = onScreen /\ U = onScreen'
        /\ X = Held /\ Y = Held' /\ s = sold /\ r = sold'
  OBVIOUS
<1>4. Shown(r, U, Q, Y)
  BY <1>1, <1>2, <1>3, StaysShown
<1> QED BY <1>3, <1>4

\* What a rollback would bring back.
LEMMA SavedKept ==
  ASSUME CheckoutType, CheckoutType', ShowInv, InTransaction, download'.saved = download.saved,
         SalesGo(sold, sold', {}), Unsaved \subseteq Unsaved',
         \A v \in Goods : /\ Pending'[v] \subseteq Pending[v] \union NewIn(sold, sold', v)
                          /\ NewIn(sold, sold', v) \subseteq Pending'[v]
                          /\ Pending[v] \subseteq Pending'[v] \union Unsaved'
  PROVE  /\ Shown(sold, download.saved, Pending, Unsaved)'
         /\ Waiting(sold, download.saved, Pending, Unsaved)'
<1>1. sold \in Seq(SaleType) /\ sold' \in Seq(SaleType) /\ download.saved.rows \subseteq Goods
  BY TableParts DEF CheckoutType
<1>2. /\ Shown(sold, download.saved, Pending, Unsaved)
      /\ Waiting(sold, download.saved, Pending, Unsaved)
  BY DEF ShowInv
<1>3. PICK P, Q, T, X, Y, s, r :
        /\ P = Pending /\ Q = Pending' /\ T = download.saved
        /\ X = Unsaved /\ Y = Unsaved' /\ s = sold /\ r = sold'
  OBVIOUS
<1>4. Later(T, T) /\ SalesGo(s, r, Y \union T.strays)
  BY <1>3 DEF Later, SalesGo
<1>5. Shown(r, T, Q, Y)
  BY <1>1, <1>2, <1>3, <1>4, StaysShown
<1>6. Waiting(r, T, Q, Y)
  BY <1>1, <1>2, <1>3, <1>4, StaysWaiting
<1> QED BY <1>3, <1>5, <1>6

\* The screen is reloaded.
LEMMA ScreenTaken ==
  ASSUME CheckoutType, CheckoutType', ShowInv, onScreen' = cached, sold' = sold, Pending' = Pending
  PROVE  Shown(sold, onScreen, Pending, Held)'
<1>1. sold \in Seq(SaleType) /\ cached.rows \subseteq Goods
  BY TableParts
<1>2. Shown(sold, cached, Pending, {})
  BY DEF ShowInv
<1>3. PICK P, T, Y, s : P = Pending /\ T = cached /\ Y = Held' /\ s = sold
  OBVIOUS
<1>4. Later(T, T) /\ SalesGo(s, s, Y \union T.strays) /\ \A v : NewIn(s, s, v) = {}
  BY DEF Later, SalesGo, NewIn
<1>5. Shown(s, T, P, Y)
  BY <1>1, <1>2, <1>3, <1>4, StaysShown
<1> QED BY <1>3, <1>5

\* All three, when the download stays where it is.
LEMMA AllKept ==
  ASSUME CheckoutType, CheckoutType', ShowInv, SalesGo(sold, sold', {}),
         Later(cached, cached'), Later(onScreen, onScreen'),
         \A v \in Goods : /\ Pending'[v] \subseteq Pending[v] \union NewIn(sold, sold', v)
                          /\ NewIn(sold, sold', v) \subseteq Pending'[v]
                          /\ v \in cached.rows => Pending[v] \subseteq Pending'[v] \union cached'.strays
                          /\ Pending[v] \subseteq Pending'[v] \union Held' \union onScreen'.strays
                          /\ InTransaction => Pending[v] \subseteq Pending'[v] \union Unsaved',
         Held \subseteq Held' \union onScreen'.strays, Unsaved \subseteq Unsaved',
         download'.step = download.step, download'.saved = download.saved,
         download'.counted = download.counted
  PROVE  ShowInv'
<1>1. /\ SalesGo(sold, sold', cached'.strays)
      /\ SalesGo(sold, sold', Held' \union onScreen'.strays)
  BY DEF SalesGo
<1>2. Shown(sold, cached, Pending, {})' /\ Waiting(sold, cached, Pending, {})'
  BY <1>1, CachedKept, TableParts
<1>3. Shown(sold, onScreen, Pending, Held)'
  BY <1>1, ScreenKept
<1>4. InTransaction' => /\ Shown(sold, download.saved, Pending, Unsaved)'
                        /\ Waiting(sold, download.saved, Pending, Unsaved)'
  BY SavedKept DEF InTransaction
<1>5. download'.counted \subseteq Sales' /\ (download'.step = "filling" => cached'.counted = download'.counted)
  BY DEF ShowInv, SalesGo, Sales, Later
<1> QED BY <1>2, <1>3, <1>4, <1>5 DEF ShowInv

\* Pending and Held are those of the charges.
LEMMA PendingIs ==
  ASSUME CartInv
  PROVE  /\ \A v \in Goods : Pending[v] = {tap[t].sale : t \in {u \in Taps : v \in tap[u].todo}}
         /\ \A t \in Taps : tap[t].todo # {} => tap[t].step = "decrement" /\ Rung(t)
         /\ \A v \in Goods : Pending[v] \subseteq Sales
  BY DEF Pending, CartInv, TapInv, Rung

\* Charges that keep their sale and what is to be taken off.
LEMMA TapsHold ==
  ASSUME \A t \in Taps : /\ tap'[t].todo = tap[t].todo /\ tap'[t].sale = tap[t].sale
                         /\ tap'[t].mounted /\ Rung(t)' <=> tap[t].mounted /\ Rung(t)
  PROVE  Pending' = Pending /\ Held' = Held
  BY DEF Pending, Held

\* Nothing that is shown, saved or pending changes.
LEMMA QuietShow ==
  ASSUME CheckoutType, CheckoutType', ShowInv, cached' = cached, onScreen' = onScreen,
         SalesGo(sold, sold', {}), Sales' = Sales, Pending' = Pending, Held' = Held,
         download' = download
  PROVE  ShowInv'
<1>1. \A v : NewIn(sold, sold', v) = {}
  BY DEF NewIn, Sales
<1>2. Unsaved' = Unsaved /\ Later(cached, cached') /\ Later(onScreen, onScreen')
  BY DEF Unsaved, Later
<1> QED BY <1>1, <1>2, AllKept

\* The screen shows the table.
LEMMA ReloadShow ==
  ASSUME CheckoutType, CheckoutType', ShowInv, cached' = cached, onScreen' = cached,
         sold' = sold, Pending' = Pending, download' = download
  PROVE  ShowInv'
<1>1. SalesGo(sold, sold', cached'.strays) /\ SalesGo(sold, sold', {}) /\ Later(cached, cached')
      /\ \A v : NewIn(sold, sold', v) = {}
  BY DEF SalesGo, Later, NewIn
<1>2. Shown(sold, cached, Pending, {})' /\ Waiting(sold, cached, Pending, {})'
  BY <1>1, CachedKept, TableParts
<1>3. Shown(sold, onScreen, Pending, Held)'
  BY ScreenTaken
<1>4. Unsaved' = Unsaved
  BY DEF Unsaved
<1>5. InTransaction' => /\ Shown(sold, download.saved, Pending, Unsaved)'
                        /\ Waiting(sold, download.saved, Pending, Unsaved)'
  BY <1>1, <1>4, SavedKept DEF InTransaction
<1> QED BY <1>2, <1>3, <1>5 DEF ShowInv, Sales

\* Sales that do not change go on.
LEMMA SalesSame ==
  ASSUME sold' = sold
  PROVE  /\ \A L : SalesGo(sold, sold', L)
         /\ \A v : NewIn(sold, sold', v) = {}
         /\ Sales' = Sales
  BY DEF SalesGo, NewIn, Sales

\* The cart, and the server's side.
LEMMA QuietSteps ==
  ASSUME CartInv, ShowInv,
         \/ \E v \in Goods : AddToCart(v) \/ SoldElsewhere(v)
         \/ \E t \in Taps : Charge(t) \/ EmptyAfter(t)
         \/ \E n \in Sales : ApplySale(n)
  PROVE  ShowInv'
<1>0. CheckoutType /\ CheckoutType'
  BY TillTypes, StockTypes DEF CartInv
<1>1. cached' = cached /\ onScreen' = onScreen /\ download' = download
  BY DEF AddToCart, SoldElsewhere, Charge, EmptyAfter, ApplySale
<1>2. SalesGo(sold, sold', {}) /\ Sales' = Sales
  <2>1. CASE \E n \in Sales : ApplySale(n)
    <3>1. \A k \in Sales : sold[k] \in SaleType
      BY <1>0, CarriedType
    <3>2. PICK n \in Sales : sold' = [sold EXCEPT ![n].state = "applied"] /\ sold[n].state = "queued"
      BY <2>1 DEF ApplySale
    <3>3. \A k \in Sales : /\ sold'[k].lines = sold[k].lines
                           /\ sold'[k].state = "lost" <=> sold[k].state = "lost"
      BY <3>1, <3>2 DEF SaleType, Sales
    <3> QED BY <3>2, <3>3 DEF SalesGo, Sales
  <2>2. CASE sold' = sold
    BY <2>2, SalesSame
  <2> QED BY <2>1, <2>2 DEF AddToCart, SoldElsewhere, Charge, EmptyAfter
<1>3. Pending' = Pending /\ Held' = Held
  <2>1. CASE tap' = tap
    BY <2>1 DEF Pending, Held, Rung
  <2>2. ASSUME NEW t \in Taps, Charge(t) PROVE Pending' = Pending /\ Held' = Held
    <3>1. tap[t].step = "idle" /\ tap[t].sale = 0 /\ tap[t].todo = {}
      BY <2>2 DEF Charge, CartInv, TapInv, Rung
    <3>2. tap'[t].step = "enqueue" /\ tap'[t].sale = 0 /\ tap'[t].todo = {}
      BY <1>0, <2>2 DEF Charge, TapIdle, CheckoutType
    <3>3. \A u \in Taps \ {t} : tap'[u] = tap[u]
      BY <1>0, <2>2 DEF Charge, CheckoutType
    <3> QED BY <3>1, <3>2, <3>3, TapsHold DEF Rung
  <2>3. ASSUME NEW t \in Taps, EmptyAfter(t) PROVE Pending' = Pending /\ Held' = Held
    <3>1. tap[t] \in TapType /\ tap[t].step = "decrement"
      BY <1>0, <2>3 DEF EmptyAfter, CheckoutType
    <3>2. tap'[t] = [tap[t] EXCEPT !.step = "reload"]
      BY <1>0, <2>3 DEF EmptyAfter, CheckoutType
    <3>3. \A u \in Taps \ {t} : tap'[u] = tap[u]
      BY <1>0, <2>3 DEF EmptyAfter, CheckoutType
    <3>4. /\ tap'[t].step = "reload" /\ tap'[t].sale = tap[t].sale /\ tap'[t].todo = tap[t].todo
          /\ (tap'[t].mounted <=> tap[t].mounted)
      BY <3>1, <3>2 DEF TapType
    <3> QED BY <3>1, <3>3, <3>4, TapsHold DEF Rung
  <2> QED BY <2>1, <2>2, <2>3 DEF AddToCart, SoldElsewhere, ApplySale, cartVars
<1> QED BY <1>0, <1>1, <1>2, <1>3, QuietShow

\* The sale is queued: it is to be taken off.
LEMMA QueueSaleShow == ASSUME CartInv, ShowInv, NEW t \in Taps, QueueSale(t) PROVE ShowInv'
<1>0. CheckoutType /\ CheckoutType'
  BY TillTypes DEF CartInv
<1>k. PICK k : k = Len(sold) + 1
  OBVIOUS
<1>1. /\ cached' = cached /\ onScreen' = onScreen /\ tap[t].step = "enqueue"
      /\ tap[t].todo = {} /\ tap[t] \in TapType /\ k \in Nat
  <2>1. tap[t].step = "enqueue" /\ cached' = cached /\ onScreen' = onScreen
    BY DEF QueueSale
  <2>2. tap[t].todo = {}
    BY <2>1 DEF CartInv, TapInv
  <2>3. tap[t] \in TapType /\ k \in Nat
    BY <1>0, <1>k, CarriedType DEF CheckoutType
  <2> QED BY <2>1, <2>2, <2>3
<1>2. \A u \in Taps \ {t} : tap'[u] = tap[u]
  BY <1>0 DEF QueueSale, CheckoutType
<1>3. /\ tap'[t].step = "decrement" /\ tap'[t].sale = k
      /\ tap'[t].todo = {v \in Goods : tap[t].lines[v] > 0}
      /\ (tap'[t].mounted <=> tap[t].mounted)
  BY <1>0, <1>1, <1>k DEF QueueSale, CheckoutType, TapType
<1> DEFINE s == [no |-> tap[t].no, lines |-> tap[t].lines, state |-> "queued",
                 inside |-> InTransaction]
<1>4. s \in SaleType /\ s.lines = tap[t].lines /\ s.state = "queued"
  <2>1. InTransaction \in BOOLEAN
    BY DEF InTransaction
  <2> QED BY <1>1, <2>1 DEF SaleType, TapType
<1>5. sold' = Append(sold, s)
  BY DEF QueueSale
<1> HIDE DEF s
<1>6. /\ Sales' = Sales \union {k} /\ k \notin Sales /\ sold'[k] = s
      /\ \A n \in Sales : sold'[n] = sold[n]
  BY <1>0, <1>4, <1>5, <1>k, SoldMore
<1>7. SalesGo(sold, sold', {})
  BY <1>6 DEF SalesGo, Sales
<1>8. ASSUME NEW v \in Goods
      PROVE  /\ NewIn(sold, sold', v) = IF tap[t].lines[v] > 0 THEN {k} ELSE {}
             /\ Pending'[v] = Pending[v] \union (IF tap[t].lines[v] > 0 THEN {k} ELSE {})
  <2>1. NewIn(sold, sold', v) = IF tap[t].lines[v] > 0 THEN {k} ELSE {}
    BY <1>4, <1>6 DEF NewIn, Sales
  <2>2. v \in tap'[t].todo <=> tap[t].lines[v] > 0
    BY <1>3
  <2>3. Pending[v] = {tap[u].sale : u \in {w \in Taps : v \in tap[w].todo}}
    BY DEF Pending
  <2>4. Pending'[v] = {tap'[u].sale : u \in {w \in Taps : v \in tap'[w].todo}}
    BY DEF Pending
  <2> QED BY <1>1, <1>2, <1>3, <2>1, <2>2, <2>3, <2>4
<1>9. Held \subseteq Held'
  BY <1>1, <1>2 DEF Held, Rung
<1>10. /\ Unsaved \subseteq Unsaved' /\ download'.step = download.step
       /\ download'.saved = download.saved /\ download'.counted = download.counted
  <2>1. download \in DownloadType
    BY <1>0 DEF CheckoutType
  <2> QED BY <2>1 DEF QueueSale, Unsaved, DownloadType
<1>11. Later(cached, cached') /\ Later(onScreen, onScreen')
  BY <1>1 DEF Later
<1> QED BY <1>0, <1>7, <1>8, <1>9, <1>10, <1>11, AllKept

\* A row is taken off.
LEMMA TakenShown ==
  ASSUME NEW s \in Seq(SaleType), NEW T \in TableType, NEW P, NEW Q, NEW v \in T.rows,
         NEW n \in DOMAIN s, n \in P[v], Shown(s, T, P, {}), Waiting(s, T, P, {}),
         \A w \in Goods : Q[w] \subseteq P[w] /\ (w # v => Q[w] = P[w]),
         Q[v] = P[v] \ {n}, NEW U,
         U = [T EXCEPT !.left[v] = @ - s[n].lines[v], !.off[v] = @ \union {n}]
  PROVE  Shown(s, U, Q, {}) /\ Waiting(s, U, Q, {})
<1>1. /\ v \in Goods /\ U.rows = T.rows /\ U.gross = T.gross /\ U.counted = T.counted
      /\ U.strays = T.strays
      /\ U.left = [T.left EXCEPT ![v] = @ - s[n].lines[v]]
      /\ U.off = [T.off EXCEPT ![v] = @ \union {n}]
  BY DEF TableType
<1>2. /\ U.left[v] = T.left[v] - s[n].lines[v] /\ U.off[v] = T.off[v] \union {n}
      /\ \A w \in Goods \ {v} : U.left[w] = T.left[w] /\ U.off[w] = T.off[w]
      /\ T.left[v] \in Int /\ T.gross[v] \in Int
  BY <1>1 DEF TableType
<1>3. n \notin T.off[v] /\ (n \notin T.strays => n \in DueIn(s, T, v))
  BY <1>1 DEF Waiting
<1>4. U.left[v] = U.gross[v] - UnitsIn(s, U.off[v], v)
  <2>1. T.off[v] \in SUBSET DOMAIN s /\ T.off[v] \union {n} \in SUBSET DOMAIN s
    BY <1>1 DEF Shown
  <2>2. IsFiniteSet(T.off[v]) /\ \A k \in T.off[v] \union {n} : s[k].lines[v] \in Int
    BY <1>1, <2>1, SalesFinite
  <2>3. /\ UnitsIn(s, T.off[v] \union {n}, v) = UnitsIn(s, T.off[v], v) + s[n].lines[v]
        /\ UnitsIn(s, T.off[v], v) \in Int
    BY <1>3, <2>2, UnitsMore
  <2>4. T.left[v] = T.gross[v] - UnitsIn(s, T.off[v], v)
    BY DEF Shown
  <2>5. s[n].lines[v] \in Int
    BY <2>2
  <2>6. T.left[v] - s[n].lines[v] =
          T.gross[v] - (UnitsIn(s, T.off[v], v) + s[n].lines[v])
    BY <1>2, <2>3, <2>4, <2>5
  <2> QED BY <1>1, <1>2, <2>3, <2>6
<1>5. \A w \in Goods : DueIn(s, U, w) = DueIn(s, T, w)
  BY <1>1 DEF DueIn
<1>6. \A k \in DOMAIN s \ (U.strays \union Q[v] \union {}) : k \in U.off[v] <=> k \in DueIn(s, U, v)
  BY <1>1, <1>2, <1>3, <1>5 DEF Shown
<1>7. ASSUME NEW w \in U.rows, w # v
      PROVE  /\ U.left[w] = U.gross[w] - UnitsIn(s, U.off[w], w)
             /\ \A k \in DOMAIN s \ (U.strays \union Q[w] \union {}) :
                  k \in U.off[w] <=> k \in DueIn(s, U, w)
  <2>1. w \in Goods /\ w \in T.rows
    BY <1>1 DEF TableType
  <2> QED BY <1>1, <1>2, <1>5, <1>7, <2>1 DEF Shown
<1>8. U.counted \subseteq DOMAIN s /\ \A w \in Goods : U.off[w] \subseteq DOMAIN s
  BY <1>1, <1>2 DEF Shown
<1>9. Shown(s, U, Q, {})
  BY <1>4, <1>6, <1>7, <1>8 DEF Shown
<1>10. Waiting(s, U, Q, {})
  <2> SUFFICES ASSUME NEW w \in Goods
               PROVE  /\ w \notin U.rows => U.off[w] = {}
                      /\ \A k \in Q[w] : /\ k \in DOMAIN s /\ k \notin U.off[w]
                                         /\ w \in U.rows /\ k \notin U.strays \union {} =>
                                              k \in DueIn(s, U, w)
    BY DEF Waiting
  <2>1. CASE w = v
    BY <1>1, <1>2, <1>5, <2>1 DEF Waiting
  <2>2. CASE w # v
    BY <1>1, <1>2, <1>5, <2>2 DEF Waiting
  <2> QED BY <2>1, <2>2
<1> QED BY <1>9, <1>10

\* A line is taken off the cache.
LEMMA DecrementShow == ASSUME CartInv, ShowInv, NEW t \in Taps, DecrementCached(t) PROVE ShowInv'
<1>0. CheckoutType /\ CheckoutType'
  BY StockTypes DEF CartInv
<1>1. PICK v \in tap[t].todo :
        /\ cached' = IF v \in cached.rows
                       THEN [cached EXCEPT !.left[v] = @ - TakenOff(t, v),
                                           !.off[v] = @ \union {tap[t].sale}]
                       ELSE cached
        /\ tap' = [tap EXCEPT ![t].todo = @ \ {v}]
  BY DEF DecrementCached
<1>2. PICK n : n = tap[t].sale
  OBVIOUS
<1>3. /\ v \in Goods /\ n \in Sales /\ sold[n].lines = tap[t].lines /\ Rung(t)
      /\ \A u \in Taps : Rung(u) /\ tap[u].sale = n => u = t
      /\ \A u \in Taps : tap[u].todo # {} => Rung(u)
  BY <1>0, <1>2, CarriedType, PendingIs DEF CartInv, TapInv, DecrementCached, Rung
<1>4. /\ \A u \in Taps : tap'[u].sale = tap[u].sale /\ tap'[u].step = tap[u].step
                         /\ (tap'[u].mounted <=> tap[u].mounted)
                         /\ (u # t => tap'[u].todo = tap[u].todo)
      /\ tap'[t].todo = tap[t].todo \ {v}
  <2>1. \A u \in Taps : tap[u] \in TapType
    BY <1>0 DEF CheckoutType
  <2>2. tap'[t] = [tap[t] EXCEPT !.todo = @ \ {v}] /\ \A u \in Taps \ {t} : tap'[u] = tap[u]
    BY <1>0, <1>1 DEF CheckoutType
  <2> QED BY <2>1, <2>2 DEF TapType
<1>5. Held' = Held /\ (tap[t].mounted => n \in Held)
  BY <1>2, <1>3, <1>4 DEF Held, Rung
<1>6. \A w \in Goods : Pending'[w] \subseteq Pending[w] /\ (w # v => Pending'[w] = Pending[w])
  <2>1. \A w \in Goods : Pending[w] = {tap[u].sale : u \in {x \in Taps : w \in tap[x].todo}}
    BY DEF Pending
  <2>2. \A w \in Goods : Pending'[w] = {tap'[u].sale : u \in {x \in Taps : w \in tap'[x].todo}}
    BY DEF Pending
  <2>3. ASSUME NEW w \in Goods PROVE Pending'[w] \subseteq Pending[w]
    <3>1. \A x \in Taps : w \in tap'[x].todo => w \in tap[x].todo
      BY <1>4
    <3> QED BY <1>4, <2>1, <2>2, <3>1
  <2>4. ASSUME NEW w \in Goods, w # v PROVE Pending[w] \subseteq Pending'[w]
    <3>1. \A x \in Taps : w \in tap[x].todo => w \in tap'[x].todo
      BY <1>4, <2>4
    <3> QED BY <1>4, <2>1, <2>2, <3>1
  <2> QED BY <2>3, <2>4
<1>7. Pending'[v] = Pending[v] \ {n} /\ n \in Pending[v]
  <2>1. Pending[v] = {tap[u].sale : u \in {x \in Taps : v \in tap[x].todo}}
    BY <1>3 DEF Pending
  <2>2. Pending'[v] = {tap'[u].sale : u \in {x \in Taps : v \in tap'[x].todo}}
    BY <1>3 DEF Pending
  <2>3. \A u \in Taps : v \in tap'[u].todo <=> v \in tap[u].todo /\ u # t
    BY <1>4
  <2>4. \A u \in Taps : v \in tap[u].todo /\ tap[u].sale = n => u = t
    BY <1>3
  <2> QED BY <1>1, <1>2, <1>4, <2>1, <2>2, <2>3, <2>4
<1>8. /\ \A L : SalesGo(sold, sold', L)
      /\ \A w : NewIn(sold, sold', w) = {}
      /\ Sales' = Sales /\ sold' = sold
  BY SalesSame DEF DecrementCached
<1>9. Later(onScreen, onScreen') /\ n \in Held' \union onScreen'.strays
  <2>1. {n} \in SUBSET Nat /\ onScreen \in TableType
    BY <1>0, <1>3, CarriedType DEF CheckoutType
  <2> QED BY <1>2, <1>5, <2>1, TableTypes DEF DecrementCached, Later
<1>10. /\ download'.step = download.step /\ download'.saved = download.saved
       /\ download'.counted = download.counted /\ Unsaved \subseteq Unsaved'
       /\ InTransaction => n \in Unsaved'
  <2>1. download \in DownloadType
    BY <1>0 DEF CheckoutType
  <2>2. download' = IF InTransaction THEN [download EXCEPT !.charged = @ \union {n}] ELSE download
    BY <1>2 DEF DecrementCached, Charged
  <2> QED BY <2>1, <2>2 DEF Unsaved, DownloadType
<1>11. Shown(sold, onScreen, Pending, Held)'
  BY <1>0, <1>5, <1>6, <1>7, <1>8, <1>9, ScreenKept
<1>12. InTransaction' => /\ Shown(sold, download.saved, Pending, Unsaved)'
                         /\ Waiting(sold, download.saved, Pending, Unsaved)'
  <2>1. InTransaction' <=> InTransaction
    BY <1>10 DEF InTransaction
  <2>2. InTransaction => \A w \in Goods : Pending[w] \subseteq Pending'[w] \union Unsaved'
    BY <1>6, <1>7, <1>10
  <2> QED BY <1>0, <1>6, <1>8, <1>10, <2>1, <2>2, SavedKept
<1>13. Shown(sold, cached, Pending, {})' /\ Waiting(sold, cached, Pending, {})'
  <2>1. CASE v \in cached.rows
    <3>1. cached' = [cached EXCEPT !.left[v] = @ - sold[n].lines[v], !.off[v] = @ \union {n}]
      BY <1>1, <1>2, <1>3, <2>1 DEF TakenOff
    <3>2. PICK P, Q, T, U, s : P = Pending /\ Q = Pending' /\ T = cached /\ U = cached' /\ s = sold
      OBVIOUS
    <3>3. Shown(s, U, Q, {}) /\ Waiting(s, U, Q, {})
      <4>1. s \in Seq(SaleType) /\ T \in TableType /\ v \in T.rows /\ n \in DOMAIN s /\ n \in P[v]
        BY <1>0, <1>3, <1>7, <2>1, <3>2, TableParts DEF Sales
      <4>2. Shown(s, T, P, {}) /\ Waiting(s, T, P, {})
        BY <3>2 DEF ShowInv
      <4>3. /\ \A w \in Goods : Q[w] \subseteq P[w] /\ (w # v => Q[w] = P[w])
            /\ Q[v] = P[v] \ {n}
        BY <1>6, <1>7, <3>2
      <4>4. U = [T EXCEPT !.left[v] = @ - s[n].lines[v], !.off[v] = @ \union {n}]
        BY <3>1, <3>2
      <4> QED BY <4>1, <4>2, <4>3, <4>4, TakenShown
    <3> QED BY <1>8, <3>2, <3>3
  <2>2. CASE v \notin cached.rows
    <3>1. Later(cached, cached')
      BY <1>1, <2>2 DEF Later
    <3>2. \A w \in cached.rows : Pending[w] \subseteq Pending'[w]
      <4>1. cached.rows \subseteq Goods
        BY <1>0, TableParts
      <4> QED BY <1>6, <2>2, <4>1
    <3>3. SalesGo(sold, sold', cached'.strays) /\ \A w : NewIn(sold, sold', w) = {}
      BY <1>8
    <3> QED BY <1>0, <1>6, <3>1, <3>2, <3>3, CachedKept
  <2> QED BY <2>1, <2>2
<1>14. download'.counted \subseteq Sales' /\ (download'.step = "filling" => cached'.counted = download'.counted)
  <2>1. cached'.counted = cached.counted
    BY <1>0, <1>1 DEF CheckoutType, TableType
  <2> QED BY <1>8, <1>10, <2>1 DEF ShowInv
<1> QED BY <1>11, <1>12, <1>13, <1>14 DEF ShowInv

\* A charge breaks off.
LEMMA ThrowShow == ASSUME CartInv, ShowInv, NEW t \in Taps, ChargeThrows(t) PROVE ShowInv'
<1>0. CheckoutType /\ CheckoutType'
  BY StockTypes DEF CartInv
<1>1. PICK n : n = tap[t].sale
  OBVIOUS
<1>2. /\ \A u \in Taps \ {t} : tap'[u] = tap[u]
      /\ tap'[t].step = "idle" /\ tap'[t].todo = {} /\ tap'[t].sale = 0
  BY <1>0, EmptyCartType DEF ChargeThrows, CheckoutType
<1>3. /\ tap[t].step # "decrement" => tap[t].todo = {}
      /\ tap[t].step \notin {"idle", "enqueue"} => Rung(t)
      /\ Rung(t) => tap[t].step # "enqueue"
  <2>1. tap[t] \in TapType
    BY <1>0 DEF CheckoutType
  <2> QED BY <2>1 DEF TapType, CartInv, TapInv, Rung
<1>4. ASSUME NEW w \in Goods
      PROVE  /\ Pending'[w] \subseteq Pending[w]
             /\ tap[t].step = "decrement" => Pending[w] \subseteq Pending'[w] \union {n}
             /\ tap[t].step # "decrement" => Pending[w] \subseteq Pending'[w]
  <2>1. Pending[w] = {tap[u].sale : u \in {x \in Taps : w \in tap[x].todo}}
    BY DEF Pending
  <2>2. Pending'[w] = {tap'[u].sale : u \in {x \in Taps : w \in tap'[x].todo}}
    BY DEF Pending
  <2>3. Pending'[w] \subseteq Pending[w]
    BY <1>2, <2>1, <2>2
  <2>4. Pending[w] \subseteq Pending'[w] \union {n}
    BY <1>1, <1>2, <2>1, <2>2
  <2>5. tap[t].todo = {} => Pending[w] \subseteq Pending'[w]
    BY <1>2, <2>1, <2>2
  <2> QED BY <1>3, <2>3, <2>4, <2>5
<1>5. /\ Held \subseteq Held' \union {n}
      /\ tap[t].step = "enqueue" => Held \subseteq Held'
  <2>1. Held = {tap[u].sale : u \in {x \in Taps : tap[x].mounted /\ Rung(x)}}
    BY DEF Held
  <2>2. Held' = {tap'[u].sale : u \in {x \in Taps : tap'[x].mounted /\ Rung(x)'}}
    BY DEF Held
  <2>3. \A x \in Taps \ {t} : Rung(x)' <=> Rung(x)
    BY <1>2 DEF Rung
  <2>4. tap[t].step = "enqueue" => ~Rung(t)
    BY DEF Rung
  <2> QED BY <1>1, <1>2, <2>1, <2>2, <2>3, <2>4
<1>6. /\ \A L : SalesGo(sold, sold', L)
      /\ \A w : NewIn(sold, sold', w) = {}
  BY SalesSame DEF ChargeThrows
<1>7. /\ Later(cached, cached') /\ Later(onScreen, onScreen')
      /\ tap[t].step = "decrement" => n \in cached'.strays
      /\ tap[t].step # "enqueue" => n \in onScreen'.strays
  <2>1. {n} \in SUBSET Nat /\ onScreen \in TableType /\ cached \in TableType
    BY <1>0, <1>1, CarriedType DEF CheckoutType
  <2> QED BY <1>1, <2>1, TableTypes DEF ChargeThrows, Later
<1>8. /\ download'.step = download.step /\ download'.saved = download.saved
      /\ download'.counted = download.counted /\ Unsaved \subseteq Unsaved'
      /\ InTransaction /\ tap[t].step = "decrement" => n \in Unsaved'
  <2>1. download \in DownloadType
    BY <1>0 DEF CheckoutType
  <2>2. download' = IF InTransaction /\ tap[t].step = "decrement"
                      THEN [download EXCEPT !.charged = @ \union {n}] ELSE download
    BY <1>1 DEF ChargeThrows, Charged
  <2> QED BY <2>1, <2>2 DEF Unsaved, DownloadType
<1>9. Held \subseteq Held' \union onScreen'.strays
  BY <1>5, <1>7
<1>10. \A w \in Goods :
         /\ w \in cached.rows => Pending[w] \subseteq Pending'[w] \union cached'.strays
         /\ Pending[w] \subseteq Pending'[w] \union Held' \union onScreen'.strays
         /\ InTransaction => Pending[w] \subseteq Pending'[w] \union Unsaved'
  BY <1>4, <1>7, <1>8
<1>11. \A w \in Goods : /\ Pending'[w] \subseteq Pending[w] \union NewIn(sold, sold', w)
                        /\ NewIn(sold, sold', w) \subseteq Pending'[w]
  BY <1>4, <1>6
<1> QED BY <1>0, <1>6, <1>7, <1>8, <1>9, <1>10, <1>11, AllKept

\* The screen is reloaded, or mounted again.
LEMMA ReloadSteps ==
  ASSUME CartInv, ShowInv, Remount \/ \E t \in Taps : Reload(t)
  PROVE  ShowInv'
<1>0. CheckoutType /\ CheckoutType'
  BY TillTypes DEF CartInv
<1>1. CASE Remount
  <2>1. \A t \in Taps : tap[t] \in TapType
    BY <1>0 DEF CheckoutType
  <2>2. \A t \in Taps : tap'[t].todo = tap[t].todo /\ tap'[t].sale = tap[t].sale
    BY <1>1, <2>1 DEF Remount, TapType
  <2>3. Pending' = Pending
    BY <2>2 DEF Pending
  <2> QED BY <1>0, <1>1, <2>3, ReloadShow DEF Remount
<1>2. ASSUME NEW t \in Taps, Reload(t) PROVE ShowInv'
  <2>1. /\ \A u \in Taps \ {t} : tap'[u] = tap[u]
        /\ tap'[t].step = "idle" /\ tap'[t].todo = {} /\ tap[t].todo = {}
    BY <1>0, <1>2, EmptyCartType DEF Reload, CheckoutType, CartInv, TapInv
  <2>2. Pending' = Pending
    <3>1. ASSUME NEW v \in Goods
          PROVE  {tap'[u].sale : u \in {x \in Taps : v \in tap'[x].todo}} =
                   {tap[u].sale : u \in {x \in Taps : v \in tap[x].todo}}
      BY <2>1
    <3> QED BY <3>1 DEF Pending
  <2>3. CASE tap[t].mounted
    BY <1>0, <1>2, <2>2, <2>3, ReloadShow DEF Reload
  <2>4. CASE ~tap[t].mounted
    <3>1. Held' = Held
      BY <2>1, <2>4 DEF Held, Rung
    <3>2. SalesGo(sold, sold', {}) /\ Sales' = Sales
      BY <1>2, SalesSame DEF Reload
    <3> QED BY <1>0, <1>2, <2>2, <2>4, <3>1, <3>2, QuietShow DEF Reload
  <2> QED BY <2>3, <2>4
<1> QED BY <1>1, <1>2

\* Between transactions.
LEMMA OutsideShow ==
  ASSUME CartInv, ShowInv, FetchCatalog \/ FetchFails \/ Commit
  PROVE  ShowInv'
<1>0. CheckoutType /\ CheckoutType'
  BY StockTypes DEF CartInv
<1>1. cached' = cached /\ onScreen' = onScreen /\ tap' = tap /\ sold' = sold
  BY DEF FetchCatalog, FetchFails, Commit, TillUnchanged
<1>2. /\ ~InTransaction' /\ download'.step # "filling"
      /\ download'.counted \subseteq Sales
  <2>1. NoDownload.counted = {} /\ NoDownload \in DownloadType /\ NoDownload.step = "idle"
    BY NoDownloadType DEF NoDownload
  <2>2. CASE FetchCatalog
    BY <2>1, <2>2 DEF FetchCatalog, DownloadType, InTransaction
  <2>3. CASE FetchFails \/ Commit
    <3>1. download' = NoDownload \/ download' = [NoDownload EXCEPT !.step = "between"]
      BY <2>3 DEF FetchFails, Commit
    <3> QED BY <2>1, <3>1 DEF DownloadType, InTransaction
  <2> QED BY <2>2, <2>3
<1>3. /\ Shown(sold, cached, Pending, {})' /\ Waiting(sold, cached, Pending, {})'
      /\ Shown(sold, onScreen, Pending, Held)'
  <2>1. Pending' = Pending /\ Held' = Held
    BY <1>1 DEF Pending, Held, Rung
  <2> QED BY <1>1, <2>1 DEF ShowInv
<1> QED BY <1>1, <1>2, <1>3 DEF ShowInv, Sales

\* BEGIN: the table is what a rollback would bring back.
LEMMA BeginShow == ASSUME CartInv, ShowInv, Begin PROVE ShowInv'
<1>0. CheckoutType /\ CheckoutType'
  BY StockTypes DEF CartInv
<1>1. /\ cached' = cached /\ onScreen' = onScreen /\ tap' = tap /\ sold' = sold
      /\ Pending' = Pending /\ Held' = Held
  BY DEF Begin, TillUnchanged, Pending, Held, Rung
<1>2. /\ download'.saved = cached /\ download'.counted = download.counted
      /\ download'.step # "filling"
  <2>1. download \in DownloadType
    BY <1>0 DEF CheckoutType
  <2> QED BY <2>1 DEF Begin, DownloadType
<1>3. Shown(sold, cached, Pending, {}) /\ Waiting(sold, cached, Pending, {})
  BY DEF ShowInv
<1>4. PICK P, T, Y, s : P = Pending /\ T = cached /\ Y = Unsaved' /\ s = sold
  OBVIOUS
<1>5. Later(T, T) /\ SalesGo(s, s, Y \union T.strays) /\ \A v : NewIn(s, s, v) = {}
  BY DEF Later, SalesGo, NewIn
<1>6. s \in Seq(SaleType) /\ T.rows \subseteq Goods
  BY <1>0, <1>4, TableParts
<1>7. Shown(s, T, P, Y)
  BY <1>3, <1>4, <1>5, <1>6, StaysShown
<1>8. Waiting(s, T, P, Y)
  BY <1>3, <1>4, <1>5, <1>6, StaysWaiting
<1>9. /\ Shown(sold, download.saved, Pending, Unsaved)'
      /\ Waiting(sold, download.saved, Pending, Unsaved)'
  BY <1>1, <1>2, <1>4, <1>7, <1>8
<1> QED BY <1>1, <1>2, <1>9 DEF ShowInv, Sales

\* DELETE and INSERT.
LEMMA FillShow ==
  ASSUME CartInv, ShowInv, DeleteCached \/ \E v \in Goods : InsertCached(v)
  PROVE  ShowInv'
<1>0. CheckoutType /\ CheckoutType'
  BY StockTypes DEF CartInv
<1>1. /\ onScreen' = onScreen /\ tap' = tap /\ sold' = sold
      /\ Pending' = Pending /\ Held' = Held
  <2>1. onScreen' = onScreen /\ tap' = tap /\ sold' = sold
    BY DEF DeleteCached, InsertCached, TillUnchanged
  <2> QED BY <2>1 DEF Pending, Held, Rung
<1>2. /\ InTransaction /\ download'.saved = download.saved /\ Unsaved' = Unsaved
      /\ download'.counted = download.counted /\ download'.step = "filling"
  <2>1. download \in DownloadType
    BY <1>0 DEF CheckoutType
  <2> QED BY <2>1 DEF DeleteCached, InsertCached, InTransaction, Unsaved, DownloadType
<1>3. /\ Shown(sold, download.saved, Pending, Unsaved)'
      /\ Waiting(sold, download.saved, Pending, Unsaved)'
      /\ Shown(sold, onScreen, Pending, Held)' /\ download'.counted \subseteq Sales'
  BY <1>1, <1>2 DEF ShowInv, Sales
<1>4. CASE DeleteCached
  <2>1. cached' = [EmptyTable EXCEPT !.counted = download.counted]
    BY <1>4 DEF DeleteCached
  <2>2. /\ cached'.counted = download.counted /\ cached'.rows = {}
        /\ \A v \in Goods : cached'.off[v] = {}
    BY <2>1 DEF EmptyTable
  <2>3. \A v \in Goods : Pending[v] \subseteq Sales
    BY PendingIs
  <2>4. Shown(sold, cached, Pending, {})'
    BY <1>1, <2>2 DEF Shown, ShowInv, Sales
  <2>5. Waiting(sold, cached, Pending, {})'
    BY <1>1, <2>2, <2>3 DEF Waiting, Sales
  <2> QED BY <1>2, <1>3, <2>2, <2>4, <2>5 DEF ShowInv
<1>5. ASSUME NEW v \in Goods, InsertCached(v) PROVE ShowInv'
  <2>1. cached \in TableType /\ Crossing(v) \in SUBSET Nat /\ v \notin cached.rows
        /\ cached.counted = download.counted
    BY <1>0, <1>5, CarriedType DEF InsertCached, Crossing, CheckoutType, ShowInv
  <2>2. PICK a : a = Astray(cached, Crossing(v))
    OBVIOUS
  <2>3. /\ a \in TableType /\ a.strays = cached.strays \union Crossing(v) /\ a.rows = cached.rows
        /\ a.left = cached.left /\ a.gross = cached.gross /\ a.counted = cached.counted
        /\ a.off = cached.off
    BY <2>1, <2>2, TableTypes
  <2>4. cached' = [a EXCEPT !.rows = @ \union {v}, !.left[v] = download.got[v],
                            !.gross[v] = download.got[v]]
    BY <1>5, <2>2 DEF InsertCached
  <2>5. /\ cached'.rows = cached.rows \union {v} /\ cached'.off = cached.off
        /\ cached'.strays = cached.strays \union Crossing(v)
        /\ cached'.counted = download.counted
        /\ cached'.left = [cached.left EXCEPT ![v] = download.got[v]]
        /\ cached'.gross = [cached.gross EXCEPT ![v] = download.got[v]]
    BY <2>1, <2>3, <2>4 DEF TableType
  <2>6. /\ cached'.left[v] = download.got[v] /\ cached'.gross[v] = download.got[v]
        /\ download.got[v] \in Int
        /\ \A w \in Goods \ {v} : /\ cached'.left[w] = cached.left[w]
                                  /\ cached'.gross[w] = cached.gross[w]
    BY <1>0, <2>1, <2>5 DEF TableType, CheckoutType, DownloadType
  <2>7. cached.off[v] = {}
    BY <2>1 DEF ShowInv, Waiting
  <2>8. \A w \in Goods : DueIn(sold, cached', w) = DueIn(sold, cached, w)
    BY <2>1, <2>5 DEF DueIn
  <2>9. \A n \in Sales \ Crossing(v) : n \notin DueIn(sold, cached, v)
    BY <2>1 DEF DueIn, Crossing, Sales
  <2>10. Pending[v] \subseteq Crossing(v)
    <3>1. ASSUME NEW t \in Taps, v \in tap[t].todo PROVE tap[t].sale \in Crossing(v)
      <4>1. tap[t].sale \in Sales /\ sold[tap[t].sale].lines = tap[t].lines /\ tap[t].lines[v] > 0
        BY <3>1, PendingIs DEF CartInv, TapInv
      <4> QED BY <3>1, <4>1 DEF Crossing
    <3> QED BY <3>1, PendingIs
  <2>11. /\ cached'.left[v] = cached'.gross[v] - UnitsIn(sold, cached'.off[v], v)
         /\ \A n \in Sales \ (cached'.strays \union Pending[v] \union {}) :
              n \in cached'.off[v] <=> n \in DueIn(sold, cached', v)
    <3>1. UnitsIn(sold, {}, v) = 0
      BY NoUnits
    <3>2. cached'.left[v] = cached'.gross[v] - UnitsIn(sold, cached'.off[v], v)
      BY <2>5, <2>6, <2>7, <3>1
    <3> QED BY <2>5, <2>7, <2>8, <2>9, <3>2
  <2>12. ASSUME NEW w \in cached.rows
         PROVE  /\ cached'.left[w] = cached'.gross[w] - UnitsIn(sold, cached'.off[w], w)
                /\ \A n \in Sales \ (cached'.strays \union Pending[w] \union {}) :
                     n \in cached'.off[w] <=> n \in DueIn(sold, cached', w)
    <3>1. w \in Goods \ {v}
      BY <2>1 DEF TableType
    <3> QED BY <2>5, <2>6, <2>8, <3>1 DEF ShowInv, Shown, Sales
  <2>13. Shown(sold, cached, Pending, {})'
    <3>1. cached'.counted \subseteq Sales /\ \A w \in Goods : cached'.off[w] \subseteq Sales
      BY <2>5 DEF ShowInv, Shown, Sales
    <3> QED BY <1>1, <2>5, <2>11, <2>12, <3>1 DEF Shown, Sales
  <2>14. Waiting(sold, cached, Pending, {})'
    <3> SUFFICES ASSUME NEW w \in Goods
                 PROVE  /\ w \notin cached'.rows => cached'.off[w] = {}
                        /\ \A n \in Pending[w] :
                             /\ n \in DOMAIN sold /\ n \notin cached'.off[w]
                             /\ w \in cached'.rows /\ n \notin cached'.strays \union {} =>
                                  n \in DueIn(sold, cached', w)
      BY <1>1 DEF Waiting
    <3>1. /\ w \notin cached.rows => cached.off[w] = {}
          /\ \A n \in Pending[w] :
               /\ n \in DOMAIN sold /\ n \notin cached.off[w]
               /\ w \in cached.rows /\ n \notin cached.strays \union {} =>
                    n \in DueIn(sold, cached, w)
      BY DEF ShowInv, Waiting
    <3> QED BY <2>5, <2>8, <2>10, <3>1
  <2> QED BY <1>1, <1>2, <1>3, <2>5, <2>13, <2>14 DEF ShowInv
<1> QED BY <1>4, <1>5

\* A rollback.
LEMMA UndoShow ==
  ASSUME CheckoutType, CheckoutType', ShowInv, NEW S \in SUBSET Nat, Undo(S),
         \A v \in Goods : Pending'[v] \subseteq Pending[v] /\ Pending[v] \subseteq Pending'[v] \union S
  PROVE  /\ Shown(sold, cached, Pending, {})' /\ Waiting(sold, cached, Pending, {})'
         /\ SalesGo(sold, sold', download.queued) /\ \A v : NewIn(sold, sold', v) = {}
         /\ download' = NoDownload
<1>1. /\ download' = NoDownload /\ Sales' = Sales
      /\ \A n \in Sales : /\ sold'[n].lines = sold[n].lines
                          /\ \/ sold'[n].state = sold[n].state
                             \/ sold'[n].state = "lost" /\ n \in download.queued
  BY UndoTypes
<1>2. SalesGo(sold, sold', download.queued) /\ \A v : NewIn(sold, sold', v) = {}
  BY <1>1 DEF SalesGo, NewIn, Sales
<1>3. PICK P, Q, T, U, X, s, r :
        /\ P = Pending /\ Q = Pending' /\ s = sold /\ r = sold' /\ U = cached'
        /\ T = (IF InTransaction THEN download.saved ELSE cached)
        /\ X = (IF InTransaction THEN Unsaved ELSE {})
  OBVIOUS
<1>4. /\ Shown(s, T, P, X) /\ Waiting(s, T, P, X)
      /\ s \in Seq(SaleType) /\ r \in Seq(SaleType) /\ T \in TableType /\ T.rows \subseteq Goods
  BY <1>3, TableParts DEF ShowInv, CheckoutType
<1>5. PICK L : L = download.queued \union download.charged \union S
  OBVIOUS
<1>6. L \in SUBSET Nat /\ U = Astray(T, L)
  <2>1. download \in DownloadType
    BY DEF CheckoutType
  <2> QED BY <1>3, <1>5, <2>1 DEF Undo, DownloadType
<1>7. Later(T, U) /\ U.strays = T.strays \union L
  BY <1>4, <1>6, TableTypes DEF Later
<1>8. X \subseteq {} \union U.strays /\ SalesGo(s, r, {} \union U.strays)
  BY <1>2, <1>3, <1>5, <1>7 DEF Unsaved, SalesGo
<1>9. \A v \in Goods : /\ NewIn(s, r, v) \subseteq Q[v]
                       /\ P[v] \subseteq Q[v] \union {} \union U.strays
                       /\ Q[v] \subseteq P[v] \union NewIn(s, r, v)
  BY <1>2, <1>3, <1>5, <1>7
<1>10. Shown(r, U, Q, {})
  BY <1>4, <1>7, <1>8, <1>9, StaysShown
<1>11. Waiting(r, U, Q, {})
  BY <1>4, <1>7, <1>8, <1>9, StaysWaiting
<1> QED BY <1>1, <1>2, <1>3, <1>10, <1>11

\* The transaction fails, or the app is killed.
LEMMA UndoSteps == ASSUME CartInv, ShowInv, RollBack \/ KillApp PROVE ShowInv'
<1>0. CheckoutType /\ CheckoutType'
  BY StockTypes DEF CartInv
<1>1. NoDownload.counted = {} /\ NoDownload.step = "idle"
  BY DEF NoDownload
<1>2. CASE RollBack
  <2>1. Undo({}) /\ tap' = tap /\ onScreen' = Astray(onScreen, download.queued)
    BY <1>2 DEF RollBack, cartVars
  <2>2. Pending' = Pending /\ Held' = Held
    BY <2>1 DEF Pending, Held, Rung
  <2>3. /\ Shown(sold, cached, Pending, {})' /\ Waiting(sold, cached, Pending, {})'
        /\ SalesGo(sold, sold', download.queued) /\ \A v : NewIn(sold, sold', v) = {}
        /\ download' = NoDownload
    BY <1>0, <2>1, <2>2, UndoShow
  <2>4. Later(onScreen, onScreen') /\ download.queued \subseteq onScreen'.strays
    <3>1. download.queued \in SUBSET Nat /\ onScreen \in TableType
      BY <1>0 DEF CheckoutType, DownloadType
    <3> QED BY <2>1, <3>1, TableTypes DEF Later
  <2>5. SalesGo(sold, sold', Held' \union onScreen'.strays)
    BY <2>3, <2>4 DEF SalesGo
  <2>6. Shown(sold, onScreen, Pending, Held)'
    BY <1>0, <2>2, <2>3, <2>4, <2>5, ScreenKept
  <2> QED BY <1>1, <2>3, <2>6 DEF ShowInv, InTransaction
<1>3. CASE KillApp
  <2> DEFINE S == {tap[t].sale : t \in {u \in Taps : tap[u].todo # {}}}
  <2>1. Undo(S) /\ tap' = [t \in Taps |-> TapIdle] /\ onScreen' = cached'
    BY <1>3 DEF KillApp
  <2>2. S \in SUBSET Nat
    BY <1>0, CarriedType
  <2>3. \A v \in Goods : Pending'[v] = {} /\ Pending[v] \subseteq S
    BY <2>1, EmptyCartType DEF Pending
  <2>4. Held' = {}
    BY <2>1, EmptyCartType DEF Held, Rung
  <2> HIDE DEF S
  <2>5. /\ Shown(sold, cached, Pending, {})' /\ Waiting(sold, cached, Pending, {})'
        /\ download' = NoDownload
    BY <1>0, <2>1, <2>2, <2>3, UndoShow
  <2>6. Shown(sold, onScreen, Pending, Held)'
    BY <2>1, <2>4, <2>5
  <2> QED BY <1>1, <2>5, <2>6 DEF ShowInv, InTransaction
<1> QED BY <1>2, <1>3

\* The invariant holds at first.
LEMMA ShowStarts == CheckoutInit => ShowInv
<1> SUFFICES ASSUME CheckoutInit PROVE ShowInv
  OBVIOUS
<1> USE DEF CheckoutInit
<1>1. DOMAIN sold = {} /\ \A v \in Goods : Pending[v] = {}
  BY EmptyCartType DEF Pending
<1>2. /\ OpeningTable.rows = Goods /\ OpeningTable.counted = {}
      /\ \A v \in Goods : OpeningTable.off[v] = {} /\ OpeningTable.left[v] = Opening
                          /\ OpeningTable.gross[v] = Opening
  BY DEF OpeningTable, EmptyTable, OpeningStock
<1>3. \A v \in Goods : OpeningTable.left[v] = OpeningTable.gross[v] - UnitsIn(sold, {}, v)
  <2>1. \A v \in Goods : UnitsIn(sold, {}, v) = 0
    BY NoUnits
  <2> QED BY <1>2, <2>1, CheckoutAssumption
<1>4. \A X : Shown(sold, OpeningTable, Pending, X)
  BY <1>1, <1>2, <1>3 DEF Shown
<1>5. Waiting(sold, OpeningTable, Pending, {})
  BY <1>1, <1>2 DEF Waiting
<1> QED BY <1>1, <1>4, <1>5, NoDownloadType DEF ShowInv, InTransaction, Sales, NoDownload

\* And is kept.
LEMMA ShowStep == CartInv /\ ShowInv /\ [CheckoutNext]_checkoutVars => ShowInv'
<1> SUFFICES ASSUME CartInv, ShowInv, [CheckoutNext]_checkoutVars PROVE ShowInv'
  OBVIOUS
<1>1. CASE UNCHANGED checkoutVars
  <2>1. UNCHANGED <<cached, onScreen, sold, tap, download>>
    BY <1>1 DEF checkoutVars
  <2>2. Pending' = Pending /\ Held' = Held /\ Unsaved' = Unsaved
    BY <2>1 DEF Pending, Held, Unsaved, Rung
  <2> QED BY <2>1, <2>2 DEF ShowInv, InTransaction, Sales
<1> QED BY <1>1, QuietSteps, QueueSaleShow, DecrementShow, ThrowShow, ReloadSteps, OutsideShow,
           BeginShow, FillShow, UndoSteps DEF CheckoutNext

\* Between charges, nothing waits.
LEMMA ShowsServer == CartInv /\ ShowInv => ScreenTracksServer
<1> SUFFICES ASSUME CartInv, ShowInv, UnderWay = {} PROVE
      \A v \in onScreen.rows :
        /\ onScreen.left[v] =
             onScreen.gross[v] - MapThenSumSet(LAMBDA n : sold[n].lines[v], onScreen.off[v])
        /\ \A n \in Sales \ onScreen.strays : n \in onScreen.off[v] <=> n \in Due(onScreen, v)
  BY DEF ScreenTracksServer
<1>1. \A t \in Taps : tap[t].todo = {} /\ ~Rung(t)
  BY DEF CartInv, TapInv, UnderWay, Rung
<1>2. (\A v \in Goods : Pending[v] = {}) /\ Held = {} /\ onScreen.rows \subseteq Goods
  BY <1>1, TableParts DEF Pending, Held, CartInv
<1>3. \A v : DueIn(sold, onScreen, v) = Due(onScreen, v)
  BY DEF DueIn, Due, Sales
<1>4. Shown(sold, onScreen, Pending, Held)
  BY DEF ShowInv
<1> QED BY <1>2, <1>3, <1>4 DEF Shown, UnitsIn, Sales

\* ScreenTracksServer, of every till: however sales, downloads, rollbacks and
\* kills fall, what is on screen is an answer of the server less the sales that
\* answer had not.
THEOREM ScreenAlwaysTracks == CheckoutSpec => []ScreenTracksServer
<1>1. CheckoutInit => CartInv /\ ShowInv
  BY CartStarts, ShowStarts
<1>2. CartInv /\ ShowInv /\ [CheckoutNext]_checkoutVars => CartInv' /\ ShowInv'
  BY CartStep, ShowStep
<1>3. CartInv /\ ShowInv => ScreenTracksServer
  BY ShowsServer
<1> QED BY <1>1, <1>2, <1>3, PTL DEF CheckoutSpec
-----------------------------------------------------------------------------
(* TenantPage *)

\* A list request.
LoadType ==
  [step : {"idle", "sent", "served"}, shop : Shops \union {"none"}, seq : Nat, got : SUBSET Nat]

\* A create request.
PostType ==
  [step : {"idle", "sent", "created", "refused"}, shop : Shops \union {"none"}, draft : Nat]

\* The types.
PageType ==
  /\ load \in [Loads -> LoadType] /\ post \in [Posts -> PostType]
  /\ asked \in Nat /\ shownLoad \in Nat /\ draft \in Nat /\ shopNow \in Shops
  /\ onPage \in [shop : Shops \union {"none"}, ids : SUBSET Nat]
  /\ IsFiniteSet(records) /\ \A r \in records : r.id \in Nat /\ r.id <= Cardinality(records)
  /\ shownLoad <= asked /\ \A l \in Loads : load[l].seq <= asked

\* ids are a first page of the shop's records, but for the youngest of others.
PageOf(s, ids) ==
  \E R \in SUBSET RecordsOf(s) :
    /\ \A r \in RecordsOf(s) \ R : r.draft = 0 /\ \A q \in R : q.id < r.id
    /\ \E page \in FirstPages(R) : ids = IdsOf(page)

\* A record is made elsewhere: it is the youngest.
MadeElsewhere ==
  \E r : /\ records' = records \union {r} /\ r.draft = 0
         /\ \A q \in records : q.id < r.id

\* A record was created, and the page does not know yet.
Unanswered == \E p \in Posts : post[p].step = "created"

\* The list asked for last, under way or on screen, is the current tenant's and
\* is a first page of what there was when the page had created its last record.
ListInv ==
  /\ \A l \in Loads : load[l].step # "idle" /\ load[l].seq = asked =>
       /\ strayed \/ load[l].shop = shopNow
       /\ \/ load[l].step = "sent" \/ form = "till" \/ lostPost \/ Unanswered
          \/ PageOf(load[l].shop, load[l].got)
  /\ shownLoad = asked =>
       /\ strayed \/ onPage.shop = shopNow
       /\ form = "till" \/ lostPost \/ Unanswered \/ PageOf(onPage.shop, onPage.ids)

\* The inductive invariant of ListIsCurrent.
ListsInv == PageType /\ ListInv

\* The idle requests have their types.
LEMMA PageIdle == LoadIdle \in LoadType /\ PostIdle \in PostType
  BY DEF LoadIdle, LoadType, PostIdle, PostType

\* A first page stays one when others make records, and is there to begin with.
LEMMA PageKept ==
  ASSUME form' = form, records' = records \/ MadeElsewhere
  PROVE  \A s, ids : PageOf(s, ids) => PageOf(s, ids)'
<1> SUFFICES ASSUME NEW s, NEW ids, PageOf(s, ids) PROVE PageOf(s, ids)'
  OBVIOUS
<1>1. PICK R \in SUBSET RecordsOf(s) :
        /\ \A r \in RecordsOf(s) \ R : r.draft = 0 /\ \A q \in R : q.id < r.id
        /\ \E page \in FirstPages(R) : ids = IdsOf(page)
  BY DEF PageOf
<1>2. FirstPages(R)' = FirstPages(R)
  BY DEF FirstPages, Rank
<1>3. \E page \in FirstPages(R)' : ids = IdsOf(page)
  BY <1>1, <1>2
<1>4. CASE records' = records
  <2>1. RecordsOf(s)' = RecordsOf(s)
    BY <1>4 DEF RecordsOf
  <2> QED BY <1>1, <1>3, <2>1 DEF PageOf, IdsOf
<1>5. CASE MadeElsewhere
  <2>1. PICK n : /\ records' = records \union {n} /\ n.draft = 0
                 /\ \A q \in records : q.id < n.id
    BY <1>5 DEF MadeElsewhere
  <2>2. RecordsOf(s) \subseteq records /\ RecordsOf(s) \subseteq RecordsOf(s)'
        /\ RecordsOf(s)' \subseteq RecordsOf(s) \union {n}
    BY <2>1 DEF RecordsOf
  <2>3. \A r \in RecordsOf(s)' \ R : r.draft = 0 /\ \A q \in R : q.id < r.id
    BY <1>1, <2>1, <2>2
  <2>4. R \in SUBSET RecordsOf(s)'
    BY <2>2
  <2> QED BY <1>3, <2>3, <2>4 DEF PageOf, IdsOf
<1> QED BY <1>4, <1>5

\* The id of a new record.
LEMMA NewYoungest ==
  ASSUME PageType, NEW s, NEW d, NewRecord(s, d)
  PROVE  /\ \E r : /\ records' = records \union {r} /\ r.draft = d
                   /\ \A q \in records : q.id < r.id
         /\ IsFiniteSet(records')
         /\ \A r \in records' : r.id \in Nat /\ r.id <= Cardinality(records')
<1> DEFINE n == Cardinality(records) + 1
<1>1. PICK day : records' = records \union {[shop |-> s, draft |-> d, day |-> day, id |-> n]}
  BY DEF NewRecord
<1> DEFINE r == [shop |-> s, draft |-> d, day |-> day, id |-> n]
<1>2. r.draft = d /\ r.id = n
  OBVIOUS
<1>3. records' = records \union {r}
  BY <1>1
<1>4. Cardinality(records) \in Nat
  BY FS_CardinalityType DEF PageType
<1> HIDE DEF r
<1>5. \A q \in records : q.id < r.id
  BY <1>2, <1>4 DEF PageType
<1>6. r \notin records
  BY <1>2, <1>4, <1>5
<1>7. IsFiniteSet(records') /\ Cardinality(records') = n
  BY <1>3, <1>6, FS_AddElement DEF PageType
<1>8. \A q \in records' : q.id \in Nat /\ q.id <= n
  BY <1>2, <1>3, <1>4 DEF PageType
<1> QED BY <1>2, <1>3, <1>5, <1>7, <1>8

\* The list is asked for.
LEMMA AskingInv ==
  ASSUME ListsInv, NEW s \in Shops \union {"none"}, Asking(load, s),
         post' \in [Posts -> PostType], draft' \in Nat, shopNow' \in Shops,
         UNCHANGED <<onPage, shownLoad, records>>
  PROVE  ListsInv'
<1> USE DEF ListsInv
<1> DEFINE r == [LoadIdle EXCEPT !.step = "sent", !.shop = s, !.seq = asked + 1]
<1>1. PICK l \in Loads : load' = [load EXCEPT ![l] = r]
  BY DEF Asking
<1>2. asked' = asked + 1 /\ (strayed' \/ s = shopNow')
  BY DEF Asking
<1>3. r \in LoadType /\ r.step = "sent" /\ r.shop = s /\ r.seq = asked + 1
  <2>1. asked + 1 \in Nat
    BY DEF PageType
  <2> QED BY <2>1, PageIdle DEF LoadType
<1> HIDE DEF r
<1>4. /\ load' \in [Loads -> LoadType] /\ load'[l] = r
      /\ \A k \in Loads \ {l} : load'[k] = load[k]
  BY <1>1, <1>3 DEF PageType
<1>5. PageType'
  BY <1>2, <1>3, <1>4 DEF PageType, LoadType
<1>6. ListInv'
  BY <1>2, <1>3, <1>4 DEF ListInv, PageType
<1> QED BY <1>5, <1>6

\* The list is left alone, and nothing that it should show is new.
LEMMA ListKept ==
  ASSUME ListsInv, UNCHANGED <<form, shopNow, onPage, load, asked, shownLoad, strayed>>,
         post' \in [Posts -> PostType], draft' \in Nat, IsFiniteSet(records'),
         \A r \in records' : r.id \in Nat /\ r.id <= Cardinality(records'),
         \/ /\ records' = records \/ MadeElsewhere
            /\ Unanswered => Unanswered' \/ lostPost' \/ form = "till"
         \/ Unanswered',
         lostPost => lostPost'
  PROVE  ListsInv'
<1> USE DEF ListsInv
<1>1. PageType'
  BY DEF PageType
<1>2. records' = records \/ MadeElsewhere => \A s, ids : PageOf(s, ids) => PageOf(s, ids)'
  BY PageKept
<1>3. ListInv'
  BY <1>2 DEF ListInv
<1> QED BY <1>1, <1>3

\* The API serves a list.
LEMMA ServeListInv == ASSUME ListsInv, NEW l \in Loads, ServeList(l) PROVE ListsInv'
<1> USE DEF ListsInv
<1>1. PICK page \in FirstPages(RecordsOf(load[l].shop)) :
        load' = [load EXCEPT ![l].step = "served", ![l].got = IdsOf(page)]
  BY DEF ServeList
<1> DEFINE r == [load[l] EXCEPT !.step = "served", !.got = IdsOf(page)]
<1>2. UNCHANGED <<form, shopNow, onPage, asked, shownLoad, post, draft, records, strayed, lostPost>>
      /\ load[l].step = "sent"
  BY DEF ServeList
<1>3. IdsOf(page) \subseteq Nat
  BY DEF FirstPages, RecordsOf, IdsOf, PageType
<1>4. r \in LoadType /\ r.step = "served" /\ r.seq = load[l].seq /\ r.shop = load[l].shop
      /\ r.got = IdsOf(page)
  BY <1>3 DEF PageType, LoadType
<1>5. load' = [load EXCEPT ![l] = r]
  BY <1>1 DEF PageType, LoadType
<1> HIDE DEF r
<1>6. /\ load' \in [Loads -> LoadType] /\ load'[l] = r
      /\ \A k \in Loads \ {l} : load'[k] = load[k]
  BY <1>4, <1>5 DEF PageType
<1>7. PageType'
  BY <1>2, <1>4, <1>6 DEF PageType
<1>8. PageOf(load[l].shop, IdsOf(page))
  BY DEF PageOf
<1>9. \A s, ids : PageOf(s, ids) => PageOf(s, ids)'
  BY <1>2, PageKept
<1>10. Unanswered' <=> Unanswered
  BY <1>2 DEF Unanswered
<1>11. ListInv'
  BY <1>2, <1>4, <1>6, <1>8, <1>9, <1>10 DEF ListInv
<1> QED BY <1>7, <1>11

\* A list request ends, with the list on screen or not.
LEMMA ListEnds ==
  ASSUME ListsInv, NEW l \in Loads, ListArrives(l) \/ ListFails(l)
  PROVE  ListsInv'
<1> USE DEF ListsInv
<1>1. /\ UNCHANGED <<form, shopNow, asked, post, draft, records, strayed, lostPost>>
      /\ load' = [load EXCEPT ![l] = LoadIdle]
      /\ \/ UNCHANGED <<onPage, shownLoad>>
         \/ /\ load[l].step = "served" /\ shownLoad' = load[l].seq
            /\ onPage' = [shop |-> load[l].shop, ids |-> load[l].got]
  BY DEF ListArrives, ListFails
<1>2. /\ load' \in [Loads -> LoadType] /\ load'[l].step = "idle" /\ load'[l].seq = 0
      /\ \A k \in Loads \ {l} : load'[k] = load[k]
  BY <1>1, PageIdle DEF PageType, LoadIdle
<1>3. PageType'
  BY <1>1, <1>2 DEF PageType, LoadType
<1>4. \A s, ids : PageOf(s, ids) => PageOf(s, ids)'
  BY <1>1, PageKept
<1>5. Unanswered' <=> Unanswered
  BY <1>1 DEF Unanswered
<1>6. ListInv'
  <2>1. ASSUME NEW k \in Loads, load'[k].step # "idle", load'[k].seq = asked'
        PROVE  /\ strayed' \/ load'[k].shop = shopNow'
               /\ \/ load'[k].step = "sent" \/ form' = "till" \/ lostPost' \/ Unanswered'
                  \/ PageOf(load[k].shop, load[k].got)'
    BY <1>1, <1>2, <1>4, <1>5, <2>1 DEF ListInv
  <2>2. CASE UNCHANGED <<onPage, shownLoad>>
    BY <1>1, <1>4, <1>5, <2>1, <2>2 DEF ListInv
  <2>3. CASE /\ load[l].step = "served" /\ shownLoad' = load[l].seq
             /\ onPage' = [shop |-> load[l].shop, ids |-> load[l].got]
    <3>1. onPage'.shop = load[l].shop /\ onPage'.ids = load[l].got
      BY <2>3
    <3> QED BY <1>1, <1>4, <1>5, <2>1, <2>3, <3>1 DEF ListInv
  <2> QED BY <1>1, <2>2, <2>3
<1> QED BY <1>3, <1>6

\* A create request ends.
LEMMA PostEnds ==
  ASSUME PageType, NEW p \in Posts, post' = [post EXCEPT ![p] = PostIdle]
  PROVE  /\ post' \in [Posts -> PostType] /\ post'[p] = PostIdle /\ post'[p].step = "idle"
         /\ \A q \in Posts \ {p} : post'[q] = post[q]
  BY PageIdle DEF PageType, PostIdle

\* Every step keeps ListsInv.
LEMMA ListsStep == ListsInv /\ [TenantPageNext]_tenantPageVars => ListsInv'
<1> SUFFICES ASSUME ListsInv, [TenantPageNext]_tenantPageVars PROVE ListsInv'
  OBVIOUS
<1> USE DEF ListsInv
<1>t. /\ post \in [Posts -> PostType] /\ draft \in Nat /\ IsFiniteSet(records)
      /\ \A r \in records : r.id \in Nat /\ r.id <= Cardinality(records)
  BY DEF PageType
<1>1. ASSUME NEW s \in Shops, SwitchShop(s) PROVE ListsInv'
  BY <1>1, <1>t, AskingInv DEF SwitchShop
<1>2. CASE EditForm
  BY <1>2, <1>t, ListKept DEF EditForm, Unanswered
<1>3. ASSUME NEW p \in Posts, Submit(p) PROVE ListsInv'
  <2>1. /\ post' = [post EXCEPT ![p] = [step |-> "sent", shop |-> shopNow, draft |-> draft]]
        /\ post[p].step = "idle"
        /\ UNCHANGED <<form, shopNow, onPage, load, asked, shownLoad, draft, records,
                       strayed, lostPost>>
    BY <1>3 DEF Submit
  <2>2. shopNow \in Shops \union {"none"}
    BY DEF PageType
  <2>3. post' \in [Posts -> PostType]
    BY <1>t, <2>1, <2>2 DEF PostType
  <2>4. Unanswered => Unanswered'
    BY <1>t, <2>1 DEF Unanswered
  <2> QED BY <1>t, <2>1, <2>3, <2>4, ListKept
<1>4. ASSUME NEW p \in Posts, ServePost(p) PROVE ListsInv'
  <2>1. /\ UNCHANGED <<form, shopNow, onPage, load, asked, shownLoad, draft, strayed, lostPost>>
        /\ post[p].step = "sent"
    BY <1>4 DEF ServePost
  <2>2. CASE /\ NewRecord(post[p].shop, post[p].draft)
             /\ post' = [post EXCEPT ![p].step = "created"]
    <3>1. post' \in [Posts -> PostType] /\ Unanswered'
      BY <1>t, <2>2 DEF PostType, Unanswered
    <3>2. /\ IsFiniteSet(records')
          /\ \A r \in records' : r.id \in Nat /\ r.id <= Cardinality(records')
      BY <2>2, NewYoungest
    <3> QED BY <1>t, <2>1, <3>1, <3>2, ListKept
  <2>3. CASE post' = [post EXCEPT ![p].step = "refused"] /\ UNCHANGED records
    <3>1. post' \in [Posts -> PostType] /\ (Unanswered => Unanswered')
      BY <1>t, <2>1, <2>3 DEF PostType, Unanswered
    <3> QED BY <1>t, <2>1, <2>3, <3>1, ListKept
  <2> QED BY <1>4, <2>2, <2>3 DEF ServePost
<1>5. ASSUME NEW p \in Posts, CreateAnswered(p) PROVE ListsInv'
  <2>1. /\ UNCHANGED <<form, shopNow, onPage, shownLoad, records, lostPost>>
        /\ post' \in [Posts -> PostType] /\ draft' \in Nat
    <3>1. /\ UNCHANGED <<form, shopNow, onPage, shownLoad, records, lostPost>>
          /\ draft' = draft + 1 /\ post' = [post EXCEPT ![p] = PostIdle]
      BY <1>5 DEF CreateAnswered
    <3>2. post' \in [Posts -> PostType]
      BY <3>1, PostEnds
    <3>3. draft' \in Nat
      BY <3>1, <1>t
    <3> QED BY <3>1, <3>2, <3>3
  <2>2. CASE form = "till"
    BY <1>5, <1>t, <2>1, <2>2, ListKept DEF CreateAnswered, AfterCreate
  <2>3. CASE form # "till"
    <3>1. Asking(load, post[p].shop) /\ post[p].shop \in Shops \union {"none"}
      BY <1>5, <1>t, <2>3 DEF CreateAnswered, AfterCreate, PostType
    <3> QED BY <2>1, <3>1, AskingInv DEF PageType
  <2> QED BY <2>2, <2>3
<1>6. ASSUME NEW p \in Posts, CreateFails(p) PROVE ListsInv'
  <2>1. /\ UNCHANGED <<form, shopNow, onPage, load, asked, shownLoad, draft, records, strayed>>
        /\ post' \in [Posts -> PostType] /\ (lostPost => lostPost')
    BY <1>6, <1>t, PostEnds DEF CreateFails
  <2>2. Unanswered => Unanswered' \/ lostPost'
    BY <1>6, PostEnds DEF CreateFails, Unanswered
  <2> QED BY <1>t, <2>1, <2>2, ListKept
<1>7. ASSUME NEW s \in Shops, RecordElsewhere(s) PROVE ListsInv'
  <2>1. /\ NewRecord(s, 0)
        /\ UNCHANGED <<form, shopNow, onPage, load, asked, shownLoad, draft, post, strayed,
                       lostPost>>
    BY <1>7 DEF RecordElsewhere
  <2>2. /\ MadeElsewhere /\ IsFiniteSet(records')
        /\ \A r \in records' : r.id \in Nat /\ r.id <= Cardinality(records')
    BY <2>1, NewYoungest DEF MadeElsewhere
  <2>3. Unanswered => Unanswered'
    BY <2>1 DEF Unanswered
  <2> QED BY <1>t, <2>1, <2>2, <2>3, ListKept
<1>8. CASE UNCHANGED tenantPageVars
  BY <1>8, <1>t, ListKept DEF tenantPageVars, Unanswered
<1> QED BY <1>1, <1>2, <1>3, <1>4, <1>5, <1>6, <1>7, <1>8, ServeListInv, ListEnds DEF TenantPageNext

\* With the list asked for last on screen, the page shows the first page of the current
\* tenant's records, as of a moment after the last the page created itself, but for the
\* cases the property names (the pages' load functions), for any tenants and requests,
\* any page size and any dates.
THEOREM ListsAreCurrent == TenantPageSpec => []ListIsCurrent
<1>1. TenantPageInit => ListsInv
  <2> SUFFICES ASSUME TenantPageInit PROVE ListsInv
    OBVIOUS
  <2> DEFINE r == [LoadIdle EXCEPT !.step = "sent", !.shop = shopNow, !.seq = 1]
  <2>1. r \in LoadType /\ r.shop = shopNow /\ r.seq = 1 /\ r.step = "sent"
    BY PageIdle DEF TenantPageInit, LoadType
  <2>2. PICK l \in Loads : load = [k \in Loads |-> IF k = l THEN r ELSE LoadIdle]
    BY DEF TenantPageInit
  <2> HIDE DEF r
  <2>3. PageType
    BY <2>1, <2>2, PageIdle, FS_EmptySet DEF TenantPageInit, PageType, LoadType, LoadIdle
  <2>4. ListInv
    BY <2>1, <2>2 DEF TenantPageInit, ListInv, LoadIdle
  <2> QED BY <2>3, <2>4 DEF ListsInv
<1>2. ListsInv => ListIsCurrent
  <2> SUFFICES ASSUME ListsInv, form # "till", shownLoad = asked, Sending = {}, ~strayed, ~lostPost
               PROVE  onPage.shop = shopNow /\ PageOf(shopNow, onPage.ids)
    BY DEF ListIsCurrent, PageOf
  <2>1. ~Unanswered
    BY DEF Unanswered, Sending
  <2> QED BY <2>1 DEF ListsInv, ListInv
<1> QED BY <1>1, <1>2, ListsStep, PTL DEF TenantPageSpec

\* A create request is under way.
Active(p) == post[p].step # "idle"

\* Two requests for one form's content are under way only if it was sent twice.
ActiveInv ==
  /\ \A p \in Posts : Active(p) =>
       /\ post[p].draft <= draft
       /\ Guarded => submitting
       /\ post[p].draft \in twice \/ post[p].draft = draft
  /\ \A p, q \in Posts : Active(p) /\ Active(q) =>
       p = q \/ (~Guarded /\ (post[p].draft = post[q].draft => post[p].draft \in twice))

\* A content sent once is one record, from the moment the API creates it.
RecordInv ==
  \A d \in (1..MaxDrafts) \ twice :
    /\ \A r, s \in records : r.draft = d /\ s.draft = d => r = s
    /\ d < draft => \E r \in records : r.draft = d
    /\ d >= draft => \A r \in records : r.draft = d =>
                        \E p \in Posts : post[p].step = "created" /\ post[p].draft = d
    /\ \A p \in Posts : post[p].step = "created" /\ post[p].draft = d =>
                        \E r \in records : r.draft = d

\* The inductive invariant of OneRecordPerDraft.
DraftInv ==
  /\ post \in [Posts -> PostType] /\ draft \in Nat /\ MaxDrafts \in Nat
  /\ shopNow \in Shops
  /\ ActiveInv /\ RecordInv

\* A draft is submitted.
LEMMA SubmitInv == ASSUME DraftInv, NEW p \in Posts, Submit(p) PROVE DraftInv'
<1> USE DEF DraftInv
<1> DEFINE r == [step |-> "sent", shop |-> shopNow, draft |-> draft]
<1>1. /\ UNCHANGED <<form, shopNow, draft, records>> /\ MaySubmit
      /\ post' = [post EXCEPT ![p] = r] /\ post[p].step = "idle"
      /\ submitting' = Guarded
      /\ twice' = IF ~Guarded /\ Sending # {} THEN twice \union {draft} ELSE twice
  BY DEF Submit
<1>2. r \in PostType /\ r.step = "sent" /\ r.draft = draft
  BY DEF PostType
<1> HIDE DEF r
<1>3. /\ post' \in [Posts -> PostType] /\ post'[p] = r
      /\ \A q \in Posts \ {p} : post'[q] = post[q]
  BY <1>1, <1>2
<1>4. Guarded' = Guarded /\ twice \subseteq twice'
  BY <1>1 DEF Guarded
<1>5. ASSUME NEW q \in Posts \ {p}, Active(q)' PROVE Active(q) /\ ~Guarded /\ draft \in twice'
  <2>1. Active(q)
    BY <1>3, <1>5 DEF Active
  <2>2. ~Guarded
    BY <2>1, <1>1 DEF ActiveInv, MaySubmit
  <2>3. Sending # {}
    BY <2>1 DEF Sending, Active
  <2> QED BY <1>1, <2>1, <2>2, <2>3
<1>6. ActiveInv'
  <2>1. ASSUME NEW q \in Posts, Active(q)'
        PROVE  /\ post'[q].draft <= draft' /\ (Guarded' => submitting')
               /\ post'[q].draft \in twice' \/ post'[q].draft = draft'
    BY <1>1, <1>2, <1>3, <1>4, <1>5, <2>1 DEF ActiveInv
  <2>2. ASSUME NEW q \in Posts, NEW u \in Posts, Active(q)', Active(u)', q # u
        PROVE  ~Guarded' /\ (post'[q].draft = post'[u].draft => post'[q].draft \in twice')
    BY <1>1, <1>2, <1>3, <1>4, <1>5, <2>2 DEF ActiveInv
  <2> QED BY <2>1, <2>2 DEF ActiveInv
<1>7. RecordInv'
  BY <1>1, <1>2, <1>3, <1>4 DEF RecordInv
<1> QED BY <1>1, <1>3, <1>6, <1>7

\* The API creates the record, or refuses it.
LEMMA ServePostInv == ASSUME DraftInv, NEW p \in Posts, ServePost(p) PROVE DraftInv'
<1> USE DEF DraftInv
<1>1. UNCHANGED <<form, shopNow, draft, submitting, twice>> /\ post[p].step = "sent"
  BY DEF ServePost
<1>2. /\ post' \in [Posts -> PostType] /\ \A q \in Posts \ {p} : post'[q] = post[q]
      /\ post'[p].draft = post[p].draft /\ post'[p].step \in {"created", "refused"}
  BY DEF ServePost, PostType
<1>3. ActiveInv'
  <2>1. \A q \in Posts : (Active(q)' <=> Active(q)) /\ post'[q].draft = post[q].draft
    BY <1>1, <1>2 DEF Active
  <2>2. Guarded' = Guarded
    BY <1>1 DEF Guarded
  <2> QED BY <1>1, <2>1, <2>2 DEF ActiveInv
<1>4. RecordInv'
  <2>1. CASE records' = records /\ post'[p].step = "refused"
    BY <1>1, <1>2, <2>1 DEF RecordInv
  <2>2. ASSUME NEW r, records' = records \union {r}, r.draft = post[p].draft,
               post'[p].step = "created"
        PROVE  RecordInv'
    <3>1. ASSUME post[p].draft \notin twice, NEW s \in records, s.draft = post[p].draft,
                 post[p].draft \in 1..MaxDrafts
          PROVE  FALSE
      <4>1. post[p].draft = draft
        BY <1>1, <3>1 DEF ActiveInv, Active
      <4>2. PICK q \in Posts : post[q].step = "created" /\ post[q].draft = post[p].draft
        BY <3>1, <4>1 DEF RecordInv
      <4> QED BY <1>1, <3>1, <4>2 DEF ActiveInv, Active
    <3> QED BY <1>1, <1>2, <2>2, <3>1 DEF RecordInv
  <2>3. \/ records' = records /\ post'[p].step = "refused"
        \/ \E r : /\ records' = records \union {r} /\ r.draft = post[p].draft
                  /\ post'[p].step = "created"
    <3>1. CASE /\ NewRecord(post[p].shop, post[p].draft)
               /\ post' = [post EXCEPT ![p].step = "created"]
      <4>1. post'[p].step = "created"
        BY <3>1 DEF PostType
      <4>2. PICK day : records' = records \union {[shop |-> post[p].shop, draft |-> post[p].draft,
                                                  day |-> day, id |-> Cardinality(records) + 1]}
        BY <3>1 DEF NewRecord
      <4>3. [shop |-> post[p].shop, draft |-> post[p].draft,
             day |-> day, id |-> Cardinality(records) + 1].draft = post[p].draft
        OBVIOUS
      <4> QED BY <4>1, <4>2, <4>3
    <3>2. CASE post' = [post EXCEPT ![p].step = "refused"] /\ UNCHANGED records
      BY <3>2 DEF PostType
    <3> QED BY <3>1, <3>2 DEF ServePost
  <2> QED BY <2>1, <2>2, <2>3
<1> QED BY <1>1, <1>2, <1>3, <1>4

\* The create is answered, and the form cleared.
LEMMA CreateAnsweredInv == ASSUME DraftInv, NEW p \in Posts, CreateAnswered(p) PROVE DraftInv'
<1> USE DEF DraftInv
<1>1. /\ UNCHANGED <<form, shopNow, records>> /\ post[p].step = "created"
      /\ draft' = draft + 1 /\ post' = [post EXCEPT ![p] = PostIdle]
      /\ twice' = IF post[p].draft # draft THEN twice \union {draft} ELSE twice
  BY DEF CreateAnswered
<1>2. /\ post' \in [Posts -> PostType] /\ post'[p].step = "idle"
      /\ \A q \in Posts \ {p} : post'[q] = post[q]
  BY <1>1, PageIdle DEF PostIdle
<1>3. Guarded' = Guarded /\ twice \subseteq twice' /\ draft' \in Nat
  BY <1>1 DEF Guarded
<1>4. ASSUME NEW q \in Posts, Active(q)'
      PROVE  q # p /\ Active(q) /\ post'[q] = post[q] /\ ~Guarded /\ post[q].draft \in twice'
  <2>1. q # p /\ Active(q) /\ post'[q] = post[q]
    BY <1>2, <1>4 DEF Active
  <2>2. Active(p)
    BY <1>1 DEF Active
  <2>3. ~Guarded /\ (post[p].draft = post[q].draft => post[p].draft \in twice)
    BY <2>1, <2>2 DEF ActiveInv
  <2> QED BY <1>1, <2>1, <2>2, <2>3 DEF ActiveInv
<1>5. ActiveInv'
  <2>1. ASSUME NEW q \in Posts, Active(q)' PROVE post'[q].draft <= draft'
    BY <1>1, <1>4, <2>1 DEF ActiveInv, PostType
  <2>2. ASSUME NEW q \in Posts, NEW u \in Posts, Active(q)', Active(u)', q # u
        PROVE  ~Guarded' /\ (post'[q].draft = post'[u].draft => post'[q].draft \in twice')
    BY <1>3, <1>4, <2>2
  <2> QED BY <1>3, <1>4, <2>1, <2>2 DEF ActiveInv
<1>6. RecordInv'
  <2> SUFFICES ASSUME NEW d \in (1..MaxDrafts) \ twice'
               PROVE  /\ \A r, s \in records : r.draft = d /\ s.draft = d => r = s
                      /\ d < draft' => \E r \in records : r.draft = d
                      /\ d >= draft' => \A r \in records : r.draft = d =>
                           \E q \in Posts : post'[q].step = "created" /\ post'[q].draft = d
                      /\ \A q \in Posts : post'[q].step = "created" /\ post'[q].draft = d =>
                           \E r \in records : r.draft = d
    BY <1>1 DEF RecordInv
  <2>1. d \in (1..MaxDrafts) \ twice
    BY <1>3
  <2>2. d < draft' => \E r \in records : r.draft = d
    <3>1. CASE d < draft
      BY <2>1, <3>1 DEF RecordInv
    <3>2. CASE d = draft
      <4>1. post[p].draft = d
        BY <1>1, <3>2
      <4> QED BY <1>1, <2>1, <4>1 DEF RecordInv
    <3>3. CASE d > draft
      BY <1>1, <3>3
    <3> QED BY <3>1, <3>2, <3>3
  <2>3. ASSUME d >= draft', NEW r \in records, r.draft = d
        PROVE  \E q \in Posts : post'[q].step = "created" /\ post'[q].draft = d
    <3>1. PICK q \in Posts : post[q].step = "created" /\ post[q].draft = d
      BY <1>1, <2>1, <2>3 DEF RecordInv
    <3>2. q # p
      BY <1>1, <2>3, <3>1 DEF ActiveInv, Active
    <3> QED BY <1>2, <3>1, <3>2
  <2>4. ASSUME NEW q \in Posts, post'[q].step = "created", post'[q].draft = d
        PROVE  \E r \in records : r.draft = d
    BY <1>2, <2>1, <2>4 DEF RecordInv
  <2> QED BY <2>1, <2>2, <2>3, <2>4 DEF RecordInv
<1> QED BY <1>1, <1>2, <1>3, <1>5, <1>6

\* The create fails, and the draft stays.
LEMMA CreateFailsInv == ASSUME DraftInv, NEW p \in Posts, CreateFails(p) PROVE DraftInv'
<1> USE DEF DraftInv
<1>1. /\ UNCHANGED <<form, shopNow, records, draft>> /\ post[p].step # "idle"
      /\ post' = [post EXCEPT ![p] = PostIdle]
      /\ twice' = IF post[p].step = "refused" THEN twice ELSE twice \union {post[p].draft}
  BY DEF CreateFails
<1>2. /\ post' \in [Posts -> PostType] /\ post'[p].step = "idle"
      /\ \A q \in Posts \ {p} : post'[q] = post[q]
  BY <1>1, PageIdle DEF PostIdle
<1>3. Guarded' = Guarded /\ twice \subseteq twice'
  BY <1>1 DEF Guarded
<1>4. ASSUME NEW q \in Posts, Active(q)'
      PROVE  q # p /\ Active(q) /\ post'[q] = post[q] /\ ~Guarded
  <2>1. q # p /\ Active(q) /\ post'[q] = post[q]
    BY <1>2, <1>4 DEF Active
  <2>2. Active(p)
    BY <1>1 DEF Active
  <2> QED BY <2>1, <2>2 DEF ActiveInv
<1>5. ActiveInv'
  BY <1>1, <1>3, <1>4 DEF ActiveInv
<1>6. RecordInv'
  <2>1. ASSUME NEW q \in Posts, post[q].step = "created", post[q].draft \notin twice'
        PROVE  post'[q] = post[q]
    BY <1>1, <1>2, <2>1
  <2>2. ASSUME NEW q \in Posts, post'[q].step = "created" PROVE post'[q] = post[q]
    BY <1>2, <2>2
  <2> QED BY <1>1, <1>3, <2>1, <2>2 DEF RecordInv
<1> QED BY <1>1, <1>2, <1>5, <1>6

\* The list changes, or the form's content is edited: posts and records do not.
LEMMA DraftKept ==
  ASSUME DraftInv, UNCHANGED <<form, draft, submitting, post, records>>, shopNow' \in Shops,
         twice \subseteq twice'
  PROVE  DraftInv'
<1>1. ActiveInv'
  BY DEF DraftInv, ActiveInv, Active, Guarded
<1>2. RecordInv'
  BY DEF DraftInv, RecordInv
<1> QED BY <1>1, <1>2 DEF DraftInv

\* Somebody else's record is no draft's.
LEMMA ElsewhereDrafts == ASSUME DraftInv, NEW s \in Shops, RecordElsewhere(s) PROVE DraftInv'
<1> USE DEF DraftInv
<1>1. UNCHANGED <<form, shopNow, draft, submitting, post, twice>>
  BY DEF RecordElsewhere
<1>2. PICK day : records' = records \union {[shop |-> s, draft |-> 0, day |-> day,
                                            id |-> Cardinality(records) + 1]}
  BY DEF RecordElsewhere, NewRecord
<1> DEFINE r == [shop |-> s, draft |-> 0, day |-> day, id |-> Cardinality(records) + 1]
<1>3. records' = records \union {r} /\ r.draft = 0
  BY <1>2
<1> HIDE DEF r
<1>4. ActiveInv'
  BY <1>1 DEF ActiveInv, Active, Guarded
<1>5. \A d \in 1..MaxDrafts : \A q \in records' : q.draft = d => q \in records
  BY <1>3
<1>6. RecordInv'
  BY <1>1, <1>3, <1>5 DEF RecordInv
<1> QED BY <1>1, <1>4, <1>6

\* Every step keeps DraftInv.
LEMMA DraftStep == DraftInv /\ [TenantPageNext]_tenantPageVars => DraftInv'
<1> SUFFICES ASSUME DraftInv, [TenantPageNext]_tenantPageVars PROVE DraftInv'
  OBVIOUS
<1>0. shopNow \in Shops
  BY DEF DraftInv
<1>1. ASSUME NEW s \in Shops, SwitchShop(s) PROVE DraftInv'
  BY <1>1, DraftKept DEF SwitchShop
<1>2. ASSUME NEW l \in Loads, ServeList(l) \/ ListArrives(l) \/ ListFails(l) PROVE DraftInv'
  BY <1>0, <1>2, DraftKept DEF ServeList, ListArrives, ListFails
<1>3. CASE EditForm \/ UNCHANGED tenantPageVars
  BY <1>0, <1>3, DraftKept DEF EditForm, tenantPageVars
<1> QED BY <1>1, <1>2, <1>3, SubmitInv, ServePostInv, CreateAnsweredInv, CreateFailsInv,
           ElsewhereDrafts
        DEF TenantPageNext

\* What is filled in becomes one record, unless it was edited while under way or sent
\* again (the pages' submit functions), for any drafts, tenants and requests.
THEOREM DraftsRecordedOnce == TenantPageSpec => []OneRecordPerDraft
<1>1. TenantPageInit => DraftInv
  <2> SUFFICES ASSUME TenantPageInit PROVE DraftInv
    OBVIOUS
  <2>1. /\ post \in [Posts -> PostType] /\ \A p \in Posts : post[p].step = "idle"
        /\ draft = 1 /\ records = {} /\ twice = {} /\ shopNow \in Shops
    BY PageIdle DEF TenantPageInit, PostIdle
  <2> QED BY <2>1, TenantPageAssumption DEF DraftInv, ActiveInv, Active, RecordInv
<1>2. DraftInv => OneRecordPerDraft
  <2> SUFFICES ASSUME DraftInv, NEW d \in (1..MaxDrafts) \ twice
               PROVE  Cardinality({r \in records : r.draft = d}) =
                        IF d < draft THEN 1
                        ELSE Cardinality({p \in Posts : post[p].step = "created" /\ post[p].draft = d})
    BY DEF OneRecordPerDraft
  <2> DEFINE rs == {r \in records : r.draft = d}
             ps == {p \in Posts : post[p].step = "created" /\ post[p].draft = d}
  <2>1. \A r, s \in rs : r = s
    BY DEF DraftInv, RecordInv
  <2>2. \A p, q \in ps : p = q
    BY DEF DraftInv, ActiveInv, Active
  <2>3. d < draft => rs # {}
    BY DEF DraftInv, RecordInv
  <2>4. ~(d < draft) => (rs = {} <=> ps = {})
    BY DEF DraftInv, RecordInv
  <2>5. \A S : (\A x, y \in S : x = y) /\ S # {} => Cardinality(S) = 1
    <3> SUFFICES ASSUME NEW S, \A x, y \in S : x = y, NEW x \in S PROVE Cardinality(S) = 1
      OBVIOUS
    <3>1. S = {x}
      OBVIOUS
    <3> QED BY <3>1, FS_Singleton
  <2> QED BY <2>1, <2>2, <2>3, <2>4, <2>5, FS_EmptySet
<1> QED BY <1>1, <1>2, DraftStep, PTL DEF TenantPageSpec
-----------------------------------------------------------------------------
(* Assistant *)

\* A turn of the conversation: who, and the question it belongs to.
TurnType == {"user", "assistant"} \X Nat

\* A message to the model.
MessageType == [role : {"user", "assistant"}, uses : SUBSET Tools, results : SUBSET Tools]

\* A question that is under way.
AskType ==
  [step : {"idle", "sent", "model", "tools", "answered", "failed"}, heard : BOOLEAN,
   question : Nat, conversation : Seq(TurnType), messages : Seq(MessageType), round : Nat,
   left : SUBSET Tools, results : SUBSET Tools, calls : Nat]

\* A chat of questions up to number n, each followed by its answer.
Chat(s, n) ==
  /\ s \in Seq(TurnType)
  /\ \A i \in 1..Len(s) :
       /\ s[i] = IF i % 2 = 1 THEN <<"user", s[i][2]>> ELSE <<"assistant", s[i - 1][2]>>
       /\ s[i][2] <= n
  /\ \A i, j \in 1..Len(s) : i < j => s[i][2] <= s[j][2]

\* A request to the model as far as it goes: what is open is in its last message.
Request(m) ==
  /\ m \in Seq(MessageType) /\ Len(m) > 0 /\ m[1] = Said("user")
  /\ \A i \in 1..Len(m) :
       /\ m[i].uses # {} /\ i < Len(m) => m[i + 1] = ToolResults(m[i].uses)
       /\ m[i].results # {} => i > 1 /\ m[i - 1].uses = m[i].results

\* The loop around the model, between its awaits.
LoopOK(r) ==
  /\ r.step = "sent" => r.round = 0 /\ r.calls = 0
  /\ r.step = "model" => /\ r.calls = r.round /\ r.round <= MaxRoundtrips
                         /\ Request(r.messages) /\ r.messages[Len(r.messages)].uses = {}
  /\ r.step = "tools" => /\ r.calls = r.round + 1 /\ r.round < MaxRoundtrips
                         /\ Request(r.messages)
                         /\ r.messages[Len(r.messages)] = Using(r.left \union r.results)

\* The conversation a question was asked in.
AskedOK(r) ==
  r.step # "idle" => Chat(r.conversation, r.question) /\ Len(r.conversation) % 2 = 0

\* What holds of every question that is under way.
AsksInv ==
  /\ ask \in [Asks -> AskType]
  /\ \A k \in Asks : LoopOK(ask[k]) /\ AskedOK(ask[k]) /\ ask[k].question <= questions

\* The page: the question under way, if any, is the last turn.
PageInv ==
  /\ questions \in Nat /\ Chat(turns, questions) /\ sending \in BOOLEAN
  /\ Len(turns) % 2 = IF sending THEN 1 ELSE 0
  /\ \A k \in Asks : ask[k].heard =>
       /\ ask[k].step # "idle" /\ sending
       /\ \A l \in Asks : ask[l].heard => k = l

\* The inductive invariant.
AssistantInv == AsksInv /\ PageInv

\* A conversation about n questions is one about more.
LEMMA ChatLonger == ASSUME NEW s, NEW n \in Nat, NEW m \in Nat, n <= m, Chat(s, n) PROVE Chat(s, m)
<1>1. Len(s) \in Nat /\ \A i \in 1..Len(s) : s[i][2] \in Nat
  BY DEF Chat, TurnType
<1>2. \A i \in 1..Len(s) : s[i][2] <= n
  BY DEF Chat
<1>3. \A i \in 1..Len(s) : s[i][2] <= m
  BY <1>1, <1>2
<1> QED BY <1>3 DEF Chat

\* A question is added to a chat.
LEMMA ChatAsked ==
  ASSUME NEW s, NEW n \in Nat, Chat(s, n), Len(s) % 2 = 0
  PROVE  LET t == Append(s, <<"user", n>>)
         IN  Chat(t, n) /\ Len(t) % 2 = 1 /\ t[Len(t)] = <<"user", n>>
<1> DEFINE t == Append(s, <<"user", n>>)
<1>1. /\ t \in Seq(TurnType) /\ Len(t) = Len(s) + 1 /\ Len(s) \in Nat /\ t[Len(s) + 1] = <<"user", n>>
      /\ \A i \in 1..Len(s) : t[i] = s[i]
  BY DEF Chat, TurnType
<1> HIDE DEF t
<1>2. \A i \in 1..Len(t) :
        /\ t[i] = IF i % 2 = 1 THEN <<"user", t[i][2]>> ELSE <<"assistant", t[i - 1][2]>>
        /\ t[i][2] <= n
  <2> SUFFICES ASSUME NEW i \in 1..Len(t)
               PROVE  /\ t[i] = IF i % 2 = 1 THEN <<"user", t[i][2]>> ELSE <<"assistant", t[i - 1][2]>>
                      /\ t[i][2] <= n
    OBVIOUS
  <2>1. CASE i = Len(s) + 1
    <3>1. i % 2 = 1
      BY <1>1, <2>1
    <3>2. t[i] = <<"user", n>> /\ t[i][2] = n
      BY <1>1, <2>1
    <3> QED BY <3>1, <3>2
  <2>2. CASE i \in 1..Len(s)
    <3>1. /\ s[i] = IF i % 2 = 1 THEN <<"user", s[i][2]>> ELSE <<"assistant", s[i - 1][2]>>
          /\ s[i][2] <= n
      BY <2>2 DEF Chat
    <3>2. t[i] = s[i]
      BY <1>1, <2>2
    <3>3. CASE i % 2 = 1
      BY <3>1, <3>2, <3>3
    <3>4. CASE i % 2 # 1
      <4>1. i - 1 \in 1..Len(s)
        BY <1>1, <2>2, <3>4
      <4>2. t[i - 1] = s[i - 1]
        BY <1>1, <4>1
      <4> QED BY <3>1, <3>2, <3>4, <4>2
    <3> QED BY <3>3, <3>4
  <2> QED BY <1>1, <2>1, <2>2
<1>3. ASSUME NEW i \in 1..Len(t), NEW j \in 1..Len(t), i < j PROVE t[i][2] <= t[j][2]
  <2>1. CASE j = Len(s) + 1
    <3>1. t[j][2] = n
      BY <1>1, <2>1
    <3> QED BY <1>2, <3>1
  <2>2. CASE j \in 1..Len(s)
    <3>1. i \in 1..Len(s) /\ t[i] = s[i] /\ t[j] = s[j]
      BY <1>1, <1>3, <2>2
    <3>2. \A a, b \in 1..Len(s) : a < b => s[a][2] <= s[b][2]
      BY DEF Chat
    <3> QED BY <1>3, <2>2, <3>1, <3>2
  <2> QED BY <1>1, <2>1, <2>2
<1>4. Len(t) % 2 = 1
  BY <1>1
<1> QED BY <1>1, <1>2, <1>3, <1>4 DEF Chat, t

\* The last question of a chat is answered.
LEMMA ChatAnswered ==
  ASSUME NEW s, NEW n \in Nat, Chat(s, n), Len(s) % 2 = 1, s[Len(s)][2] = n
  PROVE  LET t == Append(s, <<"assistant", n>>) IN Chat(t, n) /\ Len(t) % 2 = 0
<1> DEFINE t == Append(s, <<"assistant", n>>)
<1>1. /\ t \in Seq(TurnType) /\ Len(t) = Len(s) + 1 /\ Len(s) \in Nat
      /\ t[Len(s) + 1] = <<"assistant", n>>
      /\ \A i \in 1..Len(s) : t[i] = s[i]
  BY DEF Chat, TurnType
<1> HIDE DEF t
<1>0. Len(s) \in 1..Len(s)
  BY <1>1
<1>2. \A i \in 1..Len(t) :
        /\ t[i] = IF i % 2 = 1 THEN <<"user", t[i][2]>> ELSE <<"assistant", t[i - 1][2]>>
        /\ t[i][2] <= n
  <2> SUFFICES ASSUME NEW i \in 1..Len(t)
               PROVE  /\ t[i] = IF i % 2 = 1 THEN <<"user", t[i][2]>> ELSE <<"assistant", t[i - 1][2]>>
                      /\ t[i][2] <= n
    OBVIOUS
  <2>1. CASE i = Len(s) + 1
    <3>1. i % 2 # 1 /\ i - 1 = Len(s)
      BY <1>1, <2>1
    <3>2. t[Len(s)] = s[Len(s)]
      BY <1>0, <1>1
    <3>3. t[i] = <<"assistant", n>> /\ t[i][2] = n /\ t[i - 1][2] = n
      BY <1>1, <2>1, <3>1, <3>2
    <3> QED BY <3>1, <3>3
  <2>2. CASE i \in 1..Len(s)
    <3>1. /\ s[i] = IF i % 2 = 1 THEN <<"user", s[i][2]>> ELSE <<"assistant", s[i - 1][2]>>
          /\ s[i][2] <= n
      BY <2>2 DEF Chat
    <3>2. t[i] = s[i]
      BY <1>1, <2>2
    <3>3. CASE i % 2 = 1
      BY <3>1, <3>2, <3>3
    <3>4. CASE i % 2 # 1
      <4>1. i - 1 \in 1..Len(s)
        BY <1>1, <2>2, <3>4
      <4>2. t[i - 1] = s[i - 1]
        BY <1>1, <4>1
      <4> QED BY <3>1, <3>2, <3>4, <4>2
    <3> QED BY <3>3, <3>4
  <2> QED BY <1>1, <2>1, <2>2
<1>3. ASSUME NEW i \in 1..Len(t), NEW j \in 1..Len(t), i < j PROVE t[i][2] <= t[j][2]
  <2>1. CASE j = Len(s) + 1
    <3>1. t[j][2] = n
      BY <1>1, <2>1
    <3> QED BY <1>2, <3>1
  <2>2. CASE j \in 1..Len(s)
    <3>1. i \in 1..Len(s) /\ t[i] = s[i] /\ t[j] = s[j]
      BY <1>1, <1>3, <2>2
    <3>2. \A a, b \in 1..Len(s) : a < b => s[a][2] <= s[b][2]
      BY DEF Chat
    <3> QED BY <1>3, <2>2, <3>1, <3>2
  <2> QED BY <1>1, <2>1, <2>2
<1>4. Len(t) % 2 = 0
  BY <1>1
<1> QED BY <1>1, <1>2, <1>3, <1>4 DEF Chat, t

\* A question and its answer go on a conversation as a pair.
LEMMA ChatPair ==
  ASSUME NEW s, NEW n \in Nat, Chat(s, n), Len(s) % 2 = 0
  PROVE  LET t == s \o << <<"user", n>>, <<"assistant", n>> >> IN Chat(t, n) /\ Len(t) % 2 = 0
<1> DEFINE u == Append(s, <<"user", n>>)
<1>1. s \o << <<"user", n>>, <<"assistant", n>> >> = Append(u, <<"assistant", n>>)
  <2> DEFINE a == <<"user", n>>
             b == <<"assistant", n>>
  <2>1. a \in TurnType /\ b \in TurnType
    BY DEF TurnType
  <2> HIDE DEF a, b
  <2>2. s \in Seq(TurnType) /\ <<a>> \in Seq(TurnType) /\ <<b>> \in Seq(TurnType)
    BY <2>1 DEF Chat
  <2>3. Append(s, a) \in Seq(TurnType) /\ Append(s, a) = s \o <<a>>
    BY <2>1, <2>2, AppendIsConcat, AppendProperties
  <2>4. Append(Append(s, a), b) = (s \o <<a>>) \o <<b>>
    BY <2>1, <2>3, AppendIsConcat
  <2>5. (s \o <<a>>) \o <<b>> = s \o (<<a>> \o <<b>>)
    BY <2>2, ConcatAssociative
  <2>6. <<a>> \o <<b>> = <<a, b>>
    <3> DEFINE u1 == <<a>> \o <<b>>
               u2 == <<a, b>>
    <3>1. u1 \in Seq(TurnType) /\ Len(u1) = 2 /\ u1[1] = a /\ u1[2] = b
      BY <2>1, <2>2, ConcatProperties
    <3>2. u2 \in Seq(TurnType) /\ Len(u2) = 2 /\ u2[1] = a /\ u2[2] = b
      BY <2>1
    <3> HIDE DEF u1, u2
    <3>3. \A i \in 1..Len(u1) : u1[i] = u2[i]
      BY <3>1, <3>2
    <3>4. u1 = u2
      BY <3>1, <3>2, <3>3, SeqEqual
    <3> QED BY <3>4 DEF u1, u2
  <2> QED BY <2>4, <2>5, <2>6 DEF a, b
<1>2. Chat(u, n) /\ Len(u) % 2 = 1 /\ u[Len(u)] = <<"user", n>>
  BY ChatAsked
<1>3. u[Len(u)][2] = n
  BY <1>2
<1> HIDE DEF u
<1> QED BY <1>1, <1>2, <1>3, ChatAnswered

\* A message is added to a request.
LEMMA RequestGrows ==
  ASSUME NEW m, Request(m), NEW x \in MessageType,
         m[Len(m)].uses # {} => x = ToolResults(m[Len(m)].uses),
         x.results # {} => m[Len(m)].uses = x.results
  PROVE  Request(Append(m, x)) /\ Append(m, x)[Len(Append(m, x))] = x
<1> DEFINE t == Append(m, x)
<1>1. /\ t \in Seq(MessageType) /\ Len(t) = Len(m) + 1 /\ Len(m) \in Nat /\ Len(m) > 0
      /\ t[Len(m) + 1] = x /\ \A i \in 1..Len(m) : t[i] = m[i]
  BY DEF Request
<1> HIDE DEF t
<1>2. ASSUME NEW i \in 1..Len(t)
      PROVE  /\ t[i].uses # {} /\ i < Len(t) => t[i + 1] = ToolResults(t[i].uses)
             /\ t[i].results # {} => i > 1 /\ t[i - 1].uses = t[i].results
  <2>1. CASE i = Len(m) + 1
    BY <1>1, <2>1
  <2>2. CASE i = Len(m)
    BY <1>1, <2>2 DEF Request
  <2>3. CASE i \in 1..(Len(m) - 1)
    <3>1. i \in 1..Len(m) /\ i + 1 \in 1..Len(m) /\ (i > 1 => i - 1 \in 1..Len(m)) /\ i < Len(m)
      BY <1>1, <2>3
    <3>2. t[i] = m[i] /\ t[i + 1] = m[i + 1] /\ (i > 1 => t[i - 1] = m[i - 1])
      BY <1>1, <3>1
    <3> QED BY <3>1, <3>2 DEF Request
  <2> QED BY <1>1, <2>1, <2>2, <2>3
<1> QED BY <1>1, <1>2 DEF Request, t

\* The idle question has its type.
LEMMA IdleType == AskIdle \in AskType /\ AskIdle.step = "idle" /\ ~AskIdle.heard
                  /\ AskIdle.question = 0
  BY DEF AskIdle, AskType

\* The idle question satisfies its invariants.
LEMMA IdleOK == LoopOK(AskIdle) /\ AskedOK(AskIdle)
  BY IdleType DEF LoopOK, AskedOK

\* The first request to the model: the conversation and the question.
LEMMA FirstRequest ==
  ASSUME NEW c, NEW n \in Nat, Chat(c, n)
  PROVE  LET m == [i \in 1..Len(c) |-> Said(c[i][1])] \o <<Said("user")>>
         IN  Request(m) /\ m[Len(m)].uses = {}
<1> DEFINE f == [i \in 1..Len(c) |-> Said(c[i][1])]
           m == f \o <<Said("user")>>
<1>1. Said("user") \in MessageType /\ Said("user").uses = {} /\ Said("user").results = {}
  BY DEF Said, MessageType
<1>2. \A i \in 1..Len(c) : /\ Said(c[i][1]) \in MessageType
                           /\ Said(c[i][1]).uses = {} /\ Said(c[i][1]).results = {}
  BY DEF Said, MessageType, Chat, TurnType
<1>3. Len(c) \in Nat
  BY DEF Chat
<1>4. f \in Seq(MessageType) /\ Len(f) = Len(c) /\ \A i \in 1..Len(c) : f[i] = Said(c[i][1])
  BY <1>2, <1>3
<1>5. Len(c) > 0 => f[1] = Said("user")
  <2> SUFFICES ASSUME Len(c) > 0 PROVE f[1] = Said("user")
    OBVIOUS
  <2>1. 1 \in 1..Len(c) /\ 1 % 2 = 1
    BY <1>3
  <2>2. c[1] = <<"user", c[1][2]>>
    BY <2>1 DEF Chat
  <2>3. c[1][1] = "user"
    BY <2>2
  <2> QED BY <1>4, <2>1, <2>3
<1> HIDE DEF f
<1>6. /\ m \in Seq(MessageType) /\ Len(m) = Len(c) + 1 /\ m[Len(c) + 1] = Said("user")
      /\ \A i \in 1..Len(c) : m[i] = f[i]
  BY <1>1, <1>3, <1>4
<1> HIDE DEF m
<1>7. \A i \in 1..Len(m) : m[i].uses = {} /\ m[i].results = {}
  <2> SUFFICES ASSUME NEW i \in 1..Len(m) PROVE m[i].uses = {} /\ m[i].results = {}
    OBVIOUS
  <2>1. CASE i = Len(c) + 1
    BY <1>1, <1>6, <2>1
  <2>2. CASE i \in 1..Len(c)
    <3>1. m[i] = Said(c[i][1])
      BY <1>4, <1>6, <2>2
    <3> QED BY <1>2, <2>2, <3>1
  <2> QED BY <1>3, <1>6, <2>1, <2>2
<1>8. m[1] = Said("user")
  <2>1. CASE Len(c) = 0
    BY <1>6, <2>1
  <2>2. CASE Len(c) > 0
    BY <1>3, <1>5, <1>6, <2>2
  <2> QED BY <1>3, <2>1, <2>2
<1>9. Request(m) /\ m[Len(m)].uses = {}
  BY <1>1, <1>3, <1>6, <1>7, <1>8 DEF Request
<1> QED BY <1>9 DEF m, f

\* A question keeps the conversation it was asked in.
LEMMA AskedKept ==
  ASSUME NEW r, NEW q, AskedOK(r), r.step # "idle", q.conversation = r.conversation,
         q.question = r.question
  PROVE  AskedOK(q)
  BY DEF AskedOK

\* The loop before a call of the model.
LEMMA LoopAtModel ==
  ASSUME NEW r, NEW m, r.messages = m, r.step = "model", r.calls = r.round,
         r.round <= MaxRoundtrips, Request(m), m[Len(m)].uses = {}
  PROVE  LoopOK(r)
  BY DEF LoopOK

\* The loop while tools run.
LEMMA LoopAtTools ==
  ASSUME NEW r, NEW m, r.messages = m, r.step = "tools", r.calls = r.round + 1,
         r.round < MaxRoundtrips, Request(m), m[Len(m)] = Using(r.left \union r.results)
  PROVE  LoopOK(r)
  BY DEF LoopOK

\* A step of the API: the page and the conversation of the question are left
\* alone, and if nobody listened before, nobody does now.
LEMMA ApiStep ==
  ASSUME AssistantInv, NEW k \in Asks, NEW r \in AskType, ask' = [ask EXCEPT ![k] = r],
         UNCHANGED <<turns, sending, questions>>,
         LoopOK(r), AskedOK(r), r.question <= questions,
         r.heard => ask[k].heard /\ r.step # "idle"
  PROVE  AssistantInv'
<1> USE DEF AssistantInv
<1>1. /\ ask' \in [Asks -> AskType] /\ ask'[k] = r
      /\ \A l \in Asks \ {k} : ask'[l] = ask[l]
  BY DEF AsksInv
<1>2. AsksInv'
  BY <1>1 DEF AsksInv
<1>3. PageInv'
  BY <1>1 DEF PageInv
<1> QED BY <1>2, <1>3

\* A question is answered or fails.
LEMMA EndAskStep ==
  ASSUME AssistantInv, NEW k \in Asks, NEW o \in {"answered", "failed"}, EndAsk(k, o),
         ask[k].step # "idle", UNCHANGED <<turns, sending, questions>>
  PROVE  AssistantInv'
<1>t. ask[k] \in AskType /\ AskedOK(ask[k]) /\ ask[k].question <= questions /\ questions \in Nat
  BY DEF AssistantInv, AsksInv, PageInv
<1>1. CASE ask[k].heard
  <2> DEFINE r == [ask[k] EXCEPT !.step = o]
  <2>1. r \in AskType /\ r.step = o /\ r.question = ask[k].question
        /\ r.conversation = ask[k].conversation
    BY <1>t DEF AskType
  <2>2. ask' = [ask EXCEPT ![k] = r]
    BY <1>1 DEF EndAsk
  <2> HIDE DEF r
  <2>3. LoopOK(r) /\ AskedOK(r)
    BY <1>t, <2>1 DEF LoopOK, AskedOK
  <2> QED BY <1>1, <1>t, <2>1, <2>2, <2>3, ApiStep
<1>2. CASE ~ask[k].heard
  <2>1. ask' = [ask EXCEPT ![k] = AskIdle]
    BY <1>2 DEF EndAsk
  <2>2. AskIdle.question <= questions
    BY <1>t, IdleType
  <2> QED BY <2>1, <2>2, IdleType, IdleOK, ApiStep
<1> QED BY <1>1, <1>2

\* The API receives a question.
LEMMA ReceiveStep == ASSUME AssistantInv, NEW k \in Asks, Receive(k) PROVE AssistantInv'
<1>t. /\ ask[k] \in AskType /\ AskedOK(ask[k]) /\ LoopOK(ask[k]) /\ ask[k].question <= questions
      /\ ask[k].step = "sent" /\ UNCHANGED <<turns, sending, questions>>
  BY DEF AssistantInv, AsksInv, Receive
<1> DEFINE m == [i \in 1..Len(ask[k].conversation) |-> Said(ask[k].conversation[i][1])]
                  \o <<Said("user")>>
           r == [ask[k] EXCEPT !.step = "model", !.messages = m]
<1>1. Request(m) /\ m[Len(m)].uses = {}
  <2>1. Chat(ask[k].conversation, ask[k].question) /\ ask[k].question \in Nat
    BY <1>t DEF AskedOK, AskType
  <2> QED BY <2>1, FirstRequest
<1> HIDE DEF m
<1>2. m \in Seq(MessageType)
  BY <1>1 DEF Request
<1>3. r \in AskType /\ r.step = "model" /\ r.messages = m /\ r.question = ask[k].question
      /\ r.conversation = ask[k].conversation /\ r.round = ask[k].round /\ r.calls = ask[k].calls
      /\ r.heard = ask[k].heard
  BY <1>t, <1>2 DEF AskType
<1> HIDE DEF r
<1>4. LoopOK(r) /\ AskedOK(r)
  <2>1. r.round = 0 /\ r.calls = 0
    BY <1>t, <1>3 DEF LoopOK
  <2>2. LoopOK(r)
    BY <1>1, <1>3, <2>1, LoopAtModel, AssistantAssumption
  <2> QED BY <1>3, <1>t, <2>2, AskedKept
<1>5. CASE ask' = [ask EXCEPT ![k].step = "model", ![k].messages = m]
  <2>1. ask' = [ask EXCEPT ![k] = r]
    BY <1>5 DEF AssistantInv, AsksInv, AskType, r
  <2> QED BY <1>t, <1>3, <1>4, <2>1, ApiStep
<1>6. CASE EndAsk(k, "failed")
  BY <1>6, <1>t, EndAskStep
<1> QED BY <1>5, <1>6 DEF Receive, m

\* The model pauses, and the loop goes on.
LEMMA PausedStep ==
  ASSUME AssistantInv, NEW k \in Asks, ask[k].step = "model", Paused(k),
         UNCHANGED <<turns, sending, questions>>
  PROVE  AssistantInv'
<1>t. /\ ask[k] \in AskType /\ AskedOK(ask[k]) /\ LoopOK(ask[k]) /\ ask[k].question <= questions
  BY DEF AssistantInv, AsksInv
<1>1. CASE NextRound(k) > MaxRoundtrips
  BY <1>1, EndAskStep DEF Paused
<1>2. CASE ~(NextRound(k) > MaxRoundtrips)
  <2> DEFINE x == Said("assistant")
             m == Append(ask[k].messages, x)
             r == [ask[k] EXCEPT !.round = ask[k].round + 1, !.calls = ask[k].calls + 1,
                                 !.messages = m]
  <2>7. ask' = [ask EXCEPT ![k] = r]
    BY <1>2 DEF Paused, NextRound, AssistantInv, AsksInv, AskType
  <2>1. x \in MessageType /\ x.uses = {} /\ x.results = {}
    BY DEF Said, MessageType
  <2> HIDE DEF x
  <2>2. Request(ask[k].messages) /\ ask[k].messages[Len(ask[k].messages)].uses = {}
        /\ ask[k].calls = ask[k].round /\ ask[k].round \in Nat
    BY <1>t DEF LoopOK, AskType
  <2>3. Request(m) /\ m[Len(m)] = x
    BY <2>1, <2>2, RequestGrows
  <2> HIDE DEF m
  <2>4. m \in Seq(MessageType) /\ ask[k].round + 1 \in Nat /\ ask[k].calls + 1 \in Nat
    BY <2>2, <2>3 DEF Request
  <2>5. r \in AskType /\ r.step = "model" /\ r.messages = m
        /\ r.question = ask[k].question /\ r.conversation = ask[k].conversation
        /\ r.round = ask[k].round + 1 /\ r.calls = ask[k].calls + 1 /\ r.heard = ask[k].heard
    BY <1>t, <2>4 DEF AskType
  <2> HIDE DEF r
  <2>6. LoopOK(r)
    <3>1. r.round <= MaxRoundtrips
      BY <1>2, <2>2, <2>5, AssistantAssumption DEF NextRound
    <3> QED BY <2>1, <2>2, <2>3, <2>5, <3>1, LoopAtModel
  <2>8. AskedOK(r)
    BY <1>t, <2>5, AskedKept
  <2> QED BY <1>t, <2>5, <2>6, <2>7, <2>8, ApiStep
<1> QED BY <1>1, <1>2

\* The model answers.
LEMMA ModelStep == ASSUME AssistantInv, NEW k \in Asks, ModelAnswers(k) PROVE AssistantInv'
<1>t. /\ ask[k] \in AskType /\ AskedOK(ask[k]) /\ LoopOK(ask[k]) /\ ask[k].question <= questions
      /\ ask[k].step = "model" /\ UNCHANGED <<turns, sending, questions>>
  BY DEF AssistantInv, AsksInv, ModelAnswers
<1>1. CASE Paused(k)
  BY <1>1, <1>t, PausedStep
<1>2. ASSUME NEW b \in SUBSET Tools, b = {} \/ ask[k].round = MaxRoundtrips, EndAsk(k, "answered")
      PROVE  AssistantInv'
  BY <1>2, <1>t, EndAskStep
<1>3. ASSUME NEW b \in SUBSET Tools, ~(b = {} \/ ask[k].round = MaxRoundtrips),
             ask' = [ask EXCEPT ![k].step = "tools", ![k].left = b,
                       ![k].results = {}, ![k].calls = @ + 1,
                       ![k].messages = Append(@, Using(b))]
      PROVE  AssistantInv'
  <2> DEFINE x == Using(b)
             m == Append(ask[k].messages, x)
             r == [ask[k] EXCEPT !.step = "tools", !.left = b, !.results = {},
                                 !.calls = ask[k].calls + 1, !.messages = m]
  <2>7. ask' = [ask EXCEPT ![k] = r]
    BY <1>3 DEF AssistantInv, AsksInv, AskType
  <2>1. x \in MessageType /\ x.uses = b /\ x.results = {} /\ x = Using(b \union {})
    BY DEF Using, Said, MessageType
  <2> HIDE DEF x
  <2>2. Request(ask[k].messages) /\ ask[k].messages[Len(ask[k].messages)].uses = {}
        /\ ask[k].calls = ask[k].round /\ ask[k].round \in Nat /\ ask[k].round <= MaxRoundtrips
    BY <1>t DEF LoopOK, AskType
  <2>3. Request(m) /\ m[Len(m)] = x
    BY <2>1, <2>2, RequestGrows
  <2> HIDE DEF m
  <2>4. m \in Seq(MessageType) /\ ask[k].calls + 1 \in Nat
    BY <2>2, <2>3 DEF Request
  <2>5. r \in AskType /\ r.step = "tools" /\ r.messages = m
        /\ r.question = ask[k].question /\ r.conversation = ask[k].conversation
        /\ r.round = ask[k].round /\ r.calls = ask[k].calls + 1 /\ r.heard = ask[k].heard
        /\ r.left = b /\ r.results = {}
    BY <1>t, <2>4 DEF AskType
  <2> HIDE DEF r
  <2>6. LoopOK(r)
    <3>1. r.round < MaxRoundtrips /\ r.calls = r.round + 1
      BY <1>3, <2>2, <2>5, AssistantAssumption
    <3>2. m[Len(m)] = Using(r.left \union r.results)
      BY <2>1, <2>3, <2>5
    <3> QED BY <2>3, <2>5, <3>1, <3>2, LoopAtTools
  <2>8. AskedOK(r)
    BY <1>t, <2>5, AskedKept
  <2> QED BY <1>t, <2>5, <2>6, <2>7, <2>8, ApiStep
<1> QED BY <1>1, <1>2, <1>3 DEF ModelAnswers

\* A tool runs.
LEMMA ToolStep ==
  ASSUME AssistantInv, NEW k \in Asks, NEW t \in Tools, NEW ok \in BOOLEAN, ExecuteTool(k, t, ok)
  PROVE  AssistantInv'
<1>t. /\ ask[k] \in AskType /\ AskedOK(ask[k]) /\ LoopOK(ask[k]) /\ ask[k].question <= questions
      /\ ask[k].step = "tools" /\ t \in ask[k].left /\ UNCHANGED <<turns, sending, questions>>
  BY DEF AssistantInv, AsksInv, ExecuteTool
<1>0. /\ Request(ask[k].messages) /\ ask[k].calls = ask[k].round + 1
      /\ ask[k].round \in Nat /\ ask[k].round < MaxRoundtrips
      /\ ask[k].left \subseteq Tools /\ ask[k].results \subseteq Tools
      /\ ask[k].messages[Len(ask[k].messages)] = Using(ask[k].left \union ask[k].results)
  BY <1>t DEF LoopOK, AskType
<1> DEFINE b == ask[k].results \union {t}
           m == Append(ask[k].messages, ToolResults(b))
           r == [ask[k] EXCEPT !.step = "model", !.round = ask[k].round + 1, !.left = {},
                               !.results = {}, !.messages = m]
           q == [ask[k] EXCEPT !.left = ask[k].left \ {t}, !.results = b]
<1>a. ask' = [ask EXCEPT ![k] = IF ask[k].left = {t} THEN r ELSE q]
  BY DEF ExecuteTool, ToolAnswered, NextRound
<1>1. CASE ask[k].left = {t}
  <2>1. ask' = [ask EXCEPT ![k] = r]
    BY <1>1, <1>a
  <2>2. b = ask[k].left \union ask[k].results /\ b \subseteq Tools /\ b # {}
    BY <1>0, <1>1
  <2> HIDE DEF b
  <2> DEFINE x == ToolResults(b)
  <2>3. x \in MessageType /\ x.uses = {} /\ x.results = b /\ Using(b).uses = b
    BY <2>2 DEF ToolResults, Using, Said, MessageType
  <2>4. ask[k].messages[Len(ask[k].messages)].uses = b
    BY <1>0, <2>2, <2>3
  <2>5. x = ToolResults(ask[k].messages[Len(ask[k].messages)].uses)
    BY <2>4
  <2>6. Request(m) /\ m[Len(m)] = x
    <3> HIDE DEF x
    <3>1. m = Append(ask[k].messages, x)
      BY DEF x
    <3> HIDE DEF m
    <3> QED BY <1>0, <2>3, <2>4, <2>5, <3>1, RequestGrows
  <2> HIDE DEF m, x
  <2>7. m \in Seq(MessageType) /\ ask[k].round + 1 \in Nat
    BY <1>0, <2>6 DEF Request
  <2>8. r \in AskType /\ r.step = "model" /\ r.messages = m
        /\ r.question = ask[k].question /\ r.conversation = ask[k].conversation
        /\ r.round = ask[k].round + 1 /\ r.calls = ask[k].calls /\ r.heard = ask[k].heard
    BY <1>t, <2>7 DEF AskType
  <2> HIDE DEF r
  <2>9. LoopOK(r)
    <3>1. r.round <= MaxRoundtrips /\ r.calls = r.round
      BY <1>0, <2>8, AssistantAssumption
    <3> QED BY <2>3, <2>6, <2>8, <3>1, LoopAtModel
  <2>10. AskedOK(r)
    BY <1>t, <2>8, AskedKept
  <2> QED BY <1>t, <2>1, <2>8, <2>9, <2>10, ApiStep
<1>2. CASE ask[k].left # {t}
  <2>1. ask' = [ask EXCEPT ![k] = q]
    BY <1>2, <1>a
  <2>2. q \in AskType /\ q.step = "tools" /\ q.messages = ask[k].messages
        /\ q.question = ask[k].question /\ q.conversation = ask[k].conversation
        /\ q.round = ask[k].round /\ q.calls = ask[k].calls /\ q.heard = ask[k].heard
        /\ q.left = ask[k].left \ {t} /\ q.results = ask[k].results \union {t}
    BY <1>t, <1>0 DEF AskType
  <2> HIDE DEF q
  <2>3. q.left \union q.results = ask[k].left \union ask[k].results
    BY <1>t, <2>2
  <2>4. LoopOK(q)
    BY <1>0, <2>2, <2>3, LoopAtTools
  <2>5. AskedOK(q)
    BY <1>t, <2>2, AskedKept
  <2> QED BY <1>t, <2>1, <2>2, <2>4, <2>5, ApiStep
<1> QED BY <1>1, <1>2

\* Every step keeps AssistantInv.
LEMMA AssistantStep == AssistantInv /\ [AssistantNext]_assistantVars => AssistantInv'
<1> SUFFICES ASSUME AssistantInv, [AssistantNext]_assistantVars PROVE AssistantInv'
  OBVIOUS
<1> USE DEF AssistantInv
<1>t. /\ ask \in [Asks -> AskType] /\ questions \in Nat
      /\ \A k \in Asks : LoopOK(ask[k]) /\ AskedOK(ask[k]) /\ ask[k].question <= questions
  BY DEF AsksInv, PageInv
<1>1. ASSUME NEW k \in Asks, HandleAsk(k) PROVE AssistantInv'
  <2> DEFINE r == [AskIdle EXCEPT !.step = "sent", !.heard = TRUE,
                     !.question = questions + 1, !.conversation = turns]
  <2>0. ~sending /\ questions' = questions + 1 /\ sending' = TRUE
        /\ turns' = Append(turns, <<"user", questions + 1>>)
        /\ ask' = [ask EXCEPT ![k] = r]
    BY <1>1 DEF HandleAsk
  <2>1. Chat(turns, questions + 1) /\ Len(turns) % 2 = 0 /\ questions + 1 \in Nat
    BY <1>t, <2>0, ChatLonger DEF PageInv
  <2>2. turns \in Seq(TurnType)
    BY <2>1 DEF Chat
  <2>3. r \in AskType /\ r.step = "sent" /\ r.question = questions + 1 /\ r.conversation = turns
        /\ r.round = 0 /\ r.calls = 0
    BY <2>1, <2>2, IdleType DEF AskType, AskIdle
  <2> HIDE DEF r
  <2>4. LoopOK(r) /\ AskedOK(r)
    BY <2>1, <2>3 DEF LoopOK, AskedOK
  <2>5. /\ ask' \in [Asks -> AskType] /\ ask'[k] = r
        /\ \A l \in Asks \ {k} : ask'[l] = ask[l]
    BY <1>t, <2>0, <2>3
  <2>6. AsksInv'
    <3>1. ASSUME NEW l \in Asks PROVE ask'[l].question <= questions'
      <4>1. ask[l].question \in Nat
        BY <1>t DEF AskType
      <4> QED BY <1>t, <2>0, <2>3, <2>5, <4>1
    <3> QED BY <1>t, <2>4, <2>5, <3>1 DEF AsksInv
  <2>7. Chat(turns', questions') /\ Len(turns') % 2 = 1
    BY <2>0, <2>1, ChatAsked
  <2>8. \A l \in Asks \ {k} : ~ask'[l].heard
    BY <2>0, <2>5 DEF PageInv
  <2>9. PageInv'
    BY <2>0, <2>1, <2>3, <2>5, <2>7, <2>8 DEF PageInv
  <2> QED BY <2>6, <2>9
<1>e. ASSUME NEW k \in Asks, ask[k].heard, NEW r \in AskType, ask' = [ask EXCEPT ![k] = r],
             LoopOK(r), AskedOK(r), r.question <= questions, ~r.heard,
             UNCHANGED questions, sending' = FALSE, Chat(turns', questions), Len(turns') % 2 = 0
      PROVE  AssistantInv'
  <2>1. /\ ask' \in [Asks -> AskType] /\ ask'[k] = r
        /\ \A l \in Asks \ {k} : ask'[l] = ask[l]
    BY <1>t, <1>e
  <2>2. AsksInv'
    BY <1>e, <1>t, <2>1 DEF AsksInv
  <2>3. \A l \in Asks : ~ask'[l].heard
    BY <1>e, <2>1 DEF PageInv
  <2>4. PageInv'
    BY <1>e, <1>t, <2>3 DEF PageInv
  <2> QED BY <2>2, <2>4
<1>h. ASSUME NEW k \in Asks, ask[k].heard
      PROVE  /\ ask[k].question \in Nat /\ Chat(ask[k].conversation, ask[k].question)
             /\ Chat(ask[k].conversation, questions) /\ Len(ask[k].conversation) % 2 = 0
  <2>1. ask[k].step # "idle" /\ ask[k].question \in Nat
    BY <1>h, <1>t DEF PageInv, AskType
  <2>2. Chat(ask[k].conversation, ask[k].question) /\ Len(ask[k].conversation) % 2 = 0
    BY <1>t, <2>1 DEF AskedOK
  <2> QED BY <1>t, <2>1, <2>2, ChatLonger
<1>i. AskIdle.question <= questions
  BY <1>t, IdleType
<1>2. ASSUME NEW k \in Asks, AnswerShown(k) PROVE AssistantInv'
  <2> DEFINE s == ask[k].conversation
                    \o << <<"user", ask[k].question>>, <<"assistant", ask[k].question>> >>
  <2>1. /\ ask[k].heard /\ turns' = s /\ sending' = FALSE /\ UNCHANGED questions
        /\ ask' = [ask EXCEPT ![k] = AskIdle]
    BY <1>2 DEF AnswerShown
  <2>2. Chat(s, ask[k].question) /\ Len(s) % 2 = 0
    BY <1>h, <2>1, ChatPair
  <2> HIDE DEF s
  <2>3. Chat(s, questions)
    BY <1>h, <1>t, <2>1, <2>2, ChatLonger
  <2> QED BY <1>e, <1>i, <2>1, <2>2, <2>3, IdleType, IdleOK
<1>3. ASSUME NEW k \in Asks, AskFailed(k) PROVE AssistantInv'
  <2>1. /\ ask[k].heard /\ turns' = ask[k].conversation /\ sending' = FALSE
        /\ UNCHANGED questions
    BY <1>3 DEF AskFailed, RolledBack
  <2>2. Chat(turns', questions) /\ Len(turns') % 2 = 0
    BY <1>h, <2>1
  <2>3. CASE ask' = [ask EXCEPT ![k] = AskIdle]
    BY <1>e, <1>i, <2>1, <2>2, <2>3, IdleType, IdleOK
  <2>4. CASE ask' = [ask EXCEPT ![k].heard = FALSE]
    <3> DEFINE r == [ask[k] EXCEPT !.heard = FALSE]
    <3>1. ask' = [ask EXCEPT ![k] = r]
      BY <1>t, <2>4 DEF AskType
    <3>2. /\ r \in AskType /\ ~r.heard /\ r.step = ask[k].step /\ r.messages = ask[k].messages
          /\ r.question = ask[k].question /\ r.conversation = ask[k].conversation
          /\ r.round = ask[k].round /\ r.calls = ask[k].calls
          /\ r.left = ask[k].left /\ r.results = ask[k].results
      BY <1>t DEF AskType
    <3> HIDE DEF r
    <3>3. LoopOK(r) /\ AskedOK(r) /\ r.question <= questions
      BY <1>t, <3>2 DEF LoopOK, AskedOK
    <3> QED BY <1>e, <2>1, <2>2, <3>1, <3>2, <3>3
  <2> QED BY <1>3, <2>3, <2>4 DEF AskFailed
<1>4. ASSUME NEW k \in Asks, ModelFails(k) PROVE AssistantInv'
  BY <1>4, EndAskStep DEF ModelFails
<1>5. CASE UNCHANGED assistantVars
  BY <1>5 DEF assistantVars, AsksInv, PageInv
<1> QED BY <1>1, <1>2, <1>3, <1>4, <1>5, ReceiveStep, ModelStep, ToolStep DEF AssistantNext

\* The inductive invariant of the assistant.
THEOREM AssistantAlways == AssistantSpec => []AssistantInv
<1>1. AssistantInit => AssistantInv
  <2> SUFFICES ASSUME AssistantInit PROVE AssistantInv
    OBVIOUS
  <2>1. AsksInv
    BY IdleType, IdleOK DEF AssistantInit, AsksInv
  <2>2. Chat(<<>>, 0) /\ Len(<<>>) % 2 = 0
    BY DEF Chat
  <2>3. PageInv
    BY <2>2, IdleType DEF AssistantInit, PageInv
  <2> QED BY <2>1, <2>3 DEF AssistantInv
<1> QED BY <1>1, AssistantStep, PTL DEF AssistantSpec

\* The chat is a sequence of questions, each with its own answer, the one under way
\* last, whatever fails or comes too late (AssistantPage, askAssistant), for any number
\* of questions and requests.
THEOREM TurnsAlwaysPaired == AssistantSpec => []TurnsPaired
<1>1. AssistantInv => TurnsPaired
  BY DEF AssistantInv, PageInv, Chat, TurnsPaired
<1> QED BY <1>1, AssistantAlways, PTL

\* Every request of AssistantService.chat to the model is well formed, also after a
\* tool failed or the model paused, and a question costs at most
\* MAX_TOOL_ROUNDTRIPS + 1 of them, for any tools and any bound.
THEOREM LoopAlwaysKeepsTerms == AssistantSpec => []LoopKeepsTerms
<1>1. AssistantInv => LoopKeepsTerms
  <2> SUFFICES ASSUME AssistantInv, NEW k \in Asks, ask[k].step = "model"
               PROVE  /\ LET m == ask[k].messages IN
                           /\ m[1] = Said("user")
                           /\ \A i \in 1..Len(m) :
                                /\ m[i].uses # {} => i < Len(m) /\ m[i + 1] = ToolResults(m[i].uses)
                                /\ m[i].results # {} => i > 1 /\ m[i - 1].uses = m[i].results
                      /\ ask[k].calls <= MaxRoundtrips
    BY DEF LoopKeepsTerms, RequestsWellFormed, CallsBounded
  <2> DEFINE m == ask[k].messages
  <2>1. Request(m) /\ m[Len(m)].uses = {} /\ ask[k].calls <= MaxRoundtrips
    BY DEF AssistantInv, AsksInv, LoopOK
  <2>2. m \in Seq(MessageType)
    BY <2>1 DEF Request
  <2> HIDE DEF m
  <2>3. ASSUME NEW i \in 1..Len(m), m[i].uses # {} PROVE i < Len(m)
    <3>1. i # Len(m)
      BY <2>1, <2>3
    <3> QED BY <2>2, <3>1
  <2>4. /\ m[1] = Said("user")
        /\ \A i \in 1..Len(m) :
             /\ m[i].uses # {} => i < Len(m) /\ m[i + 1] = ToolResults(m[i].uses)
             /\ m[i].results # {} => i > 1 /\ m[i - 1].uses = m[i].results
    BY <2>1, <2>3 DEF Request
  <2> QED BY <2>1, <2>4 DEF m
<1> QED BY <1>1, AssistantAlways, PTL
=============================================================================
