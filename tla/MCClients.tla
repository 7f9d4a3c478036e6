------------------------------ MODULE MCClients -----------------------------
(***************************************************************************)
(* The clients, the sale queue, the sessions, reports and assistant they   *)
(* use, for one TLC run.  As in MCOffice, each behaviour exercises one     *)
(* component (focus).                                                      *)
(***************************************************************************)
EXTENDS OfflineSync, Sessions, Reports, Assistant, WebSession, TenantPage,
        RowActions, MobileAuth, Checkout, TLC

VARIABLE focus   \* the component exercised

clientVars == <<vars, sessionVars, reportVars, assistantVars, webSessionVars,
                tenantPageVars, rowVars, mobileAuthVars, checkoutVars, focus>>

\* The first requests of the web pages are in the first of their equal slots.
MCInit ==
  /\ focus \in {"queue", "sessions", "reports", "assistant", "webSession",
               "tenantPage", "rows", "mobileAuth", "checkout"}
  /\ Init /\ SessionsInit /\ ReportsInit /\ AssistantInit /\ WebSessionInit
  /\ TenantPageInit /\ RowActionsInit /\ MobileAuthInit /\ CheckoutInit
  /\ focus # "assistant" => configured
  /\ focus # "webSession" => cookie = 0 /\ belongs = {} /\ stored = "none"
  /\ focus # "tenantPage" => form = "plain"
  /\ webCall[CHOOSE c \in WebCalls : TRUE].step = "sent"
  /\ load[CHOOSE l \in Loads : TRUE].step = "sent"

\* A step of the component in focus.
Only(name) == focus = name /\ UNCHANGED focus

MCNext ==
  \/ /\ Only("queue") /\ Next
     /\ UNCHANGED <<sessionVars, reportVars, assistantVars, webSessionVars,
                    tenantPageVars, rowVars, mobileAuthVars, checkoutVars>>
  \/ /\ Only("sessions") /\ SessionsNext
     /\ UNCHANGED <<vars, reportVars, assistantVars, webSessionVars,
                    tenantPageVars, rowVars, mobileAuthVars, checkoutVars>>
  \/ /\ Only("reports") /\ ReportsNext
     /\ UNCHANGED <<vars, sessionVars, assistantVars, webSessionVars,
                    tenantPageVars, rowVars, mobileAuthVars, checkoutVars>>
  \/ /\ Only("assistant") /\ AssistantNext
     /\ UNCHANGED <<vars, sessionVars, reportVars, webSessionVars,
                    tenantPageVars, rowVars, mobileAuthVars, checkoutVars>>
  \/ /\ Only("webSession") /\ WebSessionNext
     /\ UNCHANGED <<vars, sessionVars, reportVars, assistantVars,
                    tenantPageVars, rowVars, mobileAuthVars, checkoutVars>>
  \/ /\ Only("tenantPage") /\ TenantPageNext
     /\ UNCHANGED <<vars, sessionVars, reportVars, assistantVars,
                    webSessionVars, rowVars, mobileAuthVars, checkoutVars>>
  \/ /\ Only("rows") /\ RowActionsNext
     /\ UNCHANGED <<vars, sessionVars, reportVars, assistantVars,
                    webSessionVars, tenantPageVars, mobileAuthVars, checkoutVars>>
  \/ /\ Only("mobileAuth") /\ MobileAuthNext
     /\ UNCHANGED <<vars, sessionVars, reportVars, assistantVars,
                    webSessionVars, tenantPageVars, rowVars, checkoutVars>>
  \/ /\ Only("checkout") /\ CheckoutNext
     /\ UNCHANGED <<vars, sessionVars, reportVars, assistantVars, webSessionVars,
                    tenantPageVars, rowVars, mobileAuthVars>>

MCSpec == MCInit /\ [][MCNext]_clientVars
-----------------------------------------------------------------------------
MCSaleSizes == {[total |-> 5, cost |-> 2]}

\* The slots of concurrent calls are the same two values in every component,
\* except where one is taken at the start; so are the tenants.
MCSymmetry == Permutations(AuthCalls) \union Permutations(Tenants)
=============================================================================
