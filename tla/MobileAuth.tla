----------------------------- MODULE MobileAuth -----------------------------
(***************************************************************************)
(* AuthProvider of the mobile app: the token in the secure store, the      *)
(* signed-in user, and start-up, sign-in and sign-out, which await the     *)
(* network and the stores in between.  Any of these awaits may reject.     *)
(***************************************************************************)
EXTENDS Integers, FiniteSets

CONSTANTS
  AppCalls,    \* slots for login and logout calls under way
  MaxSignIns   \* bound: sessions opened

ASSUME MobileAuthAssumption == MaxSignIns \in Nat

VARIABLES
  token,       \* the session token in the secure store, 0 for none
  appUser,     \* the session the user was loaded with, 0 for null
  appCall,     \* start-up, and calls of login and logout
  tokens,      \* external: session tokens the server accepts
  given,       \* history: sessions opened
  wasIn,       \* history: the token the app was opened with, 0 once signed out
  unreached,   \* history: start-up could not reach the API, or read the token
  halfIn,      \* history: a token was kept without its user, by a sign-in that ended
               \* in between, or by a start-up that could not clear it
  stripped,    \* history: start-up cleared the token of a user already set
  crossed      \* history: a second sign-out was under way

mobileAuthVars == <<token, appUser, appCall, tokens, given, wasIn, unreached,
                    halfIn, stripped, crossed>>
caseVars == <<unreached, halfIn, stripped, crossed>>

AppIdle == [kind |-> "none", step |-> "idle", session |-> 0]

\* The slot of start-up is any of them: nothing else runs while it loads.
StartUp == {c \in AppCalls : appCall[c].kind = "start"}
Calm == \A c \in AppCalls : appCall[c].step = "idle"

\* An app that was just installed is open.
MobileAuthInit ==
  /\ token = 0 /\ appUser = 0 /\ tokens = {} /\ given = 0
  /\ appCall = [c \in AppCalls |-> AppIdle]
  /\ wasIn = 0
  /\ unreached = FALSE /\ halfIn = FALSE /\ stripped = FALSE /\ crossed = FALSE

AppEnds(c) == appCall' = [appCall EXCEPT ![c] = AppIdle]
-----------------------------------------------------------------------------
(* Start-up *)

\* The app is killed and opened again; the token is loaded, and with one the
\* user is asked for (loading keeps every screen away).
OpenApp(c) ==
  /\ StartUp = {}
  /\ appUser' = 0
  /\ wasIn' = token
  /\ appCall' = [d \in AppCalls |->
       IF d = c /\ token # 0 THEN [kind |-> "start", step |-> "me", session |-> token]
                             ELSE AppIdle]
  /\ unreached' = FALSE /\ halfIn' = FALSE /\ stripped' = FALSE /\ crossed' = FALSE
  /\ UNCHANGED <<token, tokens, given>>

\* catch: clearSessionToken, whatever was thrown.
AfterFailedStart == 0

\* loadMe sets the user, and then reads the tenant chosen last: if that rejects,
\* the token is cleared, or that rejects too, with the user set.
StartLoads(c) ==
  /\ appCall[c].session \in tokens
  /\ appUser' = appCall[c].session
  /\ \/ UNCHANGED <<token, stripped>>
     \/ token' = AfterFailedStart /\ stripped' = TRUE
  /\ UNCHANGED <<unreached, halfIn>>

\* The API refuses, or the token could not be read or the API not be reached.
\* The token is cleared, or the store rejects that as well.
StartFails(c) ==
  /\ \/ appCall[c].session \notin tokens /\ UNCHANGED unreached
     \/ unreached' = TRUE
  /\ \/ token' = AfterFailedStart /\ UNCHANGED halfIn
     \/ halfIn' = TRUE /\ UNCHANGED token
  /\ UNCHANGED <<appUser, stripped>>

StartAnswered(c) ==
  /\ appCall[c].kind = "start" /\ appCall[c].step = "me"
  /\ StartLoads(c) \/ StartFails(c)
  /\ AppEnds(c)
  /\ UNCHANGED <<tokens, given, wasIn, crossed>>
-----------------------------------------------------------------------------
(* login, completeMfa *)

\* LoginScreen (submitting keeps a second press away): the API opens a session,
\* with a second factor in the second request, and its answer may be lost.
SubmitAppLogin(c) ==
  /\ appUser = 0 /\ StartUp = {} /\ given < MaxSignIns
  /\ ~\E d \in AppCalls : appCall[d].kind = "login"
  /\ appCall[c].step = "idle"
  /\ given' = given + 1 /\ tokens' = tokens \union {given + 1}
  /\ \/ appCall' = [appCall EXCEPT ![c] = [kind |-> "login", step |-> "save",
                                           session |-> given + 1]]
     \/ UNCHANGED appCall
  /\ UNCHANGED <<token, appUser, wasIn, caseVars>>

\* saveSessionToken; if it rejects, that is an error on the screen.
SaveToken(c) ==
  /\ appCall[c].kind = "login" /\ appCall[c].step = "save"
  /\ \/ /\ token' = appCall[c].session
        /\ appCall' = [appCall EXCEPT ![c].step = "read"]
        /\ halfIn' = FALSE
     \/ AppEnds(c) /\ UNCHANGED <<token, halfIn>>
  /\ UNCHANGED <<appUser, tokens, given, wasIn, unreached, stripped, crossed>>

\* loadMe: apiRequest sends the token that is stored by now.
ReadToken(c) ==
  /\ appCall[c].kind = "login" /\ appCall[c].step = "read"
  /\ appCall' = [appCall EXCEPT ![c].step = "me", ![c].session = token]
  /\ UNCHANGED <<token, appUser, tokens, given, wasIn, caseVars>>

\* The user is set, even if the rest of loadMe fails; or there is only an error.
LoginAnsweredApp(c) ==
  /\ appCall[c].kind = "login" /\ appCall[c].step = "me"
  /\ \/ /\ appCall[c].session \in tokens
        /\ appUser' = appCall[c].session
        /\ UNCHANGED halfIn
     \/ halfIn' = TRUE /\ UNCHANGED appUser
  /\ AppEnds(c)
  /\ UNCHANGED <<token, tokens, given, wasIn, unreached, stripped, crossed>>
-----------------------------------------------------------------------------
(* logout *)

\* Nothing keeps a second press away.  The token is read for the request.
SubmitAppLogout(c) ==
  /\ appUser # 0
  /\ appCall[c].step = "idle"
  /\ crossed' = (crossed \/ \E d \in AppCalls : appCall[d].kind = "logout")
  /\ appCall' = [appCall EXCEPT ![c] = [kind |-> "logout", step |-> "post",
                                        session |-> token]]
  /\ UNCHANGED <<token, appUser, tokens, given, wasIn, unreached, halfIn, stripped>>

\* The API revokes the session, or is not reached: it goes on all the same.
LogoutAnsweredApp(c) ==
  /\ appCall[c].kind = "logout" /\ appCall[c].step = "post"
  /\ tokens' \in {tokens, tokens \ {appCall[c].session}}
  /\ appCall' = [appCall EXCEPT ![c].step = "clear"]
  /\ UNCHANGED <<token, appUser, given, wasIn, caseVars>>

\* Mutant: sign-out leaves the token in the store.
TokenAfterLogoutKept == token

TokenAfterLogout == 0

\* finally: clearSessionToken; if that rejects, the user stays signed in ...
ClearToken(c) ==
  /\ appCall[c].kind = "logout" /\ appCall[c].step = "clear"
  /\ \/ token' = TokenAfterLogout /\ appCall' = [appCall EXCEPT ![c].step = "forget"]
     \/ AppEnds(c) /\ UNCHANGED token
  /\ UNCHANGED <<appUser, tokens, given, wasIn, caseVars>>

\* ... then user, memberships and tenant.
ForgetUser(c) ==
  /\ appCall[c].kind = "logout" /\ appCall[c].step = "forget"
  /\ appUser' = 0 /\ wasIn' = 0 /\ stripped' = FALSE
  /\ AppEnds(c)
  /\ UNCHANGED <<token, tokens, given, unreached, halfIn, crossed>>

\* A session expires or is revoked from elsewhere.
SessionEnds(n) ==
  /\ n \in tokens
  /\ tokens' = tokens \ {n}
  /\ UNCHANGED <<token, appUser, appCall, given, wasIn, caseVars>>

MobileAuthNext ==
  \/ \E c \in AppCalls :
       \/ OpenApp(c) \/ StartAnswered(c)
       \/ SubmitAppLogin(c) \/ SaveToken(c) \/ ReadToken(c) \/ LoginAnsweredApp(c)
       \/ SubmitAppLogout(c) \/ LogoutAnsweredApp(c) \/ ClearToken(c) \/ ForgetUser(c)
  \/ \E n \in tokens : SessionEnds(n)

MobileAuthSpec == MobileAuthInit /\ [][MobileAuthNext]_mobileAuthVars
-----------------------------------------------------------------------------
(* Properties *)

\* Between calls the app never holds the token of another session than the
\* user's, through restarts, lost answers and stores that fail.  A token without
\* a user is left by a sign-in that broke off in between or a start-up that could
\* not clear it; a user without a token, by a start-up that failed after it had
\* set the user; and either by a second sign-out, answered after the next sign-in.
TokenIsUsers ==
  Calm => /\ token # 0 /\ appUser # 0 => token = appUser
          /\ token # 0 /\ appUser = 0 => halfIn \/ crossed
          /\ token = 0 /\ appUser # 0 => stripped \/ crossed

\* A restart keeps a session that is live, if the API can be asked about it.
RestartKeepsSession == Calm /\ ~unreached /\ wasIn \in tokens => appUser = wasIn

\* Token and user are in step, and a restart keeps a live session.
TokenInStep == TokenIsUsers /\ RestartKeepsSession
=============================================================================
