------------------------------ MODULE Sessions ------------------------------
(***************************************************************************)
(* How one user signs in and out: passwords and their reset, the second    *)
(* factor, and Session rows.                                               *)
(*                                                                         *)
(* AuthService reads the user, waits for the password hash, and writes in  *)
(* a later statement; requests interleave between statements.  Recovery    *)
(* codes are written and cleared together with the secret and open no      *)
(* session: they are ten hexadecimal digits, and the controller's          *)
(* verifyMfaSchema lets only six decimal ones through to the service.      *)
(***************************************************************************)
EXTENDS Integers, FiniteSets

CONSTANTS
  SessionIds,   \* Session rows there may be
  AuthCalls,    \* slots for concurrent requests
  MaxPasswords, \* bound: passwords the user has had
  MaxSecrets    \* bound: enrolments

ASSUME SessionsAssumption ==
  /\ MaxPasswords \in Nat /\ MaxSecrets \in Nat
  /\ "none" \notin SessionIds

VARIABLES
  password,    \* User.passwordHash: which of the passwords it is
  secret,      \* User.mfaSecretEncrypted: which enrolment, 0 for none
  enabled,     \* User.mfaEnabled
  session,     \* Session: state, and the password it was opened with
  authCall,    \* the requests
  resets,      \* history: the password of the last reset that was completed
  overtaken,   \* history: sessions opened by a sign-in a reset overtook
  mfaRaced     \* history: activation overlapped with enrolment or removal

sessionVars == <<password, secret, enabled, session, authCall, resets, overtaken,
                 mfaRaced>>
mfaVars == <<secret, enabled, mfaRaced>>

AuthIdle == [step |-> "idle", password |-> 0, secret |-> 0]

SessionsInit ==
  /\ password = 1 /\ secret = 0 /\ enabled = FALSE
  /\ session = [i \in SessionIds |-> [state |-> "free", password |-> 0]]
  /\ authCall = [c \in AuthCalls |-> AuthIdle]
  /\ resets = 1 /\ overtaken = {} /\ mfaRaced = FALSE

EndAuth(c) == authCall' = [authCall EXCEPT ![c] = AuthIdle]
-----------------------------------------------------------------------------
(* loginWithPassword and completeMfaChallenge *)

\* The user is read and the password verified; a second factor is asked for if
\* it is enabled.
StartLogin(c) ==
  /\ authCall[c].step = "idle"
  /\ authCall' = [authCall EXCEPT ![c] =
                    [AuthIdle EXCEPT !.step = IF enabled THEN "challenge" ELSE "issue",
                                     !.password = password]]
  /\ UNCHANGED <<password, session, resets, overtaken, mfaVars>>

\* The challenge token is verified and the user read again: the code must be
\* the current one of the authenticator.
AnswerTotp(c) ==
  /\ authCall[c].step = "challenge"
  /\ secret # 0
  /\ authCall' = [authCall EXCEPT ![c].step = "issue"]
  /\ UNCHANGED <<password, session, resets, overtaken, mfaVars>>

\* createSession
IssueSession(c) ==
  /\ authCall[c].step = "issue"
  /\ \E i \in SessionIds :
       /\ session[i].state = "free"
       /\ session' = [session EXCEPT ![i] =
                        [state |-> "live", password |-> authCall[c].password]]
       /\ overtaken' = IF authCall[c].password < resets THEN overtaken \union {i}
                                                        ELSE overtaken
  /\ EndAuth(c)
  /\ UNCHANGED <<password, resets, mfaVars>>
-----------------------------------------------------------------------------
(* resetPassword: the hash first, then the sessions *)

StartReset(c) ==
  /\ authCall[c].step = "idle"
  /\ password < MaxPasswords
  /\ password' = password + 1
  /\ authCall' = [authCall EXCEPT ![c] = [AuthIdle EXCEPT !.step = "revoke",
                                                          !.password = password + 1]]
  /\ UNCHANGED <<session, resets, overtaken, mfaVars>>

\* Mutant: sessions are revoked for another user.
RevokeNone(keep) == session

\* revokeAllSessionsForUser(userId, exceptSessionId)
RevokeAll(keep) ==
  [i \in SessionIds |-> IF session[i].state = "live" /\ i # keep
                          THEN [session[i] EXCEPT !.state = "over"] ELSE session[i]]

CompleteReset(c) ==
  /\ authCall[c].step = "revoke"
  /\ session' = RevokeAll("none")
  /\ resets' = IF authCall[c].password > resets THEN authCall[c].password ELSE resets
  /\ EndAuth(c)
  /\ UNCHANGED <<password, overtaken, mfaVars>>

\* logout, and the end of a session's time.
EndSession(i) ==
  /\ session[i].state = "live"
  /\ session' = [session EXCEPT ![i].state = "over"]
  /\ UNCHANGED <<password, authCall, resets, overtaken, mfaVars>>

\* revokeAllOtherSessions, from a session that is live.
RevokeOthers(i) ==
  /\ session[i].state = "live"
  /\ session' = RevokeAll(i)
  /\ UNCHANGED <<password, authCall, resets, overtaken, mfaVars>>
-----------------------------------------------------------------------------
(* mfa/enroll, mfa/activate, mfa/disable: from a session that is live *)

SignedIn == \E i \in SessionIds : session[i].state = "live"

\* A new secret and new codes, enabled or not.
Enroll ==
  /\ SignedIn /\ secret < MaxSecrets
  /\ secret' = secret + 1
  /\ mfaRaced' = (mfaRaced \/ \E c \in AuthCalls : authCall[c].step = "activate")
  /\ UNCHANGED <<password, session, authCall, resets, overtaken, enabled>>

\* The secret is read afresh and the code verified against it ...
StartActivate(c) ==
  /\ SignedIn /\ authCall[c].step = "idle"
  /\ secret # 0
  /\ authCall' = [authCall EXCEPT ![c] = [AuthIdle EXCEPT !.step = "activate",
                                                          !.secret = secret]]
  /\ UNCHANGED <<password, session, resets, overtaken, mfaVars>>

\* ... before the flag is set, whatever the secret is by then.
CompleteActivate(c) ==
  /\ authCall[c].step = "activate"
  /\ enabled' = TRUE
  /\ EndAuth(c)
  /\ UNCHANGED <<password, session, resets, overtaken, secret, mfaRaced>>

\* Mutant: the flag stays.
DisableSecretOnly ==
  /\ SignedIn
  /\ enabled' = enabled /\ secret' = 0
  /\ mfaRaced' = (mfaRaced \/ \E c \in AuthCalls : authCall[c].step = "activate")
  /\ UNCHANGED <<password, session, authCall, resets, overtaken>>

\* One statement clears the flag, the secret and the codes.
Disable ==
  /\ SignedIn
  /\ enabled' = FALSE /\ secret' = 0
  /\ mfaRaced' = (mfaRaced \/ \E c \in AuthCalls : authCall[c].step = "activate")
  /\ UNCHANGED <<password, session, authCall, resets, overtaken>>

\* A request ends between two statements.
EndAuthCall(c) ==
  /\ authCall[c].step # "idle"
  /\ EndAuth(c)
  /\ UNCHANGED <<password, session, resets, overtaken, mfaVars>>

SessionsNext ==
  \/ \E c \in AuthCalls :
       \/ StartLogin(c) \/ AnswerTotp(c) \/ IssueSession(c)
       \/ StartReset(c) \/ CompleteReset(c)
       \/ StartActivate(c) \/ CompleteActivate(c) \/ EndAuthCall(c)
  \/ \E i \in SessionIds : EndSession(i) \/ RevokeOthers(i)
  \/ Enroll \/ Disable

SessionsSpec == SessionsInit /\ [][SessionsNext]_sessionVars
-----------------------------------------------------------------------------
(* Properties *)

\* When a reset is complete, every session opened with an older password is
\* over, also one opened while the reset went on; such a session appears later
\* only by a sign-in that had read the old password and was still under way.
ResetEndsSessions ==
  \A i \in SessionIds :
    session[i].state = "live" /\ session[i].password < resets => i \in overtaken

\* The second factor is asked for only if the user has a secret to answer it
\* with (nothing else would do), unless it was removed while being activated.
FactorUsable == ~mfaRaced /\ enabled => secret # 0
=============================================================================
