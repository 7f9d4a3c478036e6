------------------------------ MODULE Accounts ------------------------------
(***************************************************************************)
(* AuthService: how User rows come to be, get their email verified and are *)
(* joined to identities at Google or Apple.                                *)
(*                                                                         *)
(* User rows are named by their email, which is unique; a subject without  *)
(* an email has a placeholder address.  Statements commit one by one and   *)
(* requests interleave between them, or end there.                         *)
(***************************************************************************)
EXTENDS Integers

CONSTANTS
  Emails,       \* addresses, the placeholders included
  Subjects,     \* subjects of one provider (the other has a cookie of its own)
  AddressesOf,  \* the emails a provider may tell of a subject, at one time or
                \* another (its placeholder stands for none)
  Vouched,      \* subjects whose email the provider calls verified
  AccountCalls  \* slots for concurrent requests

ASSUME AccountsAssumption ==
  /\ AddressesOf \in [Subjects -> SUBSET Emails]
  /\ Vouched \subseteq Subjects
  /\ "none" \notin Emails \union Subjects

VARIABLES
  inserted,    \* how many User rows an email has
  verified,    \* emails with emailVerifiedAt
  account,     \* IdentityProviderAccount: the user of a subject, or "none"
  mailed,      \* emails that were sent a verification or a sign-in link
  handshake,   \* the browser's OAuth cookie: whose flow it is, or "none"
  accountCall, \* the requests
  creator,     \* history: who made the User row: "self", "mail" or a subject
  proven       \* history: emails whose owner answered, or a provider vouched for

accountVars == <<inserted, verified, account, mailed, handshake, accountCall,
                 creator, proven>>
userVars == <<inserted, verified, creator, proven>>

AccountIdle == [step |-> "idle", email |-> "none", subject |-> "none"]

AccountsInit ==
  /\ inserted = [e \in Emails |-> 0]
  /\ verified = {}
  /\ account = [s \in Subjects |-> "none"]
  /\ mailed = {}
  /\ handshake = "none"
  /\ accountCall = [c \in AccountCalls |-> AccountIdle]
  /\ creator = [e \in Emails |-> "none"]
  /\ proven = {}

HasUser(e) == inserted[e] > 0

BeginAccount(c, step, e, s) ==
  /\ accountCall[c].step = "idle"
  /\ accountCall' = [accountCall EXCEPT ![c] =
                       [step |-> step, email |-> e, subject |-> s]]

EndAccount(c) == accountCall' = [accountCall EXCEPT ![c] = AccountIdle]

\* User.email is unique: an insert that meets another row throws.
EmailFree(e) == ~HasUser(e)

InsertUser(e, by, isVerified) ==
  /\ EmailFree(e)
  /\ inserted' = [inserted EXCEPT ![e] = @ + 1]
  /\ creator' = [creator EXCEPT ![e] = by]
  /\ verified' = IF isVerified THEN verified \union {e} ELSE verified
-----------------------------------------------------------------------------
(* register and verifyEmail *)

\* No user has the email; the password is hashed.
StartRegister(c) ==
  /\ \E e \in Emails : ~HasUser(e) /\ BeginAccount(c, "register", e, "none")
  /\ UNCHANGED <<userVars, account, mailed, handshake>>

\* The row is inserted and the verification link sent.
CommitRegister(c) ==
  /\ accountCall[c].step = "register"
  /\ InsertUser(accountCall[c].email, "self", FALSE)
  /\ mailed' = mailed \union {accountCall[c].email}
  /\ EndAccount(c)
  /\ UNCHANGED <<account, handshake, proven>>

\* The owner of the address follows the link.
VerifyEmail(e) ==
  /\ e \in mailed /\ HasUser(e) /\ e \notin verified
  /\ verified' = verified \union {e}
  /\ proven' = proven \union {e}
  /\ UNCHANGED <<inserted, creator, account, mailed, handshake, accountCall>>
-----------------------------------------------------------------------------
(* requestMagicLink and consumeMagicLink *)

\* A link is sent, to an account or not.
RequestMagicLink(e) ==
  /\ e \notin mailed
  /\ mailed' = mailed \union {e}
  /\ UNCHANGED <<userVars, account, handshake, accountCall>>

\* The owner of the address follows it: the user is looked up ...
StartMagicLink(c) ==
  /\ \E e \in mailed :
       /\ BeginAccount(c, IF HasUser(e) THEN "verify" ELSE "magic", e, "none")
       /\ proven' = proven \union {e}
  /\ UNCHANGED <<inserted, verified, creator, account, mailed, handshake>>

\* ... and created, verified from the start, or verified now.
CommitMagicLink(c) ==
  LET e == accountCall[c].email
  IN  /\ \/ accountCall[c].step = "magic" /\ InsertUser(e, "mail", TRUE)
         \/ /\ accountCall[c].step = "verify"
            /\ verified' = verified \union {e}
            /\ UNCHANGED <<inserted, creator>>
      /\ EndAccount(c)
      /\ UNCHANGED <<account, mailed, handshake, proven>>
-----------------------------------------------------------------------------
(* Google and Apple *)

\* googleStart, appleStart: the cookie of an earlier flow is overwritten.
StartOAuth(s) ==
  /\ handshake # s
  /\ handshake' = s
  /\ UNCHANGED <<userVars, account, mailed, accountCall>>

\* The callback of the flow the cookie belongs to.  An identity that has its
\* account signs in to it; any other is to be linked or created.
OAuthCallback(c) ==
  /\ handshake # "none"
  /\ account[handshake] = "none"
  /\ \E e \in AddressesOf[handshake] :
       /\ BeginAccount(c, "candidate", e, handshake)
       /\ proven' = IF handshake \in Vouched THEN proven \union {e} ELSE proven
  /\ UNCHANGED <<inserted, verified, creator, account, mailed, handshake>>

\* Mutant: the provider's word is enough.
MayLinkVouched(s, e) == s \in Vouched /\ HasUser(e)

\* "Only if BOTH the provider and our own record consider the email verified."
MayLink(s, e) == s \in Vouched /\ e \in verified

FindCandidate(c) ==
  LET e == accountCall[c].email
      s == accountCall[c].subject
  IN  /\ accountCall[c].step = "candidate"
      /\ accountCall' = [accountCall EXCEPT ![c].step =
                           IF MayLink(s, e) THEN "link" ELSE "create"]
      /\ UNCHANGED <<userVars, account, mailed, handshake>>

\* emailVerifiedAt: identity.emailVerified ? new Date() : null
BornVerified(s) == s \in Vouched

CreateFromIdentity(c) ==
  LET s == accountCall[c].subject
  IN  /\ accountCall[c].step = "create"
      /\ InsertUser(accountCall[c].email, s, BornVerified(s))
      /\ accountCall' = [accountCall EXCEPT ![c].step = "link"]
      /\ UNCHANGED <<account, mailed, handshake, proven>>

\* Mutant: no unique index on provider and subject.
SubjectFreeAlways(s) == TRUE

\* @@unique([provider, providerSubject])
SubjectFree(s) == account[s] = "none"

\* The account row; the response clears the cookie.
LinkIdentity(c) ==
  LET s == accountCall[c].subject
  IN  /\ accountCall[c].step = "link"
      /\ SubjectFree(s)
      /\ account' = [account EXCEPT ![s] = accountCall[c].email]
      /\ handshake' = "none"
      /\ EndAccount(c)
      /\ UNCHANGED <<userVars, mailed>>

\* A request ends: an insert throws, or the process stops.
EndAccountCall(c) ==
  /\ accountCall[c].step # "idle"
  /\ EndAccount(c)
  /\ UNCHANGED <<userVars, account, mailed, handshake>>

AccountsNext ==
  \/ \E c \in AccountCalls :
       \/ StartRegister(c) \/ CommitRegister(c) \/ StartMagicLink(c)
       \/ CommitMagicLink(c) \/ OAuthCallback(c) \/ FindCandidate(c)
       \/ CreateFromIdentity(c) \/ LinkIdentity(c) \/ EndAccountCall(c)
  \/ \E e \in Emails : VerifyEmail(e) \/ RequestMagicLink(e)
  \/ \E s \in Subjects : StartOAuth(s)

AccountsSpec == AccountsInit /\ [][AccountsNext]_accountVars
-----------------------------------------------------------------------------
(* Properties *)

\* One account per email, however registrations, sign-in links and providers
\* race for it.
OneUserPerEmail == \A e \in Emails : inserted[e] <= 1

\* An identity is attached to an account it did not make itself only if both
\* sides had verified the email ("two unverified strings matching is never
\* sufficient"), also when the account appears or is verified meanwhile.
LinkedSafely ==
  \A s \in Subjects : account[s] # "none" =>
    /\ HasUser(account[s])
    /\ creator[account[s]] = s \/ (s \in Vouched /\ account[s] \in verified)

\* A verified email was proven: its owner followed a link, or a provider vouched.
VerifiedIsProven == verified \subseteq proven

\* Once a subject signs in to an account, it is that account for good.
IdentityStays ==
  [][\A s \in Subjects : account[s] # "none" => account'[s] = account[s]]_accountVars

\* Accounts are safe to link to: one per email, verified only when proven, and
\* attached to another's identity only with both sides verified.
IdentitiesSafe == OneUserPerEmail /\ VerifiedIsProven /\ LinkedSafely
=============================================================================
