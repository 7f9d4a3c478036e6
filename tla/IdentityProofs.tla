--------------------------- MODULE IdentityProofs ---------------------------
(***************************************************************************)
(* Proofs about Accounts, for any emails, subjects and number of requests, *)
(* and about Sessions, for any sessions and requests.                      *)
(*                                                                         *)
(* What a request may still write is decided when it reads.  The inductive *)
(* invariant of Accounts says of each request under way that what it read  *)
(* still holds: a magic link was answered, a subject that is vouched for   *)
(* has proven its email, and an account about to be linked was made by the *)
(* subject or is verified on both sides.  It lasts because rows are never  *)
(* deleted and emails never become unverified.  FactorUsable of Sessions   *)
(* needs that whoever is about to activate the factor has one, unless an   *)
(* overlap is noted.                                                       *)
(***************************************************************************)
EXTENDS Accounts, Sessions, TLAPS

Steps == {"idle", "register", "verify", "magic", "candidate", "create", "link"}

CallType == [step : Steps, email : Emails \union {"none"},
             subject : Subjects \union {"none"}]

AccountsType ==
  /\ inserted \in [Emails -> Nat]
  /\ verified \subseteq Emails
  /\ account \in [Subjects -> Emails \union {"none"}]
  /\ mailed \subseteq Emails
  /\ handshake \in Subjects \union {"none"}
  /\ accountCall \in [AccountCalls -> CallType]
  /\ creator \in [Emails -> Subjects \union {"self", "mail", "none"}]
  /\ proven \subseteq Emails

\* The subject may be attached to the account with this email.
Linkable(s, e) ==
  /\ inserted[e] > 0
  /\ creator[e] = s \/ (s \in Vouched /\ e \in verified)

\* What a request knows.
CallKnows(r) ==
  /\ r.step # "idle" => r.email \in Emails
  /\ r.step \in {"magic", "verify"} => r.email \in proven
  /\ r.step = "verify" => inserted[r.email] > 0
  /\ r.step \in {"candidate", "create", "link"} => r.subject \in Subjects
  /\ r.step \in {"candidate", "create", "link"} /\ r.subject \in Vouched
       => r.email \in proven
  /\ r.step = "link" => Linkable(r.subject, r.email)

CallsKnow == \A c \in AccountCalls : CallKnows(accountCall[c])

VerifiedHaveUsers == \A e \in verified : inserted[e] > 0

AccountsInv ==
  /\ AccountsType
  /\ OneUserPerEmail
  /\ VerifiedIsProven
  /\ VerifiedHaveUsers
  /\ CallsKnow
  /\ LinkedSafely

\* Initially there are no users and no requests.
LEMMA AccountsInitInv == AccountsInit => AccountsInv
  BY AccountsAssumption
  DEF AccountsInit, AccountsInv, AccountsType, CallType, Steps, OneUserPerEmail,
      VerifiedIsProven, VerifiedHaveUsers, CallsKnow, CallKnows, LinkedSafely,
      AccountIdle

\* Every request and every link followed keeps the types.
LEMMA AccountsTypeStep == AccountsInv /\ [AccountsNext]_accountVars => AccountsType'
<1> SUFFICES ASSUME AccountsInv, [AccountsNext]_accountVars
             PROVE  AccountsType'
  OBVIOUS
<1> USE AccountsAssumption DEF AccountsInv
<1>i. AccountIdle \in CallType
  BY DEF AccountIdle, CallType, Steps
<1>b. ASSUME NEW c \in AccountCalls, NEW st \in Steps, NEW e \in Emails,
             NEW s \in Subjects \union {"none"}, BeginAccount(c, st, e, s)
      PROVE  accountCall' \in [AccountCalls -> CallType]
  BY <1>b DEF BeginAccount, AccountsType, CallType
<1>e. ASSUME NEW c \in AccountCalls, EndAccount(c)
      PROVE  accountCall' \in [AccountCalls -> CallType]
  BY <1>e, <1>i DEF EndAccount, AccountsType
<1>n. ASSUME NEW e \in Emails, NEW by \in Subjects \union {"self", "mail"},
             NEW v \in BOOLEAN, InsertUser(e, by, v)
      PROVE  /\ inserted' \in [Emails -> Nat]
             /\ verified' \subseteq Emails
             /\ creator' \in [Emails -> Subjects \union {"self", "mail", "none"}]
  BY <1>n DEF InsertUser, AccountsType
<1>1. ASSUME NEW c \in AccountCalls, StartRegister(c) PROVE AccountsType'
  BY <1>1, <1>b DEF StartRegister, AccountsType, userVars, Steps
<1>2. ASSUME NEW c \in AccountCalls, CommitRegister(c) PROVE AccountsType'
  <2>1. accountCall[c].email \in Emails
    BY <1>2 DEF CommitRegister, CallsKnow, CallKnows
  <2> QED BY <1>2, <2>1, <1>e, <1>n DEF CommitRegister, AccountsType
<1>3. ASSUME NEW c \in AccountCalls, StartMagicLink(c) PROVE AccountsType'
  BY <1>3, <1>b DEF StartMagicLink, AccountsType, Steps
<1>4. ASSUME NEW c \in AccountCalls, CommitMagicLink(c) PROVE AccountsType'
  <2>1. accountCall[c].email \in Emails
    BY <1>4 DEF CommitMagicLink, CallsKnow, CallKnows
  <2> QED BY <1>4, <2>1, <1>e, <1>n DEF CommitMagicLink, AccountsType
<1>5. ASSUME NEW c \in AccountCalls, OAuthCallback(c) PROVE AccountsType'
  BY <1>5, <1>b DEF OAuthCallback, AccountsType, Steps
<1>6. ASSUME NEW c \in AccountCalls, FindCandidate(c) PROVE AccountsType'
  BY <1>6 DEF FindCandidate, AccountsType, CallType, Steps, userVars
<1>7. ASSUME NEW c \in AccountCalls, CreateFromIdentity(c) PROVE AccountsType'
  <2>1. accountCall[c].email \in Emails /\ accountCall[c].subject \in Subjects
    BY <1>7 DEF CreateFromIdentity, CallsKnow, CallKnows
  <2>2. accountCall' \in [AccountCalls -> CallType]
    BY <1>7 DEF CreateFromIdentity, AccountsType, CallType, Steps
  <2>3. /\ inserted' \in [Emails -> Nat]
        /\ verified' \subseteq Emails
        /\ creator' \in [Emails -> Subjects \union {"self", "mail", "none"}]
    BY <1>7, <2>1 DEF CreateFromIdentity, InsertUser, AccountsType
  <2> QED BY <1>7, <2>2, <2>3 DEF CreateFromIdentity, AccountsType
<1>8. ASSUME NEW c \in AccountCalls, LinkIdentity(c) PROVE AccountsType'
  <2>1. accountCall[c].email \in Emails /\ accountCall[c].subject \in Subjects
    BY <1>8 DEF LinkIdentity, CallsKnow, CallKnows
  <2> QED BY <1>8, <2>1, <1>e DEF LinkIdentity, AccountsType, userVars
<1>9. ASSUME NEW c \in AccountCalls, EndAccountCall(c) PROVE AccountsType'
  BY <1>9, <1>e DEF EndAccountCall, AccountsType, userVars
<1>10. ASSUME NEW e \in Emails, VerifyEmail(e) PROVE AccountsType'
  BY <1>10 DEF VerifyEmail, AccountsType
<1>11. ASSUME NEW e \in Emails, RequestMagicLink(e) PROVE AccountsType'
  BY <1>11 DEF RequestMagicLink, AccountsType, userVars
<1>12. ASSUME NEW s \in Subjects, StartOAuth(s) PROVE AccountsType'
  BY <1>12 DEF StartOAuth, AccountsType, userVars
<1>13. CASE UNCHANGED accountVars
  BY <1>13 DEF accountVars, AccountsType
<1> QED
  BY <1>1, <1>2, <1>3, <1>4, <1>5, <1>6, <1>7, <1>8, <1>9, <1>10, <1>11, <1>12, <1>13
  DEF AccountsNext

\* Users stay, their makers stay, and nothing becomes unverified or unproven.
Grows ==
  /\ \A e \in Emails : inserted[e] > 0 => inserted'[e] > 0 /\ creator'[e] = creator[e]
  /\ verified \subseteq verified'
  /\ proven \subseteq proven'

\* An insert meets no row, and leaves one that is verified only as told.
LEMMA InsertUserResult ==
  ASSUME AccountsInv, NEW e \in Emails, NEW by, NEW v, InsertUser(e, by, v)
  PROVE  /\ OneUserPerEmail'
         /\ inserted'[e] > 0 /\ creator'[e] = by
         /\ \A f \in Emails : inserted[f] > 0 => inserted'[f] > 0 /\ creator'[f] = creator[f]
         /\ verified \subseteq verified'
         /\ verified' \subseteq verified \union {e}
         /\ v => e \in verified'
         /\ ~v => verified' = verified
         /\ VerifiedHaveUsers'
  BY DEF AccountsInv, AccountsType, InsertUser, EmailFree, HasUser, OneUserPerEmail,
         VerifiedHaveUsers

\* A step that only adds rows keeps what the requests it does not end know.
LEMMA KnowledgeLasts ==
  ASSUME AccountsInv, AccountsType', Grows, NEW r \in CallType, CallKnows(r)
  PROVE  CallKnows(r)'
  BY DEF AccountsInv, AccountsType, Grows, CallKnows, Linkable, CallType

\* A request that ends knows nothing any more; the others know what they did.
LEMMA EndKnows ==
  ASSUME AccountsInv, AccountsType', Grows, NEW c \in AccountCalls, EndAccount(c)
  PROVE  CallsKnow'
<1> SUFFICES ASSUME NEW d \in AccountCalls PROVE CallKnows(accountCall[d])'
  BY DEF CallsKnow
<1>1. CASE d = c
  BY <1>1 DEF EndAccount, AccountIdle, CallKnows, AccountsInv, AccountsType
<1>2. CASE d # c
  <2>1. PICK r \in CallType : r = accountCall[d]
    BY DEF AccountsInv, AccountsType
  <2>2. CallKnows(r)
    BY <2>1 DEF AccountsInv, CallsKnow
  <2>3. CallKnows(r)'
    BY <2>2, KnowledgeLasts
  <2>4. accountCall'[d] = r
    BY <1>2, <2>1 DEF EndAccount, AccountsInv, AccountsType
  <2> QED BY <2>3, <2>4 DEF CallKnows, Linkable
<1> QED BY <1>1, <1>2

\* A step that rewrites one request, with what it knows, keeps them all.
LEMMA OneCallKnows ==
  ASSUME AccountsInv, AccountsType', Grows, NEW c \in AccountCalls, NEW r,
         accountCall' = [accountCall EXCEPT ![c] = r], CallKnows(r)'
  PROVE  CallsKnow'
<1> SUFFICES ASSUME NEW d \in AccountCalls PROVE CallKnows(accountCall[d])'
  BY DEF CallsKnow
<1>1. CASE d = c
  BY <1>1 DEF AccountsInv, AccountsType
<1>2. CASE d # c
  <2>1. PICK k \in CallType : k = accountCall[d]
    BY DEF AccountsInv, AccountsType
  <2>2. CallKnows(k)
    BY <2>1 DEF AccountsInv, CallsKnow
  <2>3. CallKnows(k)'
    BY <2>2, KnowledgeLasts
  <2>4. accountCall'[d] = k
    BY <1>2, <2>1 DEF AccountsInv, AccountsType
  <2> QED BY <2>3, <2>4 DEF CallKnows, Linkable
<1> QED BY <1>1, <1>2

UsersFine == Grows /\ OneUserPerEmail' /\ VerifiedIsProven' /\ VerifiedHaveUsers'

\* Every step only adds users and proofs, one user to an email, and verifies
\* only what is proven.
LEMMA UsersStep == AccountsInv /\ [AccountsNext]_accountVars => UsersFine
<1> SUFFICES ASSUME AccountsInv, [AccountsNext]_accountVars PROVE UsersFine
  OBVIOUS
<1> USE DEF UsersFine
<1>s. ASSUME UNCHANGED userVars PROVE UsersFine
  BY <1>s DEF userVars, AccountsInv, Grows, OneUserPerEmail, VerifiedIsProven,
              VerifiedHaveUsers
<1>p. ASSUME UNCHANGED <<inserted, verified, creator>>, proven \subseteq proven'
      PROVE  UsersFine
  BY <1>p DEF AccountsInv, Grows, OneUserPerEmail, VerifiedIsProven, VerifiedHaveUsers
<1>2. ASSUME NEW c \in AccountCalls, CommitRegister(c) PROVE UsersFine
  <2>1. accountCall[c].email \in Emails /\ InsertUser(accountCall[c].email, "self", FALSE)
    BY <1>2 DEF CommitRegister, AccountsInv, CallsKnow, CallKnows
  <2> QED BY <1>2, <2>1, InsertUserResult DEF CommitRegister, AccountsInv, Grows, VerifiedIsProven
<1>4. ASSUME NEW c \in AccountCalls, CommitMagicLink(c) PROVE UsersFine
  <2>1. PICK e \in proven : e = accountCall[c].email /\ e \in Emails
    BY <1>4 DEF CommitMagicLink, AccountsInv, CallsKnow, CallKnows
  <2>2. proven' = proven
    BY <1>4 DEF CommitMagicLink
  <2>3. CASE accountCall[c].step = "magic" /\ InsertUser(e, "mail", TRUE)
    BY <2>1, <2>2, <2>3, InsertUserResult DEF AccountsInv, Grows, VerifiedIsProven
  <2>4. CASE /\ accountCall[c].step = "verify"
             /\ verified' = verified \union {e}
             /\ UNCHANGED <<inserted, creator>>
    <3>1. inserted[e] > 0
      BY <2>1, <2>4 DEF AccountsInv, CallsKnow, CallKnows
    <3> QED BY <2>1, <2>2, <2>4, <3>1 DEF AccountsInv, Grows, OneUserPerEmail,
                                          VerifiedIsProven, VerifiedHaveUsers
  <2> QED BY <1>4, <2>1, <2>3, <2>4 DEF CommitMagicLink
<1>7. ASSUME NEW c \in AccountCalls, CreateFromIdentity(c) PROVE UsersFine
  <2>1. PICK e \in Emails, s \in Subjects : e = accountCall[c].email /\ s = accountCall[c].subject
    BY <1>7 DEF CreateFromIdentity, AccountsInv, CallsKnow, CallKnows
  <2>2. s \in Vouched => e \in proven
    BY <1>7, <2>1 DEF CreateFromIdentity, AccountsInv, CallsKnow, CallKnows
  <2>3. proven' = proven
    BY <1>7 DEF CreateFromIdentity
  <2>4. CASE s \in Vouched
    <3>1. InsertUser(e, s, TRUE)
      BY <1>7, <2>1, <2>4 DEF CreateFromIdentity, InsertUser, BornVerified
    <3> QED BY <2>2, <2>3, <2>4, <3>1, InsertUserResult DEF AccountsInv, Grows, VerifiedIsProven
  <2>5. CASE s \notin Vouched
    <3>1. InsertUser(e, s, FALSE)
      BY <1>7, <2>1, <2>5 DEF CreateFromIdentity, InsertUser, BornVerified
    <3> QED BY <2>3, <3>1, InsertUserResult DEF AccountsInv, Grows, VerifiedIsProven
  <2> QED BY <2>4, <2>5
<1>10. ASSUME NEW e \in Emails, VerifyEmail(e) PROVE UsersFine
  BY <1>10 DEF VerifyEmail, HasUser, AccountsInv, Grows, OneUserPerEmail, VerifiedIsProven,
               VerifiedHaveUsers
<1>11. ASSUME NEW c \in AccountCalls,
              StartRegister(c) \/ FindCandidate(c) \/ LinkIdentity(c) \/ EndAccountCall(c)
       PROVE  UsersFine
  BY <1>11, <1>s DEF StartRegister, FindCandidate, LinkIdentity, EndAccountCall
<1>12. ASSUME NEW c \in AccountCalls, StartMagicLink(c) \/ OAuthCallback(c) PROVE UsersFine
  BY <1>12, <1>p DEF StartMagicLink, OAuthCallback
<1>13. ASSUME NEW x, RequestMagicLink(x) \/ StartOAuth(x) PROVE UsersFine
  BY <1>13, <1>s DEF RequestMagicLink, StartOAuth
<1>14. CASE UNCHANGED accountVars
  BY <1>14, <1>s DEF accountVars, userVars
<1> QED BY <1>2, <1>4, <1>7, <1>10, <1>11, <1>12, <1>13, <1>14 DEF AccountsNext

\* Every step keeps what the requests under way know.
LEMMA CallsKnowStep == AccountsInv /\ [AccountsNext]_accountVars => CallsKnow'
<1> SUFFICES ASSUME AccountsInv, [AccountsNext]_accountVars PROVE CallsKnow'
  OBVIOUS
<1>t. AccountsType' /\ Grows
  BY AccountsTypeStep, UsersStep DEF UsersFine
<1>s. ASSUME UNCHANGED accountCall PROVE CallsKnow'
  <2> SUFFICES ASSUME NEW d \in AccountCalls PROVE CallKnows(accountCall[d])'
    BY DEF CallsKnow
  <2>1. PICK r \in CallType : r = accountCall[d] /\ r = accountCall'[d]
    BY <1>s DEF AccountsInv, AccountsType
  <2>2. CallKnows(r)'
    BY <2>1, <1>t, KnowledgeLasts DEF AccountsInv, CallsKnow
  <2> QED BY <2>1, <2>2 DEF CallKnows, Linkable
<1>b. ASSUME NEW c \in AccountCalls, NEW st, NEW e, NEW s, BeginAccount(c, st, e, s),
             CallKnows([step |-> st, email |-> e, subject |-> s])'
      PROVE  CallsKnow'
  <2>1. PICK r : r = [step |-> st, email |-> e, subject |-> s]
    OBVIOUS
  <2> QED BY <1>b, <1>t, <2>1, OneCallKnows DEF BeginAccount
<1>e. ASSUME NEW c \in AccountCalls, EndAccount(c) PROVE CallsKnow'
  BY <1>e, <1>t, EndKnows
<1>1. ASSUME NEW c \in AccountCalls, StartRegister(c) PROVE CallsKnow'
  <2>1. PICK e \in Emails : BeginAccount(c, "register", e, "none")
    BY <1>1 DEF StartRegister
  <2>2. CallKnows([step |-> "register", email |-> e, subject |-> "none"])'
    BY DEF CallKnows
  <2> QED BY <2>1, <2>2, <1>b
<1>3. ASSUME NEW c \in AccountCalls, StartMagicLink(c) PROVE CallsKnow'
  <2>1. PICK e \in mailed :
          /\ BeginAccount(c, IF HasUser(e) THEN "verify" ELSE "magic", e, "none")
          /\ proven' = proven \union {e}
    BY <1>3 DEF StartMagicLink
  <2>2. e \in Emails /\ e \in proven' /\ inserted' = inserted
    BY <1>3, <2>1 DEF StartMagicLink, AccountsInv, AccountsType
  <2>3. CASE HasUser(e)
    <3>1. CallKnows([step |-> "verify", email |-> e, subject |-> "none"])'
      BY <2>2, <2>3 DEF CallKnows, HasUser
    <3> QED BY <2>1, <2>3, <3>1, <1>b
  <2>4. CASE ~HasUser(e)
    <3>1. CallKnows([step |-> "magic", email |-> e, subject |-> "none"])'
      BY <2>2 DEF CallKnows
    <3> QED BY <2>1, <2>4, <3>1, <1>b
  <2> QED BY <2>3, <2>4
<1>5. ASSUME NEW c \in AccountCalls, OAuthCallback(c) PROVE CallsKnow'
  <2>1. PICK s \in Subjects : s = handshake
    BY <1>5 DEF OAuthCallback, AccountsInv, AccountsType
  <2>2. PICK e \in AddressesOf[s] :
          /\ BeginAccount(c, "candidate", e, s)
          /\ proven' = IF s \in Vouched THEN proven \union {e} ELSE proven
    BY <1>5, <2>1 DEF OAuthCallback
  <2>3. e \in Emails
    BY <2>1, <2>2, AccountsAssumption
  <2>4. CallKnows([step |-> "candidate", email |-> e, subject |-> s])'
    BY <2>2, <2>3 DEF CallKnows
  <2> QED BY <2>2, <2>4, <1>b
<1>6. ASSUME NEW c \in AccountCalls, FindCandidate(c) PROVE CallsKnow'
  <2>1. PICK r \in CallType : r = accountCall[c]
    BY DEF AccountsInv, AccountsType
  <2>2. CallKnows(r) /\ r.step = "candidate" /\ r.email \in Emails
    BY <1>6, <2>1 DEF FindCandidate, AccountsInv, CallsKnow, CallKnows
  <2>3. PICK q : q = [r EXCEPT !.step = IF MayLink(r.subject, r.email) THEN "link" ELSE "create"]
    OBVIOUS
  <2>4. accountCall' = [accountCall EXCEPT ![c] = q]
    BY <1>6, <2>1, <2>3 DEF FindCandidate
  <2>5. /\ q.email = r.email /\ q.subject = r.subject
        /\ q.step \in {"link", "create"}
        /\ q.step = "link" => MayLink(r.subject, r.email)
    BY <2>3 DEF CallType
  <2>6. UNCHANGED <<inserted, verified, creator, proven>>
    BY <1>6 DEF FindCandidate, userVars
  <2>7. CallKnows(q)'
    BY <2>2, <2>5, <2>6 DEF CallKnows, Linkable, MayLink, AccountsInv, VerifiedHaveUsers
  <2> QED BY <2>4, <2>7, <1>t, OneCallKnows
<1>7. ASSUME NEW c \in AccountCalls, CreateFromIdentity(c) PROVE CallsKnow'
  <2>1. PICK r \in CallType : r = accountCall[c]
    BY DEF AccountsInv, AccountsType
  <2>2. CallKnows(r) /\ r.step = "create" /\ r.email \in Emails /\ r.subject \in Subjects
    BY <1>7, <2>1 DEF CreateFromIdentity, AccountsInv, CallsKnow, CallKnows
  <2>3. PICK q : q = [r EXCEPT !.step = "link"]
    OBVIOUS
  <2>4. accountCall' = [accountCall EXCEPT ![c] = q]
    BY <1>7, <2>1, <2>3 DEF CreateFromIdentity
  <2>5. q.email = r.email /\ q.subject = r.subject /\ q.step = "link"
    BY <2>3 DEF CallType
  <2>6. inserted'[r.email] > 0 /\ creator'[r.email] = r.subject
    BY <1>7, <2>1, <2>2 DEF CreateFromIdentity, InsertUser, AccountsInv, AccountsType
  <2>7. proven' = proven
    BY <1>7 DEF CreateFromIdentity
  <2>8. CallKnows(q)'
    BY <2>2, <2>5, <2>6, <2>7 DEF CallKnows, Linkable
  <2> QED BY <2>4, <2>8, <1>t, OneCallKnows
<1>8. ASSUME NEW c \in AccountCalls,
             CommitRegister(c) \/ CommitMagicLink(c) \/ LinkIdentity(c) \/ EndAccountCall(c)
      PROVE  CallsKnow'
  BY <1>8, <1>e DEF CommitRegister, CommitMagicLink, LinkIdentity, EndAccountCall
<1>9. ASSUME NEW x, VerifyEmail(x) \/ RequestMagicLink(x) \/ StartOAuth(x) PROVE CallsKnow'
  BY <1>9, <1>s DEF VerifyEmail, RequestMagicLink, StartOAuth
<1>10. CASE UNCHANGED accountVars
  BY <1>10, <1>s DEF accountVars
<1> QED BY <1>1, <1>3, <1>5, <1>6, <1>7, <1>8, <1>9, <1>10 DEF AccountsNext

\* An account row, once there, is not written again, and a new one joins what a
\* request knew to belong together.
LEMMA AccountStep ==
  AccountsInv /\ [AccountsNext]_accountVars
    => \A s \in Subjects : \/ account'[s] = account[s]
                            \/ /\ account[s] = "none"
                               /\ account'[s] \in Emails
                               /\ Linkable(s, account'[s])
<1> SUFFICES ASSUME AccountsInv, [AccountsNext]_accountVars, NEW s \in Subjects,
                    account'[s] # account[s]
             PROVE  account[s] = "none" /\ account'[s] \in Emails /\ Linkable(s, account'[s])
  OBVIOUS
<1>1. PICK c \in AccountCalls : LinkIdentity(c)
  BY DEF AccountsNext, accountVars, StartRegister, CommitRegister, StartMagicLink, CommitMagicLink,
         OAuthCallback, FindCandidate, CreateFromIdentity, EndAccountCall, VerifyEmail,
         RequestMagicLink, StartOAuth
<1>2. CallKnows(accountCall[c]) /\ accountCall[c].step = "link"
  BY <1>1 DEF LinkIdentity, AccountsInv, CallsKnow
<1>3. accountCall[c].subject = s /\ account'[s] = accountCall[c].email /\ account[s] = "none"
  BY <1>1, <1>2 DEF LinkIdentity, SubjectFree, CallKnows, AccountsInv, AccountsType
<1> QED BY <1>2, <1>3 DEF CallKnows

\* Every step keeps the links safe.
LEMMA LinkedStep == AccountsInv /\ [AccountsNext]_accountVars => LinkedSafely'
<1> SUFFICES ASSUME AccountsInv, [AccountsNext]_accountVars, NEW s \in Subjects,
                    account'[s] # "none"
             PROVE  (HasUser(account[s]) /\ (creator[account[s]] = s \/ (s \in Vouched /\ account[s] \in verified)))'
  BY DEF LinkedSafely
<1>1. Grows
  BY UsersStep DEF UsersFine
<1>2. account'[s] \in Emails /\ Linkable(s, account'[s])
  BY AccountStep DEF AccountsInv, LinkedSafely, Linkable, HasUser, AccountsType
<1> QED BY <1>1, <1>2 DEF Grows, Linkable, HasUser

\* The invariant is inductive.
LEMMA AccountsNextInv == AccountsInv /\ [AccountsNext]_accountVars => AccountsInv'
  BY AccountsTypeStep, UsersStep, CallsKnowStep, LinkedStep DEF AccountsInv, UsersFine

\* It holds throughout every behaviour.
LEMMA AccountsInvariant == AccountsSpec => []AccountsInv
  BY AccountsInitInv, AccountsNextInv, PTL DEF AccountsSpec

\* register, consumeMagicLink and linkOrCreate never leave two users with one
\* email, whatever interleaves.
THEOREM UsersUnique == AccountsSpec => []OneUserPerEmail
  BY AccountsInvariant, PTL DEF AccountsInv

\* linkOrCreate attaches an identity only to an account it made, or one whose
\* email both sides had verified.
THEOREM LinksSafe == AccountsSpec => []LinkedSafely
  BY AccountsInvariant, PTL DEF AccountsInv

\* No code path sets emailVerifiedAt without a proof of the address.
THEOREM VerifiedProven == AccountsSpec => []VerifiedIsProven
  BY AccountsInvariant, PTL DEF AccountsInv

\* The account of a subject never changes.
THEOREM IdentityForGood == AccountsSpec => IdentityStays
<1>1. AccountsInv /\ [AccountsNext]_accountVars
        => [\A s \in Subjects : account[s] # "none" => account'[s] = account[s]]_accountVars
  BY AccountStep
<1> QED BY <1>1, AccountsInvariant, PTL DEF AccountsSpec, IdentityStays

\* Accounts are unique, verified only when proven and linked only when both
\* sides are verified, for any emails, subjects and number of requests.
THEOREM IdentitiesAlwaysSafe == AccountsSpec => []IdentitiesSafe
  BY UsersUnique, VerifiedProven, LinksSafe, PTL DEF IdentitiesSafe
-----------------------------------------------------------------------------
(* Sessions *)

AuthCallType ==
  [step : {"idle", "challenge", "issue", "revoke", "activate"},
   password : Nat, secret : Nat]

SessionsType ==
  /\ password \in Nat /\ secret \in Nat
  /\ session \in [SessionIds -> [state : {"free", "live", "over"}, password : Nat]]
  /\ authCall \in [AuthCalls -> AuthCallType]

\* Without an overlap, an activation under way has a secret to activate.
ActivateInv ==
  ~mfaRaced => \A c \in AuthCalls : authCall[c].step = "activate" => secret # 0

SessionsInv ==
  /\ SessionsType
  /\ ResetEndsSessions
  /\ ActivateInv /\ FactorUsable

\* A user with a password, no second factor and no sessions.
LEMMA SessionsInitInv == SessionsInit => SessionsInv
  BY DEF SessionsInit, SessionsInv, SessionsType, AuthCallType, AuthIdle,
         ActivateInv, ResetEndsSessions, FactorUsable

\* Every step keeps the types.
LEMMA SessionsTypeStep == SessionsInv /\ [SessionsNext]_sessionVars => SessionsType'
<1> SUFFICES ASSUME SessionsType, [SessionsNext]_sessionVars PROVE SessionsType'
  BY DEF SessionsInv
<1> USE DEF SessionsType, AuthCallType, mfaVars
<1>i. AuthIdle \in AuthCallType
  BY DEF AuthIdle
<1>e. ASSUME NEW c \in AuthCalls, EndAuth(c) PROVE authCall' \in [AuthCalls -> AuthCallType]
  BY <1>e, <1>i DEF EndAuth
<1>1. ASSUME NEW c \in AuthCalls, StartLogin(c) PROVE SessionsType'
  BY <1>1 DEF StartLogin, AuthIdle
<1>2. ASSUME NEW c \in AuthCalls, AnswerTotp(c) PROVE SessionsType'
  BY <1>2 DEF AnswerTotp
<1>3. ASSUME NEW c \in AuthCalls, IssueSession(c) PROVE SessionsType'
  BY <1>3, <1>e DEF IssueSession
<1>4. ASSUME NEW c \in AuthCalls, StartReset(c) PROVE SessionsType'
  <2>1. \A n \in Nat : [AuthIdle EXCEPT !.step = "revoke", !.password = n] \in AuthCallType
    BY DEF AuthIdle
  <2>2. password + 1 \in Nat
    OBVIOUS
  <2> QED BY <1>4, <2>1, <2>2 DEF StartReset
<1>5. ASSUME NEW c \in AuthCalls, CompleteReset(c) PROVE SessionsType'
  BY <1>5, <1>e DEF CompleteReset, RevokeAll
<1>6. ASSUME NEW c \in AuthCalls, StartActivate(c) PROVE SessionsType'
  BY <1>6 DEF StartActivate, AuthIdle
<1>7. ASSUME NEW c \in AuthCalls, CompleteActivate(c) PROVE SessionsType'
  BY <1>7, <1>e DEF CompleteActivate
<1>8. ASSUME NEW c \in AuthCalls, EndAuthCall(c) PROVE SessionsType'
  BY <1>8, <1>e DEF EndAuthCall
<1>9. ASSUME NEW i \in SessionIds, EndSession(i) PROVE SessionsType'
  BY <1>9 DEF EndSession
<1>10. ASSUME NEW i \in SessionIds, RevokeOthers(i) PROVE SessionsType'
  BY <1>10 DEF RevokeOthers, RevokeAll
<1>11. CASE Enroll
  BY <1>11 DEF Enroll
<1>12. CASE Disable
  BY <1>12 DEF Disable
<1>13. CASE UNCHANGED sessionVars
  BY <1>13 DEF sessionVars
<1> QED
  BY <1>1, <1>2, <1>3, <1>4, <1>5, <1>6, <1>7, <1>8, <1>9, <1>10, <1>11, <1>12,
     <1>13 DEF SessionsNext

\* A completed reset leaves no session live; others open sessions with the
\* password they read, and are noted when it is an older one.
LEMMA ResetStep == SessionsInv /\ [SessionsNext]_sessionVars => ResetEndsSessions'
<1> SUFFICES ASSUME SessionsType, ResetEndsSessions, [SessionsNext]_sessionVars
             PROVE  ResetEndsSessions'
  BY DEF SessionsInv
<1> USE SessionsAssumption DEF ResetEndsSessions, SessionsType
<1>s. ASSUME UNCHANGED <<session, resets, overtaken>> PROVE ResetEndsSessions'
  BY <1>s
<1>1. ASSUME NEW c \in AuthCalls, IssueSession(c) PROVE ResetEndsSessions'
  BY <1>1 DEF IssueSession
<1>2. ASSUME NEW c \in AuthCalls, CompleteReset(c) PROVE ResetEndsSessions'
  BY <1>2 DEF CompleteReset, RevokeAll
<1>3. ASSUME NEW i \in SessionIds, EndSession(i) PROVE ResetEndsSessions'
  BY <1>3 DEF EndSession
<1>4. ASSUME NEW i \in SessionIds, RevokeOthers(i) PROVE ResetEndsSessions'
  BY <1>4 DEF RevokeOthers, RevokeAll
<1>5. ASSUME NEW c \in AuthCalls,
             \/ StartLogin(c) \/ AnswerTotp(c) \/ StartReset(c)
             \/ StartActivate(c) \/ CompleteActivate(c) \/ EndAuthCall(c)
      PROVE  ResetEndsSessions'
  BY <1>5, <1>s DEF StartLogin, AnswerTotp, StartReset,
                    StartActivate, CompleteActivate, EndAuthCall
<1>6. CASE Enroll \/ Disable \/ UNCHANGED sessionVars
  BY <1>6, <1>s DEF Enroll, Disable, sessionVars
<1> QED BY <1>1, <1>2, <1>3, <1>4, <1>5, <1>6 DEF SessionsNext

\* The flag is set only over a secret, unless an overlap is noted.
LEMMA FactorStep == SessionsInv /\ [SessionsNext]_sessionVars => (ActivateInv /\ FactorUsable)'
<1> SUFFICES ASSUME SessionsType, ActivateInv, FactorUsable, [SessionsNext]_sessionVars
             PROVE  (ActivateInv /\ FactorUsable)'
  BY DEF SessionsInv
<1> USE DEF ActivateInv, FactorUsable, SessionsType, AuthCallType
<1>s. ASSUME UNCHANGED <<secret, enabled, mfaRaced>>,
             \A c \in AuthCalls : authCall'[c].step = "activate" => authCall[c].step = "activate"
      PROVE  (ActivateInv /\ FactorUsable)'
  BY <1>s
<1>1. ASSUME NEW c \in AuthCalls, StartActivate(c) PROVE (ActivateInv /\ FactorUsable)'
  BY <1>1 DEF StartActivate, AuthIdle, mfaVars
<1>2. ASSUME NEW c \in AuthCalls, CompleteActivate(c) PROVE (ActivateInv /\ FactorUsable)'
  BY <1>2 DEF CompleteActivate, EndAuth, AuthIdle
<1>3. CASE Enroll
  BY <1>3 DEF Enroll
<1>4. CASE Disable
  BY <1>4 DEF Disable
<1>5. ASSUME NEW c \in AuthCalls,
             StartLogin(c) \/ AnswerTotp(c) \/ StartReset(c)
      PROVE  (ActivateInv /\ FactorUsable)'
  BY <1>5, <1>s DEF StartLogin, AnswerTotp, StartReset, AuthIdle, mfaVars
<1>6. ASSUME NEW c \in AuthCalls, IssueSession(c) \/ CompleteReset(c) \/ EndAuthCall(c)
      PROVE  (ActivateInv /\ FactorUsable)'
  BY <1>6, <1>s DEF IssueSession, CompleteReset, EndAuthCall, EndAuth, AuthIdle, mfaVars
<1>7. ASSUME NEW i \in SessionIds, EndSession(i) \/ RevokeOthers(i)
      PROVE  (ActivateInv /\ FactorUsable)'
  BY <1>7, <1>s DEF EndSession, RevokeOthers, mfaVars
<1>8. CASE UNCHANGED sessionVars
  BY <1>8, <1>s DEF sessionVars
<1> QED BY <1>1, <1>2, <1>3, <1>4, <1>5, <1>6, <1>7, <1>8 DEF SessionsNext

\* The invariant holds throughout every behaviour.
LEMMA SessionsInvariant == SessionsSpec => []SessionsInv
<1>1. SessionsInv /\ [SessionsNext]_sessionVars => SessionsInv'
  BY SessionsTypeStep, ResetStep, FactorStep DEF SessionsInv
<1> QED BY <1>1, SessionsInitInv, PTL DEF SessionsSpec

\* resetPassword ends every session opened with an older password, but for those
\* a sign-in under way opens afterwards.
THEOREM ResetsEndSessions == SessionsSpec => []ResetEndsSessions
  BY SessionsInvariant, PTL DEF SessionsInv

\* Unless removed while it is activated, an enabled second factor has a secret.
THEOREM FactorsUsable == SessionsSpec => []FactorUsable
  BY SessionsInvariant, PTL DEF SessionsInv
=============================================================================
