------------------------------ MODULE Accounts ------------------------------
(***************************************************************************)
(* The accounts and sessions of a generated application: AuthService and   *)
(* its repositories over the tables users, refresh_tokens and              *)
(* oauth_identities.                                                       *)
(*                                                                         *)
(* Every request is a goroutine that runs one method of the service.  A    *)
(* step is one call of a repository, that is one statement of the          *)
(* database, with the local code after it; no method opens a transaction.  *)
(* A request creates at most one user and at most one refresh token, so    *)
(* both are named by the request.                                          *)
(***************************************************************************)
EXTENDS FiniteSets

CONSTANTS
  Callers,   \* the requests that may arrive, one call of the service each
  Emails,    \* the normalised addresses they may name
  Subjects,  \* the identities of OAuth providers: a provider and its subject
  Nobody     \* the absence of a user, an address, an identity or a token

ASSUME AccountsAssumption ==
  Nobody \notin Callers \cup Emails \cup Subjects

VARIABLES
  account,   \* users: the email of the user a request created
  secret,    \* the users with a password hash
  identity,  \* oauth_identities: the user an identity belongs to
  token,     \* refresh_tokens: the user of the stored token a request issued
  expired,   \* the tokens whose expires_at has passed
  op,        \* the method the request calls
  email,     \* its email argument
  subject,   \* the identity LoginOAuth is given
  presented, \* the token Refresh and Logout are given
  call,      \* the repository call the request makes next
  user,      \* its local copy of the user
  result,    \* what the method returned
  dead       \* history: the token was revoked or expired when the request began

dbVars  == <<account, secret, identity, token, expired>>
argVars == <<op, email, subject, presented, dead>>

accountsVars == <<dbVars, argVars, call, user, result>>

AccountsInit ==
  /\ account = [r \in Callers |-> Nobody]
  /\ secret = {}
  /\ identity = [s \in Subjects |-> Nobody]
  /\ token = [r \in Callers |-> Nobody]
  /\ expired = {}
  /\ op = [r \in Callers |-> "none"]
  /\ email = [r \in Callers |-> Nobody]
  /\ subject = [r \in Callers |-> Nobody]
  /\ presented = [r \in Callers |-> Nobody]
  /\ call = [r \in Callers |-> "idle"]
  /\ user = [r \in Callers |-> Nobody]
  /\ result = [r \in Callers |-> "none"]
  /\ dead = {}

Goes(r, place) == call' = [call EXCEPT ![r] = place] /\ UNCHANGED result
Returns(r, res) == call' = [call EXCEPT ![r] = "done"] /\ result' = [result EXCEPT ![r] = res]
Knows(r, u) == user' = [user EXCEPT ![r] = u]

-----------------------------------------------------------------------------
(* A request arrives.  A client presents the tokens it was given.           *)

Issuing == {"register", "login", "refresh"}

\* Somebody's Logout of t, or Refresh that got past the deletion, has returned.
Revoked(t) ==
  \E x \in Callers : /\ presented[x] = t
                      /\ \/ op[x] = "logout" /\ result[x] = "ok"
                         \/ op[x] = "refresh" /\ result[x] \in {"ok", "denied"}

Arrives(r, o, place) ==
  /\ call[r] = "idle"
  /\ call' = [call EXCEPT ![r] = place]
  /\ op' = [op EXCEPT ![r] = o]
  /\ UNCHANGED <<dbVars, user, result>>

ByEmail(r, e) ==
  /\ \E o \in {"register", "login"} : Arrives(r, o, "findEmail")
  /\ email' = [email EXCEPT ![r] = e]
  /\ UNCHANGED <<subject, presented, dead>>

ByToken(r, t) ==
  /\ op[t] \in Issuing /\ result[t] = "ok"
  /\ \/ Arrives(r, "refresh", "findToken") \/ Arrives(r, "logout", "deleteToken")
  /\ presented' = [presented EXCEPT ![r] = t]
  /\ dead' = IF Revoked(t) \/ t \in expired THEN dead \cup {r} ELSE dead
  /\ UNCHANGED <<email, subject>>

\* The provider vouches for the address, which need not be that of last time.
ByIdentity(r, s, e) ==
  /\ Arrives(r, "oauth", "findIdentity")
  /\ subject' = [subject EXCEPT ![r] = s]
  /\ email' = [email EXCEPT ![r] = e]
  /\ UNCHANGED <<presented, dead>>

-----------------------------------------------------------------------------
(* The users table.                                                         *)

Owner(e) == {u \in Callers : account[u] = e}

\* FindByEmail, as Register, Login and LoginOAuth go on.  Whether a password is
\* the right one is up to the client.
FindByEmail(r) ==
  /\ call[r] = "findEmail"
  /\ IF Owner(email[r]) = {}
     THEN /\ UNCHANGED user
          /\ IF op[r] = "login" THEN Returns(r, "denied") ELSE Goes(r, "create")
     ELSE \E u \in Owner(email[r]) :
            \/ op[r] = "register" /\ Returns(r, "taken") /\ UNCHANGED user
            \/ op[r] = "login" /\ u \in secret /\ Knows(r, u) /\ Goes(r, "issue")
            \/ op[r] = "login" /\ Returns(r, "denied") /\ UNCHANGED user
            \/ op[r] = "oauth" /\ Knows(r, u) /\ Goes(r, "link")
  /\ UNCHANGED <<dbVars, argVars>>

\* Mutant: the insert does not fail on an address in use.
DuplicateNever(e) == FALSE

\* isDuplicate: the error of the unique constraint users_email_unique.
Duplicate(e) == Owner(e) # {}

CreateUser(r) ==
  /\ call[r] = "create"
  /\ IF Duplicate(email[r])
     THEN /\ IF op[r] = "register" THEN Returns(r, "taken") ELSE Goes(r, "refindEmail")
          /\ UNCHANGED <<account, secret, user>>
     ELSE /\ account' = [account EXCEPT ![r] = email[r]]
          /\ secret' = IF op[r] = "register" THEN secret \cup {r} ELSE secret
          /\ Knows(r, r)
          /\ Goes(r, IF op[r] = "register" THEN "issue" ELSE "link")
  /\ UNCHANGED <<identity, token, expired, argVars>>

\* LoginOAuth lost the race to create the user and takes the winner's.
RefindByEmail(r) ==
  /\ call[r] = "refindEmail"
  /\ IF Owner(email[r]) = {}
     THEN Returns(r, "lost") /\ UNCHANGED user
     ELSE \E u \in Owner(email[r]) : Knows(r, u) /\ Goes(r, "link")
  /\ UNCHANGED <<dbVars, argVars>>

-----------------------------------------------------------------------------
(* The oauth_identities table.                                              *)

\* FindByProviderSubject, and FindByID of its user: users are never deleted.
FindIdentity(r) ==
  /\ call[r] = "findIdentity"
  /\ IF identity[subject[r]] # Nobody
     THEN Knows(r, identity[subject[r]]) /\ Returns(r, "ok")
     ELSE UNCHANGED user /\ Goes(r, "findEmail")
  /\ UNCHANGED <<dbVars, argVars>>

LinkOwner(r) == user[r]

\* Mutant: a link that exists already is taken for a success.
LinkIgnoresConflict(r) ==
  /\ call[r] = "link"
  /\ identity' = IF identity[subject[r]] = Nobody
                 THEN [identity EXCEPT ![subject[r]] = user[r]] ELSE identity
  /\ Returns(r, "ok")
  /\ UNCHANGED <<account, secret, token, expired, argVars, user>>

\* identities.Create, and its unique constraint on (provider, subject).
LinkIdentity(r) ==
  /\ call[r] = "link"
  /\ IF identity[subject[r]] = Nobody
     THEN /\ identity' = [identity EXCEPT ![subject[r]] = LinkOwner(r)]
          /\ Returns(r, "ok")
     ELSE Goes(r, "refindIdentity") /\ UNCHANGED identity
  /\ UNCHANGED <<account, secret, token, expired, argVars, user>>

RefindIdentity(r) ==
  /\ call[r] = "refindIdentity"
  /\ IF identity[subject[r]] # Nobody
     THEN Knows(r, identity[subject[r]]) /\ Returns(r, "ok")
     ELSE UNCHANGED user /\ Returns(r, "lost")
  /\ UNCHANGED <<dbVars, argVars>>

-----------------------------------------------------------------------------
(* The refresh_tokens table.                                                *)

FindToken(r) ==
  /\ call[r] = "findToken"
  /\ LET stored == token[presented[r]] IN
       IF stored = Nobody
       THEN Returns(r, "denied") /\ UNCHANGED user
       ELSE Knows(r, stored) /\ Goes(r, "deleteToken")
  /\ UNCHANGED <<dbVars, argVars>>

\* Mutant: Refresh leaves the token it was given in the table.
DeleteKeepsRefreshed(t, o) == IF o = "refresh" THEN token ELSE [token EXCEPT ![t] = Nobody]

\* The rows affected are not looked at: the token may be gone already.
Delete(t, o) == [token EXCEPT ![t] = Nobody]

DeleteToken(r) ==
  /\ call[r] = "deleteToken"
  /\ token' = Delete(presented[r], op[r])
  /\ IF op[r] = "logout" THEN Returns(r, "ok")
     ELSE IF presented[r] \in expired THEN Returns(r, "denied")
     ELSE Goes(r, "issue")
  /\ UNCHANGED <<account, secret, identity, expired, argVars, user>>

\* issuePair.
Issue(r) ==
  /\ call[r] = "issue"
  /\ token' = [token EXCEPT ![r] = user[r]]
  /\ Returns(r, "ok")
  /\ UNCHANGED <<account, secret, identity, expired, argVars, user>>

\* Time passes.
Expires(t) ==
  /\ token[t] # Nobody /\ t \notin expired
  /\ expired' = expired \cup {t}
  /\ UNCHANGED <<account, secret, identity, token, argVars, call, user, result>>

\* A statement fails, or the client goes away and its context is cancelled; what
\* earlier statements of the method did stays.
CallFails(r) ==
  /\ call[r] \notin {"idle", "done"}
  /\ Returns(r, "error")
  /\ UNCHANGED <<dbVars, argVars, user>>

-----------------------------------------------------------------------------
Call(r) ==
  \/ FindByEmail(r) \/ CreateUser(r) \/ RefindByEmail(r)
  \/ FindIdentity(r) \/ LinkIdentity(r) \/ RefindIdentity(r)
  \/ FindToken(r) \/ DeleteToken(r) \/ Issue(r)

AccountsNext == \E r \in Callers :
  \/ \E e \in Emails : ByEmail(r, e)
  \/ \E t \in Callers : ByToken(r, t)
  \/ \E s \in Subjects, e \in Emails : ByIdentity(r, s, e)
  \/ Call(r) \/ Expires(r) \/ CallFails(r)

AccountsSpec == AccountsInit /\ [][AccountsNext]_accountsVars

-----------------------------------------------------------------------------
(* The types of the tables and of the requests.                             *)
AccountsTypeOK ==
  /\ account \in [Callers -> Emails \cup {Nobody}]
  /\ secret \subseteq Callers
  /\ identity \in [Subjects -> Callers \cup {Nobody}]
  /\ token \in [Callers -> Callers \cup {Nobody}]
  /\ expired \subseteq Callers /\ dead \subseteq Callers
  /\ op \in [Callers -> Issuing \cup {"none", "logout", "oauth"}]
  /\ email \in [Callers -> Emails \cup {Nobody}]
  /\ subject \in [Callers -> Subjects \cup {Nobody}]
  /\ presented \in [Callers -> Callers \cup {Nobody}]
  /\ call \in [Callers -> {"idle", "findEmail", "create", "refindEmail", "findIdentity", "link",
                          "refindIdentity", "findToken", "deleteToken", "issue", "done"}]
  /\ user \in [Callers -> Callers \cup {Nobody}]
  /\ result \in [Callers -> {"none", "ok", "taken", "denied", "lost", "error"}]

(* An address has one owner: whoever registers it or logs in with it, in    *)
(* whatever order the lookups and inserts interleave, gets the same account,*)
(* and only one registration succeeds.                                      *)
EmailHasOneOwner ==
  \A r, x \in Callers :
    (/\ op[r] \in {"register", "login"} /\ result[r] = "ok"
     /\ op[x] \in {"register", "login"} /\ result[x] = "ok"
     /\ email[r] = email[x]) => user[r] = user[x]

(* An identity of a provider always signs in the same user, even when its   *)
(* first two logins race with different addresses.                          *)
SameIdentitySameUser ==
  \A r, x \in Callers :
    (/\ op[r] = "oauth" /\ result[r] = "ok"
     /\ op[x] = "oauth" /\ result[x] = "ok"
     /\ subject[r] = subject[x]) => user[r] = user[x]

(* "A used token" is refused: a refresh that begins after a logout of its   *)
(* token, after the end of another refresh of it, or after its expiry, is   *)
(* never answered with a new pair.                                          *)
RevokedIsDead ==
  \A r \in Callers : (op[r] = "refresh" /\ r \in dead) => result[r] # "ok"

(* A conflict with a unique constraint is always resolved: the row that won *)
(* is there when LoginOAuth looks again.                                    *)
NeverLost == \A r \in Callers : result[r] # "lost"

=============================================================================
