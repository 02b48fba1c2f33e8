--------------------------- MODULE AccountsProofs ---------------------------
(***************************************************************************)
(* Theorems about Accounts, for any requests, addresses and identities.    *)
(***************************************************************************)
EXTENDS Accounts, TLAPS

(* Where a request is says what it holds, and what it saw in the tables is  *)
(* still there: users and identities are never deleted.                     *)
LocalInv == \A r \in Callers :
  /\ result[r] # "none" => call[r] = "done"
  /\ call[r] = "findEmail" => op[r] \in {"register", "login", "oauth"}
  /\ call[r] = "create" => op[r] \in {"register", "oauth"}
  /\ call[r] \in {"findEmail", "create"} => email[r] \in Emails /\ account[r] = Nobody
  /\ call[r] = "idle" => account[r] = Nobody /\ op[r] = "none" /\ r \notin dead
  /\ call[r] \in {"findIdentity", "link", "refindEmail", "refindIdentity"} => op[r] = "oauth"
  /\ call[r] = "findIdentity" => account[r] = Nobody
  /\ op[r] = "oauth" => subject[r] \in Subjects /\ email[r] \in Emails
  /\ call[r] = "link" => user[r] \in Callers
  /\ call[r] = "refindEmail" => \E u \in Callers : account[u] = email[r]
  /\ call[r] = "refindIdentity" => identity[subject[r]] # Nobody
  /\ call[r] = "issue" => op[r] \in Issuing /\ user[r] \in Callers
  /\ call[r] = "findToken" => op[r] = "refresh"
  /\ call[r] = "deleteToken" => op[r] \in {"refresh", "logout"}
  /\ (call[r] = "deleteToken" /\ op[r] = "refresh") => user[r] \in Callers

(* Addresses are unique, and a successful call holds the account of its     *)
(* address or of its identity.                                              *)
OwnerInv ==
  /\ \A u, v \in Callers : account[u] # Nobody /\ account[u] = account[v] => u = v
  /\ \A r \in Callers :
       (op[r] \in {"register", "login"} /\ (call[r] = "issue" \/ result[r] = "ok")) =>
         user[r] \in Callers /\ email[r] \in Emails /\ account[user[r]] = email[r]
  /\ \A r \in Callers :
       (op[r] = "oauth" /\ result[r] = "ok") =>
         user[r] \in Callers /\ identity[subject[r]] = user[r]
  /\ NeverLost

(* The token a request presents was issued, so it is not issued again; once *)
(* deleted it stays so, and a dead one is deleted or expired.               *)
TokenInv == \A r \in Callers :
  /\ op[r] \in {"refresh", "logout"} =>
       presented[r] \in Callers /\ result[presented[r]] = "ok"
  /\ op[r] \notin {"refresh", "logout"} => presented[r] = Nobody
  /\ (op[r] = "refresh" /\ (call[r] = "issue" \/ result[r] \in {"ok", "denied"})) =>
       token[presented[r]] = Nobody
  /\ (op[r] = "logout" /\ result[r] = "ok") => token[presented[r]] = Nobody
  /\ (op[r] = "refresh" /\ r \in dead) =>
       /\ token[presented[r]] = Nobody \/ presented[r] \in expired
       /\ call[r] # "issue" /\ result[r] # "ok"
       /\ call[r] = "deleteToken" => presented[r] \in expired

(* The inductive invariant.                                                 *)
IInv == AccountsTypeOK /\ LocalInv /\ OwnerInv /\ TokenInv

(* Before the first request the tables are empty.                           *)
LEMMA InitInv == AccountsInit => IInv
  BY AccountsAssumption
     DEF AccountsInit, IInv, AccountsTypeOK, LocalInv, OwnerInv, TokenInv, NeverLost, Issuing

(* The types of the tables and of the requests.                             *)
LEMMA StepTyped == IInv /\ [AccountsNext]_accountsVars => AccountsTypeOK'
<1> SUFFICES ASSUME IInv, [AccountsNext]_accountsVars PROVE AccountsTypeOK'
  OBVIOUS
<1> USE AccountsAssumption DEF IInv
<1>1. CASE UNCHANGED accountsVars
  BY <1>1 DEF accountsVars, dbVars, argVars, AccountsTypeOK, Issuing
<1>2. ASSUME NEW r \in Callers, NEW e \in Emails, ByEmail(r, e) PROVE AccountsTypeOK'
  BY <1>2 DEF ByEmail, Arrives, dbVars, AccountsTypeOK, Issuing
<1>3. ASSUME NEW r \in Callers, NEW t \in Callers, ByToken(r, t) PROVE AccountsTypeOK'
  BY <1>3 DEF ByToken, Arrives, Revoked, Issuing, dbVars, AccountsTypeOK, Issuing
<1>4. ASSUME NEW r \in Callers, NEW s \in Subjects, NEW e \in Emails, ByIdentity(r, s, e)
      PROVE AccountsTypeOK'
  BY <1>4 DEF ByIdentity, Arrives, dbVars, AccountsTypeOK, Issuing
<1>5. ASSUME NEW r \in Callers, FindByEmail(r) PROVE AccountsTypeOK'
  BY <1>5 DEF FindByEmail, Owner, Goes, Returns, Knows, dbVars, argVars, AccountsTypeOK, Issuing
<1>6. ASSUME NEW r \in Callers, CreateUser(r) PROVE AccountsTypeOK'
  BY <1>6 DEF CreateUser, Duplicate, Owner, Goes, Returns, Knows, dbVars, argVars, AccountsTypeOK, Issuing
<1>7. ASSUME NEW r \in Callers, RefindByEmail(r) PROVE AccountsTypeOK'
  BY <1>7 DEF RefindByEmail, Owner, Goes, Returns, Knows, dbVars, argVars, AccountsTypeOK, Issuing
<1>8. ASSUME NEW r \in Callers, FindIdentity(r) PROVE AccountsTypeOK'
  <2>1. subject[r] \in Subjects
    BY <1>8 DEF FindIdentity, LocalInv
  <2>2. identity[subject[r]] \in Callers \cup {Nobody}
    BY <2>1 DEF AccountsTypeOK
  <2>3. QED
    BY <1>8, <2>2 DEF FindIdentity, Goes, Returns, Knows, dbVars, argVars, AccountsTypeOK
<1>9. ASSUME NEW r \in Callers, LinkIdentity(r) PROVE AccountsTypeOK'
  BY <1>9 DEF LinkIdentity, LinkOwner, Goes, Returns, Knows, dbVars, argVars, AccountsTypeOK, Issuing
<1>10. ASSUME NEW r \in Callers, RefindIdentity(r) PROVE AccountsTypeOK'
  <2>1. subject[r] \in Subjects
    BY <1>10 DEF RefindIdentity, LocalInv
  <2>2. identity[subject[r]] \in Callers \cup {Nobody}
    BY <2>1 DEF AccountsTypeOK
  <2>3. QED
    BY <1>10, <2>2 DEF RefindIdentity, Goes, Returns, Knows, dbVars, argVars, AccountsTypeOK
<1>11. ASSUME NEW r \in Callers, FindToken(r) PROVE AccountsTypeOK'
  <2>1. presented[r] \in Callers
    BY <1>11 DEF FindToken, LocalInv, TokenInv
  <2>2. token[presented[r]] \in Callers \cup {Nobody}
    BY <2>1 DEF AccountsTypeOK
  <2>3. QED
    BY <1>11, <2>2 DEF FindToken, Goes, Returns, Knows, dbVars, argVars, AccountsTypeOK
<1>12. ASSUME NEW r \in Callers, DeleteToken(r) PROVE AccountsTypeOK'
  BY <1>12 DEF DeleteToken, Delete, Goes, Returns, Knows, dbVars, argVars, AccountsTypeOK, Issuing
<1>13. ASSUME NEW r \in Callers, Issue(r) PROVE AccountsTypeOK'
  BY <1>13 DEF Issue, Goes, Returns, Knows, dbVars, argVars, AccountsTypeOK, Issuing
<1>14. ASSUME NEW r \in Callers, Expires(r) PROVE AccountsTypeOK'
  BY <1>14 DEF Expires, Goes, Returns, Knows, dbVars, argVars, AccountsTypeOK, Issuing
<1>15. ASSUME NEW r \in Callers, CallFails(r) PROVE AccountsTypeOK'
  BY <1>15 DEF CallFails, Goes, Returns, Knows, dbVars, argVars, AccountsTypeOK, Issuing
<1>16. QED
  BY <1>1, <1>2, <1>3, <1>4, <1>5, <1>6, <1>7, <1>8, <1>9, <1>10, <1>11, <1>12, <1>13, <1>14, <1>15
       DEF AccountsNext, Call

(* What a request holds is right wherever it goes next.                      *)
LEMMA StepLocal == IInv /\ [AccountsNext]_accountsVars => LocalInv'
<1> SUFFICES ASSUME IInv, [AccountsNext]_accountsVars PROVE LocalInv'
  OBVIOUS
<1> USE AccountsAssumption DEF IInv
<1>1. CASE UNCHANGED accountsVars
  BY <1>1 DEF accountsVars, dbVars, argVars, LocalInv, AccountsTypeOK, Issuing
<1>2. ASSUME NEW r \in Callers, NEW e \in Emails, ByEmail(r, e) PROVE LocalInv'
  BY <1>2 DEF ByEmail, Arrives, dbVars, LocalInv, AccountsTypeOK, Issuing
<1>3. ASSUME NEW r \in Callers, NEW t \in Callers, ByToken(r, t) PROVE LocalInv'
  BY <1>3 DEF ByToken, Arrives, Revoked, Issuing, dbVars, LocalInv, AccountsTypeOK, Issuing
<1>4. ASSUME NEW r \in Callers, NEW s \in Subjects, NEW e \in Emails, ByIdentity(r, s, e)
      PROVE LocalInv'
  BY <1>4 DEF ByIdentity, Arrives, dbVars, LocalInv, AccountsTypeOK, Issuing
<1>5. ASSUME NEW r \in Callers, FindByEmail(r) PROVE LocalInv'
  BY <1>5 DEF FindByEmail, Owner, Goes, Returns, Knows, dbVars, argVars, LocalInv, AccountsTypeOK, Issuing
<1>6. ASSUME NEW r \in Callers, CreateUser(r) PROVE LocalInv'
  <2>1. CASE Duplicate(email[r])
    BY <1>6, <2>1
         DEF CreateUser, Duplicate, Owner, Goes, Returns, Knows, dbVars, argVars, LocalInv, AccountsTypeOK
  <2>2. CASE ~Duplicate(email[r])
    <3>1. /\ account' = [account EXCEPT ![r] = email[r]]
          /\ user' = [user EXCEPT ![r] = r]
          /\ call' = [call EXCEPT ![r] = IF op[r] = "register" THEN "issue" ELSE "link"]
          /\ UNCHANGED <<identity, token, argVars, result>>
      BY <1>6, <2>2 DEF CreateUser, Goes, Knows
    <3>2. op[r] \in {"register", "oauth"}
      BY <1>6 DEF CreateUser, LocalInv
    <3>3. \A x \in Callers : x # r /\ call[x] = "refindEmail" =>
            \E u \in Callers : account'[u] = email[x]
      <4> SUFFICES ASSUME NEW x \in Callers, x # r, call[x] = "refindEmail"
                   PROVE  \E u \in Callers : account'[u] = email[x]
        OBVIOUS
      <4>1. PICK u \in Callers : account[u] = email[x]
        BY DEF LocalInv
      <4>2. account[r] = Nobody /\ email[x] # Nobody
        BY <1>6 DEF CreateUser, LocalInv
      <4>3. QED
        BY <3>1, <4>1, <4>2 DEF AccountsTypeOK
    <3>4. QED
      BY <1>6, <3>1, <3>2, <3>3 DEF CreateUser, argVars, LocalInv, AccountsTypeOK, Issuing
  <2>3. QED
    BY <2>1, <2>2
<1>7. ASSUME NEW r \in Callers, RefindByEmail(r) PROVE LocalInv'
  BY <1>7 DEF RefindByEmail, Owner, Goes, Returns, Knows, dbVars, argVars, LocalInv, AccountsTypeOK, Issuing
<1>8. ASSUME NEW r \in Callers, FindIdentity(r) PROVE LocalInv'
  BY <1>8 DEF FindIdentity, Goes, Returns, Knows, dbVars, argVars, LocalInv, AccountsTypeOK, Issuing
<1>9. ASSUME NEW r \in Callers, LinkIdentity(r) PROVE LocalInv'
  BY <1>9
       DEF LinkIdentity, LinkOwner, Goes, Returns, Knows, dbVars, argVars, LocalInv, AccountsTypeOK, Issuing
<1>10. ASSUME NEW r \in Callers, RefindIdentity(r) PROVE LocalInv'
  BY <1>10 DEF RefindIdentity, Goes, Returns, Knows, dbVars, argVars, LocalInv, AccountsTypeOK, Issuing
<1>11. ASSUME NEW r \in Callers, FindToken(r) PROVE LocalInv'
  <2>1. presented[r] \in Callers /\ op[r] = "refresh"
    BY <1>11 DEF FindToken, LocalInv, TokenInv
  <2>2. token[presented[r]] \in Callers \cup {Nobody}
    BY <2>1 DEF AccountsTypeOK
  <2>3. QED
    BY <1>11, <2>1, <2>2 DEF FindToken, Goes, Returns, Knows, dbVars, argVars, LocalInv, AccountsTypeOK
<1>12. ASSUME NEW r \in Callers, DeleteToken(r) PROVE LocalInv'
  BY <1>12 DEF DeleteToken, Delete, Goes, Returns, Knows, dbVars, argVars, LocalInv, AccountsTypeOK, Issuing
<1>13. ASSUME NEW r \in Callers, Issue(r) PROVE LocalInv'
  BY <1>13 DEF Issue, Goes, Returns, Knows, dbVars, argVars, LocalInv, AccountsTypeOK, Issuing
<1>14. ASSUME NEW r \in Callers, Expires(r) PROVE LocalInv'
  BY <1>14 DEF Expires, Goes, Returns, Knows, dbVars, argVars, LocalInv, AccountsTypeOK, Issuing
<1>15. ASSUME NEW r \in Callers, CallFails(r) PROVE LocalInv'
  BY <1>15 DEF CallFails, Goes, Returns, Knows, dbVars, argVars, LocalInv, AccountsTypeOK, Issuing
<1>16. QED
  BY <1>1, <1>2, <1>3, <1>4, <1>5, <1>6, <1>7, <1>8, <1>9, <1>10, <1>11, <1>12, <1>13, <1>14, <1>15
       DEF AccountsNext, Call

(* Addresses stay unique and successful calls keep their account.            *)
LEMMA StepOwner == IInv /\ [AccountsNext]_accountsVars => OwnerInv'
<1> SUFFICES ASSUME IInv, [AccountsNext]_accountsVars PROVE OwnerInv'
  OBVIOUS
<1> USE AccountsAssumption DEF IInv
<1>1. CASE UNCHANGED accountsVars
  BY <1>1 DEF accountsVars, dbVars, argVars, OwnerInv, NeverLost, LocalInv, AccountsTypeOK, Issuing
<1>2. ASSUME NEW r \in Callers, NEW e \in Emails, ByEmail(r, e) PROVE OwnerInv'
  BY <1>2 DEF ByEmail, Arrives, dbVars, OwnerInv, NeverLost, LocalInv, AccountsTypeOK, Issuing
<1>3. ASSUME NEW r \in Callers, NEW t \in Callers, ByToken(r, t) PROVE OwnerInv'
  BY <1>3
       DEF ByToken, Arrives, Revoked, Issuing, dbVars, OwnerInv, NeverLost, LocalInv, AccountsTypeOK, Issuing
<1>4. ASSUME NEW r \in Callers, NEW s \in Subjects, NEW e \in Emails, ByIdentity(r, s, e)
      PROVE OwnerInv'
  BY <1>4 DEF ByIdentity, Arrives, dbVars, OwnerInv, NeverLost, LocalInv, AccountsTypeOK, Issuing
<1>5. ASSUME NEW r \in Callers, FindByEmail(r) PROVE OwnerInv'
  BY <1>5
       DEF FindByEmail, Owner, Goes, Returns, Knows, dbVars, argVars, OwnerInv, NeverLost, LocalInv, AccountsTypeOK, Issuing
<1>6. ASSUME NEW r \in Callers, CreateUser(r) PROVE OwnerInv'
  BY <1>6
       DEF CreateUser, Duplicate, Owner, Goes, Returns, Knows, dbVars, argVars, OwnerInv, NeverLost, LocalInv, AccountsTypeOK, Issuing
<1>7. ASSUME NEW r \in Callers, RefindByEmail(r) PROVE OwnerInv'
  BY <1>7
       DEF RefindByEmail, Owner, Goes, Returns, Knows, dbVars, argVars, OwnerInv, NeverLost, LocalInv, AccountsTypeOK, Issuing
<1>8. ASSUME NEW r \in Callers, FindIdentity(r) PROVE OwnerInv'
  BY <1>8
       DEF FindIdentity, Goes, Returns, Knows, dbVars, argVars, OwnerInv, NeverLost, LocalInv, AccountsTypeOK, Issuing
<1>9. ASSUME NEW r \in Callers, LinkIdentity(r) PROVE OwnerInv'
  BY <1>9
       DEF LinkIdentity, LinkOwner, Goes, Returns, Knows, dbVars, argVars, OwnerInv, NeverLost, LocalInv, AccountsTypeOK, Issuing
<1>10. ASSUME NEW r \in Callers, RefindIdentity(r) PROVE OwnerInv'
  BY <1>10
       DEF RefindIdentity, Goes, Returns, Knows, dbVars, argVars, OwnerInv, NeverLost, LocalInv, AccountsTypeOK, Issuing
<1>11. ASSUME NEW r \in Callers, FindToken(r) PROVE OwnerInv'
  BY <1>11
       DEF FindToken, Goes, Returns, Knows, dbVars, argVars, OwnerInv, NeverLost, LocalInv, AccountsTypeOK, Issuing
<1>12. ASSUME NEW r \in Callers, DeleteToken(r) PROVE OwnerInv'
  BY <1>12
       DEF DeleteToken, Delete, Goes, Returns, Knows, dbVars, argVars, OwnerInv, NeverLost, LocalInv, AccountsTypeOK, Issuing
<1>13. ASSUME NEW r \in Callers, Issue(r) PROVE OwnerInv'
  BY <1>13
       DEF Issue, Goes, Returns, Knows, dbVars, argVars, OwnerInv, NeverLost, LocalInv, AccountsTypeOK, Issuing
<1>14. ASSUME NEW r \in Callers, Expires(r) PROVE OwnerInv'
  BY <1>14
       DEF Expires, Goes, Returns, Knows, dbVars, argVars, OwnerInv, NeverLost, LocalInv, AccountsTypeOK, Issuing
<1>15. ASSUME NEW r \in Callers, CallFails(r) PROVE OwnerInv'
  BY <1>15
       DEF CallFails, Goes, Returns, Knows, dbVars, argVars, OwnerInv, NeverLost, LocalInv, AccountsTypeOK, Issuing
<1>16. QED
  BY <1>1, <1>2, <1>3, <1>4, <1>5, <1>6, <1>7, <1>8, <1>9, <1>10, <1>11, <1>12, <1>13, <1>14, <1>15
       DEF AccountsNext, Call

(* A deleted token stays deleted.                                            *)
LEMMA StepToken == IInv /\ [AccountsNext]_accountsVars => TokenInv'
<1> SUFFICES ASSUME IInv, [AccountsNext]_accountsVars PROVE TokenInv'
  OBVIOUS
<1> USE AccountsAssumption DEF IInv
<1>1. CASE UNCHANGED accountsVars
  BY <1>1 DEF accountsVars, dbVars, argVars, TokenInv, LocalInv, AccountsTypeOK, Issuing
<1>2. ASSUME NEW r \in Callers, NEW e \in Emails, ByEmail(r, e) PROVE TokenInv'
  BY <1>2 DEF ByEmail, Arrives, dbVars, TokenInv, LocalInv, AccountsTypeOK, Issuing
<1>3. ASSUME NEW r \in Callers, NEW t \in Callers, ByToken(r, t) PROVE TokenInv'
  BY <1>3 DEF ByToken, Arrives, Revoked, Issuing, dbVars, TokenInv, LocalInv, AccountsTypeOK, Issuing
<1>4. ASSUME NEW r \in Callers, NEW s \in Subjects, NEW e \in Emails, ByIdentity(r, s, e)
      PROVE TokenInv'
  BY <1>4 DEF ByIdentity, Arrives, dbVars, TokenInv, LocalInv, AccountsTypeOK, Issuing
<1>5. ASSUME NEW r \in Callers, FindByEmail(r) PROVE TokenInv'
  BY <1>5
       DEF FindByEmail, Owner, Goes, Returns, Knows, dbVars, argVars, TokenInv, LocalInv, AccountsTypeOK, Issuing
<1>6. ASSUME NEW r \in Callers, CreateUser(r) PROVE TokenInv'
  BY <1>6
       DEF CreateUser, Duplicate, Owner, Goes, Returns, Knows, dbVars, argVars, TokenInv, LocalInv, AccountsTypeOK, Issuing
<1>7. ASSUME NEW r \in Callers, RefindByEmail(r) PROVE TokenInv'
  BY <1>7
       DEF RefindByEmail, Owner, Goes, Returns, Knows, dbVars, argVars, TokenInv, LocalInv, AccountsTypeOK, Issuing
<1>8. ASSUME NEW r \in Callers, FindIdentity(r) PROVE TokenInv'
  BY <1>8 DEF FindIdentity, Goes, Returns, Knows, dbVars, argVars, TokenInv, LocalInv, AccountsTypeOK, Issuing
<1>9. ASSUME NEW r \in Callers, LinkIdentity(r) PROVE TokenInv'
  BY <1>9
       DEF LinkIdentity, LinkOwner, Goes, Returns, Knows, dbVars, argVars, TokenInv, LocalInv, AccountsTypeOK, Issuing
<1>10. ASSUME NEW r \in Callers, RefindIdentity(r) PROVE TokenInv'
  BY <1>10
       DEF RefindIdentity, Goes, Returns, Knows, dbVars, argVars, TokenInv, LocalInv, AccountsTypeOK, Issuing
<1>11. ASSUME NEW r \in Callers, FindToken(r) PROVE TokenInv'
  BY <1>11 DEF FindToken, Goes, Returns, Knows, dbVars, argVars, TokenInv, LocalInv, AccountsTypeOK, Issuing
<1>12. ASSUME NEW r \in Callers, DeleteToken(r) PROVE TokenInv'
  BY <1>12
       DEF DeleteToken, Delete, Goes, Returns, Knows, dbVars, argVars, TokenInv, LocalInv, AccountsTypeOK, Issuing
<1>13. ASSUME NEW r \in Callers, Issue(r) PROVE TokenInv'
  BY <1>13 DEF Issue, Goes, Returns, Knows, dbVars, argVars, TokenInv, LocalInv, AccountsTypeOK, Issuing
<1>14. ASSUME NEW r \in Callers, Expires(r) PROVE TokenInv'
  BY <1>14 DEF Expires, Goes, Returns, Knows, dbVars, argVars, TokenInv, LocalInv, AccountsTypeOK, Issuing
<1>15. ASSUME NEW r \in Callers, CallFails(r) PROVE TokenInv'
  BY <1>15 DEF CallFails, Goes, Returns, Knows, dbVars, argVars, TokenInv, LocalInv, AccountsTypeOK, Issuing
<1>16. QED
  BY <1>1, <1>2, <1>3, <1>4, <1>5, <1>6, <1>7, <1>8, <1>9, <1>10, <1>11, <1>12, <1>13, <1>14, <1>15
       DEF AccountsNext, Call

(* The invariant is inductive.                                               *)
THEOREM Invariance == AccountsSpec => []IInv
<1>1. IInv /\ [AccountsNext]_accountsVars => IInv'
  BY StepTyped, StepLocal, StepOwner, StepToken DEF IInv
<1>2. QED
  BY InitInv, <1>1, PTL DEF AccountsSpec

(* The tables and the requests keep their types, for any number of          *)
(* concurrent requests.                                                      *)
THEOREM TypeCorrect == AccountsSpec => []AccountsTypeOK
<1>1. IInv => AccountsTypeOK
  BY DEF IInv
<1>2. QED
  BY Invariance, <1>1, PTL

(* However registrations and logins of an address interleave, one account   *)
(* answers for it.                                                           *)
THEOREM OneAccountPerEmail == AccountsSpec => []EmailHasOneOwner
<1>1. IInv => EmailHasOneOwner
  BY AccountsAssumption DEF IInv, OwnerInv, EmailHasOneOwner
<1>2. QED
  BY Invariance, <1>1, PTL

(* However the first logins of an identity race, they all sign in one user. *)
THEOREM OneUserPerIdentity == AccountsSpec => []SameIdentitySameUser
<1>1. IInv => SameIdentitySameUser
  BY DEF IInv, OwnerInv, SameIdentitySameUser
<1>2. QED
  BY Invariance, <1>1, PTL

(* A refresh that begins after its token was revoked or expired is refused. *)
THEOREM RevocationIsFinal == AccountsSpec => []RevokedIsDead
<1>1. IInv => RevokedIsDead
  BY DEF IInv, TokenInv, RevokedIsDead
<1>2. QED
  BY Invariance, <1>1, PTL

(* A lost race for a unique row is always resolved.                         *)
THEOREM ConflictsAreResolved == AccountsSpec => []NeverLost
<1>1. IInv => NeverLost
  BY DEF IInv, OwnerInv
<1>2. QED
  BY Invariance, <1>1, PTL
=============================================================================
