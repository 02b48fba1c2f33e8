----------------------------- MODULE MCIdentity -----------------------------
(* Model-checking instance of the two halves of who somebody is: Accounts,  *)
(* what a server records of its users, and SignIn, what one browser does    *)
(* with its session.  They share no state (LoginOAuth, the end of a flow,   *)
(* is a request of Accounts), so a behaviour is one of either and the       *)
(* other's state stays as it began.                                         *)
EXTENDS Accounts, SignIn, TLC

VARIABLE half

IdentityInit == AccountsInit /\ Init /\ half \in {"accounts", "browser"}

IdentityNext ==
  \/ half = "accounts" /\ AccountsNext /\ UNCHANGED <<half, vars>>
  \/ half = "browser"  /\ Next         /\ UNCHANGED <<half, accountsVars>>

IdentitySpec == IdentityInit /\ [][IdentityNext]_<<half, vars, accountsVars>>

\* The requests of either are made of one kind of value and named by nothing
\* else; to permute addresses and identities too costs more than it saves.
Symmetry == Permutations(Callers \cup Requests)
=============================================================================
