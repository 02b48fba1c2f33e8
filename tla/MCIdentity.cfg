SPECIFICATION IdentitySpec
CONSTANTS
  Callers = {r1, r2, r3, r4}
  Emails = {e1, e2}
  Subjects = {s1, s2}
  Nobody = nobody
  Requests = {r1, r2, r3, r4}
  Providers = {"google", "github"}
  MaxPending = 1
  FlowTTL = 0
  MaxTime = 1
  None = none
SYMMETRY Symmetry
INVARIANTS
  EmailHasOneOwner
  SameIdentitySameUser
  RevokedIsDead
  VerifierStaysWithProvider
  SequentialSession
CHECK_DEADLOCK FALSE
