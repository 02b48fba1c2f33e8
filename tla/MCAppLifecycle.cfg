SPECIFICATION FairSpec
CONSTANTS
  Runners = {r1, r2}
  Hooks = {h1, h2}
  Requests = {q1}
  Server = server
  None = none
INVARIANTS
  ResourcesOutliveUsers
  HooksOnceInReverse
  EveryHookRan
  FailureIsReported
PROPERTIES
  RunReturns
CHECK_DEADLOCK FALSE
