SPECIFICATION BackgroundSpec
CONSTANTS
  Runners = {"queue", "scheduler"}
  Hooks = {"database", "redis", "store", "jobs", "ping", "user"}
  Requests = {q1}
  Server = server
  None = none
  CronJobs = {c1}
  Exclusive = {c1}
  QueueJobs = {j1}
  MaxRuns = 2
  Concurrency = 1
  Configured <- Both
INVARIANTS
  ConnectionsOutliveConsumers
  JobsOutliveNothing
CHECK_DEADLOCK FALSE
