----------------------------- MODULE Background -----------------------------
(***************************************************************************)
(* An Application as runtime.New assembles it, over the life that          *)
(* AppLifecycle describes: New opens the resources and registers their     *)
(* shutdown hooks and the queue's worker, and under Run live the worker of *)
(* runtime/queue and the scheduler of runtime/schedule, whose jobs use     *)
(* what the hooks close.                                                   *)
(*                                                                         *)
(* Every step is a step of AppLifecycle with something added, or one that  *)
(* AppLifecycle does not see.  The Redis broker, asynq's server and the    *)
(* cron loop are external: what they do is taken from how src uses them.   *)
(***************************************************************************)
EXTENDS AppLifecycle

CONSTANTS
  CronJobs,     \* the jobs given to the scheduler
  Exclusive,    \* those scheduled with SkipIfRunning
  QueueJobs,    \* the jobs that may be dispatched
  MaxRuns,      \* bound: how often a cron job starts
  Concurrency,  \* Options.Concurrency of the queue
  Configured    \* the configurations an application is assembled from

Resources == {"database", "redis", "store", "jobs", "ping"}

Options == [database : BOOLEAN, cache : {"memory", "redis"}, queue : {"sync", "redis"}]

ASSUME BackgroundAssumption ==
  /\ Resources \subseteq Hooks
  /\ {"queue", "scheduler"} \subseteq Runners
  /\ Exclusive \subseteq CronJobs
  /\ Configured \subseteq Options
  /\ MaxRuns \in Nat /\ Concurrency \in Nat \ {0}

VARIABLES
  options,   \* which drivers the configuration selects
  boot,      \* where New is
  open,      \* the resources that are open
  checks,    \* the readiness checks on connections
  sched,     \* where Scheduler.Run is
  runCtx,    \* Scheduler.runCtx: whose context the jobs are given
  live,      \* the runs of cron jobs that have not returned
  runs,      \* how often each cron job was started
  worker,    \* where asynqDriver.run is
  entry,     \* where the broker has each dispatched job
  handling,  \* the jobs whose handler has not returned
  gaveUp     \* Run of the scheduler or of the worker left work behind

newVars   == <<options, boot, open, checks>>
schedVars == <<sched, runCtx, live, runs>>
queueVars == <<worker, entry, handling>>
allVars   == <<vars, newVars, schedVars, queueVars, gaveUp>>

BackgroundInit ==
  /\ Init
  /\ options \in Configured
  /\ boot = "resolve"
  /\ open = {}
  /\ checks = {}
  /\ sched = "idle"
  /\ runCtx = "background"
  /\ live = {}
  /\ runs = [j \in CronJobs |-> 0]
  /\ worker = "idle"
  /\ entry = [q \in QueueJobs |-> "none"]
  /\ handling = {}
  /\ gaveUp = FALSE

-----------------------------------------------------------------------------
(* New.  It runs before anybody else has the application.  A failure before *)
(* the first hook returns at once; later ones go through the hooks.         *)

\* New returns an error without closing anything.
NewFails ==
  /\ boot' = "failed"
  /\ UNCHANGED <<open, checks>>

\* New goes on to place with the resources opened.
NewGoesOn(place, opened) ==
  /\ boot' = place
  /\ open' = open \cup opened
  /\ UNCHANGED checks

Booting(place) ==
  /\ boot = place
  /\ UNCHANGED <<options, schedVars, queueVars, gaveUp>>

\* resolveRedisOptions and what is validated before it.
Resolve ==
  /\ Booting("resolve")
  /\ NewFails \/ NewGoesOn("queue", {})
  /\ UNCHANGED vars

\* queue.New; the redis driver opens its client.
OpenQueue ==
  /\ Booting("queue")
  /\ NewFails \/ NewGoesOn("database", {"jobs"})
  /\ UNCHANGED vars

OpenDatabase ==
  /\ Booting("database")
  /\ \/ ~options.database /\ NewGoesOn("cache", {})
     \/ options.database /\ NewGoesOn("hook", {"database"})
     \/ options.database /\ NewFails
  /\ UNCHANGED vars

HookDatabase ==
  /\ Booting("hook")
  /\ boot' = "cache"
  /\ checks' = checks \cup {"database"}
  /\ OnShutdown("database")
  /\ UNCHANGED open

\* Mutant: the store's hook is registered before that of its client.
CacheHooksReversed == <<"store", "redis">>

CacheHooks == <<"redis", "store">>

\* installCache: the memory store, or first the shared Redis client.
InstallCache ==
  /\ Booting("cache")
  /\ IF options.cache = "memory"
     THEN NewGoesOn("install", {"store"}) /\ OnShutdown("store")
     ELSE /\ boot' = "store"
          /\ open' = open \cup {"redis"}
          /\ checks' = checks \cup {"redis"}
          /\ OnShutdown(CacheHooks[1])

\* installCache: the Redis store over the client.
InstallStore ==
  /\ Booting("store")
  /\ NewGoesOn("install", {"store"})
  /\ OnShutdown(CacheHooks[2])

\* installQueue up to the driver: the sync driver needs no more.
InstallQueue ==
  /\ Booting("install")
  /\ NewGoesOn(IF options.queue = "redis" THEN "worker" ELSE "ready", {})
  /\ OnShutdown("jobs")

InstallWorker ==
  /\ Booting("worker")
  /\ NewGoesOn(IF "redis" \in checks THEN "ready" ELSE "ping", {})
  /\ Go("queue")

\* installQueue: a client for the readiness check.  redis.ParseURL may refuse
\* a URL that asynq.ParseRedisURI took.
InstallPing ==
  /\ Booting("ping")
  /\ \/ /\ boot' = "ready"
        /\ open' = open \cup {"ping"}
        /\ checks' = checks \cup {"redis"}
        /\ OnShutdown("ping")
     \/ /\ boot' = "undo"
        /\ UNCHANGED <<open, checks, vars>>

\* The error path of New runs the hooks, as Close would.
Undo ==
  /\ Booting("undo")
  /\ boot' = "undoing"
  /\ CloseCalled
  /\ UNCHANGED <<open, checks>>

\* ... and closes the queue, whether or not a hook did.
UndoCloses ==
  /\ Booting("undoing")
  /\ close = "returned"
  /\ boot' = "failed"
  /\ open' = open \ {"jobs"}
  /\ UNCHANGED <<checks, vars>>

NewStep ==
  Resolve \/ OpenQueue \/ OpenDatabase \/ HookDatabase \/ InstallCache
  \/ InstallStore \/ InstallQueue \/ InstallWorker \/ InstallPing \/ Undo \/ UndoCloses

-----------------------------------------------------------------------------
(* The life of the application, as AppLifecycle has it, once New returned.  *)
(* A hook closes its resource.                                              *)

Registers ==
  /\ Go("scheduler") \/ \E h \in Hooks \ Resources : OnShutdown(h)
  /\ UNCHANGED open

\* The server, the requests and whoever calls Run, cancels it or calls Close.
Serves ==
  /\ \/ RunStart \/ CancelParent \/ ServerEnds \/ RunStep \/ CloseCalled
     \/ \E q \in Requests : RequestArrives(q) \/ Hijack(q) \/ RequestEnds(q)
     \/ \E r \in Runners \ {"queue", "scheduler"} : Go(r) \/ RunnerEnds(r)
  /\ UNCHANGED open

ShutdownExpires ==
  /\ Expire
  /\ UNCHANGED <<newVars, schedVars, queueVars, gaveUp>>

Releases(k) ==
  /\ ReleaseStep(k)
  /\ open' = IF executing' # None THEN open \ {executing'} ELSE open
  /\ UNCHANGED <<options, boot, checks, schedVars, queueVars, gaveUp>>

Lives ==
  /\ boot = "ready"
  /\ Registers \/ Serves
  /\ UNCHANGED <<options, boot, checks, schedVars, queueVars, gaveUp>>

-----------------------------------------------------------------------------
(* The scheduler's Run: the context is stored before the cron loop starts.  *)

Scheduling(place) ==
  /\ task["scheduler"] = "running"
  /\ sched = place
  /\ UNCHANGED <<newVars, live, runs, queueVars>>

SchedulerStores ==
  /\ Scheduling("idle")
  /\ runCtx' = "run"
  /\ sched' = "stored"
  /\ UNCHANGED <<vars, gaveUp>>

SchedulerStarts ==
  /\ Scheduling("stored")
  /\ sched' = "on"
  /\ UNCHANGED <<vars, runCtx, gaveUp>>

SchedulerStops ==
  /\ Scheduling("on")
  /\ Cancelled
  /\ sched' = "stopping"
  /\ UNCHANGED <<vars, runCtx, gaveUp>>

\* Mutant: Run does not wait for the context that Stop returned.
JobsAreDoneAlways == TRUE

JobsAreDone == live = {}

\* The jobs are done, or StopTimeout has passed; Run returns nil either way.
SchedulerReturns ==
  /\ Scheduling("stopping")
  /\ sched' = "returned"
  /\ \/ JobsAreDone /\ UNCHANGED gaveUp
     \/ live # {} /\ gaveUp' = TRUE
  /\ RunnerReturns("scheduler")
  /\ UNCHANGED runCtx

\* A job is due.  SkipIfRunning drops the tick while a run of it is live.
Tick(j) ==
  /\ sched = "on"
  /\ runs[j] < MaxRuns
  /\ j \in Exclusive => \A i \in live : i.job # j
  /\ runs' = [runs EXCEPT ![j] = @ + 1]
  /\ live' = live \cup {[job |-> j, run |-> runs'[j], ctx |-> runCtx]}
  /\ UNCHANGED <<vars, newVars, sched, runCtx, queueVars, gaveUp>>

\* The job returns, fails or panics: runJob logs it, and nobody else learns.
CronJobEnds(i) ==
  /\ live' = live \ {i}
  /\ UNCHANGED <<vars, newVars, sched, runCtx, runs, queueVars, gaveUp>>

SchedulerStep ==
  SchedulerStores \/ SchedulerStarts \/ SchedulerStops \/ SchedulerReturns

-----------------------------------------------------------------------------
(* The queue.  The redis driver hands a job to the broker, and a worker that *)
(* was started takes it from there; the sync driver runs it where it is      *)
(* dispatched.                                                               *)

Queueing == UNCHANGED <<vars, newVars, schedVars, gaveUp>>

\* Somebody is there to call Dispatch.
Calling == (\E q \in Requests : request[q] \in {"active", "hijacked"}) \/ live # {}

\* Dispatch on the redis driver: the broker has the job until it ends, due or
\* not yet.  A closed client and a queue nobody configured are errors.
Enqueue(q) ==
  /\ Calling /\ options.queue = "redis" /\ "jobs" \in open
  /\ entry[q] = "none"
  /\ entry' = [entry EXCEPT ![q] = "waiting"]
  /\ UNCHANGED <<worker, handling>>
  /\ Queueing

\* Dispatch on the sync driver: the handler runs inside the call.
RunInline(q) ==
  /\ Calling /\ options.queue = "sync"
  /\ entry[q] = "none"
  /\ entry' = [entry EXCEPT ![q] = "ended"]
  /\ UNCHANGED <<worker, handling>>
  /\ Queueing

\* Start gives asynq's server the handlers and starts it, or cannot: the broker
\* is not there, and the runner fails.
WorkerStarts ==
  /\ task["queue"] = "running" /\ worker = "idle"
  /\ \/ worker' = "up" /\ UNCHANGED vars
     \/ worker' = "returned" /\ RunnerFails("queue")
  /\ UNCHANGED <<newVars, schedVars, entry, handling, gaveUp>>

Fetch(q) ==
  /\ worker = "up"
  /\ entry[q] = "waiting"
  /\ Cardinality(handling) < Concurrency
  /\ entry' = [entry EXCEPT ![q] = "active"]
  /\ handling' = handling \cup {q}
  /\ UNCHANGED worker
  /\ Queueing

\* The handler returns: the job is completed or archived, or tried again later.
\* What it returns after the worker gave up on it is not recorded.
HandlerReturns(q) ==
  /\ q \in handling
  /\ handling' = handling \ {q}
  /\ \/ entry[q] = "active" /\ \E e \in {"ended", "waiting"} : entry' = [entry EXCEPT ![q] = e]
     \/ entry[q] # "active" /\ UNCHANGED entry
  /\ UNCHANGED worker
  /\ Queueing

WorkerStops ==
  /\ worker = "up" /\ Cancelled
  /\ worker' = "draining"
  /\ UNCHANGED <<entry, handling>>
  /\ Queueing

\* server.Shutdown returns: nothing is in flight, or its timeout has passed
\* and the jobs in flight are pushed back for another worker.
WorkerReturns ==
  /\ worker = "draining"
  /\ worker' = "returned"
  /\ entry' = [q \in QueueJobs |-> IF entry[q] = "active" THEN "waiting" ELSE entry[q]]
  /\ gaveUp' = (gaveUp \/ handling # {})
  /\ RunnerReturns("queue")
  /\ UNCHANGED <<newVars, schedVars, handling>>

WorkerStep == WorkerStarts \/ WorkerStops \/ WorkerReturns

QueueStep(q) ==
  Enqueue(q) \/ RunInline(q) \/ Fetch(q) \/ HandlerReturns(q)

-----------------------------------------------------------------------------
BackgroundNext ==
  \/ NewStep \/ Lives \/ ShutdownExpires
  \/ \E k \in Owners : Releases(k)
  \/ SchedulerStep \/ \E j \in CronJobs : Tick(j)
  \/ \E i \in live : CronJobEnds(i)
  \/ WorkerStep \/ \E q \in QueueJobs : QueueStep(q)

BackgroundSpec == BackgroundInit /\ [][BackgroundNext]_allVars

-----------------------------------------------------------------------------
(* Every variable holds what its comment says.                              *)
BackgroundTypeOK ==
  /\ options \in Options
  /\ open \subseteq Resources
  /\ checks \subseteq {"database", "redis"}
  /\ live \subseteq [job : CronJobs, run : 1..MaxRuns, ctx : {"background", "run"}]
  /\ runs \in [CronJobs -> 0..MaxRuns]
  /\ entry \in [QueueJobs -> {"none", "waiting", "active", "ended"}]
  /\ handling \subseteq QueueJobs

(* "LIFO shutdown closes consumers before their connection" and "drains     *)
(* jobs first": whatever closes what and when, the Redis store never        *)
(* outlives its client, and the queue outlives neither cache nor database.  *)
ConnectionsOutliveConsumers ==
  /\ "store" \in open /\ options.cache = "redis" => "redis" \in open
  /\ boot = "ready" /\ "jobs" \in open =>
       "store" \in open /\ (options.database => "database" \in open)

(* When Run begins to close resources no scheduled job and no queued job    *)
(* that the worker took is running, unless one of the three timeouts of the *)
(* shutdown (Run's, the scheduler's, the worker's) passed.                  *)
JobsOutliveNothing ==
  (owner = "run" /\ ran # <<>> /\ ~expired /\ ~gaveUp) => live = {} /\ handling = {}

=============================================================================
