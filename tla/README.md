# Formal models of gin-kit

TLA+ models of gin-kit, a framework and code generator for Gin applications: what
its goroutines, requests, commands and crashes do to the state they share, checked
with TLC on small instances and, for every safety property, proved with TLAPS for
instances of every size.

## The system

| part | source | state | operations | what is hard about it |
|---|---|---|---|---|
| realtime hub | `runtime/realtime` | registered channels and their subscribers, connected clients, one bounded queue per client, `closed` | `Public`, `Private`, `Handler`, `SSE`, `Publish`, `Run`, `Close` | three goroutines per WebSocket, publishers and `Close` share maps and queues; `subscribe` drops the lock for the `AuthFunc`; peers may stop reading |
| application lifecycle | `runtime/app.go` | connections, runners, hooks, `started`, `hooksRan`, the errgroup | `New`, `Go`, `OnShutdown`, `Run`, `Close` | construction that fails half-way, shutdown under one timeout, failures anywhere, `Close` racing with `Run` |
| job queue, scheduler | `runtime/queue`, `runtime/schedule` | handlers, running jobs, the broker's entries | dispatch, fetch, drain; tick, stop | they use what the hooks close; both wait under timeouts of their own |
| configuration | `runtime/config`, `app.go` | the environment, `.env` | `LoadDotenv`, `Load`, `Options`, then `New` and the drivers | one setting is judged in three places by different rules |
| event bus | `runtime/events` | handlers by event type | `On`, unsubscribe, `Emit` | emit over a copy while handlers come, go and fail |
| cache | `runtime/cache` | entries with expiry | get, set, forget, increment, remember | the clock is read outside the lock; `int64` |
| rate limiter | `runtime/ratelimit.go` | a bucket per client | allow, sweep | forgetting clients at 10,000 |
| local storage | `runtime/storage/local.go` | files | put, get, delete | readers, failures and the end of the process between write and rename |
| query | `runtime/query` | none; the table changes between pages | parse, filter, sort, pages by number and by cursor | rows that tie, rows that move, overflow of the offset |
| sign-in | `runtime/session`, `runtime/oauth`, `runtime/auth` | one cookie: pending flows, CSRF token, flashes, user | begin, callback, page, sign out | requests that are under way together overwrite the cookie |
| accounts | `internal/cli/templates/runtime/internal/{service,repository}` | tables `users`, `refresh_tokens`, `oauth_identities` | register, login, refresh, logout, sign in through a provider | no transactions: requests interleave between statements |
| development server | `internal/cli/dev.go`, `devproxy.go` | watcher, debouncer, child process, proxy state | edit, rebuild, replace the child, hold or forward a request | processes that crash or hang at any moment, a result channel that must be drained once, edits during a rebuild |
| project creation and upgrade | `internal/cli/new.go`, `upgrade.go` | vendored platform files, checksums in `.gin-kit.sum` | new, upgrade (plan, apply) | failures between renames and the baseline, a developer who edits meanwhile, several releases |
| code generators | `internal/cli/generate.go`, `fields.go`, `extra.go` | the project's files | plan, preflight, stage, publish, roll back | several commands and an editor at once, a failure between two renames, lists that must agree |
| not modelled | see the last section | | | |

They meet in the application. `runtime.New` opens the connections and registers the
queue's worker as a runner and everything that closes as a hook; `Run` starts the
runners, the scheduler among them, and runs the hooks when they have ended. Handlers use the
cache, the disk, queries and the bus, and a handler of the bus publishes to the hub
(`Forward`). `LoginOAuth`, the end of a sign-in, is the accounts' method.
The development server runs the whole application as its child process; the commands
`new`, `upgrade` and `generate` write what it is built from.

What must hold of each part:

* hub: nothing is lost silently, order per publisher, private channels stay
  private, acknowledgements tell the truth, evicted and closed clients go away,
  `Publish` and `Close` return.
* lifecycle: accepted runners run, hooks run once, in reverse, after the users of
  what they release, every failure is reported, `Run` returns; a connection outlives
  what is built on it, however far construction came.
* jobs: none runs when connections begin to close, unless a timeout passed.
* configuration: what `Load` accepts is not refused later.
* bus, cache, limiter, disk, query: everyone subscribed is called, once and in order; the
  store's contract; the rate; readers see whole files; a walk through the pages shows
  every row once and only rows asked for.
* sign-in: a verifier goes only to the provider of its flow; callbacks are not
  replayed, flashes are shown once, a sign-out lasts.
* accounts: an address and an identity have one owner however requests race, a
  revoked token is refused.
* development server: one process at a time, no edit and no held request is forgotten,
  ready means the last build.
* commands: a local edit survives, a stale copy is recognised releases later, success
  means complete, failure leaves nothing, what is generated fits together.

## Modules

| module | contents |
|---|---|
| `RealtimeHub` | the hub: one action per critical section, channel operation or blocking call |
| `AppLifecycle` | the life of an application: registration, `Run`, shutdown, `Close` |
| `Background` | what `New` opens, the scheduler and the queue, over `AppLifecycle` |
| `Startup` | `LoadDotenv`, `Load`, `New` and the drivers, and what each refuses |
| `SignIn` | sessions, CSRF, flashes and OAuth flows of one browser |
| `Accounts` | accounts and tokens of a generated application |
| `CacheStore` | what `cache.Store` promises |
| `MemoryCache` | the in-memory driver and `Remember`; implements `CacheStore`, but for two cases of `Increment` |
| `RateLimiter`, `LocalDisk`, `EventBus`, `Query` | the services of those names |
| `DevServer` | `gin-kit dev` |
| `Upgrade` | `gin-kit new` and `gin-kit upgrade` for the vendored platform files |
| `Fields` | what the generators make of `--fields`: operators, no state |
| `Generator` | `gin-kit generate`, over `Fields` |
| `MCRealtimeHub`, `MCAppLifecycle`, `MCBackground`, `MCDevServer`, `MCMemoryCache` | instances for TLC |
| `MCServices` | an instance that is the sum of `Startup`, `MemoryCache`, `RateLimiter`, `LocalDisk`, `EventBus` and `Query`: they share no state, so a behaviour is one of any of them |
| `MCIdentity` | likewise of `Accounts` and `SignIn`: what the server records, and what the browser holds |
| `MCUpgrade` | likewise of `Upgrade` and `Generator`, which write disjoint files |
| `RealtimeHubProofs`, `DevServerProofs`, `AccountsProofs`, `SignInProofs`, `QueryProofs` | the theorems about the modules of those names |
| `BackgroundProofs` | those about `AppLifecycle` and `Background` |
| `ServicesProofs` | those about `RateLimiter`, `LocalDisk`, `MemoryCache`, `EventBus` and `Startup` |
| `UpgradeProofs` | those about `Upgrade`, `Generator` and `Fields` |

Operators named as mutants (`\* Mutant: ...`) are never used by a
specification: each is a plausible mistake in the definition that follows it,
kept to show that the property it breaks can be broken.

### RealtimeHub

A step is what Go does atomically with respect to the others: a critical section
of `Hub.mu` (`Register`, `Connect`, `Lookup`, `Commit`, `Unsubscribe`,
`RemoveEnter`, the copy in `Publish` and in `CloseBegin`), one channel operation
(`ReplyCheck` and `ReplyEnqueue` are the two selects of `client.enqueue`;
`WriterSelect` and `StreamSelect` the selects of the two writers) or a blocking
call (`Authorize`, `Read`, `WriterWrites`, `StreamWrites`, a ping). `handler`,
`writer`, `pinger`, `publisher` and `closers` are program counters;
`channels`, `subscribers`, `clients`, `once`, `send` and `closing` are the fields
of the structs; `snapshot`, `targets`, `item`, `sweep` and `sweepItem` are local
variables of `Publish` and `Close`; `granted` and `log` are histories the code
does not have. `sync.Once` is modelled by what it promises: `RemoveEnter` is
taken by the first caller, and every other caller waits for `RemoveFinish`.
A payload is the publisher and the number of its call; an error message is one
value. The peer is external: it may send any request, close, or never read again.
A channel has a name and a request a spelling of it: `TrimSpace` says which name a spelling is, `subscribe` and
`unsubscribe` go by the name (`Requested`), the private check and the maps with them, and the acknowledgement repeats
the spelling. `AcknowledgedView` trims what the client was told.

### AppLifecycle

`Go`, `OnShutdown` and `TakeHooks` are the critical sections of `runnersMu` and
`hooksMu`; `RunStart` sets `started` and copies the runners in one. `task` holds
the goroutines of the errgroup, `groupErr` its first error. `server.Shutdown`
returns when no request is active or when the shared context expired;
`waitForGroup` may take either branch when both are ready. `Close` may be called
at any time; whoever sets `hooksRan` runs the hooks. A hook's effect is that it
begins and returns, perhaps with an error. `net/http` and the caller's context
are external. A request may take its connection over (`Hijack`), as every WebSocket of the hub does: its handler
goes on, and `server.Shutdown` does not wait for it.

### Background

`Background` extends `AppLifecycle`: every action is one of its actions with something added,
or changes none of its variables, so that its invariant carries over. `boot` is where `runtime.New` is, from the
Redis options through database, cache and queue to the client that only the readiness
check uses; each of its steps opens resources, registers a hook (`OnShutdown`) or the worker
(`Go`), or fails: before the first hook by returning, in `installQueue` by running the hooks
as `Close` would (`Undo`) and closing the queue once more. `open` is what is
open, and `Releases` takes a resource out of it when its hook begins.
`SchedulerStores` and `SchedulerStarts` are the two halves of `Scheduler.Run`, `Tick` a firing of
cron with the context stored in `runCtx`, `SchedulerReturns` the end
of the wait for `Stop`'s context or its timeout. `entry` is where the broker has a job,
`handling` the handlers that have not returned: after its timeout asynq pushes a job
back while its handler goes on. `gaveUp` is a history: one of these two timeouts
passed. The broker, asynq and cron are external.

### Startup

A behaviour is one start: the lines of `.env` one by one (a line that cannot be read ends it; a
variable that is set, even to nothing, is kept), `Load` with `validate`, `Options` with the
defaults of `New`, what `New` checks, opens and mounts, and what sessions, accounts and the drivers refuse
afterwards. Texts are opaque: what `Atoi`, `ParseDuration`, `url.Parse`, `redis.ParseURL`
`asynq.ParseRedisURI` and `minio.New` make of them is given by constants. `Refusing` is what the constructors of mail, WhatsApp and
storage refuse, the port of SMTP and the endpoint of S3 included, and `RootFails` the file system's refusal of the local root. `Mounted` is the routes that `New`
registers itself; gin panics on a second registration.

### SignIn

The session is the value of a cookie, so `Send` copies `jar` to the request and `Receive`
replaces it by the request's copy if something was saved: two requests under way together do not see each other.
A flow is named by the request that began it, which stands for state, nonce and
verifier. `Begin` refuses when `MaxPending` flows are stored, expired ones included; `Complete` deletes the
flow before it looks at provider and expiry, and `Exchange` is the call of the provider, which takes a code
once. An answer may be lost or late; the user may agree at the provider or not.

### MemoryCache and CacheStore

`CacheStore` is the contract: a value is there until replaced, forgotten or (unless
stored for ever) expired; a `Get` answers with a value its key had at some moment of the call, or
with a miss; counting starts from zero when the key is missing, and a value that is no integer, or a sum that is none of 64 bits, is
an error, which changes nothing. `MemoryCache` counts there in two cases (`CountsInstead`): from zero when the value is empty,
and past the limits of `int64`. `ImplementsStore` says that it keeps the contract otherwise. It has the steps between which the
code does not hold the lock: `Set` reads the clock (`SetStamps`), then stores; `Get` reads
the entry, then looks at the expiry. The mapping shows an entry only while it has not
expired. `Remember` is a `Get`, perhaps a computation and a `Set`.

### RateLimiter, LocalDisk, EventBus

`RateLimiter`: a request reads the clock (`Arrives`) and then waits for the lock, under which all its work is one step
(`Locked`); the bucket reads the clock again, while `lastSeen` and the sweep use the old reading. `slowest` is a history: the longest wait. Tokens
are counted in fractions so that a tick brings a whole number. `LocalDisk`: a `Put` is a temporary file, one write after the
other, `Close` and rename, any of which may fail; the process may die and leaves its
files; a reader keeps the file it opened. `EventBus`: handlers are numbered as `On` numbers them,
`Emit` walks the copy it took, a handler may fail, and anybody, handlers included, may subscribe and unsubscribe
meanwhile. `constant` is a history: who was subscribed all through an `Emit`.

### Query

A client walks through the pages of an endpoint, by cursor or by number, while somebody else inserts,
updates or deletes a row. `Handle` is `Parse` with its refusals, `Count` and the selects are statements of their own.
SQL is modelled by what it selects: the order of rows that tie in every sort is the database's choice,
another one for each statement (`Heads`). `Wanted` says what the parameters ask for without use of
`Parse`'s operators, so that it can be compared with them. The histories `steady` and `whole` say which rows, and whether
the table, nobody touched since the walk began.

### DevServer

`main` is where `runDev` is: in its select (`loop`), inside `rebuild` (`build`,
`stop`, `start`, `ready`), or in its deferred calls. Edits, the timer, processes
and requests interleave with it. The sources are a count of edits, a binary the
count it was built from (the compiler may see edits made while it runs), a
process the number of its start. `done` holds the processes whose `childDone`
channel has a result nobody took: it is what `stopChild`, `waitTCPReady` and the
loop compete for. The proxy's `changed` channel is the set `waiting` of requests
whose copy of it is open. Edits in a directory that exists but is not watched
raise no event. fsnotify, the compiler and the application are external.

### Accounts

A request is a goroutine in one method of `AuthService`; a step is one call of a
repository, which is one statement of the database (no method opens a
transaction), with the local code after it. `call` is the call that comes next,
`user` the method's local variable, `result` what it returned. A user and a
refresh token are named by the request that created them (their ids are random);
`token[t] = u` is the row with the hash of `t`. The unique constraints of the
migrations make the second insert fail, and `Duplicate` is how the code
recognises that. Time is one bit per token, `expired`. A statement may fail, or
the client may go away, before any call (`CallFails`); what was done stays done.
Passwords are compared by the client's luck: both outcomes are allowed when the
user has one. The history `dead` says that the token was revoked or expired when
the request began. Two refreshes of one token that overlap are both answered with
a pair: the rows affected by the delete are not looked at. The model contains
this, and `RevokedIsDead` speaks of refreshes that begin later.

### Upgrade

`text` and `tidy` are the vendored files on disk: what they say, and whether they are
laid out as gofmt would; `sum` is `.gin-kit.sum`, in which a checksum is the
text it was computed from (`normalizeGo` before hashing: the layout does not
count). `Rendered` says what each release renders. `gin-kit new` fills a staging
directory and renames it (`ScaffoldPublish`). `gin-kit upgrade --apply` is `Plan`
(reads and classifies), `Stage`, one `Publish` per rename in path order,
`Refresh` (the baseline is read again and files that match are summed), and
`WriteSum`. Between any two of these the developer may edit or reformat a file
and the command may be interrupted; `WriteSumTorn` is `os.WriteFile` that
truncated and did not finish, after which the file may be unreadable until the
developer deletes it, as the diagnostic says. The histories `touched`,
`changed` and `unrecorded` hold what the developer and failures did: without
them "a local edit" cannot be told from what the command sees. The command
without `--apply` changes nothing; projects that depend on the runtime as a
module are refused.

An upgrade that was interrupted after a rename and not repeated leaves a file
whose entry is the old one. The release it came from calls it up to date, the
next one "modified": `StaleIsRecognised` excepts such files (`unrecorded`) and
says the classification is right for all others.

### Fields and Generator

`Fields` translates `ParseFields` (types, `?`, reserved and repeated names, sensitive and
fake values by name) and `GenData`: the lists of columns, placeholders, arguments,
filters and sorts that the templates print, each built on its own as in the code, the members of the struct with the columns of their tags, and the schema
of the migration. `Pascal` is `pascalCase`: columns are the declared names, arguments and members what it makes of them. `Generator` is a
command: `Generate` plans its files, `Checks` looks for each, `Stages` writes and formats them aside, `Publishes`
renames one, and a failure removes those published so far (`Removes`). Two commands and the
developer interleave between any two of these. `generate client` overwrites its one file.
A file's content is who wrote it. `since` and `crossed` are histories: the paths that were there since before the
command was started, and whether the developer, or another command that still owns the path, got in its way. A
third command shows why the second half is needed: of two that write one path, the later rename wins and the
rollback of the first removes the other's file, so that a third one finds the path free and reports success for a
file which the second's rollback then takes away. The runs have two commands; it was the inductive invariant that
asked for the third.

## Runs

| run | instance | states | shows |
|---|---|---|---|
| `hub` | one WebSocket, one private channel, two publishes, two requests, queue of one, `Close`, a name and a padded spelling of it; or two SSE clients of up to two channels, one publish, `Close` | 3.2 M | `PublisherOrder`, `AuthorizedStream`, `AcknowledgedView`, `DeliveredOrEvicted`, `ClosedHubIsEmpty` |
| `liveness` | one WebSocket, one publish, one request, `Run` and another `Close` | 85 k | `CloseReturns`, `RemovedIsTornDown`, `AcceptedIsWritten` |
| `leak` | one WebSocket, one public channel, one publish, two requests, queue of one, `Close` | stops at the violation | `EvictedIsUnsubscribed` fails |
| `lifecycle` | two runners, two hooks, one request, which may be hijacked | 218 k | `ResourcesOutliveUsers`, `HooksOnceInReverse`, `EveryHookRan`, `FailureIsReported`, `RunReturns` |
| `background` | two configurations (cache on Redis with inline jobs, worker on Redis with the memory cache), a cron job of two runs, a queued job, a request | 3.8 M | `ConnectionsOutliveConsumers`, `JobsOutliveNothing` |
| `devserver` | one request, two edits, three processes | 217 k | `OnlyTheChildLives`, `ReadyIsTheLastBuild`, `NoticedIsBuilt`, `HeldIsAnswered` |
| `identity` | four requests, two addresses, two identities; or four requests of a browser, two providers, one pending flow, one tick | 1.7 M | `EmailHasOneOwner`, `SameIdentitySameUser`, `RevokedIsDead`; `VerifierStaysWithProvider`, `SequentialSession` |
| `services` | see below | 1.2 M | `RateIsKept`, `WholeFiles`, `EmitReachesEveryone`, `CursorWalkIsComplete`, `PagesCoverTheTable`, `WhatLoadAcceptsStarts`, `ImplementsStore`, `OnlyWantedIsShown` |
| `upgrade` | two files, three releases, two changes; two `generate` commands, one edit | 1.7 M | `StaleIsRecognised`, `ApplyIsComplete`, `EditsSurvive`, `ScaffoldIsComplete`; `NoPartialResource`, `GeneratedFits`, `OldFilesStay` |
| `factories` | as `upgrade` | stops at the violation | `FactoriesCompile` fails |
| `members` | as `upgrade` | stops at the violation | `MembersDiffer` fails |
| `contract` | the cache by itself: two callers who store an empty value, forget and count | stops at the violation | `KeepsTheContract` fails |

Why the bounds are enough.

* Hub: a queue of one message fills, so eviction, refusal and
  back-pressure all happen; two publishes give an order to violate; two requests
  allow subscribe then unsubscribe (and, for SSE, an acknowledgement that does not
  fit); the removals compete already with one client, and two make the loops of
  `Publish` and `Close` stop between clients.
* Lifecycle: two hooks have an order, two runners a first and a later error. `background` has the two configurations
  that differ in every branch of `installCache` and `installQueue`, an exclusive job whose second run can be due during the first,
  and one job that can be dispatched, fetched, retried and pushed back.
* Development server: two edits allow an edit during a rebuild and three
  generations of the process; one request can be held through all of them.
* Accounts: four requests are one that issues a token, two that race for it and
  one that comes after, or two racing registrations and two logins; two identities
  share an address and two addresses an identity.
* Sign-in: four requests are two flows and their callbacks, or one flow, two
  callbacks for it and a page; with one pending flow the limit is met at once, and a flow that lives no tick
  expires with the first.
* `services`. Cache: two callers, one key, times to live of one tick in three, the integers -1 and 0, so
  that an increment either way may wrap, and the empty value. Limiter: two senders where one is many, two requests at the lock, a burst of one
  request, five ticks where a wait of one is harmless and a longer one is not. Disk: two names, two users, three puts of two
  writes. Bus: three handlers, two emitters of two emits. Query: three rows of two columns
  over two values (ties are the rule), endpoints of each kind, with a fixed order or one the client chooses, filters of each kind,
  good and bad parameters, an int of four bits so that the offset overflows, one change of the table per
  walk. Start: each deviation from a good development or production environment that some check speaks of,
  with ten `.env` files and eight applications: about 15,000 combinations.
* Commands: two files stop the renames and
  the baseline's lines between files, one of them is dropped by the third release,
  and three releases let a mistake of the first be seen two upgrades later. A resource is ten files and more; its
  command meets one of every other kind, in both project types.

In `hub`, `identity` and `services` the clients, requests, users and
goroutines that are permuted are interchangeable and are named by nothing else, so symmetry is sound; the runs with liveness
use none. The models may stop (a closed hub, a returned `Run`, a command that ended), so
deadlock is not checked: the liveness properties say what must not stop early.

### Fairness

`RealtimeHub`: goroutines are scheduled, and `sync.RWMutex` and `sync.Once`
starve nobody, so every step of a handler, writer, publisher or `Close` that
stays enabled is taken. Reads, finished writes, failing pings and the choice to
publish or to close are the environment's and get none; the properties
that need a reading peer say so (`Responsive`). `AppLifecycle`: `Run`, its timer
and the hooks move on; runners, requests and even `ListenAndServe` are promised
nothing. `DevServer`: the loop, the compiler, the timer and the handlers
move on and a killed process exits; a process need not boot, stop or listen. The other modules state safety only.

### What the violated properties show

* `leak`: `subscribe` checks `h.closed` under the write lock and not whether the
  client is still connected. A client evicted while its `AuthFunc` runs, or
  between lookup and lock, is put back in its channel and stays there for ever
  (`realtime.go:379`), against `realtime_test.go:173`.
* `factories`: each generated factory with an optional field declares the
  generic helper `ptr` in the package `factories` (`factory.go.tmpl:29`): the second one does not compile, against
  `cli-generators.md:63` ("renders a working vertical slice").
* `members`: `parseFields` compares declared names (`fields.go:57`), the struct's members are named by `pascalCase`
  (`naming.go:54`), which drops underscores: `title` and `title_` are accepted together and become one member,
  declared twice, against the same line.
* `contract`: `cache.go:20` says that `Increment` of a non-integer value is an error; the memory driver takes the empty
  value for zero (`memory.go:97`), where Redis answers with an error. `memory_test.go:69` tries a word only.

### Limits that the models contain and no property forbids

These are behaviours of the code that we know no document to contradict, and for which properties make an exception or say nothing.

* hub: an evicted client whose peer stopped reading stays connected while the peer keeps the connection open
  (`realtime.go:423`); an SSE request for more channels than the queue holds is ended by its own acknowledgements (`realtime.go:256`);
  an acknowledgement repeats the channel's name untrimmed (`realtime.go:220`), so a client that compares it as it stands with a name may not find it.
* lifecycle: a hook registered after the copy never runs (`app.go:569`); when the database cannot be opened, the
  jobs client stays open (`app.go:278`); hooks run under the handlers of hijacked connections, the hub's WebSockets, which `Shutdown` does not wait for (`app.go:609`).
* development server: files of a new directory saved before it is watched are built with the next change (`dev.go:202`);
  the exit of the old child replaces compile errors on the overlay (`dev.go:197`); a child slower than the ready timeout keeps the proxy failed (`dev.go:168`).
* sign-in: with requests under way together a consumed flow, a shown flash and a signed-out user may come back; expired flows keep their places until their callback (`oauth.go:120`).
* cache: a `Get` that straddles an expiry may miss a value set meanwhile; a count that passes the largest `int64` goes on from the smallest (`memory.go:104`);
  `Remember` computes once per caller and may store after a `Forget`.
* limiter: with a burst of more than ten minutes' requests, or after waits for the lock so long that the reading from before them (`ratelimit.go:71`) makes
  a client idle whose bucket is not full, a forgotten client gains.
* disk: temporary files of a dead process stay, and nothing is synced to the medium.
* bus: a handler may be called once more after its unsubscribe returned.
* query: an offset that overflows is an error of the database or page one (`query.go:190`); numbered pages shift when rows
  change, and rows that tie in every sort may repeat.
* start: a docs or devtools path equal to another route makes gin panic; a `unix://` Redis URL passes `Load` and not asynq;
  S3 settings, trusted proxies and the port of SMTP (`config.go:187`) are judged by their users only; a variable set to nothing masks `.env`.
* commands: a file that appears, or is edited, between the look at it and the rename is replaced (`extra.go:104`, `upgrade.go:234`); a killed
  `generate` leaves its files; two migrations of one second may share goose's version (`generate.go:381`).

## Proofs

`tlapm` checks every proof to its last leaf. The assumptions are those of the
component modules (`HubAssumption`, `LifecycleAssumption`, `DevAssumption`,
`AccountsAssumption`, `UpgradeAssumption`, `BackgroundAssumption`,
`SignInAssumption`, `LimiterAssumption`, `DiskAssumption`, `CacheAssumption`, `StartupAssumption`,
`GeneratorAssumption`, `QueryAssumption`): the sets of connections are disjoint,
the names for "nobody" and for a missing or local text are nobody else's, the
bounds are naturals, fields have one of the known types, page sizes are positive and a table has fewer rows than an
`int` counts. TLC evaluates them in every run. Some theorems are about invariants that no
run lists any more (the types, `ClientsAreTracked`, `AcceptedRunnersRun`, `ChildIsUndrained`,
`NeverOlder`, `NeverLost`): what is proved need not be checked again.

`RealtimeHubProofs`. The safety properties are not inductive alone. `IInv`
strengthens the types with what the program counters mean (`Locals`) and with
what the code relies on between critical sections (`HubInv`): a client not yet
connected is in no map, one whose handler joined is removed, `h.clients` is the
connected clients whose removal has not begun, and once `Close` began, every
client still there is in its sweep. `TypeCorrect`, `TracksClients` and
`CloseEmptiesHub` follow. Four more invariants stand on it:
`DeliveredOrEvicted` needs only the types and that `done` stays closed and the
history grows; `PrivateStaysPrivate` adds that whoever is in a private channel,
about to be committed to it, or in a publisher's copy was granted it (`AuthInv`);
`PublishesInOrder` that every logged event's number is at most the publisher's
own, and below it for clients its loop has still to reach (`OrderInv`). `AcknowledgedView` adds the acknowledgement that is under way (`ViewInv`): between the change of a
channel's subscribers and the message that tells of it, the client is in the channel or not as that message
will say, and otherwise as its history says last; what one more message does to "says last" is a lemma. Steps
that change neither maps nor histories are dispatched by frame lemmas.

`BackgroundProofs`, first part: `AppLifecycle`. `IInv` adds to the types that accepted runners run
(`AcceptedRunnersRun`), that `Run` past its wait has an ended group or an expired
context (`Waited`), and where the hook loop is in its copy (`Looping`). All four
invariants of the run are theorems, and that no accepted runner is forgotten.

`BackgroundProofs`, second part, proves first that every step of `Background` is one of
`AppLifecycle` or changes none of its variables, which holds by the way it is written and is worth a lemma only because the
invariant of the lifecycle then holds of an assembled application too (`LifecycleHolds`). On it stand
`JobInv` (who may still have a job at each place of the two runners, so that a
runner that ended without a timeout left none; with `Waited` this is
`JobsOutliveNothing`) and `ConnInv`: how far `New` came says which hooks are registered
and in which order (`BootInv`, `OrderInv`), and what the hook loop has still to run is
open (`OpenInv`). `ReverseOrder` turns this into `ConnectionsOutliveConsumers`:
of two registered hooks the later one begins first.

`DevServerProofs`. `IInv` adds three parts to the types. `ProcInv`: a result in
`done` is that of an exited process, and `rebuild` starts a process only when
there is no child. `ReadyInv`: the proxy holds requests through a whole rebuild,
and what `waitTCPReady` waits for runs the binary just built. `AgeInv`: the binary at
`binPath` is the newest of all that ran or answered, and who is alive is no older
than any answer. The two safety properties of the run follow,
and two more: a stop never waits for a result already taken (`ChildIsUndrained`), and no
request is answered by an older binary than an earlier one (`NeverOlder`).

`AccountsProofs`. `IInv` adds to the types what a request holds at each call
(`LocalInv`: what it saw in the tables is still there, as no user and no
identity is deleted), that addresses are unique and that who is about to succeed
holds the owner of its address or identity (`OwnerInv`), and that a token once
deleted stays so and a dead one is deleted or expired (`TokenInv`). All three
invariants of the run are theorems, and that a lost race is resolved (`NeverLost`).

`UpgradeProofs`. `IInv` adds that every file that needs no excuse is described by
the baseline, and by the one about to be written (`RecordInv`); that while the command
runs every managed file is current, still to be written or skipped
(`CommandInv`); and that nothing still to be written is a local text, unless
forced or changed meanwhile (`PlanInv`, which rests on the type: a checksum is
never that of a local text). The upgrade's two invariants and two action
properties of the run follow. The generator's invariant `GenInv` says of each command where in its plan it is
(`Placed`: a plan names no path twice), that it has left in the tree nothing but what it published (`Left`), and, unless it
was crossed, that all of this is still there (`Kept`) and that no other command still owns a path it found free or wrote
(`Alone`, which rests on `crossed` looking at both halves above). `Free` is what `OldFilesStay` needs, `Fitting` what
`GeneratedFits` does: it is a fact about the operators of `Fields`, `ResourceFits`, for any fields, options and `Pascal`: place by
place, the lists of columns and of arguments meet in a member of the struct.

`SignInProofs`. A verifier is sent to the provider its flow names, but flows live in
copies of the session, in requests and in answers still under way. The invariant
says of every copy that its flows are those that were begun, with the provider they
were begun with (`FlowInv`), and that a request begins at most one (`Beginning`). That
flows are lost, or come back, does no harm. They do in `SequentialSession`, which is about a browser with one request
at a time: `SeqInv` says that the one copy that counts (the jar's, or that of the request under way) holds no flow
whose verifier was sent and no flash that was shown, and that a handler may have signed out or in, but not taken
over another user.

`ServicesProofs`. *Limiter*: what a sender was admitted and still has is bounded by the burst and
what the rate brought until it was last seen; a sender that was forgotten had at least a full
bucket (`Paid`). What was noted of a client is at most `slowest` older than its bucket, so the time that makes one idle, less that, must
fill a bucket, which the property requires as well. *Disk*: a temporary file belongs to one `Put` and holds what this one
wrote, a published file is complete and nobody writes to it (`Private`). *Cache*: `MemoryCache`
implements `CacheStore` under its mapping, except where `CountsInstead` says. The one fact that is not local is `ReadWasThere`: an
entry that a `Get` took out of the lock has expired by now or was there during the call.
Steps outside the map are steps of the contract's expiry that take nothing
away; the clock's step takes away just what it makes expire. *Bus*: handlers are in the order of their numbers, and
whoever is subscribed all through an `Emit` is among those called or those still to call, each of the first before
each of the second (`Emission`); that removing or adding one keeps the order are lemmas about sequences.
*Start*: every configuration that gets past `Load` is one that `validate` found nothing in (`Accepted`), and the
lemmas go through the conditions on which `New` and the drivers refuse one by one.

`QueryProofs`. `QueryInv` says that what the statements are made of is what `Parse` makes of the request, whose filters,
sort and page size stay those of the first (`Parsed`), and two things about what was shown. `Numbered`: if the sorts tell rows apart, there is one way to
take the first *n* rows (`OneHead`), the pages seen are exactly those, and the next offset is below the number of
rows and so does not wrap. `Walked`: a row that nobody touched was shown if and only if it is not behind the cursor. A page
moves the cursor to its last row, which exists because the order is total (`CursorOrder`) and the rows are finitely many
(`OneIsLast`, by well-foundedness of the strict subsets), so the rows that it newly passes are those on the page. `ParseMeansIt`,
that the conditions of a request that Parse lets through are met by the rows it asks for, gives `OnlyWantedIsShown`.

Every invariant and action property that a run checks without fairness is thus a theorem, for all values of the
constants that the assumptions allow, as is the refinement of the cache's contract. Only model-checked are the properties under fairness
(`CloseReturns`, `RemovedIsTornDown`, `AcceptedIsWritten`, `RunReturns`, `NoticedIsBuilt`, `HeldIsAnswered`):
the provers handle neither liveness of this kind nor `ENABLED`.

## Plan

1. An abstract fan-out (a set of members, delivery to the members
   at the time of publishing) that `RealtimeHub` refines.
2. Two browsers in `SignIn`, composed with `Accounts`, whose `LoginOAuth` is its outcome.

## Not modelled

The text of messages, overlays and logs; origin patterns and read limits; the unified diff
(a pure function for display); the devtools recorder (a ring under one mutex, in development only); JWTs, personal access tokens,
password hashing and policy helpers, which look at one request and keep no state; validation and OpenAPI
generation (reflection over types, one pass); mail, WhatsApp and S3 beyond what their
constructors refuse (calls of services); HTTP helpers, metrics and flags; test helpers, the generated TypeScript client's types, `gin-kit check` and `doctor`,
and the documentation checker and website.
