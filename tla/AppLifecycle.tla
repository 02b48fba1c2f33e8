---------------------------- MODULE AppLifecycle ----------------------------
(***************************************************************************)
(* The life of an Application of runtime/app.go: registration of runners   *)
(* and shutdown hooks, Run with its errgroup of the HTTP server and the    *)
(* runners, graceful shutdown under one timeout, and Close.                *)
(*                                                                         *)
(* Run, Close, every runner and every request are goroutines.  A step is a *)
(* critical section of runnersMu or hooksMu, or one blocking call.  What a *)
(* runner, a hook or a request handler does is reduced to when it ends and *)
(* whether it failed.                                                      *)
(***************************************************************************)
EXTENDS Naturals, Sequences, FiniteSets

CONSTANTS
  Runners,   \* everything anybody may pass to Application.Go
  Hooks,     \* everything anybody may pass to Application.OnShutdown
  Requests,  \* the HTTP requests that may arrive
  Server,    \* the name of the goroutine that serves HTTP
  None       \* the absence of an error

Tasks  == Runners \cup {Server}  \* the goroutines of the errgroup
Owners == {"run", "close"}       \* who may call runShutdownHooks

ASSUME LifecycleAssumption ==
  /\ Server \notin Runners
  /\ None \notin Tasks \cup Hooks \cup Owners

VARIABLES
  started,     \* a.started
  runners,     \* a.runners
  hooks,       \* a.shutdownHooks, in registration order
  hooksRan,    \* a.hooksRan
  parent,      \* Run's context is cancelled
  groupErr,    \* the first error of the errgroup, which cancels groupCtx
  task,        \* where each goroutine of the group is
  request,     \* where each HTTP request is
  shut,        \* server.Shutdown was called
  expired,     \* shutdownCtx has timed out
  run,         \* where Run is
  close,       \* where a concurrent call of Close is
  owner,       \* who runs the hooks
  taken,       \* the owner's copy of the hooks
  index,       \* where its loop over the copy is
  executing,   \* the hook the owner is in
  ran,         \* history: the hooks that were begun, in order
  joined       \* the errors Run joins into its result

regVars   == <<started, runners, hooks>>
groupVars == <<parent, groupErr, task, request>>
hookVars  == <<hooksRan, owner, taken, index, executing, ran>>
vars      == <<regVars, groupVars, hookVars, shut, expired, run, close, joined>>

Init ==
  /\ started = FALSE
  /\ runners = {}
  /\ hooks = <<>>
  /\ hooksRan = FALSE
  /\ parent = FALSE
  /\ groupErr = None
  /\ task = [t \in Tasks |-> "idle"]
  /\ request = [q \in Requests |-> "none"]
  /\ shut = FALSE
  /\ expired = FALSE
  /\ run = "idle"
  /\ close = "idle"
  /\ owner = None
  /\ taken = <<>>
  /\ index = 0
  /\ executing = None
  /\ ran = <<>>
  /\ joined = {}

-----------------------------------------------------------------------------
(* Registration.  Go refuses once Run has begun; OnShutdown never refuses,  *)
(* so a hook registered after the copy was taken is kept and never run.     *)

AcceptsRunners == ~started

Go(r) ==
  /\ AcceptsRunners
  /\ r \notin runners
  /\ runners' = runners \cup {r}
  /\ UNCHANGED <<started, hooks, groupVars, hookVars, shut, expired, run, close, joined>>

OnShutdown(h) ==
  /\ \A i \in DOMAIN hooks : hooks[i] # h
  /\ hooks' = Append(hooks, h)
  /\ UNCHANGED <<started, runners, groupVars, hookVars, shut, expired, run, close, joined>>

-----------------------------------------------------------------------------
(* Run up to <-groupCtx.Done(): the copy of a.runners is taken in the       *)
(* critical section that sets a.started.                                    *)

RunStart ==
  /\ run = "idle"
  /\ started' = TRUE
  /\ task' = [t \in Tasks |-> IF t \in runners \cup {Server} THEN "running" ELSE "idle"]
  /\ run' = "serving"
  /\ UNCHANGED <<runners, hooks, parent, groupErr, request, hookVars, shut,
                 expired, close, joined>>

CancelParent ==
  /\ ~parent
  /\ parent' = TRUE
  /\ UNCHANGED <<regVars, groupErr, task, request, hookVars, shut, expired, run,
                 close, joined>>

Cancelled == parent \/ groupErr # None      \* groupCtx is done

\* What errgroup keeps of a goroutine's error: the first one.
Fails(t) == groupErr' = IF groupErr = None THEN t ELSE groupErr

RunnerLeaves(r) ==
  /\ task[r] = "running"
  /\ task' = [task EXCEPT ![r] = "ended"]
  /\ UNCHANGED <<regVars, parent, request, hookVars, shut, expired, run, close, joined>>

\* nil and context.Canceled are the same to Run.
RunnerReturns(r) == RunnerLeaves(r) /\ UNCHANGED groupErr

\* A runner returns an error, or panics.
RunnerFails(r) == RunnerLeaves(r) /\ Fails(r)

RunnerEnds(r) == RunnerReturns(r) \/ RunnerFails(r)

\* ListenAndServe returns: ErrServerClosed once Shutdown was called, which is
\* no failure, or the failure of the listener.
ServerEnds ==
  /\ task[Server] = "running"
  /\ task' = [task EXCEPT ![Server] = "ended"]
  /\ IF shut THEN UNCHANGED groupErr ELSE Fails(Server)
  /\ UNCHANGED <<regVars, parent, request, hookVars, shut, expired, run, close, joined>>

RequestArrives(q) ==
  /\ task[Server] = "running" /\ ~shut
  /\ request[q] = "none"
  /\ request' = [request EXCEPT ![q] = "active"]
  /\ UNCHANGED <<regVars, parent, groupErr, task, hookVars, shut, expired, run,
                 close, joined>>

\* The handler takes the connection over, as the WebSocket endpoint of the hub
\* does.  net/http then no longer counts the connection, and Shutdown passes it.
Hijack(q) ==
  /\ request[q] = "active"
  /\ request' = [request EXCEPT ![q] = "hijacked"]
  /\ UNCHANGED <<regVars, parent, groupErr, task, hookVars, shut, expired, run,
                 close, joined>>

RequestEnds(q) ==
  /\ request[q] \in {"active", "hijacked"}
  /\ request' = [request EXCEPT ![q] = "done"]
  /\ UNCHANGED <<regVars, parent, groupErr, task, hookVars, shut, expired, run,
                 close, joined>>

-----------------------------------------------------------------------------
(* Graceful shutdown: server.Shutdown, waitForGroup and the hooks, all      *)
(* under one shutdownCtx.                                                   *)

ShutdownBegin ==
  /\ run = "serving"
  /\ Cancelled
  /\ shut' = TRUE
  /\ run' = "shutdown"
  /\ UNCHANGED <<regVars, groupVars, hookVars, expired, close, joined>>

Expire ==
  /\ run \in {"shutdown", "wait", "release", "hooks"}
  /\ ~expired
  /\ expired' = TRUE
  /\ UNCHANGED <<regVars, groupVars, hookVars, shut, run, close, joined>>

Idle == \A q \in Requests : request[q] # "active"

\* Mutant: Run goes on to the hooks without waiting for the group.
ShutdownSkipsWait ==
  /\ run = "shutdown"
  /\ \/ Idle /\ UNCHANGED joined
     \/ expired /\ joined' = joined \cup {"shutdown"}
  /\ run' = "release"
  /\ UNCHANGED <<regVars, groupVars, hookVars, shut, expired, close>>

\* server.Shutdown returns: all connections that net/http still has are idle, or
\* shutdownCtx expired.
ShutdownReturns ==
  /\ run = "shutdown"
  /\ \/ Idle /\ UNCHANGED joined
     \/ expired /\ joined' = joined \cup {"shutdown"}
  /\ run' = "wait"
  /\ UNCHANGED <<regVars, groupVars, hookVars, shut, expired, close>>

Ended == \A t \in Tasks : task[t] # "running"

\* Mutant: a timeout is not reported.
TimeoutIgnored == {}

Timeout == {"timeout"}

\* Mutant: Run waits for the group whatever the timeout.
WaitForGroupForever ==
  /\ run = "wait"
  /\ Ended
  /\ joined' = joined \cup ({groupErr} \ {None})
  /\ run' = "release"
  /\ UNCHANGED <<regVars, groupVars, hookVars, shut, expired, close>>

\* waitForGroup: the select takes either branch when both are ready.
WaitForGroup ==
  /\ run = "wait"
  /\ \/ Ended /\ joined' = joined \cup ({groupErr} \ {None})
     \/ expired /\ joined' = joined \cup Timeout
  /\ run' = "release"
  /\ UNCHANGED <<regVars, groupVars, hookVars, shut, expired, close>>

-----------------------------------------------------------------------------
(* runShutdownHooks, by Run after the wait and by Close at any time.  The   *)
(* first caller takes the hooks and runs them from the last to the first;   *)
(* the other returns at once, even while they are running.                  *)

CloseCalled ==
  /\ close = "idle"
  /\ close' = "release"
  /\ UNCHANGED <<regVars, groupVars, hookVars, shut, expired, run, joined>>

\* The caller k moves on to place.
Caller(k, place) ==
  IF k = "run" THEN run' = place /\ UNCHANGED close
               ELSE close' = place /\ UNCHANGED run

At(k) == IF k = "run" THEN run ELSE close

\* Mutant: a.hooksRan is not consulted.
AlreadyRanNever == FALSE

AlreadyRan == hooksRan

LastHook == Len(hooks)

TakeHooks(k) ==
  /\ At(k) = "release"
  /\ IF AlreadyRan
     THEN Caller(k, "returned") /\ UNCHANGED hookVars
     ELSE /\ Caller(k, "hooks")
          /\ hooksRan' = TRUE
          /\ owner' = k
          /\ taken' = hooks
          /\ index' = LastHook
          /\ UNCHANGED <<executing, ran>>
  /\ UNCHANGED <<regVars, groupVars, shut, expired, joined>>

NextHook == taken[index]

HookStarts(k) ==
  /\ At(k) = "hooks" /\ owner = k
  /\ executing = None /\ index > 0
  /\ executing' = NextHook
  /\ ran' = Append(ran, NextHook)
  /\ UNCHANGED <<regVars, groupVars, hooksRan, owner, taken, index, shut, expired,
                 run, close, joined>>

\* The error of a hook is joined into the result; the next hook runs anyway.
HookReturns(k) ==
  /\ At(k) = "hooks" /\ owner = k
  /\ executing # None
  /\ executing' = None
  /\ index' = index - 1
  /\ joined' \in {joined, joined \cup IF k = "run" THEN {"hooks"} ELSE {}}
  /\ UNCHANGED <<regVars, groupVars, hooksRan, owner, taken, ran, shut, expired,
                 run, close>>

\* Mutant: the first failing hook ends the loop.
HooksFinishedEarly == executing = None /\ (index = 0 \/ "hooks" \in joined)

HooksFinished == executing = None /\ index = 0

ReleaseReturns(k) ==
  /\ At(k) = "hooks" /\ owner = k
  /\ HooksFinished
  /\ Caller(k, "returned")
  /\ UNCHANGED <<regVars, groupVars, hookVars, shut, expired, joined>>

-----------------------------------------------------------------------------
RunStep == ShutdownBegin \/ ShutdownReturns \/ WaitForGroup

ReleaseStep(k) == TakeHooks(k) \/ HookStarts(k) \/ HookReturns(k) \/ ReleaseReturns(k)

Next ==
  \/ \E r \in Runners : Go(r) \/ RunnerEnds(r)
  \/ \E h \in Hooks : OnShutdown(h)
  \/ RunStart \/ CancelParent \/ ServerEnds \/ RunStep \/ Expire \/ CloseCalled
  \/ \E q \in Requests : RequestArrives(q) \/ Hijack(q) \/ RequestEnds(q)
  \/ \E k \in Owners : ReleaseStep(k)

Spec == Init /\ [][Next]_vars

\* Run itself, its timer and the hooks, which are handed the context that
\* expires, make progress.  Runners, requests and even ListenAndServe are
\* promised nothing: they may ignore the shutdown for ever.
FairSpec ==
  /\ Spec
  /\ WF_vars(RunStep)
  /\ WF_vars(Expire)
  /\ \A k \in Owners : WF_vars(ReleaseStep(k))

-----------------------------------------------------------------------------
(* Every variable holds what its comment says; the loop over the hooks      *)
(* never leaves the copy it was started on.                                 *)
TypeOK ==
  /\ started \in BOOLEAN
  /\ runners \subseteq Runners
  /\ hooks \in Seq(Hooks)
  /\ hooksRan \in BOOLEAN
  /\ parent \in BOOLEAN
  /\ groupErr \in Tasks \cup {None}
  /\ task \in [Tasks -> {"idle", "running", "ended"}]
  /\ request \in [Requests -> {"none", "active", "hijacked", "done"}]
  /\ shut \in BOOLEAN
  /\ expired \in BOOLEAN
  /\ run \in {"idle", "serving", "shutdown", "wait", "release", "hooks", "returned"}
  /\ close \in {"idle", "release", "hooks", "returned"}
  /\ owner \in Owners \cup {None}
  /\ taken \in Seq(Hooks)
  /\ index \in 0..Len(taken)
  /\ executing \in Hooks \cup {None}
  /\ ran \in Seq(Hooks)
  /\ joined \subseteq Tasks \cup {"shutdown", "timeout", "hooks"}

(* A runner that Go accepted is one Run starts: registration cannot fall    *)
(* between the copy of a.runners and the flag that makes Go refuse.         *)
AcceptedRunnersRun ==
  started => \A r \in runners : task[r] # "idle"

(* The resources hooks release outlive their users: when Run has begun to   *)
(* run hooks, no runner, not the server and no request on a connection of   *)
(* net/http still runs, unless the shutdown timeout expired.  A handler     *)
(* that took its connection over is nobody's to wait for, and may run on.   *)
ResourcesOutliveUsers ==
  (owner = "run" /\ ran # <<>> /\ ~expired) => (Ended /\ Idle)

(* "Exactly once across Close and Run", in reverse registration order: the  *)
(* hooks that were begun, by whoever, are the last registered ones of the   *)
(* copy, each once.                                                         *)
HooksOnceInReverse ==
  \A i, j \in DOMAIN ran : i < j =>
    \E m, n \in DOMAIN hooks : m < n /\ hooks[m] = ran[j] /\ hooks[n] = ran[i]

(* When Run has returned, and it was Run that ran the hooks, all hooks of   *)
(* the copy ran, whatever the earlier ones returned; the copy holds every   *)
(* hook registered before Run or Close began to release.                    *)
EveryHookRan ==
  (run = "returned" /\ owner = "run") =>
    \A i \in DOMAIN taken : \E j \in DOMAIN ran : ran[j] = taken[i]

(* Run reports every failure: it returns nil only if no runner failed, the  *)
(* server did not fail and every runner had returned.                       *)
FailureIsReported ==
  (run = "returned" /\ joined = {}) => (groupErr = None /\ Ended)

(* Once Run's context is cancelled, the server fails or a runner fails, Run *)
(* returns, even when runners and requests ignore the shutdown.             *)
RunReturns ==
  (run = "serving" /\ Cancelled) ~> run = "returned"

=============================================================================
