------------------------------ MODULE DevServer ------------------------------
(***************************************************************************)
(* The development server `gin-kit dev` (internal/cli/dev.go and           *)
(* devproxy.go): one loop that watches the sources, debounces changes,     *)
(* rebuilds, and replaces the application process; and the proxy that      *)
(* holds requests during a rebuild and answers with the failure after it.  *)
(*                                                                         *)
(* The loop, the timer, the application processes, the proxy's request     *)
(* handlers and whoever edits the sources interleave.  The source is a     *)
(* count of edits; a binary is the edit count it was built from; a process *)
(* is the number of its start.                                             *)
(***************************************************************************)
EXTENDS Naturals, FiniteSets

CONSTANTS
  Requests,   \* the HTTP requests that may reach the proxy
  MaxEdits    \* bound: edits of the sources

ASSUME DevAssumption == MaxEdits \in Nat

Starts == 1 .. MaxEdits + 1     \* one rebuild at first, then at most one per edit
NoChild == 0

VARIABLES
  source,    \* how many edits the sources have seen
  noticed,   \* history: source after the last edit that raised a watch event
  dir,       \* a directory somebody may create: absent, created, watched
  events,    \* pending watch events: of files, of the created directory
  timer,     \* the debouncer's timer is armed
  fired,     \* the debouncer's channel, of capacity one, is full
  main,      \* where runDev is
  begun,     \* source when the last build began
  bin,       \* the edit count of the binary at binPath
  built,     \* history: what the last build ended with
  child,     \* the child runDev holds, or NoChild
  proc,      \* every process that was started
  runs,      \* the binary each process runs
  done,      \* the processes whose childDone holds an undelivered result
  killed,    \* the processes that were sent SIGKILL
  state,     \* devProxy.state
  output,    \* devProxy.failOutput
  waiting,   \* the held requests whose copy of devProxy.changed is still open
  request,   \* where each request's ServeHTTP is
  late,      \* the requests whose hold deadline has passed
  answer,    \* what each request was answered with
  served,    \* the binary that answered it, for an answer of the application
  before     \* history: the newest binary anybody had been answered by when it came

editVars  == <<source, noticed, dir>>
watchVars == <<events, timer, fired>>
buildVars == <<main, begun, bin, built>>
procVars  == <<child, proc, runs, done, killed>>
proxyVars == <<state, output, waiting>>
reqVars   == <<request, late, answer, served, before>>
vars      == <<editVars, watchVars, buildVars, procVars, proxyVars, reqVars>>

Init ==
  /\ source = 0 /\ noticed = 0
  /\ dir = "absent"
  /\ events = {}
  /\ timer = FALSE /\ fired = FALSE
  /\ main = "build" /\ begun = 0 /\ bin = 0 /\ built = "none"
  /\ child = NoChild
  /\ proc = [g \in Starts |-> "unused"]
  /\ runs = [g \in Starts |-> 0]
  /\ done = {} /\ killed = {}
  /\ state = "building" /\ output = "none" /\ waiting = {}
  /\ request = [q \in Requests |-> "none"]
  /\ late = {}
  /\ answer = [q \in Requests |-> "none"]
  /\ served = [q \in Requests |-> 0]
  /\ before = [q \in Requests |-> 0]

-----------------------------------------------------------------------------
(* Somebody edits.  A file in a watched directory raises an event; a new    *)
(* directory raises one in its parent; a file in it only once it is watched.*)

Edit ==
  /\ source < MaxEdits
  /\ source' = source + 1
  /\ \/ /\ events' = events \cup {"file"}
        /\ noticed' = source'
     \/ /\ dir = "created"
        /\ UNCHANGED <<events, noticed>>
  /\ UNCHANGED <<dir, timer, fired, buildVars, procVars, proxyVars, reqVars>>

MakeDir ==
  /\ dir = "absent"
  /\ dir' = "created"
  /\ events' = events \cup {"dir"}
  /\ UNCHANGED <<source, noticed, timer, fired, buildVars, procVars, proxyVars, reqVars>>

-----------------------------------------------------------------------------
(* devProxy.setState wakes every held request: it closes the channel they   *)
(* wait on and replaces it, in one critical section.                        *)

\* Mutant: the change channel is not closed.
WakesNobody == waiting

Wakes == {}

SetState(s, text) ==
  /\ state' = s
  /\ output' = text
  /\ waiting' = Wakes

-----------------------------------------------------------------------------
(* The select loop of runDev.                                               *)

\* Mutant: trigger stops a running timer and does not start it again.
TriggerStops == ~timer

\* debouncer.trigger: a running timer is stopped and a new one started.
Trigger == TRUE

LoopEvent ==
  /\ main = "loop"
  /\ \/ /\ "dir" \in events
        /\ events' = events \ {"dir"}
        /\ dir' = "watched"
        /\ UNCHANGED timer
     \/ /\ "file" \in events
        /\ events' = events \ {"file"}
        /\ timer' = Trigger
        /\ UNCHANGED dir
  /\ UNCHANGED <<source, noticed, fired, buildVars, procVars, proxyVars, reqVars>>

\* The callback of time.AfterFunc: a send that never blocks.
TimerFires ==
  /\ timer
  /\ timer' = FALSE
  /\ fired' = TRUE
  /\ UNCHANGED <<editVars, events, buildVars, procVars, proxyVars, reqVars>>

\* Mutant: the proxy is not told that a rebuild has begun.
LoopRebuildServing ==
  /\ main = "loop"
  /\ fired
  /\ fired' = FALSE
  /\ main' = "build"
  /\ begun' = source
  /\ UNCHANGED <<editVars, events, timer, bin, built, procVars, proxyVars, reqVars>>

LoopRebuild ==
  /\ main = "loop"
  /\ fired
  /\ fired' = FALSE
  /\ main' = "build"
  /\ begun' = source
  /\ SetState("building", "none")
  /\ UNCHANGED <<editVars, events, timer, bin, built, procVars, reqVars>>

DropsChild == child' = NoChild

LoopChildExited ==
  /\ main = "loop"
  /\ child \in done
  /\ done' = done \ {child}
  /\ DropsChild
  /\ SetState("failed", "exited")
  /\ UNCHANGED <<editVars, watchVars, buildVars, proc, runs, killed, reqVars>>

\* The context is cancelled, or the proxy or the watcher fails.
LoopReturns ==
  /\ main = "loop"
  /\ main' = "return"
  /\ UNCHANGED <<editVars, watchVars, begun, bin, built, procVars, proxyVars, reqVars>>

-----------------------------------------------------------------------------
(* rebuild: build, stop the old child, start a new one, wait for its port.  *)

BuildFails ==
  /\ main = "build"
  /\ main' = "loop"
  /\ built' = "failed"
  /\ SetState("failed", "compile")
  /\ UNCHANGED <<editVars, watchVars, begun, bin, procVars, reqVars>>

AfterBuild == IF child = NoChild THEN "start" ELSE "stop"

\* The compiler reads the files while they may still be edited.
BuildSucceeds ==
  /\ main = "build"
  /\ main' = AfterBuild
  /\ built' = "ok"
  /\ bin' \in begun .. source
  /\ UNCHANGED <<editVars, watchVars, begun, procVars, proxyVars, reqVars>>

\* stopChild: SIGKILL when the grace period is over, or at once when SIGTERM
\* cannot be sent.
StopKills ==
  /\ main \in {"stop", "return"}
  /\ child \notin killed \cup {NoChild}
  /\ killed' = killed \cup {child}
  /\ UNCHANGED <<editVars, watchVars, buildVars, child, proc, runs, done, proxyVars, reqVars>>

\* Mutant: stopChild returns when it has killed, without waiting for the exit.
StopReturnsEarly ==
  /\ main = "stop"
  /\ child \in done \cup killed
  /\ done' = done \ {child}
  /\ child' = NoChild
  /\ main' = "start"
  /\ UNCHANGED <<editVars, watchVars, begun, bin, built, proc, runs, killed, proxyVars, reqVars>>

\* stopChild returns: <-done.
StopReturns ==
  /\ main = "stop"
  /\ child \in done
  /\ done' = done \ {child}
  /\ child' = NoChild
  /\ main' = "start"
  /\ UNCHANGED <<editVars, watchVars, begun, bin, built, proc, runs, killed, proxyVars, reqVars>>

StartFails ==
  /\ main = "start"
  /\ main' = "loop"
  /\ SetState("failed", "start")
  /\ UNCHANGED <<editVars, watchVars, begun, bin, built, procVars, reqVars>>

StartChild ==
  /\ main = "start"
  /\ main' = "ready"
  /\ \E g \in Starts :
       /\ proc[g] = "unused"
       /\ \A f \in 1 .. g - 1 : proc[f] # "unused"
       /\ child' = g
       /\ proc' = [proc EXCEPT ![g] = "booting"]
       /\ runs' = [runs EXCEPT ![g] = bin]
  /\ UNCHANGED <<editVars, watchVars, begun, bin, built, done, killed, proxyVars, reqVars>>

Listening == {g \in Starts : proc[g] = "serving"}

\* waitTCPReady: somebody accepts on the port, the child exited, or it is late.
ReadySucceeds ==
  /\ main = "ready"
  /\ Listening # {}
  /\ main' = "loop"
  /\ SetState("ready", "none")
  /\ UNCHANGED <<editVars, watchVars, begun, bin, built, procVars, reqVars>>

ReadyChildExited ==
  /\ main = "ready"
  /\ child \in done
  /\ done' = done \ {child}
  /\ child' = NoChild
  /\ main' = "loop"
  /\ SetState("failed", "not ready")
  /\ UNCHANGED <<editVars, watchVars, begun, bin, built, proc, runs, killed, reqVars>>

ReadyTimesOut ==
  /\ main = "ready"
  /\ main' = "loop"
  /\ SetState("failed", "not ready")
  /\ UNCHANGED <<editVars, watchVars, begun, bin, built, procVars, reqVars>>

\* The deferred calls: stop the child, then close the proxy.
Returned ==
  /\ main = "return"
  /\ child = NoChild \/ child \in done
  /\ done' = done \ {child}
  /\ child' = NoChild
  /\ main' = "returned"
  /\ UNCHANGED <<editVars, watchVars, begun, bin, built, proc, runs, killed, proxyVars, reqVars>>

-----------------------------------------------------------------------------
(* The application processes.  Wait's result goes to a channel of capacity  *)
(* one, so it is kept until somebody takes it.                              *)

Boots(g) ==
  /\ proc[g] = "booting"
  /\ proc' = [proc EXCEPT ![g] = "serving"]
  /\ UNCHANGED <<editVars, watchVars, buildVars, child, runs, done, killed, proxyVars, reqVars>>

Exits(g) ==
  /\ proc[g] \in {"booting", "serving"}
  /\ proc' = [proc EXCEPT ![g] = "exited"]
  /\ done' = done \cup {g}
  /\ UNCHANGED <<editVars, watchVars, buildVars, child, runs, killed, proxyVars, reqVars>>

-----------------------------------------------------------------------------
(* devProxy.ServeHTTP: one reading of the state under the lock, then an     *)
(* answer or a wait for the next state.                                     *)

Answered == {served[q] : q \in Requests}

RequestArrives(q) ==
  /\ main # "returned"
  /\ request[q] = "none"
  /\ request' = [request EXCEPT ![q] = "check"]
  /\ \E v \in Answered : /\ \A w \in Answered : w <= v
                         /\ before' = [before EXCEPT ![q] = v]
  /\ UNCHANGED <<editVars, watchVars, buildVars, procVars, proxyVars, late, answer, served>>

Answer(q, kind) ==
  /\ request' = [request EXCEPT ![q] = "answered"]
  /\ answer' = [answer EXCEPT ![q] = kind]

Check(q) ==
  /\ request[q] = "check"
  /\ \/ /\ state = "ready"
        /\ request' = [request EXCEPT ![q] = "forward"]
        /\ UNCHANGED <<answer, waiting>>
     \/ /\ state = "failed"
        /\ Answer(q, output)
        /\ UNCHANGED waiting
     \/ /\ state = "building"
        /\ IF q \in late
           THEN Answer(q, "timeout") /\ UNCHANGED waiting
           ELSE /\ request' = [request EXCEPT ![q] = "held"]
                /\ waiting' = waiting \cup {q}
                /\ UNCHANGED answer
  /\ UNCHANGED <<editVars, watchVars, buildVars, procVars, state, output, late, served, before>>

DeadlinePasses(q) ==
  /\ request[q] \in {"check", "held"}
  /\ q \notin late
  /\ late' = late \cup {q}
  /\ UNCHANGED <<editVars, watchVars, buildVars, procVars, proxyVars, request, answer, served, before>>

Woken(q) ==
  /\ request[q] = "held"
  /\ q \notin waiting
  /\ request' = [request EXCEPT ![q] = "check"]
  /\ UNCHANGED <<editVars, watchVars, buildVars, procVars, proxyVars, late, answer, served, before>>

HoldTimesOut(q) ==
  /\ request[q] = "held"
  /\ q \in late
  /\ Answer(q, "timeout")
  /\ waiting' = waiting \ {q}
  /\ UNCHANGED <<editVars, watchVars, buildVars, procVars, state, output, late, served, before>>

\* The reverse proxy reaches whoever listens on the application's port by now.
Forward(q) ==
  /\ request[q] = "forward"
  /\ IF Listening = {}
     THEN Answer(q, "bad gateway") /\ UNCHANGED served
     ELSE /\ Answer(q, "application")
          /\ \E g \in Listening : served' = [served EXCEPT ![q] = runs[g]]
  /\ UNCHANGED <<editVars, watchVars, buildVars, procVars, proxyVars, late, before>>

\* The browser gives up, or the closed proxy drops the connection.
ClientLeaves(q) ==
  /\ request[q] = "held"
  /\ request' = [request EXCEPT ![q] = "answered"]
  /\ waiting' = waiting \ {q}
  /\ UNCHANGED <<editVars, watchVars, buildVars, procVars, state, output, late, answer, served, before>>

-----------------------------------------------------------------------------
Rebuild ==
  \/ BuildFails \/ BuildSucceeds \/ StopReturns \/ StartFails \/ StartChild
  \/ ReadySucceeds \/ ReadyChildExited \/ ReadyTimesOut \/ Returned

Handle(q) == Check(q) \/ Woken(q) \/ HoldTimesOut(q) \/ Forward(q)

Next ==
  \/ Edit \/ MakeDir \/ TimerFires
  \/ LoopEvent \/ LoopRebuild \/ LoopChildExited \/ LoopReturns
  \/ Rebuild \/ StopKills
  \/ \E g \in Starts : Boots(g) \/ Exits(g)
  \/ \E q \in Requests : \/ RequestArrives(q) \/ Handle(q)
                         \/ DeadlinePasses(q) \/ ClientLeaves(q)

Spec == Init /\ [][Next]_vars

\* The loop, the compiler, the debouncer and the handlers make progress, and a
\* killed process exits.  The application may boot slowly, ignore SIGTERM and
\* run for ever; nobody has to edit or to send a request, and no hold has to
\* last until its deadline.
FairSpec ==
  /\ Spec
  /\ WF_vars(TimerFires)
  /\ WF_vars(LoopEvent)
  /\ WF_vars(LoopRebuild)
  /\ WF_vars(LoopChildExited)
  /\ WF_vars(Rebuild)
  /\ WF_vars(StopKills)
  /\ \A g \in Starts : WF_vars(g \in killed /\ Exits(g))
  /\ \A q \in Requests : WF_vars(Handle(q))

-----------------------------------------------------------------------------
Outputs == {"none", "compile", "start", "exited", "not ready"}

BuildTypeOK ==
  /\ source \in 0..MaxEdits /\ noticed \in 0..source
  /\ dir \in {"absent", "created", "watched"}
  /\ events \subseteq {"file", "dir"}
  /\ timer \in BOOLEAN /\ fired \in BOOLEAN
  /\ main \in {"build", "stop", "start", "ready", "loop", "return", "returned"}
  /\ begun \in 0..source /\ bin \in 0..source
  /\ built \in {"none", "ok", "failed"}

ProcTypeOK ==
  /\ child \in Starts \cup {NoChild}
  /\ proc \in [Starts -> {"unused", "booting", "serving", "exited"}]
  /\ runs \in [Starts -> 0..MaxEdits]
  /\ done \subseteq Starts /\ killed \subseteq Starts

ProxyTypeOK ==
  /\ state \in {"building", "ready", "failed"}
  /\ output \in Outputs /\ (output = "none" <=> state # "failed")
  /\ waiting \subseteq Requests

RequestTypeOK ==
  /\ request \in [Requests -> {"none", "check", "held", "forward", "answered"}]
  /\ late \subseteq Requests
  /\ answer \in [Requests -> Outputs \cup {"timeout", "application", "bad gateway"}]
  /\ served \in [Requests -> 0..MaxEdits]
  /\ before \in [Requests -> 0..MaxEdits]

(* Every variable holds what its comment says, and the proxy has a          *)
(* failure's text exactly while it is in the failed state.                  *)
TypeOK == BuildTypeOK /\ ProcTypeOK /\ ProxyTypeOK /\ RequestTypeOK

(* Two processes never compete for the port, and none is left behind: a     *)
(* process that lives is the child runDev holds (stop before start, and the *)
(* deferred stop).                                                          *)
OnlyTheChildLives ==
  \A g \in Starts : proc[g] \in {"booting", "serving"} => g = child

(* stopChild's precondition, "done must be the un-drained channel": whoever *)
(* took a child's result has let go of the child, so no stop waits for a    *)
(* result that was already taken.                                           *)
ChildIsUndrained ==
  (child # NoChild /\ proc[child] = "exited") => child \in done

(* Going back in time is impossible: a request is never answered by an      *)
(* older binary than one that had answered before the request came.         *)
NeverOlder ==
  \A q \in Requests : answer[q] = "application" => served[q] >= before[q]

(* The proxy is ready only between two rebuilds, with a child of the last   *)
(* successful build, that may have exited only if the loop has still to     *)
(* notice.                                                                  *)
ReadyIsTheLastBuild ==
  state = "ready" => /\ main \in {"loop", "return", "returned"}
                     /\ main = "loop" => child # NoChild /\ runs[child] = bin

(* A change that raised a watch event is covered by a build that began      *)
(* after it, however the timer, a running rebuild and more changes interleave.*)
NoticedIsBuilt ==
  \A n \in 1..MaxEdits :
    noticed >= n ~> (begun >= n \/ main \in {"return", "returned"})

(* No wake-up is lost: a held request is answered when the rebuilds end,    *)
(* though nothing forces its deadline to pass.                              *)
HeldIsAnswered ==
  \A q \in Requests : request[q] = "held" ~> request[q] = "answered"

=============================================================================
