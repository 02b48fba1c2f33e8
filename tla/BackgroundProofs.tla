-------------------------- MODULE BackgroundProofs --------------------------
(***************************************************************************)
(* Theorems about AppLifecycle and Background: about the life of any       *)
(* application, for any runners, hooks and requests, and about one that New *)
(* assembles, for any configurations and jobs.  A step of the second is a  *)
(* step of the first or one it does not see, so what is proved of a life   *)
(* holds of it, and the rest stands on that.                               *)
(***************************************************************************)
EXTENDS Background, TLAPS

(* Run has got past the wait for its goroutines.                            *)
Releasing == run \in {"release", "hooks", "returned"}

(* Where Run is bounds what the server, the requests and the runners do:    *)
(* after server.Shutdown was called nothing new begins, and unless the      *)
(* timeout expired each wait of Run ended because what it waits for ended.  *)
Waited ==
  /\ run \notin {"idle", "serving"} => shut
  /\ run = "wait" /\ ~expired => Idle
  /\ Releasing /\ ~expired => Ended /\ Idle
  /\ Releasing /\ joined = {} => groupErr = None /\ Ended
  /\ run # "idle" => started

(* The owner of the hooks is the one whose loop runs; the hooks it began    *)
(* are the last ones of its copy, and the copy is a prefix of the hooks.    *)
Looping ==
  /\ hooksRan <=> owner # None
  /\ owner = None => ran = <<>> /\ taken = <<>> /\ executing = None /\ index = 0
  /\ owner = "run" => run \in {"hooks", "returned"}
  /\ executing # None => index > 0
  /\ owner = "run" /\ run = "returned" => index = 0 /\ executing = None
  /\ Len(taken) <= Len(hooks)
  /\ \A i \in 1..Len(taken) : taken[i] = hooks[i]
  /\ \A i, j \in 1..Len(hooks) : hooks[i] = hooks[j] => i = j
  /\ Len(ran) = (Len(taken) - index) + IF executing = None THEN 0 ELSE 1
  /\ \A i \in 1..Len(ran) : ran[i] = taken[Len(taken) + 1 - i]

(* The inductive invariant.                                                 *)
IInv == TypeOK /\ AcceptedRunnersRun /\ Waited /\ Looping

(* A sequence with one more element.                                        *)
LEMMA AppendFacts ==
  ASSUME NEW S, NEW s \in Seq(S), NEW m \in S
  PROVE  /\ Append(s, m) \in Seq(S)
         /\ Len(Append(s, m)) = Len(s) + 1
         /\ Len(s) \in Nat
         /\ \A i \in 1..Len(s) : Append(s, m)[i] = s[i]
         /\ Append(s, m)[Len(s) + 1] = m
OBVIOUS

(* A fresh application is idle and has nothing registered.                  *)
LEMMA InitInv == Init => IInv
<1> SUFFICES ASSUME Init PROVE IInv
  OBVIOUS
<1>1. TypeOK
  <2>1. hooks \in Seq(Hooks) /\ taken \in Seq(Hooks) /\ ran \in Seq(Hooks)
    BY DEF Init
  <2>2. index \in 0..Len(taken)
    BY DEF Init
  <2>3. task \in [Tasks -> {"idle", "running", "ended"}]
    BY DEF Init
  <2>4. request \in [Requests -> {"none", "active", "hijacked", "done"}]
    BY DEF Init
  <2>5. QED
    BY <2>1, <2>2, <2>3, <2>4 DEF Init, TypeOK
<1>2. AcceptedRunnersRun /\ Waited
  BY DEF Init, AcceptedRunnersRun, Waited, Releasing
<1>3. Looping
  BY LifecycleAssumption DEF Init, Looping, Owners
<1>4. QED
  BY <1>1, <1>2, <1>3 DEF IInv

(* Every step keeps the types.                                              *)
LEMMA StepTyped == IInv /\ [Next]_vars => TypeOK'
<1> SUFFICES ASSUME IInv, [Next]_vars PROVE TypeOK'
  OBVIOUS
<1> USE LifecycleAssumption
        DEF IInv, TypeOK, vars, regVars, groupVars, hookVars, Tasks, Owners
<1>1. ASSUME NEW r \in Runners, Go(r) PROVE TypeOK'
  BY <1>1 DEF Go
<1>2. ASSUME NEW r \in Runners, RunnerEnds(r) PROVE TypeOK'
  <2>1. RunnerLeaves(r) /\ groupErr' \in Tasks \cup {None}
    BY <1>2 DEF RunnerEnds, RunnerReturns, RunnerFails, Fails, Tasks
  <2>. QED  BY <2>1 DEF RunnerLeaves
<1>3. ASSUME NEW h \in Hooks, OnShutdown(h) PROVE TypeOK'
  BY <1>3 DEF OnShutdown
<1>4. CASE RunStart
  BY <1>4 DEF RunStart
<1>5. CASE CancelParent
  BY <1>5 DEF CancelParent
<1>6. CASE ServerEnds
  BY <1>6 DEF ServerEnds, Fails
<1>7. CASE RunStep
  <2>1. CASE ShutdownBegin
    BY <2>1 DEF ShutdownBegin
  <2>2. CASE ShutdownReturns
    BY <2>2 DEF ShutdownReturns
  <2>3. CASE WaitForGroup
    BY <2>3 DEF WaitForGroup, Timeout
  <2>4. QED
    BY <1>7, <2>1, <2>2, <2>3 DEF RunStep
<1>8. CASE Expire
  BY <1>8 DEF Expire
<1>9. CASE CloseCalled
  BY <1>9 DEF CloseCalled
<1>10. ASSUME NEW q \in Requests, RequestArrives(q) \/ Hijack(q) \/ RequestEnds(q) PROVE TypeOK'
  <2>1. CASE RequestArrives(q)
    BY <2>1 DEF RequestArrives
  <2>2. CASE RequestEnds(q)
    BY <2>2 DEF RequestEnds
  <2>3. CASE Hijack(q)
    BY <2>3 DEF Hijack
  <2>4. QED
    BY <1>10, <2>1, <2>2, <2>3
<1>11. ASSUME NEW k \in Owners, TakeHooks(k) PROVE TypeOK'
  <2>1. CASE AlreadyRan
    BY <1>11, <2>1 DEF TakeHooks, Caller
  <2>2. CASE ~AlreadyRan
    <3>1. Caller(k, "hooks") /\ Len(hooks) \in 0..Len(hooks)
      BY <1>11, <2>2 DEF TakeHooks
    <3>2. QED
      BY <1>11, <2>2, <3>1 DEF TakeHooks, Caller, LastHook
  <2>3. QED
    BY <2>1, <2>2
<1>12. ASSUME NEW k \in Owners, HookStarts(k) PROVE TypeOK'
  BY <1>12 DEF HookStarts, NextHook
<1>13. ASSUME NEW k \in Owners, HookReturns(k) PROVE TypeOK'
  BY <1>13 DEF HookReturns, Looping
<1>14. ASSUME NEW k \in Owners, ReleaseReturns(k) PROVE TypeOK'
  BY <1>14 DEF ReleaseReturns, Caller
<1>15. CASE UNCHANGED vars
  BY <1>15
<1>16. QED
  BY <1>1, <1>2, <1>3, <1>4, <1>5, <1>6, <1>7, <1>8, <1>9, <1>10, <1>11, <1>12, <1>13, <1>14,
     <1>15 DEF Next, ReleaseStep

(* A goroutine of the group that has begun stays begun, and Go adds no      *)
(* runner after Run has copied them.                                        *)
LEMMA StepRunners == IInv /\ [Next]_vars => AcceptedRunnersRun'
<1> SUFFICES ASSUME IInv, [Next]_vars PROVE AcceptedRunnersRun'
  OBVIOUS
<1> USE DEF IInv, TypeOK, AcceptedRunnersRun, Tasks
<1>1. ASSUME NEW r \in Runners, Go(r) \/ RunnerEnds(r) PROVE AcceptedRunnersRun'
  BY <1>1 DEF Go, AcceptsRunners, RunnerEnds, RunnerReturns, RunnerFails, RunnerLeaves, groupVars, regVars
<1>2. CASE RunStart
  BY <1>2 DEF RunStart
<1>3. CASE ServerEnds
  BY <1>3 DEF ServerEnds, regVars
<1>4. CASE UNCHANGED <<started, runners, task>>
  BY <1>4
<1>5. (\E h \in Hooks : OnShutdown(h)) => UNCHANGED <<started, runners, task>>
  BY DEF OnShutdown, groupVars
<1>6. CancelParent \/ RunStep \/ Expire \/ CloseCalled => UNCHANGED <<started, runners, task>>
  BY DEF CancelParent, RunStep, ShutdownBegin, ShutdownReturns, WaitForGroup, Expire,
     CloseCalled, regVars, groupVars
<1>7. (\E q \in Requests : RequestArrives(q) \/ Hijack(q) \/ RequestEnds(q))
         => UNCHANGED <<started, runners, task>>
  BY DEF RequestArrives, Hijack, RequestEnds, regVars
<1>8. (\E k \in Owners : ReleaseStep(k)) => UNCHANGED <<started, runners, task>>
  BY DEF ReleaseStep, TakeHooks, HookStarts, HookReturns, ReleaseReturns, regVars, groupVars
<1>9. UNCHANGED vars => UNCHANGED <<started, runners, task>>
  BY DEF vars, regVars, groupVars
<1>10. QED
  BY <1>1, <1>2, <1>3, <1>4, <1>5, <1>6, <1>7, <1>8, <1>9 DEF Next

(* No step undoes what Run has waited for.                                  *)
LEMMA StepWaited == IInv /\ [Next]_vars => Waited'
<1> SUFFICES ASSUME IInv, [Next]_vars PROVE Waited'
  OBVIOUS
<1> USE LifecycleAssumption DEF IInv, TypeOK, Waited, Releasing, Ended, Idle, vars, regVars, groupVars
<1>1. ASSUME NEW r \in Runners, Go(r) PROVE Waited'
  BY <1>1 DEF Go
<1>2. ASSUME NEW r \in Runners, RunnerEnds(r) PROVE Waited'
  BY <1>2 DEF RunnerEnds, RunnerReturns, RunnerFails, RunnerLeaves, Tasks
<1>3. ASSUME NEW h \in Hooks, OnShutdown(h) PROVE Waited'
  BY <1>3 DEF OnShutdown
<1>4. CASE RunStart
  BY <1>4 DEF RunStart
<1>5. CASE CancelParent
  BY <1>5 DEF CancelParent
<1>6. CASE ServerEnds
  BY <1>6 DEF ServerEnds, Tasks
<1>7. CASE ShutdownBegin
  BY <1>7 DEF ShutdownBegin
<1>8. CASE ShutdownReturns
  BY <1>8 DEF ShutdownReturns
<1>9. CASE WaitForGroup
  BY <1>9 DEF WaitForGroup, Timeout
<1>10. CASE Expire
  BY <1>10 DEF Expire
<1>11. CASE CloseCalled
  BY <1>11 DEF CloseCalled
<1>12. ASSUME NEW q \in Requests, RequestArrives(q) PROVE Waited'
  BY <1>12 DEF RequestArrives
<1>13. ASSUME NEW q \in Requests, Hijack(q) \/ RequestEnds(q) PROVE Waited'
  BY <1>13 DEF Hijack, RequestEnds
<1>14. ASSUME NEW k \in Owners, TakeHooks(k) PROVE Waited'
  BY <1>14 DEF TakeHooks, Caller, At, Owners
<1>15. ASSUME NEW k \in Owners, HookStarts(k) PROVE Waited'
  BY <1>15 DEF HookStarts
<1>16. ASSUME NEW k \in Owners, HookReturns(k) PROVE Waited'
  BY <1>16 DEF HookReturns
<1>17. ASSUME NEW k \in Owners, ReleaseReturns(k) PROVE Waited'
  BY <1>17 DEF ReleaseReturns, Caller, At, Owners
<1>18. CASE UNCHANGED vars
  BY <1>18
<1>19. QED
  BY <1>1, <1>2, <1>3, <1>4, <1>5, <1>6, <1>7, <1>8, <1>9, <1>10, <1>11, <1>12, <1>13, <1>14,
     <1>15, <1>16, <1>17, <1>18 DEF Next, RunStep, ReleaseStep

(* The loop over the hooks goes down its copy, whatever is registered or    *)
(* called meanwhile.                                                        *)
LEMMA StepLooping == IInv /\ [Next]_vars => Looping'
<1> SUFFICES ASSUME IInv, [Next]_vars PROVE Looping'
  OBVIOUS
<1> USE LifecycleAssumption DEF IInv, TypeOK, Looping
<1>1. ASSUME UNCHANGED <<hooks, hookVars>>, run' = run \/ owner # "run"
      PROVE  Looping'
  BY <1>1 DEF hookVars
<1>2. ASSUME NEW h \in Hooks, OnShutdown(h) PROVE Looping'
  <2>1. /\ hooks' = Append(hooks, h) /\ UNCHANGED <<hookVars, run>>
        /\ \A i \in 1..Len(hooks) : hooks[i] # h
    BY <1>2 DEF OnShutdown
  <2>2. /\ Len(hooks') = Len(hooks) + 1
        /\ \A i \in 1..Len(hooks) : hooks'[i] = hooks[i]
        /\ hooks'[Len(hooks) + 1] = h
        /\ Len(hooks) \in Nat /\ Len(taken) \in Nat
    BY <2>1, AppendFacts
  <2>3. QED
    BY <2>1, <2>2 DEF hookVars
<1>3. ASSUME NEW k \in Owners, TakeHooks(k) PROVE Looping'
  <2>1. CASE AlreadyRan
    <3>1. UNCHANGED <<hooks, hookVars>> /\ hooksRan /\ Caller(k, "returned")
      BY <1>3, <2>1 DEF TakeHooks, AlreadyRan, regVars
    <3>2. CASE k = "run"
      BY <1>1, <1>3, <3>1, <3>2 DEF TakeHooks, At
    <3>3. CASE k # "run"
      BY <1>1, <3>1, <3>3 DEF Caller
    <3>4. QED
      BY <3>2, <3>3
  <2>2. CASE ~AlreadyRan
    <3>1. /\ owner = None /\ ran = <<>> /\ executing = None
          /\ Caller(k, "hooks") /\ hooksRan' = TRUE /\ owner' = k /\ taken' = hooks
          /\ index' = Len(hooks) /\ UNCHANGED <<executing, ran, hooks>>
      BY <1>3, <2>2 DEF TakeHooks, AlreadyRan, LastHook, regVars
    <3>2. k # None /\ (k = "run" => run' = "hooks")
      BY <3>1 DEF Caller
    <3>3. Len(hooks) \in Nat
      OBVIOUS
    <3>4. QED
      BY <3>1, <3>2, <3>3
  <2>3. QED
    BY <2>1, <2>2
<1>4. ASSUME NEW k \in Owners, HookStarts(k) PROVE Looping'
  <2>1. /\ owner = k /\ executing = None /\ index > 0
        /\ executing' = taken[index] /\ ran' = Append(ran, taken[index])
        /\ UNCHANGED <<hooks, hooksRan, owner, taken, index, run>>
    BY <1>4 DEF HookStarts, NextHook, regVars
  <2>2. index \in 1..Len(taken) /\ taken[index] \in Hooks /\ ran \in Seq(Hooks)
    BY <2>1
  <2>3. /\ Len(ran') = Len(ran) + 1
        /\ \A i \in 1..Len(ran) : ran'[i] = ran[i]
        /\ ran'[Len(ran) + 1] = taken[index]
        /\ Len(ran) \in Nat
    <3> HIDE DEF IInv, TypeOK, Looping
    <3>1. QED
      BY <2>1, <2>2, AppendFacts
  <2>4. Len(ran) + 1 = Len(taken) + 1 - index /\ executing' # None
    BY <2>1, <2>2
  <2>5. ASSUME NEW i \in 1..Len(ran') PROVE ran'[i] = taken[Len(taken) + 1 - i]
    <3>1. CASE i \in 1..Len(ran)
      BY <2>3, <3>1
    <3>2. CASE i = Len(ran) + 1
      <4>1. Len(taken) \in Nat /\ index \in Nat
        BY <2>2
      <4>2. Len(taken) + 1 - i = index
        BY <2>3, <2>4, <3>2, <4>1
      <4>3. QED
        BY <2>3, <3>2, <4>2
    <3>3. QED
      BY <2>3, <3>1, <3>2
  <2>6. QED
    BY <1>4, <2>1, <2>2, <2>3, <2>4, <2>5 DEF HookStarts, At, Owners
<1>5. ASSUME NEW k \in Owners, HookReturns(k) PROVE Looping'
  BY <1>5 DEF HookReturns, At, Owners, regVars
<1>6. ASSUME NEW k \in Owners, ReleaseReturns(k) PROVE Looping'
  BY <1>6 DEF ReleaseReturns, HooksFinished, Caller, At, Owners, hookVars, regVars
<1>7. (\E r \in Runners : Go(r) \/ RunnerEnds(r)) => UNCHANGED <<hooks, hookVars, run>>
  BY DEF Go, RunnerEnds, RunnerReturns, RunnerFails, RunnerLeaves, regVars
<1>8. RunStart \/ RunStep => UNCHANGED <<hooks, hookVars>> /\ owner # "run"
  BY DEF RunStart, RunStep, ShutdownBegin, ShutdownReturns, WaitForGroup, regVars
<1>9. CancelParent \/ ServerEnds \/ Expire \/ CloseCalled => UNCHANGED <<hooks, hookVars, run>>
  BY DEF CancelParent, ServerEnds, Expire, CloseCalled, regVars
<1>10. (\E q \in Requests : RequestArrives(q) \/ Hijack(q) \/ RequestEnds(q))
         => UNCHANGED <<hooks, hookVars, run>>
  BY DEF RequestArrives, Hijack, RequestEnds, regVars
<1>11. UNCHANGED vars => UNCHANGED <<hooks, hookVars, run>>
  BY DEF vars, regVars
<1>12. QED
  BY <1>1, <1>2, <1>3, <1>4, <1>5, <1>6, <1>7, <1>8, <1>9, <1>10, <1>11 DEF Next, ReleaseStep

(* The conjunction holds in every reachable state.                          *)
LEMMA Inductive == Spec => []IInv
<1>1. IInv /\ [Next]_vars => IInv'
  BY StepTyped, StepRunners, StepWaited, StepLooping DEF IInv
<1>2. QED
  BY <1>1, InitInv, PTL DEF Spec

(* Type correctness for any number of runners and hooks: in particular the  *)
(* loop over the hooks never leaves the copy it was started on.             *)
THEOREM TypeCorrect == Spec => []TypeOK
<1>1. IInv => TypeOK
  BY DEF IInv
<1>2. QED
  BY <1>1, Inductive, PTL

(* Every runner that Go accepted is started by Run.                         *)
THEOREM NoRunnerIsForgotten == Spec => []AcceptedRunnersRun
<1>1. IInv => AcceptedRunnersRun
  BY DEF IInv
<1>2. QED
  BY <1>1, Inductive, PTL

(* Run begins to release resources only when no runner, not the server and  *)
(* no request on a connection of net/http uses them any more, or the        *)
(* shutdown timeout has expired.                                            *)
THEOREM ReleasesAfterUse == Spec => []ResourcesOutliveUsers
<1>1. IInv => ResourcesOutliveUsers
  BY DEF IInv, Waited, Releasing, Looping, ResourcesOutliveUsers
<1>2. QED
  BY <1>1, Inductive, PTL

(* Across any calls of Run and Close, the hooks that begin are distinct and *)
(* in reverse registration order.                                           *)
THEOREM HooksRunOnceInReverse == Spec => []HooksOnceInReverse
<1>1. IInv => HooksOnceInReverse
  <2> SUFFICES ASSUME IInv, NEW i \in DOMAIN ran, NEW j \in DOMAIN ran, i < j
               PROVE  \E m, n \in DOMAIN hooks : m < n /\ hooks[m] = ran[j] /\ hooks[n] = ran[i]
    BY DEF HooksOnceInReverse
  <2> DEFINE m == Len(taken) + 1 - j
             n == Len(taken) + 1 - i
  <2>1. /\ Len(ran) \in Nat /\ Len(taken) \in Nat /\ Len(hooks) \in Nat
        /\ DOMAIN ran = 1..Len(ran) /\ DOMAIN hooks = 1..Len(hooks)
        /\ index \in 0..Len(taken) /\ Len(taken) <= Len(hooks)
    BY DEF IInv, TypeOK, Looping
  <2>2. Len(ran) <= Len(taken)
    BY <2>1 DEF IInv, Looping
  <2>3. m \in 1..Len(taken) /\ n \in 1..Len(taken) /\ m < n
    BY <2>1, <2>2
  <2>4. ran[j] = taken[m] /\ ran[i] = taken[n] /\ taken[m] = hooks[m] /\ taken[n] = hooks[n]
    BY <2>1, <2>3 DEF IInv, Looping
  <2>5. m \in DOMAIN hooks /\ n \in DOMAIN hooks
    BY <2>1, <2>3
  <2>6. QED
    BY <2>3, <2>4, <2>5
<1>2. QED
  BY <1>1, Inductive, PTL

(* When Run returns after releasing, every hook of its copy has run.        *)
THEOREM RunsEveryHook == Spec => []EveryHookRan
<1>1. IInv => EveryHookRan
  <2> SUFFICES ASSUME IInv, run = "returned", owner = "run", NEW i \in DOMAIN taken
               PROVE  \E j \in DOMAIN ran : ran[j] = taken[i]
    BY DEF EveryHookRan
  <2>1. /\ Len(ran) \in Nat /\ Len(taken) \in Nat
        /\ DOMAIN ran = 1..Len(ran) /\ DOMAIN taken = 1..Len(taken)
    BY DEF IInv, TypeOK
  <2>2. Len(ran) = Len(taken)
    BY <2>1 DEF IInv, Looping
  <2>3. Len(taken) + 1 - i \in 1..Len(ran)
    BY <2>1, <2>2
  <2>4. ran[Len(taken) + 1 - i] = taken[i]
    BY <2>1, <2>2, <2>3 DEF IInv, Looping
  <2>5. QED
    BY <2>1, <2>3, <2>4
<1>2. QED
  BY <1>1, Inductive, PTL

(* Run returns without an error only if nothing failed and every goroutine  *)
(* of the group had returned.                                               *)
THEOREM NoFailureIsLost == Spec => []FailureIsReported
<1>1. IInv => FailureIsReported
  BY DEF IInv, Waited, Releasing, FailureIsReported
<1>2. QED
  BY <1>1, Inductive, PTL

-----------------------------------------------------------------------------
(* A step of New, of the scheduler or of the worker is a step of the        *)
(* lifecycle or one that it does not see.                                   *)
LEMMA StepImplements == BackgroundNext => [Next]_vars
<1> SUFFICES ASSUME BackgroundNext PROVE Next \/ UNCHANGED vars
  OBVIOUS
<1>0. /\ Resources \subseteq Hooks /\ "queue" \in Runners /\ "scheduler" \in Runners
  BY BackgroundAssumption
<1>1. ASSUME NEW h \in Hooks, OnShutdown(h) PROVE Next
  BY <1>1 DEF Next
<1>2. ASSUME NEW r \in Runners, Go(r) \/ RunnerReturns(r) \/ RunnerFails(r) PROVE Next
  BY <1>2 DEF Next, RunnerEnds
<1>3. CASE NewStep
  <2>1. CASE Resolve \/ OpenQueue \/ OpenDatabase \/ UndoCloses
    BY <2>1 DEF Resolve, OpenQueue, OpenDatabase, UndoCloses
  <2>2. CASE HookDatabase
    BY <1>0, <1>1, <2>2 DEF HookDatabase, Resources
  <2>3. CASE InstallCache
    BY <1>0, <1>1, <2>3 DEF InstallCache, CacheHooks, Resources
  <2>4. CASE InstallStore
    BY <1>0, <1>1, <2>4 DEF InstallStore, CacheHooks, Resources
  <2>5. CASE InstallQueue
    BY <1>0, <1>1, <2>5 DEF InstallQueue, Resources
  <2>6. CASE InstallWorker
    BY <1>0, <1>2, <2>6 DEF InstallWorker
  <2>7. CASE InstallPing
    BY <1>0, <1>1, <2>7 DEF InstallPing, Resources
  <2>8. CASE Undo
    BY <2>8 DEF Undo, Next
  <2>9. QED
    BY <1>3, <2>1, <2>2, <2>3, <2>4, <2>5, <2>6, <2>7, <2>8 DEF NewStep
<1>4. CASE Lives
  <2>1. CASE Registers
    BY <1>0, <1>1, <1>2, <2>1 DEF Registers
  <2>2. CASE Serves
    BY <2>2 DEF Serves, Next
  <2>3. QED
    BY <1>4, <2>1, <2>2 DEF Lives
<1>5. CASE ShutdownExpires
  BY <1>5 DEF ShutdownExpires, Next
<1>6. CASE \E k \in Owners : Releases(k)
  BY <1>6 DEF Releases, Next
<1>7. CASE SchedulerStep
  BY <1>0, <1>2, <1>7 DEF SchedulerStep, SchedulerStores, SchedulerStarts, SchedulerStops, SchedulerReturns
<1>8. CASE WorkerStep
  BY <1>0, <1>2, <1>8 DEF WorkerStep, WorkerStarts, WorkerStops, WorkerReturns, Queueing
<1>9. CASE (\E j \in CronJobs : Tick(j)) \/ (\E i \in live : CronJobEnds(i)) \/ \E q \in QueueJobs : QueueStep(q)
  BY <1>9 DEF Tick, CronJobEnds, QueueStep, Enqueue, RunInline, Fetch, HandlerReturns, Queueing
<1>10. QED
  BY <1>3, <1>4, <1>5, <1>6, <1>7, <1>8, <1>9 DEF BackgroundNext

(* So what is proved of the lifecycle holds here.                           *)
LEMMA LifecycleHolds == BackgroundSpec => []IInv
<1>1. BackgroundInit => Init
  BY DEF BackgroundInit
<1>2. [BackgroundNext]_allVars => [Next]_vars
  BY StepImplements DEF allVars
<1>3. QED
  BY <1>1, <1>2, Inductive, PTL DEF BackgroundSpec, Spec

-----------------------------------------------------------------------------
(* Jobs.                                                                    *)

(* Nothing of the group runs before Run; what the scheduler started is      *)
(* under way only while its Run is, or after it gave up; likewise the       *)
(* worker.                                                                  *)
JobInv ==
  /\ run = "idle" => \A t \in Tasks : task[t] = "idle"
  /\ sched \in {"stored", "on", "stopping"} => task["scheduler"] = "running"
  /\ worker \in {"up", "draining"} => task["queue"] = "running"
  /\ live # {} => sched \in {"on", "stopping"} \/ gaveUp
  /\ handling # {} => worker \in {"up", "draining"} \/ gaveUp

LEMMA JobStep == IInv /\ JobInv /\ [BackgroundNext]_allVars => JobInv'
<1> SUFFICES ASSUME IInv, JobInv, [BackgroundNext]_allVars PROVE JobInv'
  OBVIOUS
<1>0. /\ "queue" \in Tasks /\ "scheduler" \in Tasks
      /\ task \in [Tasks -> {"idle", "running", "ended"}]
      /\ Server # "queue" /\ Server # "scheduler"
  BY BackgroundAssumption, LifecycleAssumption DEF Tasks, IInv, TypeOK
<1>1. ASSUME UNCHANGED <<task, schedVars, queueVars, gaveUp>>, run' = run \/ run' # "idle"
      PROVE  JobInv'
  BY <1>1 DEF JobInv, schedVars, queueVars
<1>2. ASSUME NEW r \in Runners \ {"queue", "scheduler"}, RunnerEnds(r), UNCHANGED <<schedVars, queueVars, gaveUp>>
      PROVE  JobInv'
  BY <1>0, <1>2 DEF RunnerEnds, RunnerReturns, RunnerFails, RunnerLeaves, JobInv, schedVars, queueVars
<1>3. CASE NewStep
  <2>1. UNCHANGED <<task, run, schedVars, queueVars, gaveUp>>
    BY <1>3 DEF NewStep, Resolve, OpenQueue, OpenDatabase, HookDatabase, InstallCache, InstallStore,
       InstallQueue, InstallWorker, InstallPing, Undo, UndoCloses, Booting, OnShutdown, Go, CloseCalled,
       vars, groupVars
  <2>2. QED
    BY <1>1, <2>1
<1>4. CASE Lives
  <2>1. UNCHANGED <<schedVars, queueVars, gaveUp>>
    BY <1>4 DEF Lives
  <2>2. CASE Registers
    BY <1>1, <2>1, <2>2 DEF Registers, Go, OnShutdown, groupVars
  <2>3. CASE RunStart
    BY <1>0, <2>1, <2>3 DEF RunStart, JobInv, schedVars, queueVars
  <2>4. CASE ServerEnds
    BY <1>0, <2>1, <2>4 DEF ServerEnds, JobInv, schedVars, queueVars
  <2>5. CASE CancelParent \/ RunStep \/ CloseCalled \/ \E q \in Requests : RequestArrives(q) \/ Hijack(q) \/ RequestEnds(q)
    <3>1. UNCHANGED task /\ (run' = run \/ run' # "idle")
      BY <2>5 DEF CancelParent, RunStep, ShutdownBegin, ShutdownReturns, WaitForGroup, CloseCalled,
         RequestArrives, Hijack, RequestEnds, groupVars
    <3>2. QED
      BY <1>1, <2>1, <3>1
  <2>6. CASE \E r \in Runners \ {"queue", "scheduler"} : Go(r)
    BY <1>1, <2>1, <2>6 DEF Go, groupVars
  <2>7. QED
    BY <1>2, <1>4, <2>1, <2>2, <2>3, <2>4, <2>5, <2>6 DEF Lives, Serves
<1>5. CASE ShutdownExpires
  BY <1>1, <1>5 DEF ShutdownExpires, Expire, groupVars
<1>6. ASSUME NEW k \in Owners, Releases(k) PROVE JobInv'
  <2>1. UNCHANGED <<task, schedVars, queueVars, gaveUp>> /\ (run' = run \/ run' # "idle")
    BY <1>6 DEF Releases, ReleaseStep, TakeHooks, HookStarts, HookReturns, ReleaseReturns, Caller, groupVars
  <2>2. QED
    BY <1>1, <2>1
<1>7. CASE SchedulerStep
  BY <1>0, <1>7 DEF SchedulerStep, SchedulerStores, SchedulerStarts, SchedulerStops, SchedulerReturns, Scheduling,
     RunnerReturns, RunnerLeaves, JobsAreDone, JobInv, vars, groupVars, queueVars
<1>8. CASE WorkerStep
  BY <1>0, <1>8 DEF WorkerStep, WorkerStarts, WorkerStops, WorkerReturns, Queueing,
     RunnerReturns, RunnerFails, RunnerLeaves, JobInv, vars, groupVars, schedVars
<1>9. CASE (\E j \in CronJobs : Tick(j)) \/ \E i \in live : CronJobEnds(i)
  BY <1>9 DEF Tick, CronJobEnds, JobInv, vars, groupVars, queueVars
<1>10. CASE \E q \in QueueJobs : QueueStep(q)
  BY <1>10 DEF QueueStep, Enqueue, RunInline, Fetch, HandlerReturns, Queueing, JobInv, vars, groupVars, schedVars
<1>11. CASE UNCHANGED allVars
  BY <1>1, <1>11 DEF allVars, vars, groupVars
<1>12. QED
  BY <1>3, <1>4, <1>5, <1>6, <1>7, <1>8, <1>9, <1>10, <1>11 DEF BackgroundNext

(* When Run begins to close resources, no scheduled job and no job of the   *)
(* queue is running, unless a timeout of the shutdown passed.               *)
THEOREM NoJobOutlivesItsResources == BackgroundSpec => []JobsOutliveNothing
<1>1. BackgroundInit => JobInv
  BY DEF BackgroundInit, Init, JobInv
<1>2. IInv /\ JobInv => JobsOutliveNothing
  <2> SUFFICES ASSUME IInv, JobInv, owner = "run", ran # <<>>, ~expired, ~gaveUp
               PROVE  live = {} /\ handling = {}
    BY DEF JobsOutliveNothing
  <2>1. Ended
    BY DEF IInv, Waited, Releasing, Looping
  <2>2. task["scheduler"] # "running" /\ task["queue"] # "running"
    BY <2>1, BackgroundAssumption DEF Ended, Tasks
  <2>3. QED
    BY <2>2 DEF JobInv
<1>3. QED
  BY <1>1, <1>2, JobStep, LifecycleHolds, PTL DEF BackgroundSpec

-----------------------------------------------------------------------------
(* Connections.                                                             *)

(* Somewhere in a sequence, and never but after another.                    *)
In(s, h) == \E i \in 1..Len(s) : s[i] = h

Precedes(s, a, b) == \A n \in 1..Len(s) : s[n] = b => \E m \in 1..(n - 1) : s[m] = a

(* Where New is before somebody else has the application.                   *)
Building == {"resolve", "queue", "database", "hook", "cache", "store", "install", "worker", "ping", "undo"}

(* While New builds, nobody releases; what it has passed is registered.     *)
BootInv ==
  /\ options.cache \in {"memory", "redis"}
  /\ boot \in Building => run = "idle" /\ close = "idle" /\ ~hooksRan
  /\ boot = "hook" => "database" \in open
  /\ boot \in {"cache", "store", "install"} /\ options.database => In(hooks, "database")
  /\ boot = "store" => In(hooks, "redis") /\ options.cache = "redis"
  /\ boot = "install" => In(hooks, "store")
  /\ boot \in {"worker", "ping", "undo", "undoing", "ready"} => In(hooks, "jobs")

(* The hooks come in the order in which their resources build on each       *)
(* other, and the owner's copy has all hooks of resources.                  *)
OrderInv ==
  /\ options.cache = "redis" => Precedes(hooks, "redis", "store")
  /\ Precedes(hooks, "store", "jobs")
  /\ options.database => Precedes(hooks, "database", "jobs")
  /\ hooksRan => \A n \in 1..Len(hooks) : hooks[n] \in Resources => n <= Len(taken)
  /\ executing # None => In(ran, executing)

(* A resource is closed by its hook and by nothing else.                    *)
OpenInv ==
  /\ \A r \in {"redis", "store", "database"} : In(hooks, r) /\ ~In(ran, r) => r \in open
  /\ \A r \in open : ~In(ran, r)
  /\ "store" \in open => In(hooks, "store")

ConnInv == BootInv /\ OrderInv /\ OpenInv

(* One more hook at the end disturbs no order but its own.                  *)
LEMMA AppendOrder ==
  ASSUME NEW S, NEW s \in Seq(S), NEW h \in S
  PROVE  /\ \A x : In(Append(s, h), x) <=> In(s, x) \/ x = h
         /\ \A a, b : Precedes(s, a, b) /\ (b # h \/ In(s, a)) => Precedes(Append(s, h), a, b)
<1> DEFINE t == Append(s, h)
<1>1. /\ Len(t) = Len(s) + 1 /\ Len(s) \in Nat
      /\ \A i \in 1..Len(s) : t[i] = s[i]
      /\ t[Len(s) + 1] = h
  BY AppendFacts
<1> HIDE DEF t
<1>2. \A x : In(t, x) <=> In(s, x) \/ x = h
  BY <1>1 DEF In
<1>3. ASSUME NEW a, NEW b, Precedes(s, a, b), b # h \/ In(s, a)
      PROVE  Precedes(t, a, b)
  <2> SUFFICES ASSUME NEW n \in 1..Len(t), t[n] = b PROVE \E m \in 1..(n - 1) : t[m] = a
    BY DEF Precedes
  <2>1. CASE n \in 1..Len(s)
    <3>1. PICK m \in 1..(n - 1) : s[m] = a
      BY <1>1, <1>3, <2>1 DEF Precedes
    <3>2. m \in 1..Len(s)
      BY <1>1, <2>1, <3>1
    <3>3. QED
      BY <1>1, <3>1, <3>2
  <2>2. CASE n = Len(s) + 1
    BY <1>1, <1>3, <2>2 DEF In
  <2>3. QED
    BY <1>1, <2>1, <2>2
<1>4. QED
  BY <1>2, <1>3 DEF t

(* When a hook has begun, so have those of whatever was registered later.   *)
LEMMA ReverseOrder ==
  ASSUME IInv, OrderInv, NEW a \in Resources, NEW b \in Resources,
         Precedes(hooks, a, b), In(hooks, b), In(ran, a)
  PROVE  In(ran, b)
<1>1. /\ Len(ran) \in Nat /\ Len(taken) \in Nat /\ Len(hooks) \in Nat
      /\ index \in 0..Len(taken) /\ Len(taken) <= Len(hooks)
      /\ \A i \in 1..Len(taken) : taken[i] = hooks[i]
      /\ \A i, j \in 1..Len(hooks) : hooks[i] = hooks[j] => i = j
      /\ \A i \in 1..Len(ran) : ran[i] = taken[Len(taken) + 1 - i]
      /\ Len(ran) <= Len(taken)
  BY DEF IInv, TypeOK, Looping
<1>2. PICK i \in 1..Len(ran) : ran[i] = a
  BY DEF In
<1>3. PICK n \in 1..Len(hooks) : hooks[n] = b
  BY DEF In
<1>4. PICK m \in 1..(n - 1) : hooks[m] = a
  BY <1>3 DEF Precedes
<1>5. Len(taken) + 1 - i \in 1..Len(taken) /\ hooks[Len(taken) + 1 - i] = a
  <2>1. Len(taken) + 1 - i \in 1..Len(taken)
    BY <1>1, <1>2
  <2>2. ran[i] = taken[Len(taken) + 1 - i]
    BY <1>1, <1>2
  <2>3. taken[Len(taken) + 1 - i] = hooks[Len(taken) + 1 - i]
    BY <1>1, <2>1
  <2>4. QED
    BY <1>2, <2>1, <2>2, <2>3
<1>6. m \in 1..Len(hooks) /\ m = Len(taken) + 1 - i
  <2>1. m \in 1..Len(hooks) /\ Len(taken) + 1 - i \in 1..Len(hooks)
    BY <1>1, <1>3, <1>4, <1>5
  <2>2. hooks[m] = hooks[Len(taken) + 1 - i]
    BY <1>4, <1>5
  <2>3. QED
    BY <1>1, <2>1, <2>2
<1>7. hooksRan
  <2>1. owner # None
    BY <1>1, <1>2 DEF IInv, Looping
  <2>2. QED
    BY <2>1 DEF IInv, Looping
<1>8. n <= Len(taken)
  BY <1>3, <1>7 DEF OrderInv
<1>9. Len(taken) + 1 - n \in 1..Len(ran)
  BY <1>1, <1>2, <1>3, <1>4, <1>6, <1>8
<1>10. ran[Len(taken) + 1 - n] = b
  BY <1>1, <1>3, <1>8, <1>9
<1>11. QED
  BY <1>9, <1>10 DEF In

(* What the invariant says of connections.                                  *)
LEMMA ConnImplies == IInv /\ ConnInv => ConnectionsOutliveConsumers
<1> SUFFICES ASSUME IInv, ConnInv PROVE ConnectionsOutliveConsumers
  OBVIOUS
<1>1. ASSUME NEW a \in {"redis", "store", "database"}, NEW b \in Resources,
             Precedes(hooks, a, b), In(hooks, b), b \in open
      PROVE  a \in open
  <2>1. ~In(ran, b)
    BY <1>1 DEF ConnInv, OpenInv
  <2>2. ~In(ran, a)
    BY <1>1, <2>1, ReverseOrder DEF ConnInv, Resources
  <2>3. In(hooks, a)
    <3>1. PICK n \in 1..Len(hooks) : hooks[n] = b
      BY <1>1 DEF In
    <3>2. PICK m \in 1..(n - 1) : hooks[m] = a
      BY <1>1, <3>1 DEF Precedes
    <3>3. Len(hooks) \in Nat
      BY DEF IInv, TypeOK
    <3>4. m \in 1..Len(hooks)
      BY <3>1, <3>2, <3>3
    <3>5. QED
      BY <3>2, <3>4 DEF In
  <2>4. QED
    BY <2>2, <2>3 DEF ConnInv, OpenInv
<1>2. "store" \in open /\ options.cache = "redis" => "redis" \in open
  BY <1>1 DEF ConnInv, OpenInv, OrderInv, Resources
<1>3. boot = "ready" /\ "jobs" \in open => "store" \in open /\ (options.database => "database" \in open)
  BY <1>1 DEF ConnInv, BootInv, OrderInv, Resources
<1>4. QED
  BY <1>2, <1>3 DEF ConnectionsOutliveConsumers

-----------------------------------------------------------------------------
(* A step that registers nothing, closes nothing and leaves New where it is. *)
LEMMA ConnFrame ==
  ASSUME ConnInv, UNCHANGED <<hooks, hookVars, options, open, boot>>,
         boot \in Building => UNCHANGED <<run, close>>
  PROVE  ConnInv'
BY DEF ConnInv, BootInv, OrderInv, OpenInv, hookVars

(* A step of New that registers nothing.                                    *)
LEMMA ConnBuild ==
  ASSUME IInv, ConnInv, boot \in Building, NEW opened \in SUBSET Resources, "store" \notin opened,
         UNCHANGED <<hooks, hookVars, options, run, close>>,
         open' = open \cup opened, BootInv'
  PROVE  ConnInv'
<1>1. ran = <<>>
  BY DEF ConnInv, BootInv, IInv, Looping
<1>2. \A x : ~In(ran, x)
  BY <1>1 DEF In
<1>3. OrderInv'
  BY DEF ConnInv, OrderInv, hookVars
<1>4. OpenInv'
  BY <1>2 DEF ConnInv, OpenInv, hookVars
<1>5. QED
  BY <1>3, <1>4 DEF ConnInv

(* A step of New that registers the hook of a resource it has opened, after *)
(* those of what the resource builds on.                                    *)
LEMMA ConnHook ==
  ASSUME IInv, ConnInv, boot \in Building, NEW h \in Resources, OnShutdown(h), options' = options,
         open \subseteq open', open' \subseteq open \cup {h}, h \in {"redis", "store", "database"} => h \in open',
         h = "store" /\ options.cache = "redis" => In(hooks, "redis"),
         h = "jobs" => In(hooks, "store") /\ (options.database => In(hooks, "database")),
         BootInv'
  PROVE  ConnInv'
<1>1. /\ hooks' = Append(hooks, h) /\ hooks \in Seq(Hooks) /\ h \in Hooks
      /\ UNCHANGED <<hooksRan, owner, taken, index, executing, ran>>
  BY BackgroundAssumption DEF OnShutdown, hookVars, IInv, TypeOK
<1>2. ran = <<>> /\ ~hooksRan /\ executing = None
  BY DEF ConnInv, BootInv, IInv, Looping
<1>3. \A x : ~In(ran, x)
  BY <1>2 DEF In
<1>4. /\ \A x : In(hooks', x) <=> In(hooks, x) \/ x = h
      /\ \A a, b : Precedes(hooks, a, b) /\ (b # h \/ In(hooks, a)) => Precedes(hooks', a, b)
  BY <1>1, AppendOrder
<1>5. OrderInv'
  BY <1>1, <1>2, <1>4 DEF ConnInv, OrderInv
<1>6. OpenInv'
  BY <1>1, <1>3, <1>4 DEF ConnInv, OpenInv
<1>7. QED
  BY <1>5, <1>6 DEF ConnInv

LEMMA NewConn == ASSUME IInv, ConnInv, NewStep PROVE ConnInv'
<1>0. /\ boot \in Building \cup {"undoing"} /\ options' = options
  BY DEF NewStep, Resolve, OpenQueue, OpenDatabase, HookDatabase, InstallCache, InstallStore,
     InstallQueue, InstallWorker, InstallPing, Undo, UndoCloses, Booting, Building
<1>1. CASE Resolve \/ OpenQueue \/ OpenDatabase
  <2>1. UNCHANGED <<hooks, hookVars, run, close>>
    BY <1>1 DEF Resolve, OpenQueue, OpenDatabase, vars, regVars
  <2>2. boot \in Building /\ ~hooksRan /\ run = "idle" /\ close = "idle"
    BY <1>1 DEF Resolve, OpenQueue, OpenDatabase, Booting, Building, ConnInv, BootInv
  <2>3. PICK opened \in {{}, {"jobs"}, {"database"}} : open' = open \cup opened
    BY <1>1 DEF Resolve, OpenQueue, OpenDatabase, NewGoesOn, NewFails
  <2>4. \/ boot' \in {"failed", "queue", "database"}
        \/ boot' = "cache" /\ ~options.database
        \/ boot' = "hook" /\ "database" \in open'
    BY <1>1 DEF Resolve, OpenQueue, OpenDatabase, NewGoesOn, NewFails
  <2>5. BootInv'
    BY <1>0, <2>1, <2>2, <2>4 DEF BootInv, ConnInv, hookVars
  <2>6. QED
    BY <1>0, <2>1, <2>2, <2>3, <2>5, ConnBuild DEF Resources
<1>2. CASE InstallWorker
  <2>1. UNCHANGED <<hooks, hookVars, run, close>> /\ open' = open /\ boot = "worker" /\ boot' \in {"ready", "ping"}
    BY <1>2 DEF InstallWorker, Go, NewGoesOn, Booting
  <2>2. boot \in Building /\ BootInv'
    BY <1>0, <2>1 DEF BootInv, ConnInv, Building, hookVars
  <2>3. open' = open \cup {}
    BY <2>1
  <2>4. QED
    BY <1>0, <2>1, <2>2, <2>3, ConnBuild DEF Resources
<1>3. CASE InstallPing /\ boot' = "undo"
  <2>1. UNCHANGED <<hooks, hookVars, run, close>> /\ open' = open /\ boot = "ping"
    BY <1>3 DEF InstallPing, Booting, vars, regVars
  <2>2. boot \in Building /\ BootInv'
    BY <1>0, <1>3, <2>1 DEF BootInv, ConnInv, Building, hookVars
  <2>3. open' = open \cup {}
    BY <2>1
  <2>4. QED
    BY <1>0, <2>1, <2>2, <2>3, ConnBuild DEF Resources
<1>4. ASSUME NEW h \in Resources, OnShutdown(h)
      PROVE  /\ UNCHANGED <<hooksRan, run, close>>
             /\ \A x : In(hooks', x) <=> In(hooks, x) \/ x = h
  BY <1>4, AppendOrder, BackgroundAssumption DEF OnShutdown, hookVars, IInv, TypeOK
<1>5. CASE HookDatabase
  <2>1. /\ OnShutdown("database") /\ open' = open /\ boot = "hook" /\ boot' = "cache" /\ "database" \in open
    BY <1>5 DEF HookDatabase, Booting, ConnInv, BootInv
  <2>2. boot \in Building /\ BootInv'
    BY <1>0, <1>4, <2>1 DEF BootInv, ConnInv, Building, Resources
  <2>3. QED
    BY <1>0, <2>1, <2>2, ConnHook DEF Resources
<1>6. CASE InstallCache
  <2>1. CASE options.cache = "memory"
    <3>1. OnShutdown("store") /\ open' = open \cup {"store"} /\ boot = "cache" /\ boot' = "install"
      BY <1>6, <2>1 DEF InstallCache, NewGoesOn, Booting
    <3>2. boot \in Building /\ BootInv'
      BY <1>0, <1>4, <3>1 DEF BootInv, ConnInv, Building, Resources
    <3>3. QED
      BY <1>0, <2>1, <3>1, <3>2, ConnHook DEF Resources
  <2>2. CASE options.cache # "memory"
    <3>1. OnShutdown("redis") /\ open' = open \cup {"redis"} /\ boot = "cache" /\ boot' = "store"
      BY <1>6, <2>2 DEF InstallCache, CacheHooks, Booting
    <3>2. boot \in Building /\ BootInv'
      BY <1>0, <1>4, <2>2, <3>1 DEF BootInv, ConnInv, Building, Resources
    <3>3. QED
      BY <1>0, <3>1, <3>2, ConnHook DEF Resources
  <2>3. QED
    BY <2>1, <2>2
<1>7. CASE InstallStore
  <2>1. /\ OnShutdown("store") /\ open' = open \cup {"store"} /\ boot = "store" /\ boot' = "install"
        /\ In(hooks, "redis")
    BY <1>7 DEF InstallStore, NewGoesOn, CacheHooks, Booting, ConnInv, BootInv
  <2>2. boot \in Building /\ BootInv'
    BY <1>0, <1>4, <2>1 DEF BootInv, ConnInv, Building, Resources
  <2>3. QED
    BY <1>0, <2>1, <2>2, ConnHook DEF Resources
<1>8. CASE InstallQueue
  <2>1. /\ OnShutdown("jobs") /\ open' = open /\ boot = "install" /\ boot' \in {"worker", "ready"}
        /\ In(hooks, "store") /\ (options.database => In(hooks, "database"))
    BY <1>8 DEF InstallQueue, NewGoesOn, Booting, ConnInv, BootInv
  <2>2. boot \in Building /\ BootInv'
    BY <1>0, <1>4, <2>1 DEF BootInv, ConnInv, Building, Resources
  <2>3. QED
    BY <1>0, <2>1, <2>2, ConnHook DEF Resources
<1>9. CASE InstallPing /\ boot' # "undo"
  <2>1. OnShutdown("ping") /\ open' = open \cup {"ping"} /\ boot = "ping" /\ boot' = "ready"
    BY <1>9 DEF InstallPing, Booting
  <2>2. boot \in Building /\ BootInv'
    BY <1>0, <1>4, <2>1 DEF BootInv, ConnInv, Building, Resources
  <2>3. QED
    BY <1>0, <2>1, <2>2, ConnHook DEF Resources
<1>10. CASE Undo
  <2>1. UNCHANGED <<hooks, hookVars>> /\ open' = open /\ boot = "undo" /\ boot' = "undoing"
    BY <1>10 DEF Undo, CloseCalled, Booting, regVars
  <2>2. QED
    BY <1>0, <2>1 DEF ConnInv, BootInv, OrderInv, OpenInv, Building, hookVars
<1>11. CASE UndoCloses
  <2>1. UNCHANGED <<hooks, hookVars>> /\ open' = open \ {"jobs"} /\ boot' = "failed"
    BY <1>11 DEF UndoCloses, Booting, vars, regVars
  <2>2. QED
    BY <1>0, <2>1 DEF ConnInv, BootInv, OrderInv, OpenInv, Building, hookVars
<1>12. QED
  BY <1>1, <1>2, <1>3, <1>5, <1>6, <1>7, <1>8, <1>9, <1>10, <1>11 DEF NewStep

(* The owner of the hooks closes what it has begun to run.                  *)
LEMMA ReleaseConn == ASSUME IInv, ConnInv, NEW k \in Owners, Releases(k) PROVE ConnInv'
<1>0. UNCHANGED <<options, boot, hooks>> /\ boot \notin Building
      /\ open' = IF executing' # None THEN open \ {executing'} ELSE open
  <2>1. At(k) \in {"release", "hooks"}
    BY DEF Releases, ReleaseStep, TakeHooks, HookStarts, HookReturns, ReleaseReturns
  <2>2. boot \notin Building
    BY <2>1 DEF At, ConnInv, BootInv, Owners
  <2>3. QED
    BY <2>2 DEF Releases, ReleaseStep, TakeHooks, HookStarts, HookReturns, ReleaseReturns, regVars
<1>1. ASSUME UNCHANGED <<ran, hooksRan, taken>>, executing' \in {executing, None} PROVE ConnInv'
  <2>1. \A r \in open' : r \in open
    BY <1>0
  <2>2. \A r \in open \ open' : In(ran, r)
    BY <1>0, <1>1 DEF ConnInv, OrderInv
  <2>3. QED
    BY <1>0, <1>1, <2>1, <2>2 DEF ConnInv, BootInv, OrderInv, OpenInv
<1>2. CASE TakeHooks(k)
  <2>1. CASE AlreadyRan
    BY <1>1, <1>2, <2>1 DEF TakeHooks, hookVars
  <2>2. CASE ~AlreadyRan
    <3>1. taken' = hooks /\ UNCHANGED <<executing, ran>> /\ executing = None /\ Len(hooks) \in Nat
      BY <1>2, <2>2 DEF TakeHooks, AlreadyRan, IInv, TypeOK, Looping
    <3>2. QED
      BY <1>0, <3>1 DEF ConnInv, BootInv, OrderInv, OpenInv
  <2>3. QED
    BY <2>1, <2>2
<1>3. CASE HookStarts(k)
  <2>1. /\ executing = None /\ index \in 1..Len(taken) /\ executing' = taken[index] /\ taken[index] \in Hooks
        /\ ran \in Seq(Hooks) /\ ran' = Append(ran, taken[index]) /\ UNCHANGED <<hooksRan, taken>>
    BY <1>3 DEF HookStarts, NextHook, IInv, TypeOK
  <2>2. \A x : In(ran', x) <=> In(ran, x) \/ x = taken[index]
    BY <2>1, AppendOrder
  <2>3. executing' # None /\ open' = open \ {executing'}
    BY <1>0, <2>1, LifecycleAssumption
  <2>4. BootInv'
    BY <1>0, <2>1, <2>3 DEF ConnInv, BootInv, Building
  <2>5. OrderInv'
    BY <1>0, <2>1, <2>2 DEF ConnInv, OrderInv
  <2>6. OpenInv'
    BY <1>0, <2>1, <2>2, <2>3 DEF ConnInv, OpenInv
  <2>7. QED
    BY <2>4, <2>5, <2>6 DEF ConnInv
<1>4. CASE HookReturns(k)
  BY <1>1, <1>4 DEF HookReturns
<1>5. CASE ReleaseReturns(k)
  BY <1>1, <1>5 DEF ReleaseReturns, hookVars
<1>6. QED
  BY <1>2, <1>3, <1>4, <1>5 DEF Releases, ReleaseStep

LEMMA ConnStep == IInv /\ ConnInv /\ [BackgroundNext]_allVars => ConnInv'
<1> SUFFICES ASSUME IInv, ConnInv, [BackgroundNext]_allVars PROVE ConnInv'
  OBVIOUS
<1>1. CASE Lives
  <2>0. boot = "ready" /\ UNCHANGED <<options, boot>> /\ "ready" \notin Building
    BY <1>1 DEF Lives, Building
  <2>1. ASSUME NEW h \in Hooks \ Resources, OnShutdown(h), open' = open PROVE ConnInv'
    <3>1. hooks' = Append(hooks, h) /\ hooks \in Seq(Hooks) /\ UNCHANGED <<hooksRan, taken, executing, ran>>
      BY <2>1 DEF OnShutdown, hookVars, IInv, TypeOK
    <3>2. /\ \A x : In(hooks', x) <=> In(hooks, x) \/ x = h
          /\ \A a, b : Precedes(hooks, a, b) /\ (b # h \/ In(hooks, a)) => Precedes(hooks', a, b)
      BY <3>1, AppendOrder
    <3>3. h \notin {"redis", "store", "database", "jobs"}
      BY DEF Resources
    <3>4. hooksRan => \A n \in 1..Len(hooks') : hooks'[n] \in Resources => n <= Len(taken)
      BY <3>1, AppendFacts DEF ConnInv, OrderInv
    <3>5. QED
      BY <2>0, <2>1, <3>1, <3>2, <3>3, <3>4 DEF ConnInv, BootInv, OrderInv, OpenInv
  <2>2. CASE Registers
    <3>1. CASE Go("scheduler")
      <4>1. UNCHANGED <<hooks, hookVars, open>>
        BY <2>2, <3>1 DEF Registers, Go
      <4>2. QED
        BY <2>0, <4>1, ConnFrame
    <3>2. QED
      BY <2>1, <2>2, <3>1 DEF Registers
  <2>3. CASE Serves
    <3>1. UNCHANGED <<hooks, hookVars, open>>
      BY <2>3 DEF Serves, RunStart, CancelParent, ServerEnds, RunStep, ShutdownBegin, ShutdownReturns, WaitForGroup,
         CloseCalled, RequestArrives, Hijack, RequestEnds, Go, RunnerEnds, RunnerReturns, RunnerFails, RunnerLeaves, regVars
    <3>2. QED
      BY <2>0, <3>1, ConnFrame
  <2>4. QED
    BY <1>1, <2>2, <2>3 DEF Lives
<1>2. CASE ShutdownExpires
  BY <1>2, ConnFrame DEF ShutdownExpires, Expire, regVars, newVars
<1>3. CASE SchedulerStep
  BY <1>3, ConnFrame DEF SchedulerStep, SchedulerStores, SchedulerStarts, SchedulerStops, SchedulerReturns, Scheduling,
     RunnerReturns, RunnerLeaves, vars, regVars, newVars
<1>4. CASE WorkerStep
  BY <1>4, ConnFrame DEF WorkerStep, WorkerStarts, WorkerStops, WorkerReturns, Queueing,
     RunnerReturns, RunnerFails, RunnerLeaves, vars, regVars, newVars
<1>5. CASE (\E j \in CronJobs : Tick(j)) \/ (\E i \in live : CronJobEnds(i)) \/ \E q \in QueueJobs : QueueStep(q)
  BY <1>5, ConnFrame DEF Tick, CronJobEnds, QueueStep, Enqueue, RunInline, Fetch, HandlerReturns, Queueing,
     vars, regVars, newVars
<1>6. CASE UNCHANGED allVars
  BY <1>6, ConnFrame DEF allVars, vars, regVars, newVars
<1>7. QED
  BY <1>1, <1>2, <1>3, <1>4, <1>5, <1>6, NewConn, ReleaseConn DEF BackgroundNext

(* In every configuration, however far New came and whoever closes: the     *)
(* Redis store is closed before its client, and the queue before cache and  *)
(* database.                                                                *)
THEOREM ConsumersCloseFirst == BackgroundSpec => []ConnectionsOutliveConsumers
<1>1. BackgroundInit => ConnInv
  <2> SUFFICES ASSUME BackgroundInit PROVE ConnInv
    OBVIOUS
  <2>1. /\ hooks = <<>> /\ ran = <<>> /\ ~hooksRan /\ run = "idle" /\ close = "idle" /\ open = {}
        /\ boot = "resolve" /\ executing = None
    BY DEF BackgroundInit, Init
  <2>2. options.cache \in {"memory", "redis"}
    BY BackgroundAssumption DEF BackgroundInit, Options
  <2>3. QED
    BY <2>1, <2>2 DEF ConnInv, BootInv, OrderInv, OpenInv, In, Precedes
<1>2. QED
  BY <1>1, ConnStep, ConnImplies, LifecycleHolds, PTL DEF BackgroundSpec

=============================================================================
