-------------------------- MODULE DevServerProofs --------------------------
(***************************************************************************)
(* Theorems about DevServer, for any requests and any number of edits.     *)
(***************************************************************************)
EXTENDS DevServer, TLAPS

(* Who lives is the child, an undelivered result is that of an exited       *)
(* process, and a child is started only when there is none.                 *)
ProcInv ==
  /\ OnlyTheChildLives
  /\ ChildIsUndrained
  /\ \A g \in done : proc[g] = "exited"
  /\ main = "start" => child = NoChild

(* The proxy holds requests all through a rebuild, and what the rebuild     *)
(* waits for is a child of the build it made.                               *)
ReadyInv ==
  /\ ReadyIsTheLastBuild
  /\ main \in {"build", "stop", "start", "ready"} => state = "building"
  /\ main = "ready" => child # NoChild /\ runs[child] = bin

Alive(g) == proc[g] \in {"booting", "serving"}

(* Binaries only get newer: the one at binPath is the newest of all that    *)
(* ran or answered, and who lives is no older than any answer.              *)
AgeInv ==
  /\ main = "build" => bin <= begun
  /\ \A g \in Starts : runs[g] <= bin
  /\ \A q \in Requests : served[q] <= bin /\ before[q] <= bin
  /\ \A g \in Starts : Alive(g) =>
       \A q \in Requests : served[q] <= runs[g] /\ before[q] <= runs[g]
  /\ \A q \in Requests : answer[q] = "application" => request[q] = "answered"
  /\ NeverOlder

(* The inductive invariant.                                                 *)
IInv == TypeOK /\ ProcInv /\ ReadyInv /\ AgeInv

(* No process is numbered like the absence of one.                          *)
LEMMA Numbered == NoChild \notin Starts
  BY DevAssumption DEF Starts, NoChild

(* What the types say of the edit counts.                                   *)
LEMMA Counts ==
  ASSUME TypeOK
  PROVE  /\ source \in Nat /\ begun \in Nat /\ bin \in Nat
         /\ begun <= source /\ bin <= source
         /\ runs \in [Starts -> Nat]
         /\ served \in [Requests -> Nat] /\ before \in [Requests -> Nat]
<1>1. source \in Nat /\ begun \in Nat /\ bin \in Nat /\ begun <= source /\ bin <= source
  BY DevAssumption DEF TypeOK, BuildTypeOK
<1>2. 0..MaxEdits \subseteq Nat
  BY DevAssumption
<1>3. QED
  BY <1>1, <1>2 DEF TypeOK, ProcTypeOK, RequestTypeOK

(* The first rebuild is about to begin, nothing runs and nobody asked.      *)
LEMMA InitInv == Init => IInv
<1> SUFFICES ASSUME Init PROVE IInv
  OBVIOUS
<1> USE DevAssumption DEF Init, Starts, NoChild
<1>1. TypeOK
  <2>1. BuildTypeOK
    <3>1. 0 \in 0..MaxEdits /\ 0 \in 0..0
      OBVIOUS
    <3>2. QED
      BY <3>1 DEF BuildTypeOK
  <2>2. ProcTypeOK
    BY DEF ProcTypeOK
  <2>3. ProxyTypeOK
    BY DEF ProxyTypeOK, Outputs
  <2>4. RequestTypeOK
    BY DEF RequestTypeOK, Outputs
  <2>5. QED
    BY <2>1, <2>2, <2>3, <2>4 DEF TypeOK
<1>2. ProcInv
  BY DEF ProcInv, OnlyTheChildLives, ChildIsUndrained
<1>3. ReadyInv
  BY DEF ReadyInv, ReadyIsTheLastBuild
<1>4. AgeInv
  BY DEF AgeInv, Alive, NeverOlder
<1>5. QED
  BY <1>1, <1>2, <1>3, <1>4 DEF IInv

(* The types of the sources, the watcher and the loop.                       *)
LEMMA StepBuildTyped == TypeOK /\ [Next]_vars => BuildTypeOK'
<1> SUFFICES ASSUME TypeOK, [Next]_vars PROVE BuildTypeOK'
  OBVIOUS
<1> USE DevAssumption DEF TypeOK, Starts, NoChild, Outputs
<1>1. ASSUME UNCHANGED <<editVars, watchVars, buildVars>> PROVE BuildTypeOK'
  BY <1>1 DEF BuildTypeOK, editVars, watchVars, buildVars
<1>2. CASE Edit
  <2>1. source' \in 0..MaxEdits /\ begun' \in 0..source' /\ bin' \in 0..source'
    BY <1>2 DEF Edit, BuildTypeOK, buildVars
  <2>2. noticed' \in 0..source'
    BY <1>2 DEF Edit, BuildTypeOK
  <2>3. events' \subseteq {"file", "dir"}
    BY <1>2 DEF Edit, BuildTypeOK
  <2>4. QED
    BY <1>2, <2>1, <2>2, <2>3 DEF Edit, BuildTypeOK, buildVars
<1>3. CASE MakeDir
  BY <1>3 DEF MakeDir, BuildTypeOK, buildVars
<1>4. CASE TimerFires
  BY <1>4 DEF TimerFires, BuildTypeOK, editVars, buildVars
<1>5. CASE LoopEvent
  BY <1>5 DEF LoopEvent, Trigger, BuildTypeOK, buildVars
<1>6. CASE LoopRebuild
  <2>1. begun' \in 0..source'
    BY <1>6 DEF LoopRebuild, BuildTypeOK, editVars
  <2>2. QED
    BY <1>6, <2>1 DEF LoopRebuild, BuildTypeOK, editVars
<1>7. CASE LoopChildExited
  BY <1>7 DEF LoopChildExited, DropsChild, SetState, Wakes, BuildTypeOK,
     editVars, watchVars, buildVars
<1>8. CASE LoopReturns
  BY <1>8 DEF LoopReturns, BuildTypeOK, editVars, watchVars
<1>9. CASE BuildFails
  BY <1>9 DEF BuildFails, SetState, Wakes, BuildTypeOK, editVars, watchVars
<1>10. CASE BuildSucceeds
  BY <1>10 DEF BuildSucceeds, AfterBuild, BuildTypeOK, editVars, watchVars
<1>11. CASE StopReturns
  BY <1>11 DEF StopReturns, BuildTypeOK, editVars, watchVars
<1>12. CASE StartFails
  BY <1>12 DEF StartFails, SetState, Wakes, BuildTypeOK, editVars, watchVars
<1>13. CASE StartChild
  BY <1>13 DEF StartChild, BuildTypeOK, editVars, watchVars
<1>14. CASE ReadySucceeds
  BY <1>14 DEF ReadySucceeds, SetState, Wakes, BuildTypeOK, editVars, watchVars
<1>15. CASE ReadyChildExited
  BY <1>15 DEF ReadyChildExited, SetState, Wakes, BuildTypeOK, editVars,
     watchVars
<1>16. CASE ReadyTimesOut
  BY <1>16 DEF ReadyTimesOut, SetState, Wakes, BuildTypeOK, editVars, watchVars
<1>17. CASE Returned
  BY <1>17 DEF Returned, BuildTypeOK, editVars, watchVars
<1>18. QED
  BY <1>1, <1>2, <1>3, <1>4, <1>5, <1>6, <1>7, <1>8, <1>9, <1>10, <1>11,
     <1>12, <1>13, <1>14, <1>15, <1>16, <1>17
     DEF Next, Rebuild, Handle, vars, editVars, watchVars, buildVars,
         StopKills, Boots, Exits, RequestArrives, Check, Woken,
         HoldTimesOut, Forward, DeadlinePasses, ClientLeaves

(* The types of the processes.                                               *)
LEMMA StepProcTyped == TypeOK /\ [Next]_vars => ProcTypeOK'
<1> SUFFICES ASSUME TypeOK, [Next]_vars PROVE ProcTypeOK'
  OBVIOUS
<1> USE DevAssumption DEF TypeOK, Starts, NoChild, Outputs
<1>1. ASSUME UNCHANGED <<procVars>> PROVE ProcTypeOK'
  BY <1>1 DEF ProcTypeOK, procVars
<1>2. CASE LoopChildExited
  BY <1>2 DEF LoopChildExited, DropsChild, SetState, Wakes, ProcTypeOK,
     BuildTypeOK
<1>3. CASE StopReturns
  BY <1>3 DEF StopReturns, ProcTypeOK, BuildTypeOK
<1>4. CASE StartChild
  BY <1>4 DEF StartChild, ProcTypeOK, BuildTypeOK
<1>5. CASE ReadyChildExited
  BY <1>5 DEF ReadyChildExited, SetState, Wakes, ProcTypeOK, BuildTypeOK
<1>6. CASE Returned
  BY <1>6 DEF Returned, ProcTypeOK, BuildTypeOK
<1>7. CASE StopKills
  BY <1>7 DEF StopKills, ProcTypeOK, BuildTypeOK
<1>8. ASSUME NEW g \in Starts, Boots(g) PROVE ProcTypeOK'
  BY <1>8 DEF Boots, ProcTypeOK, BuildTypeOK
<1>9. ASSUME NEW g \in Starts, Exits(g) PROVE ProcTypeOK'
  BY <1>9 DEF Exits, ProcTypeOK, BuildTypeOK
<1>10. QED
  BY <1>1, <1>2, <1>3, <1>4, <1>5, <1>6, <1>7, <1>8, <1>9
     DEF Next, Rebuild, Handle, vars, procVars,
         Edit, MakeDir, TimerFires, LoopEvent, LoopRebuild,
         LoopReturns, BuildFails, BuildSucceeds, StartFails,
         ReadySucceeds, ReadyTimesOut, RequestArrives, Check, Woken,
         HoldTimesOut, Forward, DeadlinePasses, ClientLeaves

(* The types of the proxy.                                                   *)
LEMMA StepProxyTyped == TypeOK /\ [Next]_vars => ProxyTypeOK'
<1> SUFFICES ASSUME TypeOK, [Next]_vars PROVE ProxyTypeOK'
  OBVIOUS
<1> USE DevAssumption DEF TypeOK, Starts, NoChild, Outputs
<1>1. ASSUME UNCHANGED <<proxyVars>> PROVE ProxyTypeOK'
  BY <1>1 DEF ProxyTypeOK, proxyVars
<1>2. CASE LoopRebuild
  BY <1>2 DEF LoopRebuild, SetState, Wakes, ProxyTypeOK
<1>3. CASE LoopChildExited
  BY <1>3 DEF LoopChildExited, DropsChild, SetState, Wakes, ProxyTypeOK
<1>4. CASE BuildFails
  BY <1>4 DEF BuildFails, SetState, Wakes, ProxyTypeOK
<1>5. CASE StartFails
  BY <1>5 DEF StartFails, SetState, Wakes, ProxyTypeOK
<1>6. CASE ReadySucceeds
  BY <1>6 DEF ReadySucceeds, SetState, Wakes, ProxyTypeOK
<1>7. CASE ReadyChildExited
  BY <1>7 DEF ReadyChildExited, SetState, Wakes, ProxyTypeOK
<1>8. CASE ReadyTimesOut
  BY <1>8 DEF ReadyTimesOut, SetState, Wakes, ProxyTypeOK
<1>9. ASSUME NEW q \in Requests, Check(q) PROVE ProxyTypeOK'
  BY <1>9 DEF Check, Answer, ProxyTypeOK
<1>10. ASSUME NEW q \in Requests, HoldTimesOut(q) PROVE ProxyTypeOK'
  BY <1>10 DEF HoldTimesOut, Answer, ProxyTypeOK
<1>11. ASSUME NEW q \in Requests, ClientLeaves(q) PROVE ProxyTypeOK'
  BY <1>11 DEF ClientLeaves, ProxyTypeOK
<1>12. QED
  BY <1>1, <1>2, <1>3, <1>4, <1>5, <1>6, <1>7, <1>8, <1>9, <1>10, <1>11
     DEF Next, Rebuild, Handle, vars, proxyVars,
         Edit, MakeDir, TimerFires, LoopEvent, LoopReturns,
         BuildSucceeds, StopReturns, StartChild, Returned, StopKills,
         Boots, Exits, RequestArrives, Woken, Forward, DeadlinePasses

(* The types of the requests.                                                *)
LEMMA StepRequestTyped == TypeOK /\ [Next]_vars => RequestTypeOK'
<1> SUFFICES ASSUME TypeOK, [Next]_vars PROVE RequestTypeOK'
  OBVIOUS
<1> USE DEF TypeOK
<1>1. ASSUME UNCHANGED <<reqVars>> PROVE RequestTypeOK'
  BY <1>1 DEF RequestTypeOK, reqVars
<1>2. ASSUME NEW q \in Requests, RequestArrives(q) PROVE RequestTypeOK'
  <2>1. PICK v \in Answered : before' = [before EXCEPT ![q] = v]
    BY <1>2 DEF RequestArrives
  <2>2. v \in 0..MaxEdits
    BY DEF Answered, RequestTypeOK
  <2>3. QED
    BY <1>2, <2>1, <2>2 DEF RequestArrives, RequestTypeOK
<1>3. ASSUME NEW q \in Requests, Check(q) PROVE RequestTypeOK'
  <2>1. late' = late /\ served' = served /\ before' = before
    BY <1>3 DEF Check
  <2>2. \E r \in {"forward", "held", "answered"} : request' = [request EXCEPT ![q] = r]
    BY <1>3 DEF Check, Answer
  <2>3. request' \in [Requests -> {"none", "check", "held", "forward", "answered"}]
    BY <2>2 DEF RequestTypeOK
  <2>4. answer' = answer \/ \E k \in Outputs \cup {"timeout"} : answer' = [answer EXCEPT ![q] = k]
    BY <1>3 DEF Check, Answer, ProxyTypeOK
  <2>5. answer' \in [Requests -> Outputs \cup {"timeout", "application", "bad gateway"}]
    BY <2>4 DEF RequestTypeOK
  <2>6. QED
    BY <2>1, <2>3, <2>5 DEF RequestTypeOK
<1>4. ASSUME NEW q \in Requests, Woken(q) PROVE RequestTypeOK'
  BY <1>4 DEF Woken, RequestTypeOK
<1>5. ASSUME NEW q \in Requests, HoldTimesOut(q) PROVE RequestTypeOK'
  BY <1>5 DEF HoldTimesOut, Answer, RequestTypeOK
<1>6. ASSUME NEW q \in Requests, Forward(q) PROVE RequestTypeOK'
  <2>1. CASE Listening = {}
    BY <1>6, <2>1 DEF Forward, Answer, RequestTypeOK
  <2>2. CASE Listening # {}
    <3>1. PICK g \in Starts : served' = [served EXCEPT ![q] = runs[g]]
      BY <1>6, <2>2 DEF Forward, Listening
    <3>2. runs[g] \in 0..MaxEdits
      BY DEF ProcTypeOK
    <3>3. QED
      BY <1>6, <2>2, <3>1, <3>2 DEF Forward, Answer, RequestTypeOK
  <2>3. QED
    BY <2>1, <2>2
<1>7. ASSUME NEW q \in Requests, DeadlinePasses(q) PROVE RequestTypeOK'
  BY <1>7 DEF DeadlinePasses, RequestTypeOK
<1>8. ASSUME NEW q \in Requests, ClientLeaves(q) PROVE RequestTypeOK'
  BY <1>8 DEF ClientLeaves, RequestTypeOK
<1>9. QED
  BY <1>1, <1>2, <1>3, <1>4, <1>5, <1>6, <1>7, <1>8
     DEF Next, Rebuild, Handle, vars, reqVars,
         Edit, MakeDir, TimerFires, LoopEvent, LoopRebuild,
         LoopChildExited, LoopReturns, BuildFails, BuildSucceeds,
         StopReturns, StartFails, StartChild, ReadySucceeds,
         ReadyChildExited, ReadyTimesOut, Returned, StopKills, Boots,
         Exits

(* Every step keeps the processes in order: one is started only after the    *)
(* child's result was taken.                                                *)
LEMMA StepProc == IInv /\ [Next]_vars => ProcInv'
<1> SUFFICES ASSUME IInv, [Next]_vars PROVE ProcInv'
  OBVIOUS
<1> USE Numbered DEF IInv, ProcInv, TypeOK, ProcTypeOK
<1>1. ASSUME UNCHANGED <<child, proc, done, main>> PROVE ProcInv'
  BY <1>1 DEF OnlyTheChildLives, ChildIsUndrained
<1>2. CASE Edit
  BY <1>2, <1>1 DEF Edit, buildVars, procVars
<1>3. CASE MakeDir
  BY <1>3, <1>1 DEF MakeDir, buildVars, procVars
<1>4. CASE TimerFires
  BY <1>4, <1>1 DEF TimerFires, buildVars, procVars
<1>5. CASE LoopEvent
  BY <1>5, <1>1 DEF LoopEvent, Trigger, buildVars, procVars
<1>6. CASE LoopRebuild
  BY <1>6 DEF LoopRebuild, SetState, Wakes, procVars, OnlyTheChildLives,
     ChildIsUndrained
<1>7. CASE LoopChildExited
  BY <1>7 DEF LoopChildExited, DropsChild, SetState, Wakes, buildVars,
     OnlyTheChildLives, ChildIsUndrained
<1>8. CASE LoopReturns
  BY <1>8 DEF LoopReturns, procVars, OnlyTheChildLives, ChildIsUndrained
<1>9. CASE BuildFails
  BY <1>9 DEF BuildFails, SetState, Wakes, procVars, OnlyTheChildLives,
     ChildIsUndrained
<1>10. CASE BuildSucceeds
  BY <1>10 DEF BuildSucceeds, AfterBuild, procVars, OnlyTheChildLives,
     ChildIsUndrained
<1>11. CASE StopReturns
  BY <1>11 DEF StopReturns, OnlyTheChildLives, ChildIsUndrained
<1>12. CASE StartFails
  BY <1>12 DEF StartFails, SetState, Wakes, procVars, OnlyTheChildLives,
     ChildIsUndrained
<1>13. CASE StartChild
  <2>1. PICK g \in Starts : /\ proc[g] = "unused"
                            /\ child' = g
                            /\ proc' = [proc EXCEPT ![g] = "booting"]
                            /\ runs' = [runs EXCEPT ![g] = bin]
    BY <1>13 DEF StartChild
  <2>2. main = "start" /\ main' = "ready" /\ child = NoChild /\ done' = done
    BY <1>13 DEF StartChild
  <2>3. \A f \in Starts : proc[f] \notin {"booting", "serving"}
    BY <2>2 DEF OnlyTheChildLives
  <2>4. QED
    BY <2>1, <2>2, <2>3 DEF OnlyTheChildLives, ChildIsUndrained
<1>14. CASE ReadySucceeds
  BY <1>14 DEF ReadySucceeds, SetState, Wakes, procVars, OnlyTheChildLives,
     ChildIsUndrained
<1>15. CASE ReadyChildExited
  BY <1>15 DEF ReadyChildExited, SetState, Wakes, OnlyTheChildLives,
     ChildIsUndrained
<1>16. CASE ReadyTimesOut
  BY <1>16 DEF ReadyTimesOut, SetState, Wakes, procVars, OnlyTheChildLives,
     ChildIsUndrained
<1>17. CASE Returned
  BY <1>17 DEF Returned, OnlyTheChildLives, ChildIsUndrained
<1>18. CASE StopKills
  BY <1>18, <1>1 DEF StopKills, buildVars
<1>19. ASSUME NEW g \in Starts, Boots(g) PROVE ProcInv'
  BY <1>19 DEF Boots, buildVars, OnlyTheChildLives, ChildIsUndrained
<1>20. ASSUME NEW g \in Starts, Exits(g) PROVE ProcInv'
  BY <1>20 DEF Exits, buildVars, OnlyTheChildLives, ChildIsUndrained
<1>21. ASSUME NEW q \in Requests, RequestArrives(q) PROVE ProcInv'
  BY <1>21, <1>1 DEF RequestArrives, Answered, buildVars, procVars
<1>22. ASSUME NEW q \in Requests, Check(q) PROVE ProcInv'
  BY <1>22, <1>1 DEF Check, Answer, buildVars, procVars
<1>23. ASSUME NEW q \in Requests, Woken(q) PROVE ProcInv'
  BY <1>23, <1>1 DEF Woken, buildVars, procVars
<1>24. ASSUME NEW q \in Requests, HoldTimesOut(q) PROVE ProcInv'
  BY <1>24, <1>1 DEF HoldTimesOut, Answer, buildVars, procVars
<1>25. ASSUME NEW q \in Requests, Forward(q) PROVE ProcInv'
  BY <1>25, <1>1 DEF Forward, Answer, Listening, buildVars, procVars
<1>26. ASSUME NEW q \in Requests, DeadlinePasses(q) PROVE ProcInv'
  BY <1>26, <1>1 DEF DeadlinePasses, buildVars, procVars
<1>27. ASSUME NEW q \in Requests, ClientLeaves(q) PROVE ProcInv'
  BY <1>27, <1>1 DEF ClientLeaves, buildVars, procVars
<1>28. CASE UNCHANGED vars
  BY <1>28, <1>1 DEF vars, editVars, watchVars, buildVars, procVars,
     proxyVars, reqVars
<1>29. QED
  BY <1>2, <1>3, <1>4, <1>5, <1>6, <1>7, <1>8, <1>9, <1>10, <1>11, <1>12,
     <1>13, <1>14, <1>15, <1>16, <1>17, <1>18, <1>19, <1>20, <1>21, <1>22,
     <1>23, <1>24, <1>25, <1>26, <1>27, <1>28
     DEF Next, Rebuild, Handle

(* Every step keeps the proxy's state in line with the rebuild.             *)
LEMMA StepReady == IInv /\ [Next]_vars => ReadyInv'
<1> SUFFICES ASSUME IInv, [Next]_vars PROVE ReadyInv'
  OBVIOUS
<1> USE Numbered DEF IInv, ReadyInv, TypeOK, ProcTypeOK
<1>1. ASSUME UNCHANGED <<main, state, child, runs, bin>> PROVE ReadyInv'
  BY <1>1 DEF ReadyIsTheLastBuild
<1>2. CASE Edit
  BY <1>2, <1>1 DEF Edit, buildVars, procVars, proxyVars
<1>3. CASE MakeDir
  BY <1>3, <1>1 DEF MakeDir, buildVars, procVars, proxyVars
<1>4. CASE TimerFires
  BY <1>4, <1>1 DEF TimerFires, buildVars, procVars, proxyVars
<1>5. CASE LoopEvent
  BY <1>5, <1>1 DEF LoopEvent, Trigger, buildVars, procVars, proxyVars
<1>6. CASE LoopRebuild
  BY <1>6 DEF LoopRebuild, SetState, Wakes, procVars, ReadyIsTheLastBuild
<1>7. CASE LoopChildExited
  BY <1>7 DEF LoopChildExited, DropsChild, SetState, Wakes, buildVars,
     ReadyIsTheLastBuild
<1>8. CASE LoopReturns
  BY <1>8 DEF LoopReturns, procVars, proxyVars, ReadyIsTheLastBuild
<1>9. CASE BuildFails
  BY <1>9 DEF BuildFails, SetState, Wakes, procVars, ReadyIsTheLastBuild
<1>10. CASE BuildSucceeds
  BY <1>10 DEF BuildSucceeds, AfterBuild, procVars, proxyVars,
     ReadyIsTheLastBuild
<1>11. CASE StopReturns
  BY <1>11 DEF StopReturns, proxyVars, ReadyIsTheLastBuild
<1>12. CASE StartFails
  BY <1>12 DEF StartFails, SetState, Wakes, procVars, ReadyIsTheLastBuild
<1>13. CASE StartChild
  <2>1. PICK g \in Starts : /\ proc[g] = "unused"
                            /\ child' = g
                            /\ proc' = [proc EXCEPT ![g] = "booting"]
                            /\ runs' = [runs EXCEPT ![g] = bin]
    BY <1>13 DEF StartChild
  <2>2. main = "start" /\ main' = "ready" /\ state' = state /\ bin' = bin
    BY <1>13 DEF StartChild, proxyVars
  <2>3. child' # NoChild /\ runs'[child'] = bin'
    BY <2>1, <2>2
  <2>4. QED
    BY <2>2, <2>3 DEF ReadyIsTheLastBuild
<1>14. CASE ReadySucceeds
  BY <1>14 DEF ReadySucceeds, SetState, Wakes, procVars, ReadyIsTheLastBuild
<1>15. CASE ReadyChildExited
  BY <1>15 DEF ReadyChildExited, SetState, Wakes, ReadyIsTheLastBuild
<1>16. CASE ReadyTimesOut
  BY <1>16 DEF ReadyTimesOut, SetState, Wakes, procVars, ReadyIsTheLastBuild
<1>17. CASE Returned
  BY <1>17 DEF Returned, proxyVars, ReadyIsTheLastBuild
<1>18. CASE StopKills
  BY <1>18, <1>1 DEF StopKills, buildVars, proxyVars
<1>19. ASSUME NEW g \in Starts, Boots(g) PROVE ReadyInv'
  BY <1>19, <1>1 DEF Boots, buildVars, proxyVars
<1>20. ASSUME NEW g \in Starts, Exits(g) PROVE ReadyInv'
  BY <1>20, <1>1 DEF Exits, buildVars, proxyVars
<1>21. ASSUME NEW q \in Requests, RequestArrives(q) PROVE ReadyInv'
  BY <1>21, <1>1 DEF RequestArrives, Answered, buildVars, procVars, proxyVars
<1>22. ASSUME NEW q \in Requests, Check(q) PROVE ReadyInv'
  BY <1>22, <1>1 DEF Check, Answer, buildVars, procVars
<1>23. ASSUME NEW q \in Requests, Woken(q) PROVE ReadyInv'
  BY <1>23, <1>1 DEF Woken, buildVars, procVars, proxyVars
<1>24. ASSUME NEW q \in Requests, HoldTimesOut(q) PROVE ReadyInv'
  BY <1>24, <1>1 DEF HoldTimesOut, Answer, buildVars, procVars
<1>25. ASSUME NEW q \in Requests, Forward(q) PROVE ReadyInv'
  BY <1>25, <1>1 DEF Forward, Answer, Listening, buildVars, procVars, proxyVars
<1>26. ASSUME NEW q \in Requests, DeadlinePasses(q) PROVE ReadyInv'
  BY <1>26, <1>1 DEF DeadlinePasses, buildVars, procVars, proxyVars
<1>27. ASSUME NEW q \in Requests, ClientLeaves(q) PROVE ReadyInv'
  BY <1>27, <1>1 DEF ClientLeaves, buildVars, procVars
<1>28. CASE UNCHANGED vars
  BY <1>28, <1>1 DEF vars, editVars, watchVars, buildVars, procVars,
     proxyVars, reqVars
<1>29. QED
  BY <1>2, <1>3, <1>4, <1>5, <1>6, <1>7, <1>8, <1>9, <1>10, <1>11, <1>12,
     <1>13, <1>14, <1>15, <1>16, <1>17, <1>18, <1>19, <1>20, <1>21, <1>22,
     <1>23, <1>24, <1>25, <1>26, <1>27, <1>28
     DEF Next, Rebuild, Handle

(* No step makes a binary older.                                            *)
LEMMA StepAge == IInv /\ [Next]_vars => AgeInv'
<1> SUFFICES ASSUME IInv, [Next]_vars PROVE AgeInv'
  OBVIOUS
<1> USE Counts DEF IInv, AgeInv
<1>1. ASSUME UNCHANGED <<main, bin, begun, runs, served, before, proc, answer, request>> PROVE AgeInv'
  BY <1>1 DEF NeverOlder, Alive
<1>2. CASE Edit
  BY <1>2, <1>1 DEF Edit, buildVars, procVars, reqVars
<1>3. CASE MakeDir
  BY <1>3, <1>1 DEF MakeDir, buildVars, procVars, reqVars
<1>4. CASE TimerFires
  BY <1>4, <1>1 DEF TimerFires, buildVars, procVars, reqVars
<1>5. CASE LoopEvent
  BY <1>5, <1>1 DEF LoopEvent, Trigger, buildVars, procVars, reqVars
<1>6. CASE LoopRebuild
  <2>1. bin' = bin /\ begun' = source /\ bin <= source
    BY <1>6 DEF LoopRebuild
  <2>2. UNCHANGED <<runs, served, before, proc, answer, request>>
    BY <1>6 DEF LoopRebuild, procVars, reqVars
  <2>3. QED
    BY <2>1, <2>2 DEF NeverOlder, Alive
<1>7. CASE LoopChildExited
  BY <1>7 DEF LoopChildExited, DropsChild, SetState, Wakes, buildVars,
     reqVars, NeverOlder, Alive
<1>8. CASE LoopReturns
  BY <1>8 DEF LoopReturns, procVars, reqVars, NeverOlder, Alive
<1>9. CASE BuildFails
  BY <1>9 DEF BuildFails, SetState, Wakes, procVars, reqVars, NeverOlder, Alive
<1>10. CASE BuildSucceeds
  <2>1. main' # "build" /\ bin' \in Nat /\ bin <= bin'
    BY <1>10, Counts DEF BuildSucceeds, AfterBuild
  <2>2. UNCHANGED <<runs, served, before, proc, answer, request>>
    BY <1>10 DEF BuildSucceeds, procVars, reqVars
  <2>3. \A g \in Starts : runs'[g] <= bin'
    BY <2>1, <2>2
  <2>4. \A q \in Requests : served'[q] <= bin' /\ before'[q] <= bin'
    BY <2>1, <2>2
  <2>5. QED
    BY <2>1, <2>2, <2>3, <2>4 DEF NeverOlder, Alive
<1>11. CASE StopReturns
  BY <1>11 DEF StopReturns, reqVars, NeverOlder, Alive
<1>12. CASE StartFails
  BY <1>12 DEF StartFails, SetState, Wakes, procVars, reqVars, NeverOlder, Alive
<1>13. CASE StartChild
  <2>1. PICK g \in Starts : /\ proc[g] = "unused"
                            /\ child' = g
                            /\ proc' = [proc EXCEPT ![g] = "booting"]
                            /\ runs' = [runs EXCEPT ![g] = bin]
    BY <1>13 DEF StartChild
  <2>2. main' # "build" /\ UNCHANGED <<bin, served, before, answer, request>>
    BY <1>13 DEF StartChild, reqVars
  <2>3. \A f \in Starts : runs'[f] <= bin'
    BY <2>1, <2>2
  <2>4. \A f \in Starts : Alive(f)' => f = g \/ (Alive(f) /\ runs'[f] = runs[f])
    BY <2>1 DEF Alive
  <2>5. \A f \in Starts : Alive(f)' =>
          \A q \in Requests : served'[q] <= runs'[f] /\ before'[q] <= runs'[f]
    BY <2>1, <2>2, <2>4
  <2>6. QED
    BY <2>2, <2>3, <2>5 DEF NeverOlder
<1>14. CASE ReadySucceeds
  BY <1>14 DEF ReadySucceeds, SetState, Wakes, procVars, reqVars, NeverOlder,
     Alive
<1>15. CASE ReadyChildExited
  BY <1>15 DEF ReadyChildExited, SetState, Wakes, reqVars, NeverOlder, Alive
<1>16. CASE ReadyTimesOut
  BY <1>16 DEF ReadyTimesOut, SetState, Wakes, procVars, reqVars, NeverOlder,
     Alive
<1>17. CASE Returned
  BY <1>17 DEF Returned, reqVars, NeverOlder, Alive
<1>18. CASE StopKills
  BY <1>18, <1>1 DEF StopKills, buildVars, reqVars
<1>19. ASSUME NEW g \in Starts, Boots(g) PROVE AgeInv'
  BY <1>19 DEF Boots, buildVars, reqVars, NeverOlder, Alive
<1>20. ASSUME NEW g \in Starts, Exits(g) PROVE AgeInv'
  BY <1>20 DEF Exits, buildVars, reqVars, NeverOlder, Alive
<1>21. ASSUME NEW q \in Requests, RequestArrives(q) PROVE AgeInv'
  <2>1. PICK v \in Answered : before' = [before EXCEPT ![q] = v]
    BY <1>21 DEF RequestArrives
  <2>2. PICK r \in Requests : v = served[r]
    BY DEF Answered
  <2>3. UNCHANGED <<main, bin, begun, runs, served, proc, answer>>
    BY <1>21 DEF RequestArrives, buildVars, procVars
  <2>4. request[q] = "none" /\ request' = [request EXCEPT ![q] = "check"]
    BY <1>21 DEF RequestArrives
  <2>5. \A s \in Requests : before'[s] = IF s = q THEN served[r] ELSE before[s]
    BY <2>1, <2>2
  <2>6. \A s \in Requests : answer[s] = "application" => s # q
    BY <2>4
  <2>7. QED
    BY <2>3, <2>4, <2>5, <2>6 DEF NeverOlder, Alive
<1>22. ASSUME NEW q \in Requests, Check(q) PROVE AgeInv'
  <2>1. UNCHANGED <<main, bin, begun, runs, served, before, proc>>
    BY <1>22 DEF Check, buildVars, procVars
  <2>2. answer[q] # "application" /\ answer'[q] # "application"
    BY <1>22 DEF Check, Answer, TypeOK, ProxyTypeOK, RequestTypeOK, Outputs
  <2>3. \A s \in Requests : s # q => answer'[s] = answer[s] /\ request'[s] = request[s]
    BY <1>22 DEF Check, Answer, TypeOK, RequestTypeOK
  <2>4. QED
    BY <2>1, <2>2, <2>3 DEF NeverOlder, Alive
<1>23. ASSUME NEW q \in Requests, Woken(q) PROVE AgeInv'
  BY <1>23 DEF Woken, buildVars, procVars, NeverOlder, Alive
<1>24. ASSUME NEW q \in Requests, HoldTimesOut(q) PROVE AgeInv'
  BY <1>24 DEF HoldTimesOut, Answer, buildVars, procVars, NeverOlder, Alive
<1>25. ASSUME NEW q \in Requests, Forward(q) PROVE AgeInv'
  <2>1. UNCHANGED <<main, bin, begun, runs, before, proc>>
    BY <1>25 DEF Forward, buildVars, procVars
  <2>2. request'[q] = "answered" /\ \A s \in Requests : s # q =>
          answer'[s] = answer[s] /\ request'[s] = request[s]
    BY <1>25 DEF Forward, Answer, TypeOK, RequestTypeOK
  <2>3. CASE Listening = {}
    <3>1. served' = served /\ answer'[q] # "application"
      BY <1>25, <2>3 DEF Forward, Answer, TypeOK, RequestTypeOK
    <3>2. QED
      BY <2>1, <2>2, <3>1 DEF NeverOlder, Alive
  <2>4. CASE Listening # {}
    <3>1. PICK g \in Listening : served' = [served EXCEPT ![q] = runs[g]]
      BY <1>25, <2>4 DEF Forward
    <3>2. g \in Starts /\ \A f \in Starts : Alive(f) => f = g
      BY DEF Listening, ProcInv, OnlyTheChildLives, Alive
    <3>3. \A s \in Requests : before[s] <= runs[g]
      BY <3>2 DEF Listening, Alive
    <3>4. \A s \in Requests : served'[s] = IF s = q THEN runs[g] ELSE served[s]
      BY <3>1
    <3>5. QED
      BY <2>1, <2>2, <3>2, <3>3, <3>4 DEF NeverOlder, Alive
  <2>5. QED
    BY <2>3, <2>4
<1>26. ASSUME NEW q \in Requests, DeadlinePasses(q) PROVE AgeInv'
  BY <1>26, <1>1 DEF DeadlinePasses, buildVars, procVars
<1>27. ASSUME NEW q \in Requests, ClientLeaves(q) PROVE AgeInv'
  BY <1>27 DEF ClientLeaves, buildVars, procVars, NeverOlder, Alive
<1>28. CASE UNCHANGED vars
  BY <1>28, <1>1 DEF vars, editVars, watchVars, buildVars, procVars,
     proxyVars, reqVars
<1>29. QED
  BY <1>2, <1>3, <1>4, <1>5, <1>6, <1>7, <1>8, <1>9, <1>10, <1>11, <1>12,
     <1>13, <1>14, <1>15, <1>16, <1>17, <1>18, <1>19, <1>20, <1>21, <1>22,
     <1>23, <1>24, <1>25, <1>26, <1>27, <1>28
     DEF Next, Rebuild, Handle

(* Every reachable state satisfies the inductive invariant.                  *)
LEMMA Invariant == Spec => []IInv
<1>1. IInv /\ [Next]_vars => IInv'
  BY StepBuildTyped, StepProcTyped, StepProxyTyped, StepRequestTyped,
     StepProc, StepReady, StepAge DEF IInv, TypeOK
<1>2. QED
  BY InitInv, <1>1, PTL DEF Spec

(* The proxy has a failure's text exactly while it is failed, and every other
   variable holds what its comment says. *)
THEOREM TypeCorrect == Spec => []TypeOK
<1>1. IInv => TypeOK
  BY DEF IInv
<1>2. QED
  BY Invariant, <1>1, PTL

(* Two processes never compete for the application's port (stop before start). *)
THEOREM OneProcessAtATime == Spec => []OnlyTheChildLives
<1>1. IInv => OnlyTheChildLives
  BY DEF IInv, ProcInv
<1>2. QED
  BY Invariant, <1>1, PTL

(* No stop waits for a result that somebody else has taken. *)
THEOREM StopNeverStarves == Spec => []ChildIsUndrained
<1>1. IInv => ChildIsUndrained
  BY DEF IInv, ProcInv
<1>2. QED
  BY Invariant, <1>1, PTL

(* The proxy is ready only with a child of the last successful build. *)
THEOREM ReadyMeansCurrent == Spec => []ReadyIsTheLastBuild
<1>1. IInv => ReadyIsTheLastBuild
  BY DEF IInv, ReadyInv
<1>2. QED
  BY Invariant, <1>1, PTL

(* No request is answered by an older binary than one that had answered
   before it came. *)
THEOREM AnswersNeverGoBack == Spec => []NeverOlder
<1>1. IInv => NeverOlder
  BY DEF IInv, AgeInv
<1>2. QED
  BY Invariant, <1>1, PTL

=============================================================================
