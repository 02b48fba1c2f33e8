---------------------------- MODULE UpgradeProofs ----------------------------
(***************************************************************************)
(* Theorems about the commands that write into a project: about Upgrade,   *)
(* for any files, releases and number of changes, and about Generator and  *)
(* Fields, for any number of commands and whatever they ask for.           *)
(***************************************************************************)
EXTENDS Upgrade, Generator, SequenceTheorems, TLAPS

(* The baseline describes every file that needs no excuse, and the one      *)
(* about to be written does.                                                *)
RecordInv ==
  /\ project = "present" =>
       \A f \in Files \ (touched \cup unrecorded) : Present(f) => sum[f] = text[f]
  /\ at = "write" =>
       \A f \in Files \ (touched \cup unrecorded) : Present(f) => base[f] = text[f]

(* The command runs in a project with a readable baseline, and what it has  *)
(* still to do is in todo.                                                  *)
Skipped(f) == ~force /\ status[f] \in {"modified", "differs"}

CommandInv ==
  /\ at # "idle" => project = "present" /\ valid /\ result # "ok"
  /\ result = "ok" => valid /\ project = "present"
  /\ at \in {"stage", "publish"} =>
       \A f \in Managed \ changed : f \in todo \/ text[f] = Wanted(f) \/ Skipped(f)
  /\ at = "write" =>
       \A f \in Managed \ changed : (text[f] = Wanted(f) /\ base[f] = Wanted(f)) \/ Skipped(f)
  /\ ApplyIsComplete

(* What the command is about to write is rendered; what it replaces without *)
(* force is not a local text, unless the developer wrote it meanwhile.      *)
PlanInv ==
  at \in {"stage", "publish"} =>
    \A f \in todo : /\ Wanted(f) # NoText
                    /\ (~force /\ f \notin changed) => text[f] # LocalEdit

(* The inductive invariant.                                                 *)
IInv == TypeOK /\ RecordInv /\ CommandInv /\ PlanInv

(* Before gin-kit new there is nothing on disk.                             *)
LEMMA InitInv == Init => IInv
<1> SUFFICES ASSUME Init PROVE IInv
  OBVIOUS
<1> USE UpgradeAssumption DEF Init, None
<1>1. TypeOK
  <2>1. 1 \in Versions /\ 0 \in 0..MaxChanges
    BY DEF Versions
  <2>2. QED
    BY <2>1 DEF TypeOK, Statuses, Entry
<1>2. RecordInv /\ CommandInv /\ PlanInv
  BY DEF RecordInv, CommandInv, PlanInv, ApplyIsComplete, Present
<1>3. QED
  BY <1>1, <1>2 DEF IInv

(* What a release renders is one of its texts, and never a local one.       *)
LEMMA WantedTyped ==
  ASSUME TypeOK, NEW f \in Files
  PROVE  Wanted(f) \in Texts \cup {NoText} /\ Wanted(f) # LocalEdit
<1>1. cli \in Versions
  BY DEF TypeOK
<1>2. Rendered[f] \in [Versions -> Texts \cup {NoText}]
  BY UpgradeAssumption
<1>3. Rendered[f][cli] \in Texts \cup {NoText}
  BY <1>1, <1>2
<1>4. QED
  BY <1>3, UpgradeAssumption DEF Wanted

(* A status is one of the seven.                                            *)
LEMMA ClassifyTyped ==
  ASSUME NEW f \in Files
  PROVE  Classify(f) \in Statuses
  BY DEF Classify, Statuses

(* The types of the project and of the command.                             *)
LEMMA StepTyped == IInv /\ [Next]_vars => TypeOK'
<1> SUFFICES ASSUME IInv, [Next]_vars PROVE TypeOK'
  OBVIOUS
<1> USE UpgradeAssumption DEF IInv, Entry
<1>1. CASE UNCHANGED vars
  BY <1>1 DEF vars, diskVars, sumVars, cmdVars, devVars, TypeOK
<1>2. ASSUME NEW f \in Files, ScaffoldFile(f) PROVE TypeOK'
  BY <1>2 DEF ScaffoldFile, diskVars, sumVars, cmdVars, devVars, TypeOK
<1>3. ASSUME ScaffoldFails PROVE TypeOK'
  BY <1>3 DEF ScaffoldFails, diskVars, sumVars, cmdVars, devVars, TypeOK
<1>4. ASSUME ScaffoldPublish PROVE TypeOK'
  <2>1. /\ text' \in [Files -> Texts \cup {NoText}]
        /\ sum' = text'
    BY <1>4, WantedTyped DEF ScaffoldPublish
  <2>2. QED
    BY <1>4, <2>1 DEF ScaffoldPublish, cmdVars, devVars, TypeOK
<1>5. ASSUME NewRelease PROVE TypeOK'
  <2>1. cli \in Versions /\ cli < Releases /\ cli' = cli + 1
    BY <1>5 DEF NewRelease, TypeOK
  <2>2. cli' \in Versions
    BY <2>1 DEF Versions
  <2>3. QED
    BY <1>5, <2>2 DEF NewRelease, diskVars, sumVars, cmdVars, devVars, TypeOK
<1>6. ASSUME NEW f \in Files, Reformat(f) PROVE TypeOK'
  <2>1. changes \in 0..MaxChanges /\ changes < MaxChanges /\ changes' = changes + 1
    BY <1>6 DEF Reformat, Change, TypeOK
  <2>2. changes' \in 0..MaxChanges
    BY <2>1
  <2>3. QED
    BY <1>6, <2>2 DEF Reformat, Change, sumVars, cmdVars, TypeOK
<1>7. ASSUME NEW f \in Files, NEW t \in Texts \cup {LocalEdit, NoText}, Edit(f, t) PROVE TypeOK'
  <2>1. changes \in 0..MaxChanges /\ changes < MaxChanges /\ changes' = changes + 1
    BY <1>7 DEF Edit, Change, TypeOK
  <2>2. changes' \in 0..MaxChanges
    BY <2>1
  <2>3. QED
    BY <1>7, <2>2 DEF Edit, Change, sumVars, cmdVars, TypeOK
<1>8. ASSUME DeleteSum PROVE TypeOK'
  BY <1>8 DEF DeleteSum, None, diskVars, cmdVars, devVars, TypeOK
<1>9. ASSUME NEW forced \in BOOLEAN, Plan(forced) PROVE TypeOK'
  <2>1. status' \in [Files -> Statuses] /\ todo' \subseteq Files
    <3>1. CASE valid
      BY <1>9, <3>1, ClassifyTyped DEF Plan
    <3>2. CASE ~valid
      BY <1>9, <3>2 DEF Plan, TypeOK
    <3>3. QED
      BY <3>1, <3>2
  <2>2. QED
    BY <1>9, <2>1 DEF Plan, diskVars, sumVars, TypeOK
<1>10. ASSUME Stage PROVE TypeOK'
  BY <1>10 DEF Stage, diskVars, sumVars, cmdVars, devVars, TypeOK
<1>11. ASSUME NEW f \in Files, Publish(f) PROVE TypeOK'
  BY <1>11, WantedTyped DEF Publish, sumVars, TypeOK
<1>12. ASSUME Refresh PROVE TypeOK'
  <2>1. base' \in [Files -> Texts \cup {NoText}]
    BY <1>12, WantedTyped DEF Refresh, Matches, TypeOK
  <2>2. QED
    BY <1>12, <2>1 DEF Refresh, Ends, diskVars, sumVars, devVars, TypeOK
<1>13. ASSUME WriteSum PROVE TypeOK'
  BY <1>13 DEF WriteSum, Ends, diskVars, devVars, TypeOK
<1>14. ASSUME WriteSumTorn PROVE TypeOK'
  <2>1. sum' \in [Files -> Texts \cup {NoText}] /\ valid' \in BOOLEAN /\ unrecorded' \subseteq Files
    BY <1>14 DEF WriteSumTorn, TypeOK
  <2>2. QED
    BY <1>14, <2>1 DEF WriteSumTorn, Ends, diskVars, devVars, TypeOK
<1>15. ASSUME Interrupted PROVE TypeOK'
  BY <1>15 DEF Interrupted, Ends, diskVars, sumVars, devVars, TypeOK
<1>16. QED
  BY <1>1, <1>2, <1>3, <1>4, <1>5, <1>6, <1>7, <1>8, <1>9, <1>10, <1>11, <1>12, <1>13,
     <1>14, <1>15 DEF Next, Scaffold, Developer, Apply

(* The baseline keeps describing the files that need no excuse.             *)
LEMMA StepRecorded == IInv /\ [Next]_vars => RecordInv'
<1> SUFFICES ASSUME IInv, [Next]_vars PROVE RecordInv'
  OBVIOUS
<1> USE UpgradeAssumption DEF IInv
<1>1. CASE UNCHANGED vars
  BY <1>1 DEF vars, diskVars, sumVars, cmdVars, devVars, RecordInv, Present, TypeOK
<1>2. ASSUME NEW f \in Files, ScaffoldFile(f) PROVE RecordInv'
  BY <1>2 DEF ScaffoldFile, diskVars, sumVars, cmdVars, devVars, RecordInv, Present, TypeOK
<1>3. ASSUME ScaffoldFails PROVE RecordInv'
  BY <1>3 DEF ScaffoldFails, diskVars, sumVars, cmdVars, devVars, RecordInv, Present, TypeOK
<1>4. ASSUME ScaffoldPublish PROVE RecordInv'
  <2>1. at' = "idle" /\ sum' = text'
    BY <1>4 DEF ScaffoldPublish, CommandInv, TypeOK
  <2>2. QED
    BY <2>1 DEF RecordInv
<1>5. ASSUME NewRelease PROVE RecordInv'
  BY <1>5 DEF NewRelease, diskVars, sumVars, cmdVars, devVars, RecordInv, Present, TypeOK
<1>6. ASSUME NEW f \in Files, Reformat(f) PROVE RecordInv'
  BY <1>6 DEF Reformat, Change, sumVars, cmdVars, RecordInv, Present, TypeOK
<1>7. ASSUME NEW f \in Files, NEW t \in Texts \cup {LocalEdit, NoText}, Edit(f, t) PROVE RecordInv'
  BY <1>7 DEF Edit, Change, sumVars, cmdVars, RecordInv, Present, TypeOK
<1>8. ASSUME DeleteSum PROVE RecordInv'
  BY <1>8 DEF DeleteSum, None, diskVars, cmdVars, devVars, RecordInv, Present, TypeOK
<1>9. ASSUME NEW forced \in BOOLEAN, Plan(forced) PROVE RecordInv'
  BY <1>9 DEF Plan, diskVars, sumVars, RecordInv, Present, TypeOK
<1>10. ASSUME Stage PROVE RecordInv'
  BY <1>10 DEF Stage, diskVars, sumVars, cmdVars, devVars, RecordInv, Present, TypeOK
<1>11. ASSUME NEW f \in Files, Publish(f) PROVE RecordInv'
  BY <1>11 DEF Publish, sumVars, RecordInv, Present, TypeOK
<1>12. ASSUME Refresh PROVE RecordInv'
  <2>1. UNCHANGED <<project, text, sum, touched, unrecorded>>
    BY <1>12 DEF Refresh, diskVars, sumVars, devVars
  <2>2. \A f \in Files \ (touched \cup unrecorded) : Present(f) => sum[f] = text[f]
    BY <1>12 DEF Refresh, CommandInv, RecordInv
  <2>3. CASE valid
    <3>1. base' = [f \in Files |->
                     IF f \in Managed /\ Present(f) /\ Matches(f) THEN text[f] ELSE sum[f]]
      BY <1>12, <2>3 DEF Refresh
    <3>2. \A f \in Files \ (touched \cup unrecorded) : Present(f) => base'[f] = text[f]
      BY <2>2, <3>1
    <3>3. QED
      BY <2>1, <2>2, <3>2 DEF RecordInv, Present
  <2>4. CASE ~valid
    BY <1>12, <2>1, <2>2, <2>4 DEF Refresh, Ends, RecordInv, Present
  <2>5. QED
    BY <2>3, <2>4
<1>13. ASSUME WriteSum PROVE RecordInv'
  BY <1>13 DEF WriteSum, Ends, Recorded, diskVars, devVars, RecordInv, Present, TypeOK
<1>14. ASSUME WriteSumTorn PROVE RecordInv'
  <2>1. /\ at = "write" /\ at' = "idle"
        /\ UNCHANGED <<text, touched, base>>
    BY <1>14 DEF WriteSumTorn, Ends, diskVars, devVars
  <2>2. PICK n \in 0..FileCount :
          /\ sum' = [f \in Files |-> IF f <= n THEN base[f] ELSE NoText]
          /\ unrecorded' = (unrecorded \cup {f \in Files : f > n}) \ Recorded(sum')
    BY <1>14 DEF WriteSumTorn
  <2>3. ASSUME NEW f \in Files \ (touched \cup unrecorded'), Present(f)
        PROVE  sum'[f] = text[f]
    <3>1. CASE f \in Recorded(sum')
      BY <3>1 DEF Recorded
    <3>2. CASE f \notin Recorded(sum')
      <4>1. f \notin unrecorded /\ ~(f > n)
        BY <2>2, <2>3, <3>2
      <4>2. f \in Nat /\ n \in Nat
        BY UpgradeAssumption DEF Files
      <4>3. sum'[f] = base[f]
        BY <2>2, <4>1, <4>2
      <4>4. QED
        BY <2>1, <2>3, <4>1, <4>3 DEF RecordInv
    <3>3. QED
      BY <3>1, <3>2
  <2>4. QED
    BY <2>1, <2>3 DEF RecordInv, Present
<1>15. ASSUME Interrupted PROVE RecordInv'
  BY <1>15 DEF Interrupted, Ends, diskVars, sumVars, devVars, RecordInv, Present, TypeOK
<1>16. QED
  BY <1>1, <1>2, <1>3, <1>4, <1>5, <1>6, <1>7, <1>8, <1>9, <1>10, <1>11, <1>12, <1>13, <1>14, <1>15
     DEF Next, Scaffold, Developer, Apply

(* The command forgets no file.                                             *)
LEMMA StepCommand == IInv /\ [Next]_vars => CommandInv'
<1> SUFFICES ASSUME IInv, [Next]_vars PROVE CommandInv'
  OBVIOUS
<1> USE UpgradeAssumption DEF IInv
<1>1. CASE UNCHANGED vars
  BY <1>1 DEF vars, diskVars, sumVars, cmdVars, devVars, CommandInv, ApplyIsComplete, Skipped, Wanted, Managed, TypeOK
<1>2. ASSUME NEW f \in Files, ScaffoldFile(f) PROVE CommandInv'
  BY <1>2 DEF ScaffoldFile, diskVars, sumVars, cmdVars, devVars, CommandInv, ApplyIsComplete, Skipped, Wanted, Managed, TypeOK
<1>3. ASSUME ScaffoldFails PROVE CommandInv'
  BY <1>3 DEF ScaffoldFails, diskVars, sumVars, cmdVars, devVars, CommandInv, ApplyIsComplete, Skipped, Wanted, Managed, TypeOK
<1>4. ASSUME ScaffoldPublish PROVE CommandInv'
  <2>1. at = "idle" /\ result # "ok"
    BY <1>4 DEF ScaffoldPublish, CommandInv
  <2>2. at' = "idle" /\ result' # "ok"
    BY <1>4, <2>1 DEF ScaffoldPublish
  <2>3. QED
    BY <2>2 DEF CommandInv, ApplyIsComplete
<1>5. ASSUME NewRelease PROVE CommandInv'
  BY <1>5 DEF NewRelease, diskVars, sumVars, cmdVars, devVars, CommandInv, ApplyIsComplete, Skipped, Wanted, Managed, TypeOK
<1>6. ASSUME NEW f \in Files, Reformat(f) PROVE CommandInv'
  BY <1>6 DEF Reformat, Change, sumVars, cmdVars, CommandInv, ApplyIsComplete, Skipped, Wanted, Managed, TypeOK
<1>7. ASSUME NEW f \in Files, NEW t \in Texts \cup {LocalEdit, NoText}, Edit(f, t) PROVE CommandInv'
  BY <1>7 DEF Edit, Change, sumVars, cmdVars, CommandInv, ApplyIsComplete, Skipped, Wanted, Managed, TypeOK
<1>8. ASSUME DeleteSum PROVE CommandInv'
  BY <1>8 DEF DeleteSum, None, diskVars, cmdVars, devVars, CommandInv, ApplyIsComplete, Skipped, Wanted, Managed, TypeOK
<1>9. ASSUME NEW forced \in BOOLEAN, Plan(forced) PROVE CommandInv'
  <2>1. CASE valid
    <3>1. /\ at' = "stage" /\ project' = "present" /\ valid' /\ result' = "none"
          /\ status' = [f \in Files |-> Classify(f)]
          /\ todo' = {f \in Files : Writes(Classify(f), forced)}
          /\ force' = forced
          /\ UNCHANGED <<text, cli>>
      BY <1>9, <2>1 DEF Plan, diskVars, sumVars
    <3>2. ASSUME NEW f \in Files, Wanted(f) # NoText
          PROVE  f \in todo' \/ text'[f] = Wanted(f) \/ Skipped(f)'
      BY <3>1, <3>2 DEF Classify, Writes, Skipped, Present
    <3>3. QED
      BY <3>1, <3>2 DEF CommandInv, ApplyIsComplete, Managed, Wanted
  <2>2. CASE ~valid
    BY <1>9, <2>2 DEF Plan, diskVars, sumVars, CommandInv, ApplyIsComplete
  <2>3. QED
    BY <2>1, <2>2
<1>10. ASSUME Stage PROVE CommandInv'
  BY <1>10 DEF Stage, diskVars, sumVars, cmdVars, devVars, CommandInv, ApplyIsComplete, Skipped, Wanted, Managed, TypeOK
<1>11. ASSUME NEW f \in Files, Publish(f) PROVE CommandInv'
  BY <1>11 DEF Publish, sumVars, CommandInv, ApplyIsComplete, Skipped, Wanted, Managed, TypeOK
<1>12. ASSUME Refresh PROVE CommandInv'
  <2>1. valid /\ project = "present" /\ at = "publish" /\ todo = {} /\ result # "ok"
    BY <1>12 DEF Refresh, CommandInv
  <2>2. /\ base' = [f \in Files |->
                     IF f \in Managed /\ Present(f) /\ Matches(f) THEN text[f] ELSE sum[f]]
        /\ at' = "write"
        /\ UNCHANGED <<text, cli, force, status, changed, project, valid, result>>
    BY <1>12, <2>1 DEF Refresh, diskVars, sumVars, devVars
  <2>3. ASSUME NEW f \in Managed \ changed
        PROVE  (text[f] = Wanted(f) /\ base'[f] = Wanted(f)) \/ Skipped(f)
    <3>1. f \in Files /\ Wanted(f) # NoText
      BY DEF Managed
    <3>2. text[f] = Wanted(f) \/ Skipped(f)
      BY <2>1 DEF CommandInv
    <3>3. QED
      BY <2>2, <3>1, <3>2 DEF Matches, Present
  <2>4. QED
    BY <2>1, <2>2, <2>3 DEF CommandInv, ApplyIsComplete, Managed, Wanted, Skipped
<1>13. ASSUME WriteSum PROVE CommandInv'
  BY <1>13 DEF WriteSum, Ends, Recorded, diskVars, devVars, CommandInv, ApplyIsComplete, Skipped, Wanted, Managed, TypeOK
<1>14. ASSUME WriteSumTorn PROVE CommandInv'
  BY <1>14 DEF WriteSumTorn, Ends, Recorded, diskVars, devVars, CommandInv, ApplyIsComplete, Skipped, Wanted, Managed, TypeOK
<1>15. ASSUME Interrupted PROVE CommandInv'
  BY <1>15 DEF Interrupted, Ends, diskVars, sumVars, devVars, CommandInv, ApplyIsComplete, Skipped, Wanted, Managed, TypeOK
<1>16. QED
  BY <1>1, <1>2, <1>3, <1>4, <1>5, <1>6, <1>7, <1>8, <1>9, <1>10, <1>11, <1>12, <1>13, <1>14, <1>15
     DEF Next, Scaffold, Developer, Apply

(* What is still to be written stays what the plan may write.               *)
LEMMA StepPlanned == IInv /\ [Next]_vars => PlanInv'
<1> SUFFICES ASSUME IInv, [Next]_vars PROVE PlanInv'
  OBVIOUS
<1> USE UpgradeAssumption DEF IInv
<1>1. CASE UNCHANGED vars
  BY <1>1 DEF vars, diskVars, sumVars, cmdVars, devVars, PlanInv, Wanted, TypeOK
<1>2. ASSUME NEW f \in Files, ScaffoldFile(f) PROVE PlanInv'
  BY <1>2 DEF ScaffoldFile, diskVars, sumVars, cmdVars, devVars, PlanInv, Wanted, TypeOK
<1>3. ASSUME ScaffoldFails PROVE PlanInv'
  BY <1>3 DEF ScaffoldFails, diskVars, sumVars, cmdVars, devVars, PlanInv, Wanted, TypeOK
<1>4. ASSUME ScaffoldPublish PROVE PlanInv'
  <2>1. at' = "idle"
    BY <1>4 DEF ScaffoldPublish, CommandInv
  <2>2. QED
    BY <2>1 DEF PlanInv
<1>5. ASSUME NewRelease PROVE PlanInv'
  BY <1>5 DEF NewRelease, diskVars, sumVars, cmdVars, devVars, PlanInv, Wanted, TypeOK
<1>6. ASSUME NEW f \in Files, Reformat(f) PROVE PlanInv'
  BY <1>6 DEF Reformat, Change, sumVars, cmdVars, PlanInv, Wanted, TypeOK
<1>7. ASSUME NEW f \in Files, NEW t \in Texts \cup {LocalEdit, NoText}, Edit(f, t) PROVE PlanInv'
  BY <1>7 DEF Edit, Change, sumVars, cmdVars, PlanInv, Wanted, TypeOK
<1>8. ASSUME DeleteSum PROVE PlanInv'
  BY <1>8 DEF DeleteSum, None, diskVars, cmdVars, devVars, PlanInv, Wanted, TypeOK
<1>9. ASSUME NEW forced \in BOOLEAN, Plan(forced) PROVE PlanInv'
  <2>1. CASE valid
    <3>1. /\ todo' = {f \in Files : Writes(Classify(f), forced)}
          /\ force' = forced
          /\ UNCHANGED <<text, cli>>
      BY <1>9, <2>1 DEF Plan, diskVars
    <3>2. ASSUME NEW f \in Files, Writes(Classify(f), forced)
          PROVE  Wanted(f) # NoText /\ (~forced => text[f] # LocalEdit)
      <4>1. sum[f] \in Texts \cup {NoText}
        BY DEF TypeOK
      <4>2. QED
        BY <3>2, <4>1 DEF Classify, Writes, Stale, Present
    <3>3. QED
      BY <3>1, <3>2 DEF PlanInv, Wanted
  <2>2. CASE ~valid
    BY <1>9, <2>2 DEF Plan, CommandInv, PlanInv
  <2>3. QED
    BY <2>1, <2>2
<1>10. ASSUME Stage PROVE PlanInv'
  BY <1>10 DEF Stage, diskVars, sumVars, cmdVars, devVars, PlanInv, Wanted, TypeOK
<1>11. ASSUME NEW f \in Files, Publish(f) PROVE PlanInv'
  BY <1>11 DEF Publish, sumVars, PlanInv, Wanted, TypeOK
<1>12. ASSUME Refresh PROVE PlanInv'
  BY <1>12 DEF Refresh, Ends, Matches, diskVars, sumVars, devVars, PlanInv, Wanted, TypeOK
<1>13. ASSUME WriteSum PROVE PlanInv'
  BY <1>13 DEF WriteSum, Ends, Recorded, diskVars, devVars, PlanInv, Wanted, TypeOK
<1>14. ASSUME WriteSumTorn PROVE PlanInv'
  BY <1>14 DEF WriteSumTorn, Ends, Recorded, diskVars, devVars, PlanInv, Wanted, TypeOK
<1>15. ASSUME Interrupted PROVE PlanInv'
  BY <1>15 DEF Interrupted, Ends, diskVars, sumVars, devVars, PlanInv, Wanted, TypeOK
<1>16. QED
  BY <1>1, <1>2, <1>3, <1>4, <1>5, <1>6, <1>7, <1>8, <1>9, <1>10, <1>11, <1>12, <1>13, <1>14, <1>15
     DEF Next, Scaffold, Developer, Apply

(* IInv is an invariant of the project.                                     *)
THEOREM Invariance == Spec => []IInv
<1>1. Init => IInv
  BY InitInv
<1>2. IInv /\ [Next]_vars => IInv'
  BY StepTyped, StepRecorded, StepCommand, StepPlanned DEF IInv
<1>3. QED
  BY <1>1, <1>2, PTL DEF Spec

(* The types, for any files, releases and number of changes; the baseline   *)
(* never holds the checksum of a local text.                                *)
THEOREM TypeCorrect == Spec => []TypeOK
<1>1. IInv => TypeOK
  BY DEF IInv
<1>2. QED
  BY <1>1, Invariance, PTL

(* The classification of upgrade.go:140-160 takes no vendored copy whose    *)
(* entry is intact for a local edit, however many releases later.           *)
THEOREM RecognisesStale == Spec => []StaleIsRecognised
<1>1. IInv => StaleIsRecognised
  <2> SUFFICES ASSUME IInv, project = "present", NEW f \in Files \ (touched \cup unrecorded)
               PROVE  Classify(f) \notin {"modified", "differs"}
    BY DEF StaleIsRecognised
  <2>1. CASE Wanted(f) = NoText \/ ~Present(f) \/ text[f] = Wanted(f)
    BY <2>1 DEF Classify
  <2>2. CASE Wanted(f) # NoText /\ Present(f) /\ text[f] # Wanted(f)
    <3>1. sum[f] = text[f] /\ sum[f] # NoText
      BY <2>2 DEF IInv, RecordInv, Present
    <3>2. QED
      BY <2>2, <3>1 DEF Classify, Stale
  <2>3. QED
    BY <2>1, <2>2
<1>2. QED
  BY <1>1, Invariance, PTL

(* applyUpgrade reports success only when every file it manages is current  *)
(* and recorded, but for the ones it names as skipped.                      *)
THEOREM AppliesEverything == Spec => []ApplyIsComplete
<1>1. IInv => ApplyIsComplete
  BY DEF IInv, CommandInv
<1>2. QED
  BY <1>1, Invariance, PTL

(* Without --force, no step of the command replaces a local text.           *)
THEOREM KeepsLocalEdits == Spec => EditsSurvive
<1> DEFINE Kept == \A f \in Files :
      (at = "publish" /\ ~force /\ f \notin changed /\ text[f] = LocalEdit)
        => (text'[f] = LocalEdit \/ f \in changed')
<1>1. IInv /\ [Next]_vars => [Kept]_vars
  <2> SUFFICES ASSUME IInv, Next, at = "publish", ~force, NEW f \in Files, f \notin changed,
                      text[f] = LocalEdit
               PROVE  text'[f] = LocalEdit \/ f \in changed'
    OBVIOUS
  <2>1. project = "present"
    BY DEF IInv, CommandInv
  <2>2. text \in [Files -> Entry]
    BY DEF IInv, TypeOK
  <2>3. CASE Scaffold
    BY <2>1, <2>3 DEF Scaffold, ScaffoldFile, ScaffoldFails, ScaffoldPublish
  <2>4. ASSUME NEW g \in Files, Reformat(g) \/ \E t \in Texts \cup {LocalEdit, NoText} : Edit(g, t)
        PROVE  text'[f] = LocalEdit \/ f \in changed'
    BY <2>2, <2>4 DEF Reformat, Edit, Change
  <2>5. CASE DeleteSum \/ NewRelease
    BY <2>5 DEF DeleteSum, NewRelease
  <2>6. ASSUME NEW g \in Files, Publish(g) PROVE text'[f] = LocalEdit
    <3>1. f # g
      BY <2>6 DEF IInv, PlanInv, Publish
    <3>2. QED
      BY <2>2, <2>6, <3>1 DEF Publish
  <2>7. CASE Refresh \/ Interrupted
    BY <2>7 DEF Refresh, Interrupted, diskVars
  <2>8. QED
    BY <2>3, <2>4, <2>5, <2>6, <2>7
       DEF Next, Developer, Apply, Plan, Stage, WriteSum, WriteSumTorn
<1>2. QED
  BY <1>1, Invariance, PTL DEF Spec, EditsSurvive

(* The rename of new.go:131 publishes every platform file with its checksum.*)
THEOREM ScaffoldsEverything == Spec => ScaffoldIsComplete
<1> DEFINE Complete == project # project' =>
             \A f \in Files : text'[f] = Wanted(f) /\ sum'[f] = Wanted(f)
<1>1. [Next]_vars => [Complete]_vars
  <2> SUFFICES ASSUME Next, project # project', NEW f \in Files
               PROVE  text'[f] = Wanted(f) /\ sum'[f] = Wanted(f)
    OBVIOUS
  <2>1. ScaffoldPublish
    BY DEF Next, Scaffold, Developer, Apply, ScaffoldFile, ScaffoldFails, Reformat, Edit, Change,
           DeleteSum, NewRelease, Plan, Stage, Publish, Refresh, WriteSum, WriteSumTorn, Interrupted
  <2>2. QED
    BY <2>1 DEF ScaffoldPublish, ScaffoldReady, Managed
<1>2. QED
  BY <1>1, PTL DEF Spec, ScaffoldIsComplete

-----------------------------------------------------------------------------
(* Fields: what a generator makes of --fields.                              *)

(* One value before a sequence and two behind it.                           *)
LEMMA Framed ==
  ASSUME NEW S, NEW f \in Seq(S), NEW x \in S, NEW y \in S, NEW z \in S
  PROVE  /\ <<x>> \o f \o <<y, z>> \in Seq(S)
         /\ Len(<<x>> \o f \o <<y, z>>) = Len(f) + 3
         /\ (<<x>> \o f \o <<y, z>>)[1] = x
         /\ \A i \in 1..Len(f) : (<<x>> \o f \o <<y, z>>)[i + 1] = f[i]
         /\ (<<x>> \o f \o <<y, z>>)[Len(f) + 2] = y
         /\ (<<x>> \o f \o <<y, z>>)[Len(f) + 3] = z
<1>1. <<x>> \in Seq(S) /\ Len(<<x>>) = 1 /\ <<x>>[1] = x
  OBVIOUS
<1>2. <<y, z>> \in Seq(S) /\ Len(<<y, z>>) = 2 /\ <<y, z>>[1] = y /\ <<y, z>>[2] = z
  OBVIOUS
<1>3. Len(f) \in Nat
  BY LenProperties
<1>4. PICK g : g = <<x>> \o f
  OBVIOUS
<1>5. /\ g \in Seq(S) /\ Len(g) = Len(f) + 1 /\ g[1] = x
      /\ \A i \in 1..Len(f) : g[i + 1] = f[i]
  <2>1. g \in Seq(S) /\ Len(g) = Len(f) + 1
    BY <1>1, <1>3, <1>4, ConcatProperties
  <2>2. \A i \in 1..(Len(f) + 1) : g[i] = IF i <= 1 THEN <<x>>[i] ELSE f[i - 1]
    BY <1>1, <1>3, <1>4, ConcatProperties
  <2>3. g[1] = x
    BY <1>1, <1>3, <2>2
  <2>4. ASSUME NEW i \in 1..Len(f) PROVE g[i + 1] = f[i]
    <3>1. i + 1 \in 1..(Len(f) + 1) /\ ~(i + 1 <= 1) /\ (i + 1) - 1 = i
      BY <1>3
    <3>2. QED
      BY <2>2, <3>1
  <2>5. QED
    BY <2>1, <2>3, <2>4
<1>6. PICK h : h = g \o <<y, z>>
  OBVIOUS
<1>7. h \in Seq(S) /\ Len(h) = Len(f) + 3
  BY <1>2, <1>3, <1>5, <1>6, ConcatProperties
<1>8. \A i \in 1..(Len(f) + 3) : h[i] = IF i <= Len(f) + 1 THEN g[i] ELSE <<y, z>>[i - (Len(f) + 1)]
  BY <1>2, <1>3, <1>5, <1>6, ConcatProperties
<1>9. h[1] = x
  BY <1>3, <1>5, <1>8
<1>10. ASSUME NEW i \in 1..Len(f) PROVE h[i + 1] = f[i]
  <2>1. i + 1 \in 1..(Len(f) + 3) /\ i + 1 <= Len(f) + 1
    BY <1>3
  <2>2. QED
    BY <1>5, <1>8, <2>1
<1>11. h[Len(f) + 2] = y
  <2>1. Len(f) + 2 \in 1..(Len(f) + 3) /\ ~(Len(f) + 2 <= Len(f) + 1) /\ (Len(f) + 2) - (Len(f) + 1) = 1
    BY <1>3
  <2>2. QED
    BY <1>2, <1>8, <2>1
<1>12. h[Len(f) + 3] = z
  <2>1. Len(f) + 3 \in 1..(Len(f) + 3) /\ ~(Len(f) + 3 <= Len(f) + 1) /\ (Len(f) + 3) - (Len(f) + 1) = 2
    BY <1>3
  <2>2. QED
    BY <1>2, <1>8, <2>1
<1>13. QED
  BY <1>4, <1>6, <1>7, <1>9, <1>10, <1>11, <1>12

(* One value, or two, behind a sequence.                                    *)
LEMMA FollowedByOne ==
  ASSUME NEW S, NEW f \in Seq(S), NEW x \in S
  PROVE  /\ f \o <<x>> \in Seq(S) /\ Len(f \o <<x>>) = Len(f) + 1
         /\ \A i \in 1..Len(f) : (f \o <<x>>)[i] = f[i]
         /\ (f \o <<x>>)[Len(f) + 1] = x
<1>1. <<x>> \in Seq(S) /\ Len(<<x>>) = 1 /\ <<x>>[1] = x
  OBVIOUS
<1>2. Len(f) \in Nat
  BY LenProperties
<1>3. f \o <<x>> \in Seq(S) /\ Len(f \o <<x>>) = Len(f) + 1
  BY <1>1, <1>2, ConcatProperties
<1>4. \A i \in 1..(Len(f) + 1) : (f \o <<x>>)[i] = IF i <= Len(f) THEN f[i] ELSE <<x>>[i - Len(f)]
  BY <1>1, <1>2, ConcatProperties
<1>5. Len(f) + 1 \in 1..(Len(f) + 1) /\ ~(Len(f) + 1 <= Len(f)) /\ (Len(f) + 1) - Len(f) = 1
  BY <1>2
<1>6. (f \o <<x>>)[Len(f) + 1] = x
  BY <1>1, <1>4, <1>5
<1>7. \A i \in 1..Len(f) : i \in 1..(Len(f) + 1) /\ i <= Len(f)
  BY <1>2
<1>8. QED
  BY <1>3, <1>4, <1>6, <1>7

LEMMA FollowedByTwo ==
  ASSUME NEW S, NEW f \in Seq(S), NEW x \in S, NEW y \in S
  PROVE  /\ f \o <<x, y>> \in Seq(S) /\ Len(f \o <<x, y>>) = Len(f) + 2
         /\ \A i \in 1..Len(f) : (f \o <<x, y>>)[i] = f[i]
         /\ (f \o <<x, y>>)[Len(f) + 1] = x /\ (f \o <<x, y>>)[Len(f) + 2] = y
<1>1. <<x, y>> \in Seq(S) /\ Len(<<x, y>>) = 2 /\ <<x, y>>[1] = x /\ <<x, y>>[2] = y
  OBVIOUS
<1>2. Len(f) \in Nat
  BY LenProperties
<1>3. f \o <<x, y>> \in Seq(S) /\ Len(f \o <<x, y>>) = Len(f) + 2
  BY <1>1, <1>2, ConcatProperties
<1>4. \A i \in 1..(Len(f) + 2) : (f \o <<x, y>>)[i] = IF i <= Len(f) THEN f[i] ELSE <<x, y>>[i - Len(f)]
  BY <1>1, <1>2, ConcatProperties
<1>5. /\ Len(f) + 1 \in 1..(Len(f) + 2) /\ ~(Len(f) + 1 <= Len(f)) /\ (Len(f) + 1) - Len(f) = 1
      /\ Len(f) + 2 \in 1..(Len(f) + 2) /\ ~(Len(f) + 2 <= Len(f)) /\ (Len(f) + 2) - Len(f) = 2
  BY <1>2
<1>6. (f \o <<x, y>>)[Len(f) + 1] = x
  BY <1>1, <1>4, <1>5
<1>7. (f \o <<x, y>>)[Len(f) + 2] = y
  BY <1>1, <1>4, <1>5
<1>8. \A i \in 1..Len(f) : i \in 1..(Len(f) + 2) /\ i <= Len(f)
  BY <1>2
<1>9. QED
  BY <1>3, <1>4, <1>6, <1>7, <1>8

(* What parseFields accepts, and the one field of an empty specification:   *)
(* each name once, and none of them one of the template's own.              *)
LEMMA DeclaredFacts ==
  ASSUME NEW S, NEW spec \in Seq(S), \A i \in DOMAIN spec : spec[i].nullable \in BOOLEAN,
         ~BadFields(spec) \/ spec = <<>>
  PROVE  /\ \E T : Declared(spec) \in Seq(T)
         /\ \A i \in 1..Len(Declared(spec)) : Declared(spec)[i].nullable \in BOOLEAN
         /\ \A i \in 1..Len(Declared(spec)) : Declared(spec)[i].name \notin Reserved
         /\ \A i, j \in 1..Len(Declared(spec)) :
              Declared(spec)[i].name = Declared(spec)[j].name => i = j
<1>1. CASE spec = <<>>
  <2>1. PICK d : d = [name |-> "name", kind |-> "string", nullable |-> FALSE]
    OBVIOUS
  <2>2. d.name \notin Reserved /\ d.nullable \in BOOLEAN
    BY <2>1 DEF Reserved
  <2>3. Declared(spec) = <<d>>
    BY <1>1, <2>1 DEF Declared
  <2>4. <<d>> \in Seq({d}) /\ Len(<<d>>) = 1 /\ <<d>>[1] = d
    OBVIOUS
  <2>5. \E U : Declared(spec) \in Seq(U)
    BY <2>3, <2>4
  <2>6. Len(Declared(spec)) = 1 /\ Declared(spec)[1] = d
    BY <2>3, <2>4
  <2>7. QED
    BY <2>2, <2>5, <2>6
<1>2. CASE spec # <<>>
  <2>1. Declared(spec) = spec
    BY <1>2 DEF Declared
  <2>2. DOMAIN spec = 1..Len(spec) /\ Len(spec) \in Nat
    BY LenProperties
  <2>3. \A i \in 1..Len(spec) : /\ spec[i].name \notin Reserved
                               /\ \A j \in 1..(i - 1) : spec[j].name # spec[i].name
    BY <1>2, <2>1, <2>2 DEF BadFields
  <2>4. ASSUME NEW i \in 1..Len(spec), NEW j \in 1..Len(spec), spec[i].name = spec[j].name PROVE i = j
    <3>1. CASE i < j
      <4>1. i \in 1..(j - 1)
        BY <2>2, <3>1
      <4>2. QED
        BY <2>3, <2>4, <4>1
    <3>2. CASE j < i
      <4>1. j \in 1..(i - 1)
        BY <2>2, <3>2
      <4>2. QED
        BY <2>3, <2>4, <4>1
    <3>3. QED
      BY <2>2, <3>1, <3>2
  <2>5. QED
    BY <2>1, <2>2, <2>3, <2>4
<1>3. QED
  BY <1>1, <1>2

(* For any fields, the pieces of their resource fit.                        *)
LEMMA ResourceFits ==
  ASSUME NEW S, NEW spec \in Seq(S), \A i \in DOMAIN spec : spec[i].nullable \in BOOLEAN,
         ~BadFields(spec) \/ spec = <<>>, NEW database, NEW soft \in BOOLEAN
  PROVE  StatementsFit(ParseFields(spec, database), soft)
<1>1. PICK ds : ds = Declared(spec)
  OBVIOUS
<1>2. PICK T : ds \in Seq(T)
  BY <1>1, DeclaredFacts
<1>3. PICK n \in Nat : n = Len(ds) /\ DOMAIN ds = 1..n
  BY <1>2, LenProperties
<1>4. /\ \A i \in 1..n : ds[i].nullable \in BOOLEAN /\ ds[i].name \notin Reserved
      /\ \A i, j \in 1..n : ds[i].name = ds[j].name => i = j
  BY <1>1, <1>3, DeclaredFacts
<1>5. PICK fields : fields = ParseFields(spec, database)
  OBVIOUS
<1>6. /\ fields = [i \in 1..n |-> BuildField(ds[i], database)]
      /\ DOMAIN fields = 1..n
  BY <1>1, <1>3, <1>5 DEF ParseFields
<1>7. ASSUME NEW i \in 1..n
      PROVE  /\ fields[i].name = ds[i].name
             /\ fields[i].pascal = Pascal[ds[i].name]
             /\ fields[i].notNull = ~ds[i].nullable
             /\ fields[i].pointer = ds[i].nullable
             /\ fields[i].required = Required(Canonical(ds[i].kind), ds[i].nullable)
  BY <1>6 DEF BuildField
<1>8. PICK N : N = Names(fields)
  OBVIOUS
<1>9. N = [i \in 1..n |-> ds[i].name]
  BY <1>6, <1>7, <1>8 DEF Names
<1> DEFINE All == {"id", "created_at", "updated_at"} \cup {ds[i].name : i \in 1..n}
<1>10. N \in Seq(All) /\ Len(N) = n /\ \A i \in 1..n : N[i] = ds[i].name
  BY <1>9
<1>11. PICK C : C = <<"id">> \o N \o <<"created_at", "updated_at">>
  OBVIOUS
<1>12. /\ C \in Seq(All) /\ Len(C) = n + 3 /\ DOMAIN C = 1..(n + 3)
       /\ C[1] = "id" /\ C[n + 2] = "created_at" /\ C[n + 3] = "updated_at"
       /\ \A i \in 1..n : C[i + 1] = ds[i].name
  <2>1. "id" \in All /\ "created_at" \in All /\ "updated_at" \in All
    OBVIOUS
  <2>2. /\ C \in Seq(All) /\ Len(C) = n + 3
        /\ C[1] = "id" /\ C[n + 2] = "created_at" /\ C[n + 3] = "updated_at"
        /\ \A i \in 1..n : C[i + 1] = N[i]
    BY <1>10, <1>11, <2>1, Framed
  <2>3. QED
    BY <1>10, <2>2, LenProperties
<1>13. \A i \in 1..(n + 3) : i = 1 \/ (\E k \in 1..n : i = k + 1) \/ i = n + 2 \/ i = n + 3
  <2> SUFFICES ASSUME NEW i \in 1..(n + 3), i # 1, i # n + 2, i # n + 3 PROVE \E k \in 1..n : i = k + 1
    OBVIOUS
  <2>1. i - 1 \in 1..n /\ i = (i - 1) + 1
    OBVIOUS
  <2>2. QED
    BY <2>1
<1> HIDE DEF All
<1>14. ASSUME NEW i \in 1..(n + 3) PROVE C[i] # "deleted_at"
  <2>1. CASE \E k \in 1..n : i = k + 1
    <3>1. PICK k \in 1..n : i = k + 1
      BY <2>1
    <3>2. C[i] = ds[k].name /\ ds[k].name \notin Reserved
      BY <1>4, <1>12, <3>1
    <3>3. QED
      BY <3>2 DEF Reserved
  <2>2. CASE i \in {1, n + 2, n + 3}
    BY <1>12, <2>2
  <2>3. QED
    BY <1>13, <2>1, <2>2
<1>15. ASSUME NEW i \in 1..(n + 3), NEW j \in 1..(n + 3), C[i] = C[j] PROVE i = j
  <2>1. CASE \E k \in 1..n : i = k + 1
    <3>1. PICK k \in 1..n : i = k + 1
      BY <2>1
    <3>2. C[i] = ds[k].name /\ ds[k].name \notin Reserved
      BY <1>4, <1>12, <3>1
    <3>3. j # 1 /\ j # n + 2 /\ j # n + 3
      BY <1>12, <1>15, <3>2 DEF Reserved
    <3>4. PICK l \in 1..n : j = l + 1
      BY <1>13, <3>3
    <3>5. C[j] = ds[l].name
      BY <1>12, <3>4
    <3>6. k = l
      BY <1>4, <1>15, <3>2, <3>5
    <3>7. QED
      BY <3>1, <3>4, <3>6
  <2>2. CASE \E k \in 1..n : j = k + 1
    <3>1. PICK k \in 1..n : j = k + 1
      BY <2>2
    <3>2. C[j] = ds[k].name /\ ds[k].name \notin Reserved
      BY <1>4, <1>12, <3>1
    <3>3. i # 1 /\ i # n + 2 /\ i # n + 3
      BY <1>12, <1>15, <3>2 DEF Reserved
    <3>4. QED
      BY <1>13, <2>1, <3>3
  <2>3. CASE i \in {1, n + 2, n + 3} /\ j \in {1, n + 2, n + 3}
    BY <1>12, <1>15, <2>3
  <2>4. QED
    BY <1>13, <2>1, <2>2, <2>3
<1>16. PICK t : t = Schema(fields, soft)
  OBVIOUS
<1>17. /\ DOMAIN t = IF soft THEN 1..(n + 4) ELSE 1..(n + 3)
       /\ \A i \in 1..(n + 3) : t[i].name = C[i]
       /\ soft => t[n + 4] = Column("deleted_at", FALSE)
  <2>1. PICK F : F = [i \in 1..n |-> Column(ds[i].name, fields[i].notNull)]
    OBVIOUS
  <2>2. PICK c1 : c1 = Column("id", TRUE)
    OBVIOUS
  <2>3. PICK c2 : c2 = Column("created_at", TRUE)
    OBVIOUS
  <2>4. PICK c3 : c3 = Column("updated_at", TRUE)
    OBVIOUS
  <2> DEFINE Cols == {c1, c2, c3} \cup {F[i] : i \in 1..n}
  <2>5. F \in Seq(Cols) /\ Len(F) = n /\ \A i \in 1..n : F[i] = Column(ds[i].name, fields[i].notNull)
    <3>1. DOMAIN F = 1..n /\ F = [i \in 1..n |-> F[i]]
      BY <2>1
    <3>2. F \in Seq(Cols) /\ Len(F) = n
      BY <3>1
    <3>3. QED
      BY <2>1, <3>2
  <2>6. PICK B : B = <<c1>> \o F \o <<c2, c3>>
    OBVIOUS
  <2>7. /\ B \in Seq(Cols) /\ Len(B) = n + 3
        /\ B[1] = c1 /\ B[n + 2] = c2 /\ B[n + 3] = c3
        /\ \A i \in 1..n : B[i + 1] = F[i]
    <3>1. c1 \in Cols /\ c2 \in Cols /\ c3 \in Cols
      OBVIOUS
    <3> HIDE DEF Cols
    <3>2. QED
      BY <2>5, <2>6, <3>1, Framed
  <2> HIDE DEF Cols
  <2>8. ASSUME NEW i \in 1..(n + 3) PROVE B[i].name = C[i]
    <3>1. CASE \E k \in 1..n : i = k + 1
      <4>1. PICK k \in 1..n : i = k + 1
        BY <3>1
      <4>2. B[i] = Column(ds[k].name, fields[k].notNull) /\ C[i] = ds[k].name
        BY <1>12, <2>5, <2>7, <4>1
      <4>3. QED
        BY <4>2 DEF Column
    <3>2. CASE i \in {1, n + 2, n + 3}
      BY <1>12, <2>2, <2>3, <2>4, <2>7, <3>2 DEF Column
    <3>3. QED
      BY <1>13, <3>1, <3>2
  <2>9. F = [i \in DOMAIN fields |-> Column(fields[i].name, fields[i].notNull)]
    BY <1>6, <1>7, <2>1
  <2>10. t = B \o (IF soft THEN <<Column("deleted_at", FALSE)>> ELSE <<>>)
    BY <1>16, <2>2, <2>3, <2>4, <2>6, <2>9 DEF Schema
  <2>11. CASE ~soft
    <3>1. t = B
      BY <2>7, <2>10, <2>11, ConcatEmptySeq
    <3>2. DOMAIN t = 1..(n + 3)
      BY <2>7, <3>1, LenProperties
    <3>3. QED
      BY <2>8, <2>11, <3>1, <3>2
  <2>12. CASE soft
    <3>1. PICK c : c = Column("deleted_at", FALSE)
      OBVIOUS
    <3>2. <<c>> \in Seq(Cols \cup {c}) /\ Len(<<c>>) = 1 /\ <<c>>[1] = c
      OBVIOUS
    <3>3. B \in Seq(Cols \cup {c})
      BY <2>7
    <3>4. t = B \o <<c>>
      BY <2>10, <2>12, <3>1
    <3>5. t \in Seq(Cols \cup {c}) /\ Len(t) = n + 4
      BY <2>7, <3>2, <3>3, <3>4, ConcatProperties
    <3>6. \A i \in 1..(n + 4) : t[i] = IF i <= n + 3 THEN B[i] ELSE <<c>>[i - (n + 3)]
      BY <2>7, <3>2, <3>3, <3>4, ConcatProperties
    <3>7. DOMAIN t = 1..(n + 4)
      BY <3>5, LenProperties
    <3>8. \A i \in 1..(n + 3) : t[i] = B[i]
      BY <3>6
    <3>9. t[n + 4] = c
      BY <3>2, <3>6
    <3>10. QED
      BY <2>8, <2>12, <3>1, <3>7, <3>8, <3>9
  <2>13. QED
    BY <2>11, <2>12
<1>18. soft => t[n + 4].name = "deleted_at" /\ t[n + 4].notNull = FALSE
  BY <1>17 DEF Column
<1>19. DOMAIN t \subseteq 1..(n + 4) /\ \A i \in DOMAIN t : i \in 1..(n + 3) \/ (soft /\ i = n + 4)
  BY <1>17
<1> DEFINE Held == {t[i].name : i \in DOMAIN t}
<1>20. Held \ {"deleted_at"} = {C[i] : i \in 1..(n + 3)}
  BY <1>14, <1>17, <1>18, <1>19
<1> HIDE DEF Held
<1>21. PICK d : d = GenData(fields, soft)
  OBVIOUS
<1>22. /\ d.columns = C /\ d.placeholders = Len(C)
       /\ d.insertArgs = <<"ID">> \o Pascals(fields) \o <<"CreatedAt", "UpdatedAt">>
       /\ d.updateSet = N \o <<"updated_at">>
       /\ d.updateArgs = Pascals(fields) \o <<"UpdatedAt", "ID">>
       /\ d.members = Members(fields, soft)
       /\ d.filters = [i \in 1..n |-> [name |-> fields[i].name, by |-> fields[i].type.filter]]
       /\ d.sorts = <<"created_at">> \o N
       /\ d.shown = {fields[i].name : i \in {k \in 1..n : ~fields[k].sensitive}}
       /\ d.testTable = t
  BY <1>6, <1>8, <1>11, <1>16, <1>21 DEF GenData, UpdateArgs
<1>23. PICK P : P = Pascals(fields)
  OBVIOUS
<1> DEFINE Goes == {"ID", "CreatedAt", "UpdatedAt"} \cup {fields[i].pascal : i \in 1..n}
<1>24. P \in Seq(Goes) /\ Len(P) = n /\ \A i \in 1..n : P[i] = fields[i].pascal
  <2>1. P = [i \in 1..n |-> fields[i].pascal]
    BY <1>6, <1>23 DEF Pascals
  <2>2. QED
    BY <2>1
<1>25. "ID" \in Goes /\ "CreatedAt" \in Goes /\ "UpdatedAt" \in Goes
  OBVIOUS
<1> HIDE DEF Goes
<1>26. PICK M : M = Members(fields, soft)
  OBVIOUS
<1>27. /\ <<"ID", "id">> \in M /\ <<"CreatedAt", "created_at">> \in M /\ <<"UpdatedAt", "updated_at">> \in M
       /\ \A i \in 1..n : <<fields[i].pascal, ds[i].name>> \in M
  <2>1. <<"ID", "id">> \in M /\ <<"CreatedAt", "created_at">> \in M /\ <<"UpdatedAt", "updated_at">> \in M
    BY <1>26 DEF Members
  <2>2. \A i \in DOMAIN fields : <<fields[i].pascal, fields[i].name>> \in M
    BY <1>26 DEF Members
  <2>3. QED
    BY <1>6, <1>7, <2>1, <2>2
<1>28. PICK A : A = <<"ID">> \o P \o <<"CreatedAt", "UpdatedAt">>
  OBVIOUS
<1>29. /\ Len(A) = n + 3 /\ A[1] = "ID" /\ A[n + 2] = "CreatedAt" /\ A[n + 3] = "UpdatedAt"
       /\ \A i \in 1..n : A[i + 1] = fields[i].pascal
  <2>1. /\ Len(A) = n + 3 /\ A[1] = "ID" /\ A[n + 2] = "CreatedAt" /\ A[n + 3] = "UpdatedAt"
        /\ \A i \in 1..n : A[i + 1] = P[i]
    BY <1>24, <1>25, <1>28, Framed
  <2>2. QED
    BY <1>24, <2>1
<1>30. ASSUME NEW i \in 1..(n + 3) PROVE <<A[i], C[i]>> \in M
  <2>1. CASE \E k \in 1..n : i = k + 1
    <3>1. PICK k \in 1..n : i = k + 1
      BY <2>1
    <3>2. A[i] = fields[k].pascal /\ C[i] = ds[k].name
      BY <1>12, <1>29, <3>1
    <3>3. QED
      BY <1>27, <3>2
  <2>2. CASE i \in {1, n + 2, n + 3}
    BY <1>12, <1>27, <1>29, <2>2
  <2>3. QED
    BY <1>13, <2>1, <2>2
<1>31. PICK V : V = N \o <<"updated_at">>
  OBVIOUS
<1>32. /\ Len(V) = n + 1 /\ DOMAIN V = 1..(n + 1) /\ V[n + 1] = "updated_at"
       /\ \A i \in 1..n : V[i] = ds[i].name
  <2>1. "updated_at" \in All
    BY DEF All
  <2>2. /\ V \in Seq(All) /\ Len(V) = n + 1 /\ V[n + 1] = "updated_at"
        /\ \A i \in 1..n : V[i] = N[i]
    BY <1>10, <1>31, <2>1, FollowedByOne
  <2>3. QED
    BY <1>10, <2>2, LenProperties
<1>33. PICK W : W = P \o <<"UpdatedAt", "ID">>
  OBVIOUS
<1>34. /\ Len(W) = n + 2 /\ W[n + 1] = "UpdatedAt" /\ W[n + 2] = "ID"
       /\ \A i \in 1..n : W[i] = fields[i].pascal
  <2>1. /\ Len(W) = n + 2 /\ W[n + 1] = "UpdatedAt" /\ W[n + 2] = "ID"
        /\ \A i \in 1..n : W[i] = P[i]
    BY <1>24, <1>25, <1>33, FollowedByTwo
  <2>2. QED
    BY <1>24, <2>1
<1>35. ASSUME NEW i \in 1..(n + 1) PROVE <<W[i], V[i]>> \in M
  <2>1. CASE i \in 1..n
    BY <1>27, <1>32, <1>34, <2>1
  <2>2. CASE i = n + 1
    BY <1>27, <1>32, <1>34, <2>2
  <2>3. QED
    BY <2>1, <2>2
<1>36. /\ d.placeholders = Len(d.columns) /\ Len(d.insertArgs) = Len(d.columns)
       /\ \A k \in DOMAIN d.columns : <<d.insertArgs[k], d.columns[k]>> \in d.members
  <2>1. d.columns = C /\ d.placeholders = Len(C) /\ d.insertArgs = A /\ d.members = M
    BY <1>22, <1>23, <1>26, <1>28
  <2>2. QED
    BY <1>12, <1>29, <1>30, <2>1
<1>37. /\ Len(d.updateArgs) = Len(d.updateSet) + 1 /\ d.updateArgs[Len(d.updateArgs)] = "ID"
       /\ \A k \in DOMAIN d.updateSet : <<d.updateArgs[k], d.updateSet[k]>> \in d.members
  <2>1. d.updateSet = V /\ d.updateArgs = W /\ d.members = M
    BY <1>22, <1>23, <1>26, <1>31, <1>33
  <2>2. QED
    BY <1>32, <1>34, <1>35, <2>1
<1>38. {V[i] : i \in 1..(n + 1)} = {C[i] : i \in 1..(n + 3)} \ {"id", "created_at"}
  <2>1. ASSUME NEW i \in 1..(n + 1)
        PROVE  V[i] \in {C[k] : k \in 1..(n + 3)} \ {"id", "created_at"}
    <3>1. CASE i \in 1..n
      <4>1. i + 1 \in 1..(n + 3) /\ V[i] = C[i + 1]
        BY <1>12, <1>32, <3>1
      <4>2. V[i] \notin {"id", "created_at"}
        BY <1>4, <1>32, <3>1 DEF Reserved
      <4>3. QED
        BY <4>1, <4>2
    <3>2. CASE i = n + 1
      <4>1. n + 3 \in 1..(n + 3) /\ V[i] = C[n + 3] /\ V[i] = "updated_at"
        BY <1>12, <1>32, <3>2
      <4>2. QED
        BY <4>1
    <3>3. QED
      BY <3>1, <3>2
  <2>2. ASSUME NEW i \in 1..(n + 3), C[i] \notin {"id", "created_at"}
        PROVE  C[i] \in {V[k] : k \in 1..(n + 1)}
    <3>1. CASE \E k \in 1..n : i = k + 1
      <4>1. PICK k \in 1..n : i = k + 1
        BY <3>1
      <4>2. k \in 1..(n + 1) /\ C[i] = V[k]
        BY <1>12, <1>32, <4>1
      <4>3. QED
        BY <4>2
    <3>2. CASE i = n + 3
      <4>1. n + 1 \in 1..(n + 1) /\ C[i] = V[n + 1]
        BY <1>12, <1>32, <3>2
      <4>2. QED
        BY <4>1
    <3>3. i # 1 /\ i # n + 2
      BY <1>12, <2>2
    <3>4. QED
      BY <1>13, <3>1, <3>2, <3>3
  <2>3. QED
    BY <2>1, <2>2
<1>39. {d.updateSet[i] : i \in DOMAIN d.updateSet} = Held \ {"id", "created_at", "deleted_at"}
  <2>1. {d.updateSet[i] : i \in DOMAIN d.updateSet} = {V[i] : i \in 1..(n + 1)}
    BY <1>22, <1>31, <1>32
  <2>2. QED
    BY <1>20, <1>38, <2>1
<1>40. \A i, j \in DOMAIN t : t[i].name = t[j].name => i = j
  <2> SUFFICES ASSUME NEW i \in DOMAIN t, NEW j \in DOMAIN t, t[i].name = t[j].name PROVE i = j
    OBVIOUS
  <2>1. CASE i \in 1..(n + 3) /\ j \in 1..(n + 3)
    BY <1>15, <1>17, <2>1
  <2>2. CASE ~(i \in 1..(n + 3) /\ j \in 1..(n + 3))
    BY <1>14, <1>17, <1>18, <1>19, <2>2
  <2>3. QED
    BY <2>1, <2>2
<1>41. {d.columns[i] : i \in DOMAIN d.columns} = Held \ {"deleted_at"}
  <2>1. {C[i] : i \in DOMAIN C} = {C[i] : i \in 1..(n + 3)}
    BY <1>12
  <2>2. QED
    BY <1>20, <1>22, <2>1
<1>42. ASSUME NEW i \in DOMAIN t, t[i].notNull PROVE \E k \in DOMAIN d.columns : d.columns[k] = t[i].name
  <2>1. i \in 1..(n + 3)
    BY <1>18, <1>19, <1>42
  <2>2. QED
    BY <1>12, <1>17, <1>22, <2>1
<1>43. "created_at" \in Held /\ \A i \in 1..n : ds[i].name \in Held
  <2>1. \A i \in 1..(n + 3) : C[i] \in Held
    BY <1>20
  <2>2. n + 2 \in 1..(n + 3) /\ \A i \in 1..n : i + 1 \in 1..(n + 3)
    OBVIOUS
  <2>3. QED
    BY <1>12, <2>1, <2>2
<1>44. {d.sorts[i] : i \in DOMAIN d.sorts} \subseteq Held
  <2>1. <<"created_at">> \in Seq(All \cup {"created_at"}) /\ Len(<<"created_at">>) = 1 /\ <<"created_at">>[1] = "created_at"
    OBVIOUS
  <2>2. N \in Seq(All \cup {"created_at"})
    BY <1>10
  <2>3. d.sorts \in Seq(All \cup {"created_at"}) /\ Len(d.sorts) = 1 + n
    BY <1>10, <1>22, <2>1, <2>2, ConcatProperties
  <2>4. \A i \in 1..(1 + n) : d.sorts[i] = IF i <= 1 THEN <<"created_at">>[i] ELSE N[i - 1]
    BY <1>10, <1>22, <2>1, <2>2, ConcatProperties
  <2>5. DOMAIN d.sorts = 1..(1 + n)
    BY <2>3, LenProperties
  <2>6. ASSUME NEW i \in 1..(1 + n) PROVE d.sorts[i] \in Held
    <3>1. CASE i = 1
      BY <1>43, <2>1, <2>4, <3>1
    <3>2. CASE i # 1
      <4>1. i - 1 \in 1..n /\ ~(i <= 1)
        BY <3>2
      <4>2. QED
        BY <1>10, <1>43, <2>4, <4>1
    <3>3. QED
      BY <3>1, <3>2
  <2>7. QED
    BY <2>5, <2>6
<1>45. {d.filters[i].name : i \in DOMAIN d.filters} \cup d.shown \subseteq Held
  <2>1. DOMAIN d.filters = 1..n /\ \A i \in 1..n : d.filters[i].name = fields[i].name
    BY <1>22
  <2>2. \A i \in 1..n : fields[i].name \in Held
    BY <1>7, <1>43
  <2>3. d.shown \subseteq Held
    BY <1>22, <2>2
  <2>4. {d.filters[i].name : i \in DOMAIN d.filters} \subseteq Held
    BY <2>1, <2>2
  <2>5. QED
    BY <2>3, <2>4
<1>46. ASSUME NEW i \in DOMAIN fields
       PROVE  /\ fields[i].required => fields[i].notNull
              /\ fields[i].pointer <=> ~fields[i].notNull
  BY <1>4, <1>6, <1>7 DEF Required
<1>47. StatementsFit(fields, soft)
  <2>1. Fit(d, t, fields)
    BY <1>36, <1>37, <1>39, <1>40, <1>41, <1>42, <1>44, <1>45, <1>46 DEF Fit, Held
  <2>2. StatementsFit(fields, soft) = Fit(d, d.testTable, fields)
    BY <1>21 DEF StatementsFit
  <2>3. d.testTable = t
    BY <1>22
  <2>4. QED
    BY <2>1, <2>2, <2>3
<1>48. QED
  BY <1>5, <1>47

-----------------------------------------------------------------------------
(* Generator: the plans.                                                    *)

(* The files of a plan, none of them the client's.                          *)
IsPlan(s) == \E S : Client \notin S /\ s \in Seq(S)

(* Its indices and its files.                                               *)
LEMMA PlanFacts ==
  ASSUME NEW s, IsPlan(s)
  PROVE  Len(s) \in Nat /\ DOMAIN s = 1..Len(s) /\ \A i \in 1..Len(s) : s[i] # Client
<1>1. PICK S : Client \notin S /\ s \in Seq(S)
  BY DEF IsPlan
<1>2. QED
  BY <1>1, LenProperties

(* Plans of one to three files, and two plans together, are plans.          *)
LEMMA NoFile == IsPlan(<<>>)
<1>1. Client \notin {} /\ <<>> \in Seq({})
  OBVIOUS
<1>2. QED
  BY <1>1 DEF IsPlan

LEMMA OneFile ==
  ASSUME NEW p, p # Client
  PROVE  IsPlan(<<p>>)
<1>1. Client \notin {p} /\ <<p>> \in Seq({p})
  OBVIOUS
<1>2. QED
  BY <1>1 DEF IsPlan

LEMMA TwoFiles ==
  ASSUME NEW p, NEW q, p # Client, q # Client
  PROVE  IsPlan(<<p, q>>)
<1>1. Client \notin {p, q} /\ <<p, q>> \in Seq({p, q})
  OBVIOUS
<1>2. QED
  BY <1>1 DEF IsPlan

LEMMA ThreeFiles ==
  ASSUME NEW p, NEW q, NEW x, p # Client, q # Client, x # Client
  PROVE  IsPlan(<<p, q, x>>)
<1>1. Client \notin {p, q, x} /\ <<p, q, x>> \in Seq({p, q, x})
  OBVIOUS
<1>2. QED
  BY <1>1 DEF IsPlan

LEMMA Together ==
  ASSUME NEW s, NEW u, IsPlan(s), IsPlan(u)
  PROVE  IsPlan(s \o u)
<1>1. PICK S : Client \notin S /\ s \in Seq(S)
  BY DEF IsPlan
<1>2. PICK U : Client \notin U /\ u \in Seq(U)
  BY DEF IsPlan
<1>3. s \in Seq(S \cup U) /\ u \in Seq(S \cup U)
  BY <1>1, <1>2
<1>4. s \o u \in Seq(S \cup U) /\ Client \notin S \cup U
  BY <1>1, <1>2, <1>3, ConcatProperties
<1>5. QED
  BY <1>4 DEF IsPlan

(* Where the generators put their files.                                    *)
LEMMA NotTheClient ==
  ASSUME NEW dir, NEW name,
         NEW rest \in {".go", "_dto.go", "_repository.go", "_repository_test.go", "_service.go", "_service_test.go",
                       "_handler.go", "_handler_test.go", "_factory.go", "_policy.go", "_policy_test.go", ".html"}
  PROVE  Path(dir, name, rest) # Client
<1>1. rest # ".ts"
  OBVIOUS
<1>2. Path(dir, name, rest)[3] = rest /\ Client[3] = ".ts"
  BY DEF Path, Client
<1>3. QED
  BY <1>1, <1>2

LEMMA MigrationIsNot ==
  ASSUME NEW name
  PROVE  MigrationPath(name) # Client
<1>1. ASSUME NEW i PROVE Migration(name, i) # Client
  <2>1. Migration(name, i)[3] = ".sql" /\ Client[3] = ".ts"
    BY DEF Migration, Client, Path
  <2>2. QED
    BY <2>1
<1>2. QED
  BY <1>1 DEF MigrationPath

(* The files of a resource, and of everything else that is generated.       *)
LEMMA SlicePlanned ==
  ASSUME NEW name, NEW table
  PROVE  IsPlan(Slice(name, table))
<1> DEFINE pages == manifest.type = "standalone" /\ manifest.mode = "ui"
           models   == <<Path("internal/database/factories", name, "_factory.go"),
                         Path("internal/domain", name, ".go"), Path("internal/dto", name, "_dto.go")>>
           handlers == IF pages THEN <<Path("internal/handler/web", name, "_handler.go")>>
                       ELSE <<Path(HandlerDir, name, "_handler.go"), Path(HandlerDir, name, "_handler_test.go")>>
           rows     == <<Path("internal/repository", name, "_repository.go")>>
           tests    == IF manifest.type = "runtime"
                       THEN <<Path("internal/repository", name, "_repository_test.go")>> ELSE <<>>
           services == <<Path("internal/service", name, "_service.go"),
                         Path("internal/service", name, "_service_test.go"), MigrationPath(table)>>
           views    == IF pages THEN <<Path("web/templates", name, ".html")>> ELSE <<>>
<1>1. IsPlan(models)
  BY NotTheClient, ThreeFiles
<1>2. IsPlan(handlers)
  BY NotTheClient, OneFile, TwoFiles
<1>3. IsPlan(rows)
  BY NotTheClient, OneFile
<1>4. IsPlan(tests)
  BY NotTheClient, OneFile, NoFile
<1>5. IsPlan(services)
  BY NotTheClient, MigrationIsNot, ThreeFiles
<1>6. IsPlan(views)
  BY NotTheClient, OneFile, NoFile
<1>7. Slice(name, table) = models \o handlers \o rows \o tests \o services \o views
  BY DEF Slice
<1> HIDE DEF models, handlers, rows, tests, services, views
<1>8. IsPlan(models \o handlers)
  BY <1>1, <1>2, Together
<1>9. IsPlan(models \o handlers \o rows)
  BY <1>3, <1>8, Together
<1>10. IsPlan(models \o handlers \o rows \o tests)
  BY <1>4, <1>9, Together
<1>11. IsPlan(models \o handlers \o rows \o tests \o services)
  BY <1>5, <1>10, Together
<1>12. QED
  BY <1>6, <1>7, <1>11, Together

LEMMA SinglesPlanned ==
  ASSUME NEW name, NEW kind \in Generators \ {"resource", "client"}
  PROVE  IsPlan(Singles(name)[kind])
<1>1. Authz # Client
  BY NotTheClient DEF Authz
<1>2. IsPlan((IF manifest.type = "standalone" /\ ~There(Authz) THEN <<Authz>> ELSE <<>>)
             \o <<Path("internal/policy", name, "_policy.go"), Path("internal/policy", name, "_policy_test.go")>>)
  <2>1. IsPlan(IF manifest.type = "standalone" /\ ~There(Authz) THEN <<Authz>> ELSE <<>>)
    BY <1>1, OneFile, NoFile
  <2>2. IsPlan(<<Path("internal/policy", name, "_policy.go"), Path("internal/policy", name, "_policy_test.go")>>)
    BY NotTheClient, TwoFiles
  <2>3. QED
    BY <2>1, <2>2, Together
<1>3. CASE kind = "policy"
  BY <1>2, <1>3 DEF Singles
<1>4. CASE kind = "migration"
  BY <1>4, MigrationIsNot, OneFile DEF Singles
<1>5. CASE kind = "mail"
  BY <1>5, NotTheClient, TwoFiles DEF Singles
<1>6. CASE kind = "domain"
  BY <1>6, NotTheClient, OneFile DEF Singles
<1>7. CASE kind = "dto"
  BY <1>7, NotTheClient, OneFile DEF Singles
<1>8. CASE kind = "repository"
  BY <1>8, NotTheClient, OneFile DEF Singles
<1>9. CASE kind = "service"
  BY <1>9, NotTheClient, OneFile DEF Singles
<1>10. CASE kind = "handler"
  BY <1>10, NotTheClient, OneFile DEF Singles
<1>11. CASE kind \in {"job", "event", "seeder", "middleware"}
  BY <1>11, NotTheClient, OneFile DEF Singles
<1>12. CASE kind = "factory"
  BY <1>12, NotTheClient, OneFile DEF Singles
<1>13. QED
  BY <1>3, <1>4, <1>5, <1>6, <1>7, <1>8, <1>9, <1>10, <1>11, <1>12 DEF Generators

LEMMA PlannedIsPlan ==
  ASSUME NEW o, o.kind \in Generators \ {"client"}
  PROVE  IsPlan(Planned(o))
  BY SlicePlanned, SinglesPlanned DEF Planned

(* What was published before the one that failed.                           *)
LEMMA PublishedFacts ==
  ASSUME NEW s, IsPlan(s), NEW n \in 1..(Len(s) + 1)
  PROVE  /\ IsPlan(SubSeq(s, 1, n - 1))
         /\ Len(SubSeq(s, 1, n - 1)) = n - 1
         /\ \A i \in 1..(n - 1) : SubSeq(s, 1, n - 1)[i] = s[i]
<1>1. PICK S : Client \notin S /\ s \in Seq(S)
  BY DEF IsPlan
<1>2. Len(s) \in Nat
  BY <1>1, LenProperties
<1>3. /\ SubSeq(s, 1, n - 1) \in Seq(S)
      /\ Len(SubSeq(s, 1, n - 1)) = n - 1
      /\ \A i \in 1..(n - 1) : SubSeq(s, 1, n - 1)[i] = s[i]
  <2>1. SubSeq(s, 1, n - 1) \in Seq(S)
    BY <1>1, <1>2, SubSeqProperties
  <2>2. Len(SubSeq(s, 1, n - 1)) = n - 1
    BY <1>1, <1>2, SubSeqProperties
  <2>3. \A i \in 1..(n - 1) : SubSeq(s, 1, n - 1)[i] = s[1 + i - 1]
    BY <1>1, <1>2, SubSeqProperties
  <2>4. QED
    BY <1>2, <2>1, <2>2, <2>3
<1>4. QED
  BY <1>1, <1>3 DEF IsPlan

-----------------------------------------------------------------------------
(* Generator: the inductive invariant.                                      *)

Places == {"start", "client", "check", "publish", "undo", "done", "refused", "dry", "torn", "killed"}

GenTyped ==
  /\ stage \in [Runs -> Places]
  /\ next \in [Runs -> Nat]
  /\ DOMAIN files = Runs /\ DOMAIN since = Runs /\ DOMAIN order = Runs
  /\ crossed \in [Runs -> BOOLEAN]

(* What a command has to write, and where in it it is.                      *)
Placed(r) ==
  /\ IsPlan(files[r])
  /\ next[r] \in 1..(Len(files[r]) + 1)
  /\ stage[r] \in {"start", "client"} => next[r] = 1 /\ files[r] = <<>>

(* What is in the tree by it: nothing but what it published.                *)
Left(r) ==
  /\ stage[r] \in {"start", "client", "check", "refused", "dry"} => Wrote(r) = {}
  /\ stage[r] \in {"publish", "undo"} => Wrote(r) \subseteq Owned(r)

(* What it published is there, unless somebody crossed it.                  *)
Kept(r) ==
  ~crossed[r] =>
    /\ stage[r] = "publish" => Owned(r) \subseteq Wrote(r)
    /\ stage[r] = "done" => \A i \in DOMAIN files[r] : files[r][i] \in Wrote(r)

(* Nobody else is still to remove what it found free, or published.         *)
Alone(r) ==
  ~crossed[r] =>
    \A q \in Runs \ {r} :
      /\ stage[r] = "check" => \A i \in 1..(next[r] - 1) : files[r][i] \notin Owned(q)
      /\ stage[r] \in {"publish", "done"} => \A i \in DOMAIN files[r] : files[r][i] \notin Owned(q)

(* What is there since before it started is none of what it found free.     *)
Free(r) ==
  /\ since[r] \subseteq DOMAIN tree
  /\ stage[r] = "check" => \A i \in 1..(next[r] - 1) : files[r][i] \notin since[r]
  /\ stage[r] \in {"publish", "undo"} => \A i \in DOMAIN files[r] : files[r][i] \notin since[r]

(* What it writes about its fields fits together.                           *)
Fitting(r) ==
  stage[r] \in {"client", "check", "publish", "done"} =>
    StatementsFit(ParseFields(order[r].fields, manifest.database), order[r].soft)

Sound(r) == Placed(r) /\ Left(r) /\ Kept(r) /\ Alone(r) /\ Free(r) /\ Fitting(r)

GenInv == GenTyped /\ \A r \in Runs : Sound(r)

(* Before the first command nothing is generated.                           *)
LEMMA GenInitInv == GenInit => GenInv
<1> SUFFICES ASSUME GenInit PROVE GenInv
  OBVIOUS
<1> USE DEF GenInit
<1>1. GenTyped
  BY DEF GenTyped, Places
<1>2. ASSUME NEW r \in Runs PROVE Sound(r)
  <2>1. /\ stage[r] = "start" /\ files[r] = <<>> /\ next[r] = 1 /\ since[r] = {}
    OBVIOUS
  <2>2. Placed(r)
    <3>1. Len(<<>>) = 0
      OBVIOUS
    <3>2. QED
      BY <2>1, <3>1, NoFile DEF Placed
  <2>3. Wrote(r) = {}
    BY GeneratorAssumption DEF Wrote
  <2>4. Left(r) /\ Kept(r) /\ Alone(r) /\ Free(r) /\ Fitting(r)
    BY <2>1, <2>3 DEF Left, Kept, Alone, Free, Fitting
  <2>5. QED
    BY <2>2, <2>4 DEF Sound
<1>3. QED
  BY <1>1, <1>2 DEF GenInv

(* What a command owns, by where it is.                                     *)
LEMMA OwnedFacts ==
  ASSUME NEW r \in Runs
  PROVE  /\ stage[r] = "publish" => Owned(r) = {files[r][i] : i \in 1..(next[r] - 1)}
         /\ stage[r] = "undo" => Owned(r) = {files[r][i] : i \in next[r]..Len(files[r])}
         /\ stage[r] \notin {"publish", "undo"} => Owned(r) = {}
  BY DEF Owned

(* A step of others that leaves to a command what it published, and owns    *)
(* nothing new of what it found free.                                       *)
LEMMA OthersStay ==
  ASSUME GenInv, NEW q \in Runs,
         UNCHANGED <<stage[q], files[q], next[q], order[q], manifest>>,
         since'[q] \subseteq since[q], since'[q] \subseteq DOMAIN tree',
         Wrote(q)' \subseteq Wrote(q),
         ~crossed'[q] => ~crossed[q],
         ~crossed'[q] /\ stage[q] \in {"publish", "done"} =>
           \A i \in DOMAIN files[q] : files[q][i] \in Wrote(q) => files[q][i] \in Wrote(q)',
         ~crossed'[q] /\ stage[q] \in {"check", "publish", "done"} =>
           \A x \in Runs \ {q} : \A i \in DOMAIN files[q] : files[q][i] \in Owned(x)' => files[q][i] \in Owned(x)
  PROVE  Sound(q)'
<1>1. Sound(q)
  BY DEF GenInv
<1>2. PICK s : s = files[q]
  OBVIOUS
<1>3. files'[q] = s /\ IsPlan(s) /\ Len(s) \in Nat /\ DOMAIN s = 1..Len(s)
  BY <1>1, <1>2, PlanFacts DEF Sound, Placed
<1>4. PICK n \in 1..(Len(s) + 1) : n = next[q] /\ next'[q] = n
  BY <1>1, <1>2 DEF Sound, Placed
<1>5. Placed(q)'
  BY <1>1, <1>2, <1>3, <1>4 DEF Sound, Placed
<1>6. Owned(q)' = Owned(q)
  BY DEF Owned
<1>7. Left(q)'
  BY <1>1, <1>6 DEF Sound, Left
<1>8. Kept(q)'
  <2>1. stage[q] = "publish" => \A p \in Owned(q) : \E i \in DOMAIN files[q] : files[q][i] = p
    BY <1>2, <1>3, <1>4, OwnedFacts
  <2>2. QED
    BY <1>1, <1>6, <2>1 DEF Sound, Kept
<1>9. Alone(q)'
  <2>1. \A i \in 1..(n - 1) : i \in DOMAIN s
    BY <1>3
  <2>2. QED
    BY <1>1, <1>2, <1>3, <1>4, <2>1 DEF Sound, Alone
<1>10. Free(q)'
  BY <1>1 DEF Sound, Free
<1>11. Fitting(q)'
  BY <1>1 DEF Sound, Fitting
<1>12. QED
  BY <1>5, <1>7, <1>8, <1>9, <1>10, <1>11 DEF Sound

-----------------------------------------------------------------------------
(* Generator: the steps.                                                    *)

(* A command that ends owns nothing and leaves the others alone.            *)
LEMMA EndsFacts ==
  ASSUME GenInv, NEW r \in Runs, NEW place \in {"done", "refused", "dry", "torn", "killed"}, GenEnds(r, place)
  PROVE  /\ stage' \in [Runs -> Places] /\ next' \in [Runs -> Nat]
         /\ DOMAIN files' = Runs /\ DOMAIN since' = Runs
         /\ stage'[r] = place /\ next'[r] = 1 /\ since'[r] = {}
         /\ files'[r] = IF place = "done" THEN files[r] ELSE <<>>
         /\ \A q \in Runs \ {r} : UNCHANGED <<stage[q], files[q], next[q], since[q]>>
         /\ Placed(r)' /\ Owned(r)' = {}
         /\ \A q \in Runs \ {r} : Owned(q)' = Owned(q)
<1>1. GenTyped /\ Placed(r)
  BY DEF GenInv, Sound
<1>2. /\ stage' \in [Runs -> Places] /\ next' \in [Runs -> Nat]
      /\ DOMAIN files' = Runs /\ DOMAIN since' = Runs
      /\ stage'[r] = place /\ next'[r] = 1 /\ since'[r] = {}
      /\ files'[r] = IF place = "done" THEN files[r] ELSE <<>>
  BY <1>1 DEF GenTyped, GenEnds, Enters, Places
<1>3. \A q \in Runs \ {r} : UNCHANGED <<stage[q], files[q], next[q], since[q]>>
  BY <1>1 DEF GenTyped, GenEnds, Enters
<1>4. PICK s : s = files'[r]
  OBVIOUS
<1>5. IsPlan(s) /\ Len(s) \in Nat
  BY <1>1, <1>2, <1>4, NoFile, PlanFacts DEF Placed
<1>6. Placed(r)'
  BY <1>2, <1>4, <1>5 DEF Placed
<1>7. Owned(r)' = {}
  BY <1>2 DEF Owned
<1>8. \A q \in Runs \ {r} : Owned(q)' = Owned(q)
  BY <1>3 DEF Owned
<1>9. QED
  BY <1>2, <1>3, <1>6, <1>7, <1>8

(* A command that ends without a file of its own, or with all of them.      *)
LEMMA EndsSound ==
  ASSUME GenInv, NEW r \in Runs, NEW place \in {"done", "refused", "dry", "torn", "killed"}, GenEnds(r, place),
         UNCHANGED <<tree, crossed, manifest>>,
         DOMAIN order' = Runs, \A q \in Runs \ {r} : order'[q] = order[q],
         place \in {"refused", "dry"} => Wrote(r) = {},
         place = "done" => order'[r] = order[r] /\ stage[r] = "publish" /\ next[r] > Len(files[r])
  PROVE  GenInv'
<1>1. GenTyped /\ Sound(r)
  BY DEF GenInv
<1>2. GenTyped'
  BY <1>1, EndsFacts DEF GenTyped
<1>3. \A x \in Runs : Wrote(x)' = Wrote(x)
  BY DEF Wrote
<1>4. Placed(r)'
  BY EndsFacts
<1>5. Left(r)'
  BY <1>3, EndsFacts DEF Left
<1>6. ASSUME place = "done" PROVE Kept(r)' /\ Alone(r)' /\ Fitting(r)'
  <2>1. /\ stage[r] = "publish" /\ next[r] > Len(files[r]) /\ stage'[r] = "done" /\ files'[r] = files[r]
        /\ order'[r] = order[r]
    BY <1>6, EndsFacts
  <2>2. PICK s : s = files[r]
    OBVIOUS
  <2>3. IsPlan(s) /\ Len(s) \in Nat /\ DOMAIN s = 1..Len(s)
    BY <1>1, <2>2, PlanFacts DEF Sound, Placed
  <2>4. next[r] - 1 = Len(s)
    BY <1>1, <2>1, <2>2, <2>3 DEF Sound, Placed
  <2>5. Owned(r) = {s[i] : i \in DOMAIN s}
    BY <2>1, <2>2, <2>3, <2>4, OwnedFacts
  <2>6. Kept(r)'
    BY <1>1, <1>3, <2>1, <2>2, <2>5 DEF Sound, Kept
  <2>7. Alone(r)'
    <3>1. \A q \in Runs \ {r} : Owned(q)' = Owned(q)
      BY EndsFacts
    <3>2. QED
      BY <1>1, <2>1, <3>1 DEF Sound, Alone
  <2>8. Fitting(r)'
    BY <1>1, <2>1 DEF Sound, Fitting
  <2>9. QED
    BY <2>6, <2>7, <2>8
<1>7. ASSUME place # "done" PROVE Kept(r)' /\ Alone(r)' /\ Fitting(r)'
  <2>1. stage'[r] = place
    BY EndsFacts
  <2>2. QED
    BY <1>7, <2>1 DEF Kept, Alone, Fitting
<1>8. Free(r)'
  <2>1. since'[r] = {} /\ stage'[r] = place
    BY EndsFacts
  <2>2. QED
    BY <2>1 DEF Free
<1>9. ASSUME NEW q \in Runs \ {r} PROVE Sound(q)'
  <2>1. UNCHANGED <<stage[q], files[q], next[q], since[q], order[q]>>
    BY EndsFacts
  <2>2. since[q] \subseteq DOMAIN tree
    BY DEF GenInv, Sound, Free
  <2>3. \A x \in Runs : Owned(x)' \subseteq Owned(x)
    <3>1. Owned(r)' = {} /\ \A x \in Runs \ {r} : Owned(x)' = Owned(x)
      BY EndsFacts
    <3>2. QED
      BY <3>1
  <2>4. QED
    BY <1>3, <2>1, <2>2, <2>3, OthersStay
<1>10. QED
  BY <1>2, <1>4, <1>5, <1>6, <1>7, <1>8, <1>9 DEF GenInv, Sound

(* A command looks at what it was asked for.                                *)
LEMMA GenerateSound ==
  ASSUME GenInv, NEW r \in Runs, NEW o \in Orders[r], Generate(r, o)
  PROVE  GenInv'
<1>1. GenTyped /\ Sound(r) /\ stage[r] = "start"
  BY DEF GenInv, Generate
<1>2. /\ DOMAIN order' = Runs /\ order'[r] = o /\ \A q \in Runs \ {r} : order'[q] = order[q]
      /\ UNCHANGED <<tree, crossed, manifest>>
  BY <1>1 DEF Generate, GenTyped
<1>3. Wrote(r) = {}
  BY <1>1 DEF Sound, Left
<1>4. CASE o.kind # "client" /\ Unplanned(o)
  <2>1. GenEnds(r, "refused")
    BY <1>4 DEF Generate
  <2>2. QED
    BY <1>2, <1>3, <2>1, EndsSound
<1>5. CASE ~(o.kind # "client" /\ Unplanned(o))
  <2> DEFINE place == IF o.kind = "client" THEN "client" ELSE "check"
  <2>1. /\ stage' = [stage EXCEPT ![r] = place]
        /\ files' = [files EXCEPT ![r] = IF o.kind = "client" THEN <<>> ELSE Planned(o)]
        /\ since' = [since EXCEPT ![r] = DOMAIN tree] /\ next' = next
    BY <1>5 DEF Generate, Enters
  <2>2. /\ stage'[r] = place /\ next'[r] = 1 /\ since'[r] = DOMAIN tree
        /\ files'[r] = IF o.kind = "client" THEN <<>> ELSE Planned(o)
        /\ \A q \in Runs \ {r} : UNCHANGED <<stage[q], files[q], next[q], since[q]>>
    BY <1>1, <2>1 DEF GenTyped, Sound, Placed
  <2>3. GenTyped'
    BY <1>1, <1>2, <2>1 DEF GenTyped, Places
  <2>4. PICK s : s = files'[r]
    OBVIOUS
  <2>5. IsPlan(s)
    <3>1. o.kind \in Generators
      BY GeneratorAssumption
    <3>2. CASE o.kind = "client"
      BY <2>2, <2>4, <3>2, NoFile
    <3>3. CASE o.kind # "client"
      <4>1. IsPlan(Planned(o))
        BY <3>1, <3>3, PlannedIsPlan
      <4>2. QED
        BY <2>2, <2>4, <3>3, <4>1
    <3>4. QED
      BY <3>2, <3>3
  <2>6. Placed(r)'
    <3>1. Len(s) \in Nat
      BY <2>5, PlanFacts
    <3>2. QED
      BY <2>2, <2>4, <2>5, <3>1 DEF Placed
  <2>7. \A x \in Runs : Wrote(x)' = Wrote(x)
    BY <1>2 DEF Wrote
  <2>8. Left(r)' /\ Kept(r)' /\ Alone(r)' /\ Free(r)'
    <3>1. stage'[r] \in {"client", "check"} /\ 1..(next'[r] - 1) = {}
      BY <2>2
    <3>2. QED
      BY <1>2, <1>3, <2>2, <2>7, <3>1 DEF Left, Kept, Alone, Free
  <2>9. Fitting(r)'
    <3>1. /\ o.soft \in BOOLEAN /\ o.fields \in Seq(Range(o.fields))
          /\ \A i \in DOMAIN o.fields : o.fields[i].nullable \in BOOLEAN
      BY GeneratorAssumption
    <3>2. ~BadFields(o.fields) \/ o.fields = <<>>
      BY <1>5 DEF Generate, TakesFields, Unplanned
    <3>3. PICK db : db = manifest.database
      OBVIOUS
    <3>4. StatementsFit(ParseFields(o.fields, db), o.soft)
      BY <3>1, <3>2, ResourceFits
    <3>5. manifest'.database = db
      BY <1>2, <3>3
    <3>6. QED
      BY <1>2, <3>4, <3>5 DEF Fitting
  <2>10. \A x \in Runs : Owned(x)' \subseteq Owned(x)
    <3>1. Owned(r)' = {}
      BY <2>2 DEF Owned
    <3>2. \A x \in Runs \ {r} : Owned(x)' = Owned(x)
      BY <2>2 DEF Owned
    <3>3. QED
      BY <3>1, <3>2
  <2>11. ASSUME NEW q \in Runs \ {r} PROVE Sound(q)'
    <3>1. UNCHANGED <<stage[q], files[q], next[q], since[q], order[q]>>
      BY <1>2, <2>2
    <3>2. since[q] \subseteq DOMAIN tree
      BY DEF GenInv, Sound, Free
    <3>3. QED
      BY <1>2, <2>7, <2>10, <3>1, <3>2, OthersStay
  <2>12. QED
    BY <2>3, <2>6, <2>8, <2>9, <2>11 DEF GenInv, Sound
<1>6. QED
  BY <1>4, <1>5

(* A command writes the client's file, which is in nobody's plan.           *)
LEMMA ClientSound ==
  ASSUME GenInv, NEW r \in Runs, GenerateClient(r)
  PROVE  GenInv'
<1>1. GenTyped /\ Sound(r) /\ stage[r] = "client" /\ Wrote(r) = {}
  BY DEF GenInv, GenerateClient, Sound, Left
<1>2. /\ DOMAIN order' = Runs /\ order' = order /\ UNCHANGED <<crossed, manifest>>
  BY <1>1 DEF GenerateClient, GenTyped
<1>3. CASE GenEnds(r, IF order[r].dry THEN "dry" ELSE "refused") /\ UNCHANGED tree
  <2>1. PICK place \in {"dry", "refused"} : GenEnds(r, place)
    BY <1>3
  <2>2. QED
    BY <1>1, <1>2, <1>3, <2>1, EndsSound
<1>4. CASE \E ok \in BOOLEAN : /\ tree' = [p \in DOMAIN tree \cup {Client} |-> IF p = Client THEN r ELSE tree[p]]
                              /\ GenEnds(r, IF ok THEN "done" ELSE "torn")
  <2>1. PICK place \in {"done", "torn"} : GenEnds(r, place)
    BY <1>4
  <2>2. tree' = [p \in DOMAIN tree \cup {Client} |-> IF p = Client THEN r ELSE tree[p]]
    BY <1>4
  <2>3. \A q \in Runs \ {r} : Wrote(q)' = Wrote(q) \ {Client}
    BY <2>2 DEF Wrote
  <2>4. GenTyped'
    BY <1>1, <1>2, <2>1, EndsFacts DEF GenTyped
  <2>5. /\ stage'[r] = place /\ files'[r] = <<>> /\ since'[r] = {}
    BY <1>1, <2>1, EndsFacts DEF Sound, Placed
  <2>6. Placed(r)'
    BY <2>1, EndsFacts
  <2>7. Left(r)' /\ Kept(r)' /\ Alone(r)' /\ Free(r)'
    <3>1. DOMAIN <<>> = {}
      OBVIOUS
    <3>2. QED
      BY <2>5, <3>1 DEF Left, Kept, Alone, Free
  <2>8. Fitting(r)'
    BY <1>1, <1>2 DEF Sound, Fitting
  <2>9. ASSUME NEW q \in Runs \ {r} PROVE Sound(q)'
    <3>1. UNCHANGED <<stage[q], files[q], next[q], since[q], order[q]>>
      BY <1>2, <2>1, EndsFacts
    <3>2. since[q] \subseteq DOMAIN tree /\ IsPlan(files[q])
      BY DEF GenInv, Sound, Free, Placed
    <3>3. since'[q] \subseteq DOMAIN tree'
      BY <2>2, <3>1, <3>2
    <3>4. \A i \in DOMAIN files[q] : files[q][i] \in Wrote(q) => files[q][i] \in Wrote(q)'
      <4>1. \A i \in DOMAIN files[q] : files[q][i] # Client
        BY <3>2, PlanFacts
      <4>2. QED
        BY <2>3, <4>1
    <3>5. \A x \in Runs : Owned(x)' \subseteq Owned(x)
      <4>1. Owned(r)' = {} /\ \A x \in Runs \ {r} : Owned(x)' = Owned(x)
        BY <2>1, EndsFacts
      <4>2. QED
        BY <4>1
    <3>6. QED
      BY <1>2, <2>3, <3>1, <3>3, <3>4, <3>5, OthersStay
  <2>10. QED
    BY <2>4, <2>6, <2>7, <2>8, <2>9 DEF GenInv, Sound
<1>5. QED
  BY <1>3, <1>4 DEF GenerateClient

(* A command moves on and the tree stays.                                   *)
LEMMA MovesSound ==
  ASSUME GenInv, NEW r \in Runs,
         UNCHANGED <<tree, manifest, order, since>>,
         GenTyped',
         \A q \in Runs \ {r} : UNCHANGED <<stage[q], files[q], next[q], crossed[q]>>,
         Owned(r)' \subseteq Owned(r),
         Sound(r)'
  PROVE  GenInv'
<1>1. ASSUME NEW q \in Runs \ {r} PROVE Sound(q)'
  <2>1. UNCHANGED <<stage[q], files[q], next[q], since[q], order[q], crossed[q]>>
    OBVIOUS
  <2>2. since[q] \subseteq DOMAIN tree
    BY DEF GenInv, Sound, Free
  <2>3. \A x \in Runs : Wrote(x)' = Wrote(x)
    BY DEF Wrote
  <2>4. \A x \in Runs : Owned(x)' \subseteq Owned(x)
    <3>1. \A x \in Runs \ {r} : Owned(x)' = Owned(x)
      BY DEF Owned
    <3>2. QED
      BY <3>1
  <2>5. QED
    BY <2>1, <2>2, <2>3, <2>4, OthersStay
<1>2. QED
  BY <1>1 DEF GenInv

(* The preflight.                                                           *)
LEMMA ChecksSound ==
  ASSUME GenInv, NEW r \in Runs, Checks(r)
  PROVE  GenInv'
<1>1. GenTyped /\ Sound(r) /\ stage[r] = "check" /\ next[r] <= Len(files[r])
  BY DEF GenInv, Checks
<1>2. Wrote(r) = {}
  BY <1>1 DEF Sound, Left
<1>3. CASE Collides(Current(r))
  <2>1. GenEnds(r, "refused") /\ UNCHANGED <<manifest, tree, order, crossed>>
    BY <1>3 DEF Checks
  <2>2. QED
    BY <1>1, <1>2, <2>1, EndsSound DEF GenTyped
<1>4. CASE ~Collides(Current(r))
  <2>1. /\ next' = [next EXCEPT ![r] = @ + 1] /\ UNCHANGED <<stage, files, since, manifest, tree, order>>
        /\ crossed' = [crossed EXCEPT ![r] = @ \/ \E q \in Runs \ {r} : Current(r) \in Owned(q)]
        /\ Current(r) \notin DOMAIN tree
    BY <1>4 DEF Checks, Collides, There
  <2>2. PICK s : s = files[r]
    OBVIOUS
  <2>3. PICK n \in Nat : n = next[r]
    BY <1>1 DEF GenTyped
  <2>4. IsPlan(s) /\ Len(s) \in Nat /\ n \in 1..Len(s)
    BY <1>1, <2>2, <2>3, PlanFacts DEF Sound, Placed
  <2>5. /\ next'[r] = n + 1 /\ \A q \in Runs \ {r} : next'[q] = next[q] /\ crossed'[q] = crossed[q]
        /\ next' \in [Runs -> Nat]
    BY <1>1, <2>1, <2>3 DEF GenTyped
  <2>6. ~crossed'[r] => ~crossed[r] /\ \A q \in Runs \ {r} : s[n] \notin Owned(q)
    BY <1>1, <2>1, <2>2, <2>3 DEF GenTyped, Current
  <2>7. crossed' \in [Runs -> BOOLEAN]
    BY <1>1, <2>1 DEF GenTyped
  <2>8. GenTyped'
    BY <1>1, <2>1, <2>5, <2>7 DEF GenTyped
  <2>9. Owned(r)' = {} /\ \A q \in Runs \ {r} : Owned(q)' = Owned(q)
    BY <1>1, <2>1, <2>5 DEF Owned
  <2>10. Wrote(r)' = {}
    BY <1>2, <2>1 DEF Wrote
  <2>11. Placed(r)'
    BY <1>1, <2>1, <2>2, <2>4, <2>5 DEF Placed
  <2>12. \A i \in 1..(next'[r] - 1) : i \in 1..(n - 1) \/ i = n
    BY <2>5
  <2>13. Left(r)' /\ Kept(r)' /\ Fitting(r)'
    BY <1>1, <2>1, <2>9, <2>10 DEF Sound, Left, Kept, Fitting
  <2>14. Alone(r)'
    <3>1. SUFFICES ASSUME ~crossed'[r], NEW q \in Runs \ {r}, NEW i \in 1..(next'[r] - 1)
                   PROVE  s[i] \notin Owned(q)'
      BY <1>1, <2>1, <2>2 DEF Alone
    <3>2. s[n] \notin Owned(q) /\ ~crossed[r] /\ Owned(q)' = Owned(q)
      BY <2>6, <2>9, <3>1
    <3>3. \A k \in 1..(n - 1) : s[k] \notin Owned(q)
      BY <1>1, <2>2, <2>3, <3>2 DEF Sound, Alone
    <3>4. QED
      BY <2>12, <3>2, <3>3
  <2>15. Free(r)'
    <3>1. \A k \in 1..(n - 1) : s[k] \notin since[r]
      BY <1>1, <2>2, <2>3 DEF Sound, Free
    <3>2. s[n] \notin since[r]
      BY <1>1, <2>1, <2>2, <2>3 DEF Sound, Free, Current
    <3>3. QED
      BY <1>1, <2>1, <2>2, <2>12, <3>1, <3>2 DEF Sound, Free
  <2>16. QED
    BY <2>1, <2>5, <2>8, <2>9, <2>11, <2>13, <2>14, <2>15, MovesSound DEF Sound
<1>5. QED
  BY <1>3, <1>4

(* --dry-run prints the plan; otherwise it is published.                    *)
LEMMA StagesSound ==
  ASSUME GenInv, NEW r \in Runs, Stages(r) \/ StagingFails(r)
  PROVE  GenInv'
<1>1. /\ GenTyped /\ Sound(r) /\ stage[r] = "check" /\ next[r] > Len(files[r])
      /\ UNCHANGED <<manifest, tree, order, crossed>>
  BY DEF GenInv, Stages, StagingFails
<1>2. Wrote(r) = {}
  BY <1>1 DEF Sound, Left
<1>3. CASE \E place \in {"dry", "refused"} : GenEnds(r, place)
  BY <1>1, <1>2, <1>3, EndsSound DEF GenTyped
<1>4. CASE Enters(r, "publish") /\ next' = [next EXCEPT ![r] = 1] /\ UNCHANGED <<files, since>>
  <2>1. PICK s : s = files[r]
    OBVIOUS
  <2>2. IsPlan(s) /\ Len(s) \in Nat /\ DOMAIN s = 1..Len(s)
    BY <1>1, <2>1, PlanFacts DEF Sound, Placed
  <2>3. next[r] - 1 = Len(s)
    BY <1>1, <2>1, <2>2 DEF Sound, Placed
  <2>4. /\ stage'[r] = "publish" /\ next'[r] = 1 /\ files'[r] = s
        /\ \A q \in Runs \ {r} : UNCHANGED <<stage[q], files[q], next[q], crossed[q]>>
    BY <1>1, <1>4, <2>1 DEF Enters, GenTyped
  <2>5. GenTyped'
    BY <1>1, <1>4 DEF Enters, GenTyped, Places
  <2>6. Owned(r)' = {}
    <3>1. 1..(next'[r] - 1) = {}
      BY <2>4
    <3>2. Owned(r)' = {files'[r][i] : i \in 1..(next'[r] - 1)}
      BY <2>4 DEF Owned
    <3>3. QED
      BY <3>1, <3>2
  <2>7. Wrote(r)' = {}
    BY <1>1, <1>2 DEF Wrote
  <2>8. \A q \in Runs \ {r} : Owned(q)' = Owned(q)
    BY <2>4 DEF Owned
  <2>9. Placed(r)'
    BY <2>2, <2>4 DEF Placed
  <2>10. Left(r)' /\ Kept(r)' /\ Fitting(r)'
    BY <1>1, <2>4, <2>6, <2>7 DEF Sound, Left, Kept, Fitting
  <2>11. Alone(r)'
    BY <1>1, <2>1, <2>2, <2>3, <2>4, <2>8 DEF Sound, Alone
  <2>12. Free(r)'
    BY <1>1, <1>4, <2>1, <2>2, <2>3, <2>4 DEF Sound, Free
  <2>13. QED
    BY <1>1, <1>4, <2>4, <2>5, <2>6, <2>9, <2>10, <2>11, <2>12, MovesSound DEF Sound
<1>5. QED
  BY <1>3, <1>4 DEF Stages, StagingFails

(* A file is published, over whatever is there.                             *)
LEMMA PublishesSound ==
  ASSUME GenInv, NEW r \in Runs, Publishes(r)
  PROVE  GenInv'
<1>1. /\ GenTyped /\ Sound(r) /\ stage[r] = "publish" /\ next[r] <= Len(files[r])
      /\ UNCHANGED <<manifest, order, stage, files, since>>
  BY DEF GenInv, Publishes
<1>2. PICK s : s = files[r]
  OBVIOUS
<1>3. PICK n \in Nat : n = next[r]
  BY <1>1 DEF GenTyped
<1>4. IsPlan(s) /\ Len(s) \in Nat /\ DOMAIN s = 1..Len(s) /\ n \in 1..Len(s)
  BY <1>1, <1>2, <1>3, PlanFacts DEF Sound, Placed
<1>5. PICK p : p = s[n]
  OBVIOUS
<1>6. Current(r) = p
  BY <1>2, <1>3, <1>5 DEF Current
<1>7. /\ tree' = [x \in DOMAIN tree \cup {p} |-> IF x = p THEN r ELSE tree[x]]
      /\ next' = [next EXCEPT ![r] = n + 1]
      /\ crossed' = [q \in Runs |-> crossed[q] \/ (r # q /\ stage[q] \notin {"start", "refused"}
                                     /\ {p} \cap {files[q][i] : i \in DOMAIN files[q]} # {})]
  BY <1>3, <1>6 DEF Publishes, Crosses
<1>8. /\ next'[r] = n + 1 /\ \A q \in Runs \ {r} : next'[q] = next[q]
      /\ next' \in [Runs -> Nat] /\ crossed' \in [Runs -> BOOLEAN]
      /\ crossed'[r] = crossed[r]
  BY <1>1, <1>7 DEF GenTyped
<1>9. GenTyped'
  BY <1>1, <1>8 DEF GenTyped
<1>10. \A q \in Runs \ {r} : Wrote(q)' = Wrote(q) \ {p} /\ Owned(q)' = Owned(q)
  <2>1. \A q \in Runs \ {r} : Wrote(q)' = Wrote(q) \ {p}
    BY <1>7 DEF Wrote
  <2>2. \A q \in Runs \ {r} : Owned(q)' = Owned(q)
    BY <1>1, <1>8 DEF Owned
  <2>3. QED
    BY <2>1, <2>2
<1>11. Wrote(r)' = Wrote(r) \cup {p}
  BY <1>7 DEF Wrote
<1>12. Owned(r)' = Owned(r) \cup {p}
  <2>1. Owned(r) = {s[i] : i \in 1..(n - 1)}
    BY <1>1, <1>2, <1>3, OwnedFacts
  <2>2. Owned(r)' = {s[i] : i \in 1..n}
    <3>1. Owned(r)' = {files'[r][i] : i \in 1..(next'[r] - 1)}
      BY <1>1 DEF Owned
    <3>2. files'[r] = s /\ next'[r] - 1 = n
      BY <1>1, <1>2, <1>8
    <3>3. QED
      BY <3>1, <3>2
  <2>3. \A i \in 1..n : i \in 1..(n - 1) \/ i = n
    OBVIOUS
  <2>4. n \in 1..n /\ 1..(n - 1) \subseteq 1..n
    BY <1>4
  <2>5. QED
    BY <1>5, <2>1, <2>2, <2>3, <2>4
<1>13. Placed(r)'
  BY <1>1, <1>2, <1>4, <1>8 DEF Placed
<1>14. Left(r)' /\ Kept(r)' /\ Fitting(r)'
  BY <1>1, <1>8, <1>11, <1>12 DEF Sound, Left, Kept, Fitting
<1>15. Alone(r)'
  BY <1>1, <1>8, <1>10 DEF Sound, Alone
<1>16. Free(r)'
  BY <1>1, <1>7 DEF Sound, Free
<1>17. ASSUME NEW q \in Runs \ {r} PROVE Sound(q)'
  <2>1. UNCHANGED <<stage[q], files[q], next[q], since[q], order[q], manifest>>
    BY <1>1, <1>8
  <2>2. since[q] \subseteq DOMAIN tree'
    <3>1. since[q] \subseteq DOMAIN tree
      BY DEF GenInv, Sound, Free
    <3>2. QED
      BY <1>7, <3>1
  <2>3. ~crossed'[q] => ~crossed[q]
    BY <1>7
  <2>4. ~crossed'[q] /\ stage[q] \notin {"start", "refused"} => \A i \in DOMAIN files[q] : files[q][i] # p
    BY <1>7
  <2>5. ~crossed'[q] /\ stage[q] \in {"publish", "done"} =>
          \A i \in DOMAIN files[q] : files[q][i] \in Wrote(q) => files[q][i] \in Wrote(q)'
    BY <1>10, <2>4
  <2>6. ~crossed'[q] /\ stage[q] \in {"check", "publish", "done"} =>
          \A x \in Runs \ {q} : \A i \in DOMAIN files[q] : files[q][i] \in Owned(x)' => files[q][i] \in Owned(x)
    BY <1>10, <1>12, <2>4
  <2>7. Wrote(q)' \subseteq Wrote(q)
    BY <1>10
  <2>8. QED
    BY <2>1, <2>2, <2>3, <2>5, <2>6, <2>7, OthersStay
<1>18. QED
  BY <1>9, <1>13, <1>14, <1>15, <1>16, <1>17 DEF GenInv, Sound

(* A rename fails: what was published is to be removed.                     *)
LEMMA PublishFailsSound ==
  ASSUME GenInv, NEW r \in Runs, PublishFails(r)
  PROVE  GenInv'
<1>1. /\ GenTyped /\ Sound(r) /\ stage[r] = "publish" /\ next[r] <= Len(files[r])
      /\ UNCHANGED <<manifest, tree, order, since, crossed>>
  BY DEF GenInv, PublishFails
<1>2. PICK s : s = files[r]
  OBVIOUS
<1>3. PICK n \in Nat : n = next[r]
  BY <1>1 DEF GenTyped
<1>4. IsPlan(s) /\ Len(s) \in Nat /\ DOMAIN s = 1..Len(s) /\ n \in 1..(Len(s) + 1)
  BY <1>1, <1>2, <1>3, PlanFacts DEF Sound, Placed
<1>5. PICK u : u = SubSeq(s, 1, n - 1)
  OBVIOUS
<1>6. IsPlan(u) /\ Len(u) = n - 1 /\ DOMAIN u = 1..(n - 1) /\ \A i \in 1..(n - 1) : u[i] = s[i]
  <2>1. IsPlan(u) /\ Len(u) = n - 1 /\ \A i \in 1..(n - 1) : u[i] = s[i]
    BY <1>4, <1>5, PublishedFacts
  <2>2. DOMAIN u = 1..Len(u)
    BY <2>1, PlanFacts
  <2>3. QED
    BY <2>1, <2>2
<1>7. /\ stage'[r] = "undo" /\ files'[r] = u /\ next'[r] = 1
      /\ \A q \in Runs \ {r} : UNCHANGED <<stage[q], files[q], next[q], crossed[q]>>
  BY <1>1, <1>2, <1>3, <1>5 DEF PublishFails, Enters, Published, GenTyped
<1>8. GenTyped'
  BY <1>1 DEF PublishFails, Enters, GenTyped, Places
<1>9. Owned(r) = {s[i] : i \in 1..(n - 1)}
  BY <1>1, <1>2, <1>3, OwnedFacts
<1>10. Owned(r)' = {u[i] : i \in 1..(n - 1)}
  <2>1. Owned(r)' = {files'[r][i] : i \in next'[r]..Len(files'[r])}
    BY <1>7 DEF Owned
  <2>2. QED
    BY <1>6, <1>7, <2>1
<1>11. Owned(r)' = Owned(r)
  BY <1>6, <1>9, <1>10
<1>12. Wrote(r)' = Wrote(r)
  BY <1>1 DEF Wrote
<1>13. Placed(r)'
  BY <1>3, <1>4, <1>6, <1>7 DEF Placed
<1>14. Left(r)' /\ Kept(r)' /\ Alone(r)' /\ Fitting(r)'
  BY <1>1, <1>7, <1>11, <1>12 DEF Sound, Left, Kept, Alone, Fitting
<1>15. Free(r)'
  <2>1. \A i \in 1..(n - 1) : s[i] \notin since[r]
    BY <1>1, <1>2, <1>4 DEF Sound, Free
  <2>2. QED
    BY <1>1, <1>6, <1>7, <2>1 DEF Sound, Free
<1>16. QED
  BY <1>1, <1>7, <1>8, <1>11, <1>13, <1>14, <1>15, MovesSound DEF Sound

(* One of them is.                                                          *)
LEMMA RemovesSound ==
  ASSUME GenInv, NEW r \in Runs, Removes(r)
  PROVE  GenInv'
<1>1. /\ GenTyped /\ Sound(r) /\ stage[r] = "undo" /\ next[r] <= Len(files[r])
      /\ UNCHANGED <<manifest, order, stage, files, crossed>>
  BY DEF GenInv, Removes
<1>2. PICK s : s = files[r]
  OBVIOUS
<1>3. PICK n \in Nat : n = next[r]
  BY <1>1 DEF GenTyped
<1>4. IsPlan(s) /\ Len(s) \in Nat /\ DOMAIN s = 1..Len(s) /\ n \in 1..Len(s)
  BY <1>1, <1>2, <1>3, PlanFacts DEF Sound, Placed
<1>5. PICK p : p = s[n]
  OBVIOUS
<1>6. Current(r) = p
  BY <1>2, <1>3, <1>5 DEF Current
<1>7. /\ DOMAIN tree' = DOMAIN tree \ {p} /\ \A x \in DOMAIN tree \ {p} : tree'[x] = tree[x]
      /\ next' = [next EXCEPT ![r] = n + 1]
      /\ since' = [q \in Runs |-> since[q] \ {p}]
  BY <1>3, <1>6 DEF Removes, Restrict
<1>8. /\ next'[r] = n + 1 /\ \A q \in Runs \ {r} : next'[q] = next[q]
      /\ next' \in [Runs -> Nat]
  BY <1>1, <1>7 DEF GenTyped
<1>9. GenTyped'
  BY <1>1, <1>7, <1>8 DEF GenTyped
<1>10. \A q \in Runs : Wrote(q)' = Wrote(q) \ {p}
  BY <1>7 DEF Wrote
<1>11. \A q \in Runs \ {r} : Owned(q)' = Owned(q)
  BY <1>1, <1>8 DEF Owned
<1>12. Owned(r) = Owned(r)' \cup {p}
  <2>1. Owned(r) = {s[i] : i \in n..Len(s)}
    BY <1>1, <1>2, <1>3, OwnedFacts
  <2>2. Owned(r)' = {s[i] : i \in (n + 1)..Len(s)}
    <3>1. Owned(r)' = {files'[r][i] : i \in next'[r]..Len(files'[r])}
      BY <1>1 DEF Owned
    <3>2. files'[r] = s /\ next'[r] = n + 1
      BY <1>1, <1>2, <1>8
    <3>3. QED
      BY <3>1, <3>2
  <2>3. \A i \in n..Len(s) : i \in (n + 1)..Len(s) \/ i = n
    BY <1>4
  <2>4. n \in n..Len(s) /\ (n + 1)..Len(s) \subseteq n..Len(s)
    BY <1>4
  <2>5. QED
    BY <1>5, <2>1, <2>2, <2>3, <2>4
<1>13. Placed(r)'
  BY <1>1, <1>2, <1>4, <1>8 DEF Placed
<1>14. Left(r)'
  BY <1>1, <1>10, <1>12 DEF Sound, Left
<1>15. Kept(r)' /\ Alone(r)' /\ Fitting(r)'
  BY <1>1 DEF Sound, Kept, Alone, Fitting
<1>16. Free(r)'
  BY <1>1, <1>7 DEF Sound, Free
<1>17. ASSUME NEW q \in Runs \ {r} PROVE Sound(q)'
  <2>1. UNCHANGED <<stage[q], files[q], next[q], order[q], manifest>> /\ crossed'[q] = crossed[q]
    BY <1>1, <1>8
  <2>2. Sound(q)
    BY DEF GenInv
  <2>3. since'[q] \subseteq since[q] /\ since'[q] \subseteq DOMAIN tree'
    BY <1>7, <2>2 DEF Sound, Free
  <2>4. ~crossed[q] /\ stage[q] \in {"publish", "done"} => \A i \in DOMAIN files[q] : files[q][i] # p
    BY <1>12, <2>2 DEF Sound, Alone
  <2>5. ~crossed'[q] /\ stage[q] \in {"publish", "done"} =>
          \A i \in DOMAIN files[q] : files[q][i] \in Wrote(q) => files[q][i] \in Wrote(q)'
    BY <1>10, <2>1, <2>4
  <2>6. \A x \in Runs : Owned(x)' \subseteq Owned(x)
    BY <1>11, <1>12
  <2>7. Wrote(q)' \subseteq Wrote(q)
    BY <1>10
  <2>8. QED
    BY <2>1, <2>3, <2>5, <2>6, <2>7, OthersStay
<1>18. QED
  BY <1>9, <1>13, <1>14, <1>15, <1>16, <1>17 DEF GenInv, Sound

(* It has done all it had to, or is killed.                                 *)
LEMMA ReturnsSound ==
  ASSUME GenInv, NEW r \in Runs, Returns(r) \/ Killed(r)
  PROVE  GenInv'
<1>1. /\ GenTyped /\ Sound(r) /\ stage[r] \in {"publish", "undo"}
      /\ UNCHANGED <<manifest, tree, order, crossed>>
  BY DEF GenInv, Returns, Killed
<1>2. CASE Returns(r) /\ stage[r] = "publish"
  <2>1. GenEnds(r, "done") /\ next[r] > Len(files[r])
    BY <1>2 DEF Returns
  <2>2. QED
    BY <1>1, <1>2, <2>1, EndsSound DEF GenTyped
<1>3. CASE Returns(r) /\ stage[r] = "undo"
  <2>1. GenEnds(r, "refused") /\ next[r] > Len(files[r])
    BY <1>3 DEF Returns
  <2>2. PICK s : s = files[r]
    OBVIOUS
  <2>3. PICK n \in Nat : n = next[r]
    BY <1>1 DEF GenTyped
  <2>4. Len(s) \in Nat
    BY <1>1, <2>2, PlanFacts DEF Sound, Placed
  <2>5. n..Len(s) = {}
    BY <2>1, <2>2, <2>3, <2>4
  <2>6. Owned(r) = {s[i] : i \in n..Len(s)}
    BY <1>3, <2>2, <2>3, OwnedFacts
  <2>7. Wrote(r) = {}
    BY <1>1, <2>5, <2>6 DEF Sound, Left
  <2>8. QED
    BY <1>1, <2>1, <2>7, EndsSound DEF GenTyped
<1>4. CASE Killed(r)
  <2>1. GenEnds(r, "killed")
    BY <1>4 DEF Killed
  <2>2. QED
    BY <1>1, <2>1, EndsSound DEF GenTyped
<1>5. QED
  BY <1>1, <1>2, <1>3, <1>4

(* The developer writes a file.                                             *)
LEMMA HumanSound ==
  ASSUME GenInv, NEW p, HumanWrites(p)
  PROVE  GenInv'
<1>1. GenTyped /\ UNCHANGED <<manifest, order, stage, files, next, since>>
  BY DEF GenInv, HumanWrites
<1>2. /\ tree' = [x \in DOMAIN tree \cup {p} |-> IF x = p THEN Human ELSE tree[x]]
      /\ crossed' = [q \in Runs |-> crossed[q] \/ (Human # q /\ stage[q] \notin {"start", "refused"}
                                     /\ {p} \cap {files[q][i] : i \in DOMAIN files[q]} # {})]
  BY DEF HumanWrites, Crosses
<1>3. GenTyped'
  <2>1. crossed' \in [Runs -> BOOLEAN]
    BY <1>1, <1>2 DEF GenTyped
  <2>2. QED
    BY <1>1, <2>1 DEF GenTyped
<1>4. ASSUME NEW q \in Runs PROVE Sound(q)'
  <2>1. Wrote(q)' = Wrote(q) \ {p}
    BY <1>2, GeneratorAssumption DEF Wrote
  <2>2. \A x \in Runs : Owned(x)' = Owned(x)
    BY <1>1 DEF Owned
  <2>3. since'[q] = since[q] /\ since[q] \subseteq DOMAIN tree'
    <3>1. since[q] \subseteq DOMAIN tree
      BY DEF GenInv, Sound, Free
    <3>2. QED
      BY <1>1, <1>2, <3>1
  <2>4. ~crossed'[q] => ~crossed[q]
    BY <1>2
  <2>5. ~crossed'[q] /\ stage[q] \in {"publish", "done"} => \A i \in DOMAIN files[q] : files[q][i] # p
    BY <1>2, GeneratorAssumption
  <2>6. ~crossed'[q] /\ stage[q] \in {"publish", "done"} =>
          \A i \in DOMAIN files[q] : files[q][i] \in Wrote(q) => files[q][i] \in Wrote(q)'
    BY <2>1, <2>5
  <2>7. UNCHANGED <<stage[q], files[q], next[q], order[q], manifest>> /\ Wrote(q)' \subseteq Wrote(q)
    BY <1>1, <2>1
  <2>8. QED
    BY <2>2, <2>3, <2>4, <2>6, <2>7, OthersStay
<1>5. QED
  BY <1>3, <1>4 DEF GenInv

(* Nothing happens that a command looks at.                                 *)
LEMMA NothingSound ==
  ASSUME GenInv, UNCHANGED <<manifest, tree, order, stage, files, next, since, crossed>>
  PROVE  GenInv'
<1>1. GenTyped'
  BY DEF GenInv, GenTyped
<1>2. ASSUME NEW q \in Runs PROVE Sound(q)'
  <2>1. Wrote(q)' = Wrote(q)
    BY DEF Wrote
  <2>2. \A x \in Runs : Owned(x)' = Owned(x)
    BY DEF Owned
  <2>3. since[q] \subseteq DOMAIN tree
    BY DEF GenInv, Sound, Free
  <2>4. QED
    BY <2>1, <2>2, <2>3, OthersStay
<1>3. QED
  BY <1>1, <1>2 DEF GenInv

(* Every step of Generator.                                                 *)
LEMMA GenStep == GenInv /\ [GenNext]_genVars => GenInv'
<1> SUFFICES ASSUME GenInv, [GenNext]_genVars PROVE GenInv'
  OBVIOUS
<1>1. CASE UNCHANGED genVars
  BY <1>1, NothingSound DEF genVars
<1>2. ASSUME NEW r \in Runs,
             \/ \E o \in Orders[r] : Generate(r, o)
             \/ GenerateClient(r) \/ Checks(r) \/ Stages(r) \/ StagingFails(r) \/ Publishes(r)
             \/ PublishFails(r) \/ Removes(r) \/ Returns(r) \/ Killed(r)
      PROVE  GenInv'
  BY <1>2, GenerateSound, ClientSound, ChecksSound, StagesSound, PublishesSound, PublishFailsSound, RemovesSound,
     ReturnsSound
<1>3. ASSUME NEW p \in Edited, HumanWrites(p) PROVE GenInv'
  BY <1>3, HumanSound
<1>4. CASE SecondPasses
  BY <1>4, NothingSound DEF SecondPasses
<1>5. QED
  BY <1>1, <1>2, <1>3, <1>4 DEF GenNext

(* Each command has written what it owns, and everybody stays out of it.    *)
THEOREM GenInvariance == GenSpec => []GenInv
<1>1. QED
  BY GenInitInv, GenStep, PTL DEF GenSpec

(* For any number of commands, whatever they ask for, whoever writes files  *)
(* meanwhile and whichever step fails: a command that failed left nothing,  *)
(* and one that succeeded everything, but for what others wrote.            *)
THEOREM NothingPartial == GenSpec => []NoPartialResource
<1>1. GenInv => NoPartialResource
  BY DEF GenInv, Sound, Left, Kept, NoPartialResource, There, Wrote
<1>2. QED
  BY <1>1, GenInvariance, PTL

(* For any fields of a command that was not refused, the statements of its  *)
(* resource fit.                                                            *)
THEOREM EverythingFits == GenSpec => []GeneratedFits
<1>1. GenInv => GeneratedFits
  BY DEF GenInv, Sound, Fitting, GeneratedFits
<1>2. QED
  BY <1>1, GenInvariance, PTL

(* What is there since before the commands under way were started stays, as *)
(* it is or as the developer writes it.                                     *)
THEOREM OldStays == GenSpec => OldFilesStay
<1> DEFINE Stays == \A p \in DOMAIN tree \ {Client} :
             (\A r \in Runs : stage[r] \in {"check", "publish", "undo"} => p \in since[r]) =>
               p \in DOMAIN tree' /\ tree'[p] \in {tree[p], Human}
<1>1. GenInv /\ [GenNext]_genVars => [Stays]_genVars
  <2> SUFFICES ASSUME GenInv, GenNext, NEW p \in DOMAIN tree \ {Client},
                      \A r \in Runs : stage[r] \in {"check", "publish", "undo"} => p \in since[r]
               PROVE  p \in DOMAIN tree' /\ tree'[p] \in {tree[p], Human}
    OBVIOUS
  <2>1. ASSUME NEW r \in Runs, Publishes(r) \/ Removes(r) PROVE p \in DOMAIN tree' /\ tree'[p] = tree[p]
    <3>1. Sound(r) /\ stage[r] \in {"publish", "undo"} /\ next[r] <= Len(files[r])
      BY <2>1 DEF GenInv, Publishes, Removes
    <3>2. next[r] \in DOMAIN files[r]
      <4>1. PICK s : s = files[r]
        OBVIOUS
      <4>2. Len(s) \in Nat /\ DOMAIN s = 1..Len(s) /\ next[r] \in 1..(Len(s) + 1)
        BY <3>1, <4>1, PlanFacts DEF Sound, Placed
      <4>3. QED
        BY <3>1, <4>1, <4>2
    <3>3. Current(r) \notin since[r]
      BY <3>1, <3>2 DEF Sound, Free, Current
    <3>4. Current(r) # p
      BY <3>1, <3>3
    <3>5. QED
      BY <2>1, <3>4 DEF Publishes, Removes, Restrict
  <2>2. ASSUME NEW r \in Runs, GenerateClient(r) PROVE p \in DOMAIN tree' /\ tree'[p] = tree[p]
    BY <2>2 DEF GenerateClient
  <2>3. ASSUME NEW q \in Edited, HumanWrites(q) PROVE p \in DOMAIN tree' /\ tree'[p] \in {tree[p], Human}
    BY <2>3 DEF HumanWrites
  <2>4. CASE UNCHANGED tree
    BY <2>4
  <2>5. QED
    BY <2>1, <2>2, <2>3, <2>4 DEF GenNext, Generate, Checks, Stages, StagingFails, PublishFails, Returns, Killed,
       SecondPasses
<1>2. QED
  BY <1>1, GenInvariance, PTL DEF GenSpec, OldFilesStay
=============================================================================
