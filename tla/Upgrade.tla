------------------------------- MODULE Upgrade -------------------------------
(***************************************************************************)
(* The vendored platform code of a standalone project: how gin-kit new     *)
(* writes it with its checksum baseline .gin-kit.sum (internal/cli/new.go) *)
(* and how gin-kit upgrade --apply brings it to what a later release of    *)
(* the CLI renders (internal/cli/upgrade.go).                              *)
(*                                                                         *)
(* The command, the developer, who may save files while it runs, and a     *)
(* crash at any point interleave.  A step of the command is one publishing *)
(* rename, one reading of the tree or one write of the baseline.  A        *)
(* checksum is the text it was computed from; a file is its text and       *)
(* whether it is laid out as gofmt would.                                  *)
(***************************************************************************)
EXTENDS Naturals

CONSTANTS
  FileCount,   \* the platform files are numbered in path order
  Releases,    \* the releases of the CLI are numbered
  Rendered,    \* what each release renders for each file, or NoText
  Texts,       \* the texts any release renders
  LocalEdit,   \* a text no release renders
  NoText,      \* a file that is missing, not rendered or not in the baseline
  MaxChanges   \* bound: changes the developer makes

Files    == 1..FileCount
Versions == 1..Releases

ASSUME UpgradeAssumption ==
  /\ FileCount \in Nat /\ Releases \in Nat \ {0} /\ MaxChanges \in Nat
  /\ Rendered \in [Files -> [Versions -> Texts \cup {NoText}]]
  /\ LocalEdit \notin Texts /\ NoText \notin Texts \cup {LocalEdit}

VARIABLES
  project,     \* the target directory: absent, or published by new
  text,        \* the text of each file on disk
  tidy,        \* the files that are laid out as gofmt would
  sum,         \* the checksum .gin-kit.sum holds for each file
  valid,       \* .gin-kit.sum can be parsed
  staging,     \* new's staging directory: the files written to it so far
  cli,         \* the release of the CLI the developer has
  at,          \* where upgrade --apply is
  force,       \* its --force
  status,      \* its plan: the classification of each file
  todo,        \* the files it has still to publish
  base,        \* the baseline it is about to write
  result,      \* how the last command of this release ended
  changes,     \* history: how often the developer changed a file
  touched,     \* history: the files whose text the developer changed since
               \* the CLI wrote it
  changed,     \* history: the files the developer changed since the plan
  unrecorded   \* history: the files whose entry was lost, or not written, by
               \* a failure

diskVars == <<text, tidy>>
sumVars  == <<sum, valid>>
cmdVars  == <<force, status, todo, base>>
devVars  == <<changes, touched, changed>>
vars     == <<project, diskVars, sumVars, staging, cli, at, cmdVars, result,
              devVars, unrecorded>>

None == [f \in Files |-> NoText]

Init ==
  /\ project = "absent"
  /\ text = None /\ tidy = Files
  /\ sum = None /\ valid = TRUE
  /\ staging = {}
  /\ cli = 1
  /\ at = "idle"
  /\ force = FALSE
  /\ status = [f \in Files |-> "none"]
  /\ todo = {}
  /\ base = None
  /\ result = "none"
  /\ changes = 0
  /\ touched = {} /\ changed = {}
  /\ unrecorded = {}

Present(f) == text[f] # NoText
Wanted(f)  == Rendered[f][cli]
Managed    == {f \in Files : Wanted(f) # NoText}

-----------------------------------------------------------------------------
(* gin-kit new: everything is written, formatted and summed in a staging    *)
(* directory, which is then renamed to the target.                          *)

ScaffoldFile(f) ==
  /\ project = "absent"
  /\ f \in Managed \ staging
  /\ \A g \in Managed : g < f => g \in staging
  /\ staging' = staging \cup {f}
  /\ UNCHANGED <<project, diskVars, sumVars, cli, at, cmdVars, result, devVars, unrecorded>>

\* A write fails and the staging directory is removed, or the command is killed.
ScaffoldFails ==
  /\ project = "absent" /\ staging # {}
  /\ staging' = {}
  /\ UNCHANGED <<project, diskVars, sumVars, cli, at, cmdVars, result, devVars, unrecorded>>

\* Mutant: the directory is published while files are still to be written.
PublishesEarly == staging # {}

ScaffoldReady == staging = Managed

\* writeBaselineFromDisk sums what was staged.
ScaffoldPublish ==
  /\ project = "absent"
  /\ ScaffoldReady
  /\ project' = "present"
  /\ text' = [f \in Files |-> IF f \in staging THEN Wanted(f) ELSE NoText]
  /\ sum' = text'
  /\ UNCHANGED <<tidy, valid, staging, cli, at, cmdVars, result, devVars, unrecorded>>

NewRelease ==
  /\ at = "idle" /\ project = "present"
  /\ cli < Releases
  /\ cli' = cli + 1
  /\ result' = "none"
  /\ UNCHANGED <<project, diskVars, sumVars, staging, at, cmdVars, devVars, unrecorded>>

-----------------------------------------------------------------------------
(* The developer, at any time.                                              *)

Change(f) ==
  /\ project = "present" /\ changes < MaxChanges
  /\ changes' = changes + 1
  /\ changed' = changed \cup {f}
  /\ UNCHANGED <<project, sumVars, staging, cli, at, cmdVars, result, unrecorded>>

\* A text of his own, one of another release, or none at all.
Edit(f, t) ==
  /\ Change(f)
  /\ t # text[f]
  /\ text' = [text EXCEPT ![f] = t]
  /\ touched' = touched \cup {f}
  /\ tidy' = tidy \cup {f}

Reformat(f) ==
  /\ Change(f)
  /\ Present(f) /\ f \in tidy
  /\ tidy' = tidy \ {f}
  /\ UNCHANGED <<text, touched>>

\* What the diagnostic of an unreadable baseline recommends.
DeleteSum ==
  /\ project = "present" /\ at = "idle" /\ ~valid
  /\ sum' = None /\ valid' = TRUE
  /\ unrecorded' = Files
  /\ UNCHANGED <<project, diskVars, staging, cli, at, cmdVars, result, devVars>>

-----------------------------------------------------------------------------
(* upgradePlan: the comparison and the checksum see the text and not its    *)
(* layout.                                                                  *)

\* Mutant: the layout counts in the comparison with the baseline.
StaleIfTidy(f, t, recorded) == recorded = t /\ f \in tidy

\* baseline[rel] == baselineHash(rel, disk).
Stale(f, t, recorded) == recorded = t

Classify(f) ==
  CASE Wanted(f) = NoText                -> IF Present(f) THEN "unmanaged" ELSE "none"
    [] Wanted(f) # NoText /\ ~Present(f) -> "missing"
    [] text[f] = Wanted(f)               -> "up-to-date"
    [] OTHER -> IF sum[f] = NoText THEN "differs"
                ELSE IF Stale(f, text[f], sum[f]) THEN "outdated" ELSE "modified"

Writes(s, forced) ==
  \/ s \in {"outdated", "missing"}
  \/ forced /\ s \in {"modified", "differs"}

Plan(forced) ==
  /\ project = "present" /\ at = "idle"
  /\ IF valid
     THEN /\ status' = [f \in Files |-> Classify(f)]
          /\ todo' = {f \in Files : Writes(Classify(f), forced)}
          /\ at' = "stage"
          /\ result' = "none"
     ELSE /\ result' = "baseline invalid"
          /\ UNCHANGED <<status, todo, at>>
  /\ force' = forced
  /\ changed' = {}
  /\ UNCHANGED <<project, diskVars, sumVars, staging, cli, base, changes, touched, unrecorded>>

-----------------------------------------------------------------------------
(* applyUpgrade.                                                            *)

Ends(res) == at' = "idle" /\ result' = res /\ todo' = {}

\* Every file is staged before the first one is published.
Stage ==
  /\ at = "stage"
  /\ at' = "publish"
  /\ UNCHANGED <<project, diskVars, sumVars, staging, cli, cmdVars, result, devVars, unrecorded>>

\* The renames are in path order; until the baseline is written, its entry is the old one.
Publish(f) ==
  /\ at = "publish"
  /\ f \in todo /\ \A g \in todo : f <= g
  /\ text' = [text EXCEPT ![f] = Wanted(f)]
  /\ tidy' = tidy \cup {f}
  /\ todo' = todo \ {f}
  /\ touched' = touched \ {f}
  /\ unrecorded' = IF sum[f] = Wanted(f) THEN unrecorded ELSE unrecorded \cup {f}
  /\ UNCHANGED <<project, sumVars, staging, cli, at, force, status, base, result, changes, changed>>

\* Mutant: every rendered file is summed as it is on disk.
MatchesAlways(f) == TRUE

\* Mutant: only the files just written are summed.
MatchesWritten(f) == text[f] = Wanted(f) /\ status[f] # "up-to-date"

\* bytes.Equal(normalizeGo(path, disk), rendered).
Matches(f) == text[f] = Wanted(f)

\* The baseline is read again (nothing here garbles it meanwhile), and the entries
\* of the files that are now as rendered are refreshed.
Refresh ==
  /\ at = "publish" /\ todo = {}
  /\ IF valid
     THEN /\ base' = [f \in Files |->
                        IF f \in Managed /\ Present(f) /\ Matches(f) THEN text[f] ELSE sum[f]]
          /\ at' = "write"
          /\ UNCHANGED <<todo, result>>
     ELSE Ends("baseline invalid") /\ UNCHANGED base
  /\ UNCHANGED <<project, diskVars, sumVars, staging, cli, force, status, devVars, unrecorded>>

\* The files whose entry says what is on disk need no excuse any more.
Recorded(entries) == {f \in Files : entries[f] = text[f]}

WriteSum ==
  /\ at = "write"
  /\ sum' = base
  /\ unrecorded' = unrecorded \ Recorded(base)
  /\ Ends("ok")
  /\ UNCHANGED <<project, diskVars, valid, staging, cli, force, status, base, devVars>>

\* os.WriteFile truncates, then writes: it fails, or the machine stops, with
\* the first lines written and perhaps a part of the next.
WriteSumTorn ==
  /\ at = "write"
  /\ \E n \in 0..FileCount :
       /\ sum' = [f \in Files |-> IF f <= n THEN base[f] ELSE NoText]
       /\ valid' \in IF \E f \in Files : f > n /\ base[f] # NoText
                     THEN BOOLEAN ELSE {TRUE}
       /\ unrecorded' = (unrecorded \cup {f \in Files : f > n}) \ Recorded(sum')
  /\ Ends("write failed")
  /\ UNCHANGED <<project, diskVars, staging, cli, force, status, base, devVars>>

\* A staged write or a rename fails, or the command is killed.
Interrupted ==
  /\ at \in {"stage", "publish", "write"}
  /\ Ends("failed")
  /\ UNCHANGED <<project, diskVars, sumVars, staging, cli, force, status, base, devVars, unrecorded>>

-----------------------------------------------------------------------------
Scaffold == (\E f \in Files : ScaffoldFile(f)) \/ ScaffoldFails \/ ScaffoldPublish

Developer ==
  \/ \E f \in Files : Reformat(f) \/ \E t \in Texts \cup {LocalEdit, NoText} : Edit(f, t)
  \/ DeleteSum \/ NewRelease

Apply ==
  \/ \E forced \in BOOLEAN : Plan(forced)
  \/ Stage \/ (\E f \in Files : Publish(f)) \/ Refresh \/ WriteSum \/ WriteSumTorn
  \/ Interrupted

Next == Scaffold \/ Developer \/ Apply

Spec == Init /\ [][Next]_vars

-----------------------------------------------------------------------------
Statuses == {"none", "up-to-date", "outdated", "modified", "differs", "missing", "unmanaged"}
Entry    == Texts \cup {LocalEdit, NoText}

(* The types of the project and of the command; the baseline holds only     *)
(* texts a release rendered.                                                *)
TypeOK ==
  /\ project \in {"absent", "present"}
  /\ text \in [Files -> Entry] /\ tidy \subseteq Files
  /\ sum \in [Files -> Texts \cup {NoText}] /\ valid \in BOOLEAN
  /\ staging \subseteq Files
  /\ cli \in Versions
  /\ at \in {"idle", "stage", "publish", "write"}
  /\ force \in BOOLEAN
  /\ status \in [Files -> Statuses]
  /\ todo \subseteq Files
  /\ base \in [Files -> Texts \cup {NoText}]
  /\ result \in {"none", "ok", "failed", "write failed", "baseline invalid"}
  /\ changes \in 0..MaxChanges
  /\ touched \subseteq Files /\ changed \subseteq Files /\ unrecorded \subseteq Files

(* "Your local edits, which are never overwritten without --force": without *)
(* it, a step of the command never replaces a local text that was there     *)
(* when it planned, whatever upgrades, failures and torn baselines came     *)
(* before.                                                                  *)
EditsSurvive ==
  [][\A f \in Files :
       (at = "publish" /\ ~force /\ f \notin changed /\ text[f] = LocalEdit)
         => (text'[f] = LocalEdit \/ f \in changed')]_vars

(* "The command can tell a stale vendored copy from your local edits": a    *)
(* file the developer left alone, or only reformatted, and whose entry no   *)
(* failure lost, is never taken for a local edit, by the release that wrote *)
(* it or by a later one.                                                    *)
StaleIsRecognised ==
  (project = "present" /\ at = "idle") =>
    \A f \in Files \ (touched \cup unrecorded) :
      Classify(f) \notin {"modified", "differs"}

(* A command that ends well has brought every file it manages to the text   *)
(* of its release and recorded it, but for those it skipped and those the   *)
(* developer changed while it ran.                                          *)
ApplyIsComplete ==
  (result = "ok" /\ at = "idle") =>
    \A f \in Managed \ changed :
      \/ text[f] = Wanted(f) /\ sum[f] = Wanted(f)
      \/ ~force /\ status[f] \in {"modified", "differs"}

(* A project appears with all its files and their checksums, or not at all. *)
ScaffoldIsComplete ==
  [][project # project' =>
       \A f \in Files : text'[f] = Wanted(f) /\ sum'[f] = Wanted(f)]_vars

=============================================================================
