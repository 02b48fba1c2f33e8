----------------------------- MODULE Generator -----------------------------
(***************************************************************************)
(* internal/cli: gin-kit generate.  A command plans a set of files, looks  *)
(* that none is there, stages and formats them and renames them into the   *)
(* project one by one.  Several commands and the developer's editor may be *)
(* at it; any step may fail and a command may be killed.                   *)
(*                                                                         *)
(* A path is its directory, the name of the thing and the rest of the file *)
(* name; a migration's is also told apart by its time stamp and number.  A *)
(* file has who wrote it for content.                                      *)
(***************************************************************************)
EXTENDS Fields, FiniteSets, Functions

CONSTANTS
  GoNames,     \* the names validateGeneratorName accepts
  Runs,        \* the commands that are run, each once
  Orders,      \* what each may ask for
  Projects,    \* the manifests of the projects they may be run in
  Edited,      \* the paths the developer may write to
  Human,       \* the developer
  MaxHuman,    \* bound: how often that is
  MaxStamp     \* bound: the seconds that pass

\* What there is to generate.
Generators ==
  {"resource", "domain", "dto", "repository", "service", "handler", "job", "event", "mail", "factory", "seeder",
   "policy", "middleware", "migration", "client"}

ASSUME GeneratorAssumption ==
  /\ Human \notin Runs /\ MaxHuman \in Nat /\ MaxStamp \in Nat
  /\ \A r \in Runs : \A o \in Orders[r] :
       /\ o.kind \in Generators /\ o.soft \in BOOLEAN
       /\ o.fields \in Seq(Range(o.fields))
       /\ \A i \in DOMAIN o.fields : o.fields[i].nullable \in BOOLEAN

VARIABLES
  manifest,  \* the project's type, mode and database
  tree,      \* who wrote each file that is there
  second,    \* the clock
  order,     \* what each command asks for
  stage,     \* where it is
  files,     \* the files it has to write, in the order of their paths
  next,      \* the one that is looked at, published or, backwards, removed next
  since,     \* history: what is there since before it was started
  crossed,   \* history: somebody else wrote one of its files since, or is still to remove it
  edits      \* history: how often the developer wrote

genVars == <<manifest, tree, second, order, stage, files, next, since, crossed, edits>>

Path(dir, name, rest) == <<dir, name, rest>>
Migration(name, i)    == <<"migrations", name, ".sql", second, i>>

Client == Path("web/client", "api", ".ts")
Authz  == Path("internal/platform/authz", "authz", ".go")

GenInit ==
  /\ manifest \in Projects
  /\ tree = IF manifest.authz THEN [p \in {Authz} |-> Human] ELSE <<>>
  /\ second = 0
  /\ order = [r \in Runs |-> [kind |-> "none"]]
  /\ stage = [r \in Runs |-> "start"]
  /\ files = [r \in Runs |-> <<>>]
  /\ next = [r \in Runs |-> 1]
  /\ since = [r \in Runs |-> {}]
  /\ crossed = [r \in Runs |-> FALSE]
  /\ edits = 0

There(p) == p \in DOMAIN tree

-----------------------------------------------------------------------------
(* runGenerate.                                                             *)

HandlerDir == IF manifest.mode = "ui" THEN "internal/handler/web" ELSE "internal/handler/api"

\* The first name for a migration of this second that is free.
MigrationPath(name) ==
  Migration(name, CHOOSE i \in 0..Cardinality(DOMAIN tree) :
                    ~There(Migration(name, i)) /\ \A k \in 0..(i - 1) : There(Migration(name, k)))

RuntimeOnly == {"job", "event", "mail"}

Singles(name) ==
  [domain     |-> <<Path("internal/domain", name, ".go")>>,
   dto        |-> <<Path("internal/dto", name, "_dto.go")>>,
   repository |-> <<Path("internal/repository", name, "_repository.go")>>,
   service    |-> <<Path("internal/service", name, "_service.go")>>,
   handler    |-> <<Path(HandlerDir, name, "_handler.go")>>,
   job        |-> <<Path("internal/jobs", name, ".go")>>,
   event      |-> <<Path("internal/event", name, ".go")>>,
   mail       |-> <<Path("internal/mail", name, ".go"), Path("web/templates/mail", name, ".html")>>,
   factory    |-> <<Path("internal/database/factories", name, "_factory.go")>>,
   seeder     |-> <<Path("internal/database/seeders", name, ".go")>>,
   policy     |-> (IF manifest.type = "standalone" /\ ~There(Authz) THEN <<Authz>> ELSE <<>>)
                  \o <<Path("internal/policy", name, "_policy.go"),
                       Path("internal/policy", name, "_policy_test.go")>>,
   middleware |-> <<Path("internal/middleware", name, ".go")>>,
   migration  |-> <<MigrationPath(name)>>]

\* In the order of their paths.
Slice(name, table) ==
  LET pages == manifest.type = "standalone" /\ manifest.mode = "ui" IN
  <<Path("internal/database/factories", name, "_factory.go"),
    Path("internal/domain", name, ".go"), Path("internal/dto", name, "_dto.go")>>
  \o (IF pages THEN <<Path("internal/handler/web", name, "_handler.go")>>
      ELSE <<Path(HandlerDir, name, "_handler.go"), Path(HandlerDir, name, "_handler_test.go")>>)
  \o <<Path("internal/repository", name, "_repository.go")>>
  \o (IF manifest.type = "runtime"
      THEN <<Path("internal/repository", name, "_repository_test.go")>> ELSE <<>>)
  \o <<Path("internal/service", name, "_service.go"), Path("internal/service", name, "_service_test.go"),
       MigrationPath(table)>>
  \o (IF pages THEN <<Path("web/templates", name, ".html")>> ELSE <<>>)

Planned(o) == IF o.kind = "resource" THEN Slice(o.name, o.table) ELSE Singles(o.name)[o.kind]

Unplanned(o) ==
  \/ o.kind # "migration" /\ o.name \notin GoNames
  \/ BadFields(o.fields)
  \/ o.kind \in RuntimeOnly /\ manifest.type # "runtime"

\* --fields is a flag of these commands only; the others parse the empty one.
TakesFields == {"resource", "domain", "dto", "repository", "factory"}

-----------------------------------------------------------------------------
(* The command.                                                             *)

Enters(r, place) == stage' = [stage EXCEPT ![r] = place]

\* It has ended: what it read and where it was are forgotten.
GenEnds(r, place) ==
  /\ Enters(r, place)
  /\ next' = [next EXCEPT ![r] = 1]
  /\ since' = [since EXCEPT ![r] = {}]
  /\ files' = [files EXCEPT ![r] = IF place = "done" THEN @ ELSE <<>>]

\* Others whose files these are.
Crosses(by, ps) ==
  crossed' = [r \in Runs |->
                crossed[r] \/ (r # by /\ stage[r] \notin {"start", "refused"}
                               /\ ps \cap {files[r][i] : i \in DOMAIN files[r]} # {})]

Generate(r, o) ==
  /\ stage[r] = "start"
  /\ o.fields # <<>> => o.kind \in TakesFields
  /\ order' = [order EXCEPT ![r] = o]
  /\ IF o.kind # "client" /\ Unplanned(o)
     THEN GenEnds(r, "refused")
     ELSE /\ Enters(r, IF o.kind = "client" THEN "client" ELSE "check")
          /\ files' = [files EXCEPT ![r] = IF o.kind = "client" THEN <<>> ELSE Planned(o)]
          /\ since' = [since EXCEPT ![r] = DOMAIN tree]
          /\ UNCHANGED next
  /\ UNCHANGED <<manifest, tree, second, crossed, edits>>

\* generate client: what api.ts was is truncated and written over.
GenerateClient(r) ==
  /\ stage[r] = "client"
  /\ \/ GenEnds(r, IF order[r].dry THEN "dry" ELSE "refused") /\ UNCHANGED tree
     \/ /\ ~order[r].dry
        /\ tree' = [p \in DOMAIN tree \cup {Client} |-> IF p = Client THEN r ELSE tree[p]]
        /\ \E ok \in BOOLEAN : GenEnds(r, IF ok THEN "done" ELSE "torn")
  /\ UNCHANGED <<manifest, second, order, crossed, edits>>

Current(r) == files[r][next[r]]

\* What it has published and not removed again.
Owned(r) ==
  {files[r][i] : i \in CASE stage[r] = "publish" -> 1..(next[r] - 1)
                        [] stage[r] = "undo"    -> next[r]..Len(files[r])
                        [] OTHER                -> {}}

\* Mutant: only the domain model is looked for.
CollidesByDomain(p) == There(p) /\ p[1] = "internal/domain"

Collides(p) == There(p)

\* The preflight, one Stat after the other; their order, a map's, is taken to be
\* that of the plan.
Checks(r) ==
  /\ stage[r] = "check" /\ next[r] <= Len(files[r])
  /\ IF Collides(Current(r))
     THEN GenEnds(r, "refused") /\ UNCHANGED crossed
     ELSE /\ next' = [next EXCEPT ![r] = @ + 1]
          /\ crossed' = [crossed EXCEPT ![r] = @ \/ \E q \in Runs \ {r} : Current(r) \in Owned(q)]
          /\ UNCHANGED <<stage, files, since>>
  /\ UNCHANGED <<manifest, tree, second, order, edits>>

\* All are free: --dry-run prints them; otherwise they are written to a directory
\* of the command's own and formatted there, or that fails and it is removed.
Stages(r) ==
  /\ stage[r] = "check" /\ next[r] > Len(files[r])
  /\ IF order[r].dry
     THEN GenEnds(r, "dry")
     ELSE Enters(r, "publish") /\ next' = [next EXCEPT ![r] = 1] /\ UNCHANGED <<files, since>>
  /\ UNCHANGED <<manifest, tree, second, order, crossed, edits>>

StagingFails(r) ==
  /\ stage[r] = "check" /\ next[r] > Len(files[r])
  /\ GenEnds(r, "refused")
  /\ UNCHANGED <<manifest, tree, second, order, crossed, edits>>

\* The rename replaces what is there.
Publishes(r) ==
  /\ stage[r] = "publish" /\ next[r] <= Len(files[r])
  /\ tree' = [p \in DOMAIN tree \cup {Current(r)} |-> IF p = Current(r) THEN r ELSE tree[p]]
  /\ next' = [next EXCEPT ![r] = @ + 1]
  /\ Crosses(r, {Current(r)})
  /\ UNCHANGED <<manifest, second, order, stage, files, since, edits>>

\* Mutant: the file published last is left.
PublishedButLast(r) == SubSeq(files[r], 1, next[r] - 2)

Published(r) == SubSeq(files[r], 1, next[r] - 1)

\* MkdirAll or Rename fails: what was published is removed again, which is taken
\* to succeed, the code not looking at it.
PublishFails(r) ==
  /\ stage[r] = "publish" /\ next[r] <= Len(files[r])
  /\ Enters(r, "undo")
  /\ files' = [files EXCEPT ![r] = Published(r)]
  /\ next' = [next EXCEPT ![r] = 1]
  /\ UNCHANGED <<manifest, tree, second, order, since, crossed, edits>>

Removes(r) ==
  /\ stage[r] = "undo" /\ next[r] <= Len(files[r])
  /\ tree' = Restrict(tree, DOMAIN tree \ {Current(r)})
  /\ next' = [next EXCEPT ![r] = @ + 1]
  /\ since' = [q \in Runs |-> since[q] \ {Current(r)}]
  /\ UNCHANGED <<manifest, second, order, stage, files, crossed, edits>>

Returns(r) ==
  /\ stage[r] \in {"publish", "undo"} /\ next[r] > Len(files[r])
  /\ GenEnds(r, IF stage[r] = "publish" THEN "done" ELSE "refused")
  /\ UNCHANGED <<manifest, tree, second, order, crossed, edits>>

\* It is killed: what it published stays, as does its staging directory.
Killed(r) ==
  /\ stage[r] \in {"publish", "undo"}
  /\ GenEnds(r, "killed")
  /\ UNCHANGED <<manifest, tree, second, order, crossed, edits>>

HumanWrites(p) ==
  /\ edits < MaxHuman
  /\ edits' = edits + 1
  /\ tree' = [q \in DOMAIN tree \cup {p} |-> IF q = p THEN Human ELSE tree[q]]
  /\ Crosses(Human, {p})
  /\ UNCHANGED <<manifest, second, order, stage, files, next, since>>

SecondPasses ==
  /\ second < MaxStamp
  /\ second' = second + 1
  /\ UNCHANGED <<manifest, tree, order, stage, files, next, since, crossed, edits>>

GenNext ==
  \/ \E r \in Runs :
       \/ \E o \in Orders[r] : Generate(r, o)
       \/ GenerateClient(r) \/ Checks(r) \/ Stages(r) \/ StagingFails(r) \/ Publishes(r)
       \/ PublishFails(r) \/ Removes(r) \/ Returns(r) \/ Killed(r)
  \/ \E p \in Edited : HumanWrites(p)
  \/ SecondPasses

GenSpec == GenInit /\ [][GenNext]_genVars

-----------------------------------------------------------------------------
Wrote(r) == {p \in DOMAIN tree : tree[p] = r}

(* "A failed generation does not leave a partial resource": a command that  *)
(* failed, or only showed what it would do, left none of its files, and one *)
(* that succeeded left all of them, unless somebody else meanwhile wrote    *)
(* one of them, or had written it before and failed only then.              *)
NoPartialResource ==
  \A r \in Runs :
    /\ stage[r] \in {"refused", "dry"} => Wrote(r) = {}
    /\ stage[r] = "done" /\ order[r].kind # "client" /\ ~crossed[r] =>
         \A i \in DOMAIN files[r] : There(files[r][i])

(* Generators "refuse overwrites": a file that is there since before every  *)
(* command under way was started is neither written over nor, by another's  *)
(* failure, removed.  Only the client is generated anew.                    *)
OldFilesStay ==
  [][\A p \in DOMAIN tree \ {Client} :
       (\A r \in Runs : stage[r] \in {"check", "publish", "undo"} => p \in since[r]) =>
         p \in DOMAIN tree' /\ tree'[p] \in {tree[p], Human}]_genVars

(* Whatever fields a command was given, the statements, the table, the      *)
(* struct and the filters it writes about them fit together (buildGenData). *)
GeneratedFits ==
  \A r \in Runs :
    stage[r] \in {"check", "publish", "done"} =>
      StatementsFit(ParseFields(order[r].fields, manifest.database), order[r].soft)

(* "A working vertical slice": the members of the struct that a command     *)
(* writes have different names.  parseFields compares the declared names.   *)
MembersDiffer ==
  \A r \in Runs :
    (stage[r] = "done" /\ order[r].kind \in {"resource", "domain"}) =>
      \A m, n \in Members(ParseFields(order[r].fields, manifest.database), order[r].soft) :
        m[1] = n[1] => m = n

(* "A working vertical slice" again: at most one file of the package        *)
(* factories declares the helper ptr, which the template emits for every    *)
(* factory with an optional field.                                          *)
FactoriesCompile ==
  \A p, q \in DOMAIN tree :
    /\ p[1] = "internal/database/factories" /\ tree[p] \in Runs
    /\ q[1] = "internal/database/factories" /\ tree[q] \in Runs
    /\ GenData(ParseFields(order[tree[p]].fields, manifest.database), FALSE).optional
    /\ GenData(ParseFields(order[tree[q]].fields, manifest.database), FALSE).optional
    => p = q
=============================================================================
