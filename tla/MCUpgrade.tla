----------------------------- MODULE MCUpgrade -----------------------------
(* Model-checking instance of the commands of gin-kit that write into a     *)
(* project: Upgrade and Generator.  They write other files, so a behaviour  *)
(* is one of either and the other's state stays as it began.                *)
EXTENDS Upgrade, Generator, TLC

VARIABLE command

\* Three releases: the first file changes with each, the second goes with the third.
MCRendered == << <<"a", "b", "c">>, <<"a", "b", "none">> >>

Project(type, mode, database, authz) ==
  [type |-> type, mode |-> mode, database |-> database, authz |-> authz]

SomeProjects ==
  {Project("runtime", "api", "postgres", FALSE), Project("standalone", "ui", "sqlite", FALSE)}

\* Go names for the names below, two of which differ only in an underscore.
MCPascal ==
  [n \in SnakeNames |->
     CASE n = "id" -> "Id" [] n = "name" -> "Name" [] n \in {"title", "title_"} -> "Title"
       [] n = "done" -> "Done" [] n = "price" -> "Price" [] n = "due" -> "Due"
       [] n = "password" -> "Password" [] n = "user_id" -> "UserId"]

Field(name, kind) == [name |-> name, kind |-> kind, nullable |-> FALSE]
Maybe(name, kind) == [name |-> name, kind |-> kind, nullable |-> TRUE]

Order(kind, name, fields) ==
  [kind |-> kind, name |-> name, table |-> "tasks", fields |-> fields, soft |-> FALSE, dry |-> FALSE]

TaskFields == <<Field("title", "string"), Maybe("done", "bool"), Field("price", "float")>>

SmallOrders ==
  {Order("domain", "task", <<Field("title", "string"), Maybe("title_", "int")>>), Order("factory", "note", TaskFields),
   [Order("policy", "task", <<>>) EXCEPT !.dry = TRUE], Order("policy", "job", <<>>),
   Order("mail", "task", <<>>), Order("client", "api", <<>>), Order("migration", "tasks", <<>>),
   Order("dto", "type", <<>>), Order("repository", "task", <<Field("due", "date"), Maybe("id", "int")>>)}

SomeOrders ==
  [r \in Runs |->
     IF r = 1
     THEN {[Order("resource", "task", TaskFields) EXCEPT !.soft = TRUE],
           Order("resource", "note", <<Maybe("due", "timestamp"), Field("password", "text"),
                                       Field("user_id", "string")>>)}
     ELSE SmallOrders]

SomePaths ==
  {Path("internal/service", "task", "_service.go")}

ToolInit == Init /\ GenInit /\ command \in {"upgrade", "generate"}

ToolNext ==
  \/ command = "upgrade"  /\ Next    /\ UNCHANGED <<command, genVars>>
  \/ command = "generate" /\ GenNext /\ UNCHANGED <<command, vars>>

ToolSpec == ToolInit /\ [][ToolNext]_<<command, vars, genVars>>
=============================================================================
