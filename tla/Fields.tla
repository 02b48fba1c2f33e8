------------------------------- MODULE Fields -------------------------------
(***************************************************************************)
(* internal/cli: what a generator makes of --fields.  A declaration is the *)
(* name, the type and the "?" of one comma-separated part; what the        *)
(* templates print is modelled by the columns, the values and the          *)
(* constraints it names, in their order.                                   *)
(***************************************************************************)
EXTENDS Integers, Sequences

CONSTANTS
  SnakeNames,   \* the names isSnakeIdentifier accepts
  Pascal,       \* pascalCase, from such a name to that of a member of a Go struct:
                \* "title" and "title_" are both Title
  CredentialLike, KeyLike, LinkLike, PersonLike, PhraseLike, PriceLike
                \* the names that contain the fragments each switch looks for

Reserved == {"id", "created_at", "updated_at", "deleted_at"}

Aliases == [float |-> "float64", datetime |-> "time", timestamp |-> "time"]

Canonical(kind) == IF kind \in DOMAIN Aliases THEN Aliases[kind] ELSE kind

Databases == {"sqlite", "postgres", "mysql", "mariadb"}

\* The switch of buildField on the type: its Go and SQL type, and what a client
\* may filter it by.
Kinds(database) ==
  [string  |-> [go |-> "string", sql |-> "VARCHAR(255)", filter |-> "partial"],
   text    |-> [go |-> "string", sql |-> "TEXT", filter |-> "partial"],
   int     |-> [go |-> "int", sql |-> "INTEGER", filter |-> "compare"],
   int64   |-> [go |-> "int64", sql |-> "BIGINT", filter |-> "compare"],
   float64 |-> [go |-> "float64", filter |-> "compare",
                sql |-> CASE database = "postgres" -> "DOUBLE PRECISION"
                          [] database = "sqlite"   -> "REAL"
                          [] OTHER                 -> "DOUBLE"],
   bool    |-> [go |-> "bool", sql |-> "BOOLEAN", filter |-> "bool"],
   time    |-> [go |-> "time.Time", sql |-> "TIMESTAMP", filter |-> "compare"]]

\* fakeExpression, by the type of what it returns.
Fake(name, kind) ==
  CASE kind = "string" -> (CASE name \in KeyLike    -> "uuid"
                             [] name \in PersonLike -> "person"
                             [] name \in PhraseLike -> "sentence"
                             [] name \in LinkLike   -> "link"
                             [] OTHER               -> "sequence")
    [] kind = "float64" -> IF name \in PriceLike THEN "price" ELSE "range"
    [] OTHER            -> kind

\* sqliteColumnType, without its NOT NULL.
SQLiteType(kind) ==
  CASE kind = "string"           -> "VARCHAR(255)"
    [] kind = "text"             -> "TEXT"
    [] kind \in {"int", "int64"} -> "INTEGER"
    [] kind = "float64"          -> "REAL"
    [] kind = "bool"             -> "BOOLEAN"
    [] OTHER                     -> "TIMESTAMP"

\* The constraint "required" of the input DTO.
Required(kind, nullable) == ~nullable /\ kind \in {"string", "text"}

BuildField(d, database) ==
  LET kind == Canonical(d.kind) IN
  [name      |-> d.name,
   pascal    |-> Pascal[d.name],
   kind      |-> kind,
   pointer   |-> d.nullable,
   type      |-> Kinds(database)[kind],
   notNull   |-> ~d.nullable,
   required  |-> Required(kind, d.nullable),
   maxLength |-> kind = "string",
   sensitive |-> d.name \in CredentialLike,
   fake      |-> Fake(d.name, kind)]

\* An empty specification means one name; an entry without a colon has no kind.
Declared(spec) ==
  IF spec = <<>> THEN <<[name |-> "name", kind |-> "string", nullable |-> FALSE]>> ELSE spec

\* Where parseFields fails.
BadFields(spec) ==
  LET ds == Declared(spec) IN
  \E i \in DOMAIN ds :
    \/ ds[i].name \notin SnakeNames \ Reserved
    \/ Canonical(ds[i].kind) \notin DOMAIN Kinds("sqlite")
    \/ \E j \in 1..(i - 1) : ds[j].name = ds[i].name

ParseFields(spec, database) ==
  [i \in DOMAIN Declared(spec) |-> BuildField(Declared(spec)[i], database)]

-----------------------------------------------------------------------------
(* buildGenData.                                                            *)

Names(fields) == [i \in DOMAIN fields |-> fields[i].name]

Pascals(fields) == [i \in DOMAIN fields |-> fields[i].pascal]

\* The struct of the domain model: its members, each with the column of its tag.
Members(fields, soft) ==
  {<<"ID", "id">>, <<"CreatedAt", "created_at">>, <<"UpdatedAt", "updated_at">>}
  \cup {<<fields[i].pascal, fields[i].name>> : i \in DOMAIN fields}
  \cup (IF soft THEN {<<"DeletedAt", "deleted_at">>} ELSE {})

Column(name, notNull) == [name |-> name, notNull |-> notNull]

\* A table with the columns id, those of the fields, the two times and, for
\* --soft-delete, a third one.
Schema(fields, soft) ==
  <<Column("id", TRUE)>>
  \o [i \in DOMAIN fields |-> Column(fields[i].name, fields[i].notNull)]
  \o <<Column("created_at", TRUE), Column("updated_at", TRUE)>>
  \o (IF soft THEN <<Column("deleted_at", FALSE)>> ELSE <<>>)

\* Mutant: the id is written first, where the statement names it last.
UpdateArgsIdFirst(fields) == <<"ID">> \o Pascals(fields) \o <<"UpdatedAt">>

UpdateArgs(fields) == Pascals(fields) \o <<"UpdatedAt", "ID">>

GenData(fields, soft) ==
  LET columns == <<"id">> \o Names(fields) \o <<"created_at", "updated_at">> IN
  [columns      |-> columns,
   placeholders |-> Len(columns),
   insertArgs   |-> <<"ID">> \o Pascals(fields) \o <<"CreatedAt", "UpdatedAt">>,
   updateSet    |-> Names(fields) \o <<"updated_at">>,
   updateArgs   |-> UpdateArgs(fields),
   filters      |-> [i \in DOMAIN fields |-> [name |-> fields[i].name, by |-> fields[i].type.filter]],
   sorts        |-> <<"created_at">> \o Names(fields),
   shown        |-> {fields[i].name : i \in {k \in DOMAIN fields : ~fields[k].sensitive}},
   optional     |-> \E i \in DOMAIN fields : fields[i].pointer,
   members      |-> Members(fields, soft),
   testTable    |-> Schema(fields, soft)]

-----------------------------------------------------------------------------
(* The pieces of one resource fit, though each is listed on its own: the    *)
(* member in each place of INSERT's and UPDATE's arguments is the one whose *)
(* tag names the column in that place, so what is written is read back into *)
(* the same member; every NOT NULL column is inserted, and an update writes *)
(* all but id, created_at and deleted_at; what is selected, filtered and    *)
(* sorted by is a column of the table, once; and a field is a pointer       *)
(* exactly if its column may be null and no client has to send it.          *)
Fit(d, t, fields) ==
  LET Columns == {t[i].name : i \in DOMAIN t}
  IN /\ d.placeholders = Len(d.columns) /\ Len(d.insertArgs) = Len(d.columns)
     /\ \A k \in DOMAIN d.columns : <<d.insertArgs[k], d.columns[k]>> \in d.members
     /\ Len(d.updateArgs) = Len(d.updateSet) + 1 /\ d.updateArgs[Len(d.updateArgs)] = "ID"
     /\ \A k \in DOMAIN d.updateSet : <<d.updateArgs[k], d.updateSet[k]>> \in d.members
     /\ \A i, j \in DOMAIN t : t[i].name = t[j].name => i = j
     /\ {d.columns[i] : i \in DOMAIN d.columns} = Columns \ {"deleted_at"}
     /\ {d.updateSet[i] : i \in DOMAIN d.updateSet} = Columns \ {"id", "created_at", "deleted_at"}
     /\ \A i \in DOMAIN t : t[i].notNull => \E k \in DOMAIN d.columns : d.columns[k] = t[i].name
     /\ {d.sorts[i] : i \in DOMAIN d.sorts} \subseteq Columns
     /\ {d.filters[i].name : i \in DOMAIN d.filters} \cup d.shown \subseteq Columns
     /\ \A i \in DOMAIN fields :
          /\ fields[i].required => fields[i].notNull
          /\ fields[i].pointer <=> ~fields[i].notNull

StatementsFit(fields, soft) ==
  LET d == GenData(fields, soft) IN Fit(d, d.testTable, fields)
=============================================================================
