------------------------------- MODULE Query -------------------------------
(***************************************************************************)
(* runtime/query: what a list endpoint accepts, and a client that walks    *)
(* through its pages, by cursor or by number, while rows of the table come,*)
(* change and go.                                                          *)
(*                                                                         *)
(* A parameter is Absent when it is absent (or empty) and Bad when it cannot *)
(* be read.  The value of a filter is the set of its items; only a filter  *)
(* of kind "in" has other than one.  SQL is modelled by what it selects:   *)
(* rows that tie in every sort come in an order of the database's choice,  *)
(* another one for each query.                                             *)
(***************************************************************************)
EXTENDS Integers, FiniteSets, Sequences

CONSTANTS
  Ids,           \* the values of the column id
  Columns,       \* the other columns
  Values,        \* what is in them
  PartOf,      \* the pairs of a value and a part of it
  Endpoints,     \* the Options that Parse is called with
  Asks,          \* the parameters of the first request of a client
  MaxInValues,   \* maxInValues
  IntLimit,       \* an int is in -IntLimit .. IntLimit - 1
  MaxEdits,      \* bound: changes of the table during one walk
  Absent, Bad

Ranges == {"gte", "lte", "gt", "lt"}

\* Parse leaves no page size below one; a walk begins without a
\* cursor of an earlier one; an int counts the rows of a table.
ASSUME QueryAssumption ==
  /\ Ids \subseteq Nat /\ Values \subseteq Nat /\ IsFiniteSet(Ids)
  /\ "id" \notin Columns /\ PartOf \subseteq Values \X Values
  /\ MaxInValues \in Nat \ {0} /\ IntLimit \in Nat \ {0} /\ MaxEdits \in Nat
  /\ Cardinality(Ids) < IntLimit
  /\ Absent # Bad /\ \A x \in {Absent, Bad} : x \notin Nat \cup Ranges /\ x \notin [value : Nat, id : Nat]
  /\ \A o \in Endpoints : o.perPage \in Nat \ {0} /\ o.maxPerPage \in Nat \ {0}
  /\ \A q \in Asks :
       /\ q \in [filters : {q.filters}, sort : {q.sort}, page : {Absent, Bad} \cup (Nat \ {0}),
                 perPage : {Absent, Bad} \cup (Nat \ {0}), cursor : {Absent, Bad}]
       /\ \A f \in q.filters : f.items = Absent \/ f.items \subseteq Nat

VARIABLES
  table,    \* the rows, a function on the ids that are there
  options,  \* the endpoint
  request,  \* the parameters of the request under way
  result,   \* what Parse made of them
  total,    \* what CountGORM returned
  phase,    \* where the client or the handler is
  shown,    \* how often each id was on a page
  steady,   \* history: the rows asked for that nobody touched since
  whole,    \* history: the walk began on the first page and nobody touched the table
  edits

queryVars == <<table, options, request, result, total, phase, shown, steady, whole, edits>>

Rows == [Columns -> Values]

Cell(r, column) == IF column = "id" THEN r ELSE table[r][column]

-----------------------------------------------------------------------------
(* Parse.                                                                   *)

Truths == {0, 1}

\* Where buildFilterValue fails.
Refuses(filter, op, items) ==
  \/ op # Absent /\ ~(filter.kind = "compare" /\ op \in Ranges)
  \/ filter.kind = "in" /\ Cardinality(items) \notin 1..MaxInValues
  \/ filter.bool /\ ~(items \subseteq Truths)

\* Mutant: a range is taken for equality.
FilterOpExact(filter, op) ==
  CASE filter.kind = "partial" -> "like"
    [] filter.kind = "in"      -> "in"
    [] OTHER                   -> "eq"

FilterOp(filter, op) ==
  CASE filter.kind = "partial"                 -> "like"
    [] filter.kind = "in"                      -> "in"
    [] filter.kind = "compare" /\ op \in Ranges -> op
    [] OTHER                                   -> "eq"

FilterValue(f) ==
  LET filter == options.filters[f.name]
  IN [column |-> filter.column, op |-> FilterOp(filter, f.op), items |-> f.items]

CursorEndpoint == options.cursorSort # Absent

\* The developer's mistakes, answered with a 500.
Misconfigured(q) ==
  \/ \E n \in DOMAIN options.filters : options.filters[n].column \notin Columns \cup {"id"}
  \/ \E n \in DOMAIN options.sorts : options.sorts[n] \notin Columns \cup {"id"}
  \/ q.sort = Absent /\ \E i \in DOMAIN options.default :
                         options.default[i].name \notin DOMAIN options.sorts
  \/ CursorEndpoint /\ options.cursorSort \notin DOMAIN options.sorts

\* The client's, answered with a 400.
BadRequest(q) ==
  \/ \E f \in q.filters :
        \/ f.name \notin DOMAIN options.filters
        \/ f.items # Absent /\ Refuses(options.filters[f.name], f.op, f.items)
  \/ q.sort # Absent /\ \E i \in DOMAIN q.sort : q.sort[i].name \notin DOMAIN options.sorts
  \/ q.page = Bad \/ q.perPage = Bad
  \/ CursorEndpoint /\ (q.sort # Absent \/ q.page # Absent \/ q.cursor = Bad)

SortValue(s) == [column |-> options.sorts[s.name], desc |-> s.desc]

Descending == options.default # <<>> /\ options.default[1].desc

Sorts(q) ==
  IF CursorEndpoint
  THEN <<[column |-> options.sorts[options.cursorSort], desc |-> Descending],
         [column |-> "id", desc |-> Descending]>>
  ELSE LET asked == IF q.sort = Absent THEN options.default ELSE q.sort
       IN [i \in DOMAIN asked |-> SortValue(asked[i])]

Given(value, default) == IF value = Absent THEN default ELSE value

Least(a, b) == IF a < b THEN a ELSE b

Parse(q) ==
  [filters    |-> {FilterValue(f) : f \in {g \in q.filters : g.items # Absent}},
   sorts      |-> Sorts(q),
   page       |-> Given(q.page, 1),
   perPage    |-> IF q.perPage = Absent THEN options.perPage
                  ELSE Least(q.perPage, options.maxPerPage),
   cursorMode |-> CursorEndpoint,
   cursor     |-> IF CursorEndpoint THEN q.cursor ELSE Absent]

-----------------------------------------------------------------------------
(* What the statements of sql.go, cursor.go and gorm.go select.             *)

Comparison(op, a, b) ==
  CASE op = "gte" -> a >= b
    [] op = "lte" -> a <= b
    [] op = "gt"  -> a > b
    [] OTHER      -> a < b

\* One condition of WhereSQL and FiltersGORM.
Meets(r, f) ==
  LET cell == Cell(r, f.column) IN
  CASE f.op = "like"             -> \A part \in f.items : <<cell, part>> \in PartOf
    [] f.op \in {"eq", "in"}     -> cell \in f.items
    [] OTHER                     -> \A v \in f.items : Comparison(f.op, cell, v)

Matching == {r \in DOMAIN table : \A f \in result.filters : Meets(r, f)}

Before(sort, a, b) ==
  IF sort.desc THEN Cell(a, sort.column) > Cell(b, sort.column)
               ELSE Cell(a, sort.column) < Cell(b, sort.column)

\* OrderSQL: row a comes before row b.
Precedes(a, b) ==
  \E k \in DOMAIN result.sorts :
    /\ Before(result.sorts[k], a, b)
    /\ \A j \in 1..(k - 1) :
         Cell(a, result.sorts[j].column) = Cell(b, result.sorts[j].column)

\* Mutant: the predicate forgets the rows that tie with the cursor.
KeysetWithoutTies(r) ==
  LET c == result.cursor  s == result.sorts[1] IN
  IF s.desc THEN Cell(r, s.column) < c.value ELSE Cell(r, s.column) > c.value

\* keysetSQL: row r comes after the cursor.
Keyset(r) ==
  LET c == result.cursor  s == result.sorts[1]  cell == Cell(r, s.column) IN
  IF s.desc THEN cell < c.value \/ (cell = c.value /\ r < c.id)
            ELSE cell > c.value \/ (cell = c.value /\ r > c.id)

\* The first n rows of S, in an order that the sorts allow.
Heads(S, n) ==
  {P \in SUBSET S : /\ Cardinality(P) = Least(n, Cardinality(S))
                    /\ \A p \in P, s \in S \ P : ~Precedes(s, p)}

\* Mutant: the first page begins behind itself.
OffsetFromOne == result.page * result.perPage

Offset ==
  (((result.page - 1) * result.perPage + IntLimit) % (2 * IntLimit)) - IntLimit

\* LIMIT and OFFSET.  An offset below zero, which is left of one too large
\* for an int, is an error or taken for zero.
Pages ==
  LET skip == IF Offset < 0 THEN 0 ELSE Offset
  IN {pq[2] \ pq[1] : pq \in {x \in Heads(Matching, skip)
                                   \X Heads(Matching, skip + result.perPage) : x[1] \subseteq x[2]}}

\* Meta.
TotalPages == (total + result.perPage - 1) \div result.perPage

\* NextCursor, of the rows that CursorLimit lets through: without the probe.
Visible(P) ==
  IF Cardinality(P) <= result.perPage THEN P
  ELSE {p \in P : \E x \in P : Precedes(p, x)}

LastOf(P) == CHOOSE p \in P : \A x \in P \ {p} : Precedes(x, p)

NextCursor(P) ==
  IF Cardinality(P) <= result.perPage THEN Absent
  ELSE [value |-> Cell(LastOf(Visible(P)), result.sorts[1].column), id |-> LastOf(Visible(P))]

-----------------------------------------------------------------------------
(* What the parameters ask for, in the words of the package's contract: the *)
(* properties measure Parse and the statements by it.                       *)
Wants(f, kind, cell) ==
  /\ kind # "partial" /\ f.op = Absent => cell \in f.items
  /\ kind = "partial" => \A part \in f.items : <<cell, part>> \in PartOf
  /\ f.op = "gte" => \A v \in f.items : v <= cell
  /\ f.op = "lte" => \A v \in f.items : cell <= v
  /\ f.op = "gt"  => \A v \in f.items : v < cell
  /\ f.op = "lt"  => \A v \in f.items : cell < v

Wanted(r, q) ==
  \A f \in q.filters : f.items # Absent =>
    /\ f.name \in DOMAIN options.filters
    /\ Wants(f, options.filters[f.name].kind, Cell(r, options.filters[f.name].column))

-----------------------------------------------------------------------------
(* The client, the handler and the other users of the table.                *)

NoResult == [filters |-> {}, sorts |-> <<>>, page |-> 1, perPage |-> 1,
             cursorMode |-> FALSE, cursor |-> Absent]

QueryInit ==
  /\ table \in UNION {[S -> Rows] : S \in SUBSET Ids}
  /\ options \in Endpoints
  /\ request \in Asks
  /\ result = NoResult
  /\ total = 0
  /\ phase = "first"
  /\ shown = [r \in Ids |-> 0]
  /\ steady = {}
  /\ whole = TRUE
  /\ edits = 0

\* The handler calls Parse, and counts or selects.
Handle ==
  /\ phase \in {"first", "next"}
  /\ IF Misconfigured(request) \/ BadRequest(request)
     THEN phase' = "refused" /\ UNCHANGED result
     ELSE /\ phase' = IF CursorEndpoint THEN "select" ELSE "count"
          /\ result' = Parse(request)
  /\ steady' = IF phase = "first" THEN {r \in DOMAIN table : Wanted(r, request)} ELSE steady
  /\ whole' = IF phase = "first" THEN request.page = Absent ELSE whole
  /\ UNCHANGED <<table, options, request, total, shown, edits>>

\* CountGORM or BuildCountSQL.
Count ==
  /\ phase = "count"
  /\ total' = Cardinality(Matching)
  /\ phase' = "select"
  /\ UNCHANGED <<table, options, request, result, shown, steady, whole, edits>>

Shows(P) == shown' = [r \in Ids |-> IF r \in P THEN shown[r] + 1 ELSE shown[r]]

\* ApplyGORM or BuildSQL; the client goes on to the next of total_pages.
SelectPage ==
  /\ phase = "select" /\ ~result.cursorMode
  /\ \/ /\ Offset < 0
        /\ phase' = "refused" /\ UNCHANGED <<shown, request>>
     \/ /\ \E P \in Pages : Shows(P)
        /\ IF result.page < TotalPages
           THEN phase' = "next" /\ request' = [request EXCEPT !.page = result.page + 1]
           ELSE phase' = "done" /\ UNCHANGED request
  /\ UNCHANGED <<table, options, result, total, steady, whole, edits>>

\* ApplyCursorGORM or BuildCursorSQL, and NextCursor.
SelectCursor ==
  /\ phase = "select" /\ result.cursorMode
  /\ LET S == {r \in Matching : result.cursor = Absent \/ Keyset(r)}
     IN \E P \in Heads(S, result.perPage + 1) :
          /\ Shows(Visible(P))
          /\ IF NextCursor(P) = Absent
             THEN phase' = "done" /\ UNCHANGED request
             ELSE phase' = "next" /\ request' = [request EXCEPT !.cursor = NextCursor(P)]
  /\ UNCHANGED <<table, options, result, total, steady, whole, edits>>

Keeping(S) == [r \in S |-> table[r]]

\* Somebody inserts, updates or deletes a row.
Edit(r) ==
  /\ phase \in {"next", "count", "select"} /\ edits < MaxEdits
  /\ \/ \E row \in Rows : table' = [x \in DOMAIN table \cup {r} |-> IF x = r THEN row ELSE table[x]]
     \/ table' = Keeping(DOMAIN table \ {r})
  /\ table' # table
  /\ steady' = steady \ {r}
  /\ whole' = FALSE
  /\ edits' = edits + 1
  /\ UNCHANGED <<options, request, result, total, phase, shown>>

QueryNext ==
  \/ Handle \/ Count \/ SelectPage \/ SelectCursor
  \/ \E r \in Ids : Edit(r)

QuerySpec == QueryInit /\ [][QueryNext]_queryVars

-----------------------------------------------------------------------------
(* A walk by cursor shows every row that was there from its first request   *)
(* and that nobody touched exactly once, whatever happens to the other rows *)
(* and however many share the value of the sort.                            *)
CursorWalkIsComplete ==
  result.cursorMode /\ phase # "refused" =>
    \A r \in steady : shown[r] <= 1 /\ (phase = "done" => shown[r] = 1)

(* The numbered pages of a table that nobody touches, sorted by something   *)
(* that tells its rows apart, show every row asked for exactly once.        *)
PagesCoverTheTable ==
  phase = "done" /\ whole /\ ~result.cursorMode
    /\ (\A a, b \in Matching : a # b => Precedes(a, b) \/ Precedes(b, a)) =>
       \A r \in steady : shown[r] = 1

(* No page shows a row that the parameters of the request do not ask for.   *)
OnlyWantedIsShown ==
  [][\A r \in Ids : shown'[r] # shown[r] => r \in DOMAIN table /\ Wanted(r, request)]_queryVars

=============================================================================
