---------------------------- MODULE QueryProofs ----------------------------
(***************************************************************************)
(* Theorems about Query, for any table, endpoint and requests.             *)
(***************************************************************************)
EXTENDS Query, FiniteSetTheorems, WellFoundedInduction, TLAPS

(* A number in the parameters of a request, and the requests there can be.  *)
Numbers == {Absent, Bad} \cup (Nat \ {0})

Requests == [filters : {q.filters : q \in Asks}, sort : {q.sort : q \in Asks},
             page : Numbers, perPage : Numbers,
             cursor : {Absent, Bad} \cup [value : Nat, id : Nat]]

(* The types of the variables that the proofs need.                         *)
QueryTyped ==
  /\ DOMAIN table \subseteq Ids /\ \A r \in DOMAIN table : table[r] \in Rows
  /\ options \in Endpoints
  /\ request \in Requests
  /\ total \in Nat
  /\ phase \in {"first", "count", "select", "next", "done", "refused"}
  /\ shown \in [Ids -> Nat]
  /\ whole \in BOOLEAN

(* The parameters that no walk changes are acceptable.                      *)
Sound(q) ==
  /\ ~Misconfigured(q)
  /\ \A f \in q.filters :
       /\ f.name \in DOMAIN options.filters
       /\ f.items # Absent => ~Refuses(options.filters[f.name], f.op, f.items)

(* The handler is at work on a request; the client is past its first one.   *)
Answering == phase \in {"count", "select"}
Walking   == phase \notin {"first", "refused"}

(* The filters, the order and the size of the pages stay those of the first *)
(* request, and the statements are made of what was parsed last.            *)
Parsed ==
  /\ Walking =>
       /\ Sound(request)
       /\ result.filters = Parse(request).filters
       /\ result.sorts = Parse(request).sorts
       /\ result.perPage = Parse(request).perPage
       /\ result.cursorMode = CursorEndpoint
  /\ Answering => ~BadRequest(request) /\ result = Parse(request)

(* Before the first request nothing was shown.                              *)
Fresh ==
  phase = "first" => /\ \A r \in Ids : shown[r] = 0
                     /\ request \in Asks
                     /\ result = NoResult

(* The sorts tell the rows of S apart.                                      *)
Ordered(S) == \A a, b \in S : a # b => Precedes(a, b) \/ Precedes(b, a)

(* How many of the numbered pages the client has seen.                      *)
Turned == IF Answering THEN result.page - 1 ELSE result.page

(* A table that nobody touches: the rows on the pages seen are the first    *)
(* ones in the order, and unless the walk is over there is more to see.     *)
Numbered ==
  Walking /\ ~result.cursorMode =>
    /\ result.page \in Nat \ {0} /\ result.perPage \in Nat \ {0}
    /\ phase = "next" => request.page = result.page + 1
    /\ whole =>
         /\ steady = Matching
         /\ phase # "count" => total = Cardinality(Matching)
         /\ phase # "done" => Turned = 0 \/ Turned * result.perPage < Cardinality(Matching)
         /\ phase = "done" => Turned * result.perPage >= Cardinality(Matching)
         /\ Ordered(Matching) =>
              \E H \in Heads(Matching, Turned * result.perPage) :
                \A r \in Ids : shown[r] = IF r \in H THEN 1 ELSE 0

(* Row r comes after cursor c, in the order of the sorts.                   *)
Behind(r, c) ==
  LET s == result.sorts[1]  cell == Cell(r, s.column)
  IN IF s.desc THEN cell < c.value \/ (cell = c.value /\ r < c.id)
               ELSE cell > c.value \/ (cell = c.value /\ r > c.id)

(* The rows that nobody touched were shown if the cursor has passed them.   *)
Walked ==
  Walking /\ result.cursorMode =>
    /\ phase # "count" /\ request.cursor # Bad
    /\ steady \subseteq Matching
    /\ \A r \in steady :
         shown[r] = IF phase # "done" /\ (request.cursor = Absent \/ Behind(r, request.cursor))
                    THEN 0 ELSE 1

(* The inductive invariant.                                                 *)
QueryInv == QueryTyped /\ Parsed /\ Fresh /\ Numbered /\ Walked

-----------------------------------------------------------------------------
(* Facts about Parse and what the statements select.                        *)

(* What a cell of the table holds.                                          *)
LEMMA CellFacts ==
  ASSUME QueryTyped, NEW r \in DOMAIN table, NEW c \in Columns \cup {"id"}
  PROVE  Cell(r, c) \in Nat /\ r \in Nat
<1>1. Ids \subseteq Nat /\ Values \subseteq Nat
  BY QueryAssumption
<1>2. r \in Nat /\ table[r] \in [Columns -> Values]
  BY <1>1 DEF QueryTyped, Rows
<1>3. QED
  BY <1>1, <1>2 DEF Cell

(* What is given in the requests.                                           *)
LEMMA RequestFacts ==
  ASSUME NEW q \in Requests
  PROVE  /\ \A f \in q.filters : f.items = Absent \/ f.items \subseteq Nat
         /\ DOMAIN q = {"filters", "sort", "page", "perPage", "cursor"}
         /\ q.page \in Numbers /\ q.perPage \in Numbers
         /\ q.cursor \in {Absent, Bad} \cup [value : Nat, id : Nat]
<1>1. PICK a \in Asks : q.filters = a.filters
  BY DEF Requests
<1>2. \A f \in a.filters : f.items = Absent \/ f.items \subseteq Nat
  BY QueryAssumption
<1>3. QED
  BY <1>1, <1>2 DEF Requests

(* The first request is one of them.                                        *)
LEMMA AsksAreRequests == Asks \subseteq Requests
<1> SUFFICES ASSUME NEW q \in Asks PROVE q \in Requests
  OBVIOUS
<1>1. q \in [filters : {q.filters}, sort : {q.sort}, page : Numbers, perPage : Numbers,
             cursor : {Absent, Bad}]
  BY QueryAssumption DEF Numbers
<1>2. QED
  BY <1>1 DEF Requests

(* The condition made of a filter that Parse lets through is met by the     *)
(* cells that the parameter asks for.                                       *)
LEMMA OneFilter ==
  ASSUME QueryTyped, NEW q, Sound(q), NEW f \in q.filters, f.items \subseteq Nat, f.items # Absent,
         NEW r \in DOMAIN table
  PROVE  LET filter == options.filters[f.name]
         IN  Meets(r, FilterValue(f)) <=> Wants(f, filter.kind, Cell(r, filter.column))
<1> DEFINE filter == options.filters[f.name]
<1>1. f.name \in DOMAIN options.filters /\ ~Refuses(filter, f.op, f.items)
  BY DEF Sound
<1>2. filter.column \in Columns \cup {"id"}
  BY <1>1 DEF Sound, Misconfigured
<1>3. PICK cell \in Nat : cell = Cell(r, filter.column)
  BY <1>2, CellFacts
<1>4. /\ FilterValue(f).column = filter.column
      /\ FilterValue(f).op = FilterOp(filter, f.op)
      /\ FilterValue(f).items = f.items
  BY DEF FilterValue
<1>5. f.op = Absent \/ (filter.kind = "compare" /\ f.op \in Ranges)
  BY <1>1 DEF Refuses
<1>6. \A v \in f.items : v \in Nat
  OBVIOUS
<1>7. Absent \notin Ranges
  BY QueryAssumption DEF Ranges
<1>8. Wants(f, filter.kind, cell) <=>
        CASE FilterOp(filter, f.op) = "like"         -> \A part \in f.items : <<cell, part>> \in PartOf
          [] FilterOp(filter, f.op) \in {"eq", "in"} -> cell \in f.items
          [] OTHER                                   -> \A v \in f.items : Comparison(FilterOp(filter, f.op), cell, v)
  <2>1. CASE f.op = Absent
    BY <1>7, <2>1 DEF Wants, FilterOp, Ranges
  <2>2. CASE f.op # Absent
    <3>1. filter.kind = "compare" /\ FilterOp(filter, f.op) = f.op /\ f.op \in Ranges
      BY <1>5, <2>2 DEF FilterOp
    <3>2. \A v \in f.items : Comparison(f.op, cell, v) <=>
            /\ f.op = "gte" => v <= cell
            /\ f.op = "lte" => cell <= v
            /\ f.op = "gt"  => v < cell
            /\ f.op = "lt"  => cell < v
      BY <1>6, <3>1 DEF Comparison, Ranges
    <3>3. QED
      BY <2>2, <3>1, <3>2 DEF Wants, Ranges
  <2>3. QED
    BY <2>1, <2>2
<1>9. Meets(r, FilterValue(f)) <=>
        CASE FilterOp(filter, f.op) = "like"         -> \A part \in f.items : <<cell, part>> \in PartOf
          [] FilterOp(filter, f.op) \in {"eq", "in"} -> cell \in f.items
          [] OTHER                                   -> \A v \in f.items : Comparison(FilterOp(filter, f.op), cell, v)
  BY <1>3, <1>4 DEF Meets
<1>10. QED
  BY <1>3, <1>8, <1>9

(* The conditions of a parsed request are met by the rows it asks for.      *)
LEMMA ParseMeansIt ==
  ASSUME QueryTyped, NEW q \in Requests, Sound(q), NEW r \in DOMAIN table
  PROVE  (\A f \in Parse(q).filters : Meets(r, f)) <=> Wanted(r, q)
<1>1. Parse(q).filters = {FilterValue(f) : f \in {g \in q.filters : g.items # Absent}}
  BY DEF Parse
<1>2. (\A f \in Parse(q).filters : Meets(r, f)) <=>
        \A f \in q.filters : f.items # Absent => Meets(r, FilterValue(f))
  BY <1>1
<1>3. ASSUME NEW f \in q.filters, f.items # Absent
      PROVE  Meets(r, FilterValue(f)) <=>
               /\ f.name \in DOMAIN options.filters
               /\ Wants(f, options.filters[f.name].kind, Cell(r, options.filters[f.name].column))
  <2>1. f.items \subseteq Nat
    BY <1>3, RequestFacts
  <2>2. f.name \in DOMAIN options.filters
    BY <1>3 DEF Sound
  <2>3. QED
    BY <1>3, <2>1, <2>2, OneFilter
<1>4. QED
  BY <1>2, <1>3 DEF Wanted

(* The rows that match are finitely many.                                   *)
LEMMA MatchingFacts ==
  ASSUME QueryTyped
  PROVE  /\ Matching \subseteq DOMAIN table /\ IsFiniteSet(Matching)
         /\ Cardinality(Matching) \in Nat /\ Cardinality(Matching) <= Cardinality(Ids)
         /\ Cardinality(Ids) \in Nat
<1>1. Matching \in SUBSET Ids
  BY DEF Matching, QueryTyped
<1>2. IsFiniteSet(Ids)
  BY QueryAssumption
<1>3. IsFiniteSet(Matching) /\ Cardinality(Matching) <= Cardinality(Ids)
  BY <1>1, <1>2, FS_Subset
<1>4. Cardinality(Matching) \in Nat /\ Cardinality(Ids) \in Nat
  BY <1>2, <1>3, FS_CardinalityType
<1>5. QED
  BY <1>3, <1>4 DEF Matching

(* If the sorts tell the rows apart, there is one way to take the first n.  *)
LEMMA OneHead ==
  ASSUME NEW S, NEW n, IsFiniteSet(S), Ordered(S), NEW P \in Heads(S, n), NEW Q \in Heads(S, n)
  PROVE  P = Q
<1> SUFFICES ASSUME P # Q PROVE FALSE
  OBVIOUS
<1>1. /\ P \subseteq S /\ Q \subseteq S /\ Cardinality(P) = Cardinality(Q)
      /\ \A p \in P, s \in S \ P : ~Precedes(s, p)
      /\ \A p \in Q, s \in S \ Q : ~Precedes(s, p)
  BY DEF Heads
<1>2. IsFiniteSet(P) /\ IsFiniteSet(Q)
  BY <1>1, FS_Subset
<1>3. PICK p \in P : p \notin Q
  <2> SUFFICES ASSUME P \subseteq Q PROVE FALSE
    OBVIOUS
  <2>1. P \in SUBSET Q
    OBVIOUS
  <2>2. QED
    BY <1>1, <1>2, <2>1, FS_Subset
<1>4. PICK q \in Q : q \notin P
  <2> SUFFICES ASSUME Q \subseteq P PROVE FALSE
    OBVIOUS
  <2>1. Q \in SUBSET P
    OBVIOUS
  <2>2. QED
    BY <1>1, <1>2, <2>1, FS_Subset
<1>5. Precedes(p, q) \/ Precedes(q, p)
  BY <1>1, <1>3, <1>4 DEF Ordered
<1>6. QED
  BY <1>1, <1>3, <1>4, <1>5

(* How many rows the first n are.                                           *)
LEMMA HeadSize ==
  ASSUME NEW S, NEW n \in Nat, IsFiniteSet(S), NEW P \in Heads(S, n)
  PROVE  /\ P \subseteq S /\ IsFiniteSet(P) /\ Cardinality(P) \in Nat
         /\ Cardinality(P) = IF n < Cardinality(S) THEN n ELSE Cardinality(S)
         /\ n >= Cardinality(S) => P = S
         /\ Cardinality(P) < n => P = S
         /\ \A p \in P, s \in S \ P : ~Precedes(s, p)
<1>1. /\ P \in SUBSET S
      /\ Cardinality(P) = IF n < Cardinality(S) THEN n ELSE Cardinality(S)
      /\ \A p \in P, s \in S \ P : ~Precedes(s, p)
  BY DEF Heads, Least
<1>2. IsFiniteSet(P) /\ (Cardinality(S) = Cardinality(P) => S = P)
  BY <1>1, FS_Subset
<1>3. Cardinality(P) \in Nat /\ Cardinality(S) \in Nat
  BY <1>2, FS_CardinalityType
<1>4. QED
  BY <1>1, <1>2, <1>3

(* The first none of the rows.                                              *)
LEMMA NoHead ==
  ASSUME NEW S, IsFiniteSet(S)
  PROVE  {} \in Heads(S, 0)
<1>1. Cardinality({}) = 0
  BY FS_EmptySet
<1>2. Cardinality(S) \in Nat
  BY FS_CardinalityType
<1>3. QED
  BY <1>1, <1>2 DEF Heads, Least

(* An offset below the limit of an int does not wrap around.                *)
LEMMA Wrapping ==
  ASSUME NEW x \in Nat, NEW n \in Nat \ {0}, x < n
  PROVE  ((x + n) % (2 * n)) - n = x
<1> DEFINE y == x + n  d == 2 * n  k == y \div d
<1>1. y \in Nat /\ d \in Nat /\ d > 0 /\ y < d
  OBVIOUS
<1> HIDE DEF y, d
<1>2. y = d * (y \div d) + (y % d) /\ 0 <= y % d /\ y % d < d /\ y \div d \in Int
  BY <1>1
<1>3. y \div d = 0
  BY <1>1
<1>4. y % d = y
  BY <1>2, <1>3, <1>1
<1>5. QED
  BY <1>4 DEF y, d

(* The pages before the last one, which TotalPages counts, are full.        *)
LEMMA PageArithmetic ==
  ASSUME NEW t \in Nat, NEW n \in Nat \ {0}, NEW p \in Nat
  PROVE  p < (t + n - 1) \div n <=> p * n < t
<1> DEFINE k == (t + n - 1) \div n
<1>1. k \in Int /\ k * n <= t + n - 1 /\ t + n - 1 < (k + 1) * n
  OBVIOUS
<1> HIDE DEF k
<1>2. ASSUME p < k PROVE p * n < t
  <2>1. p + 1 <= k
    BY <1>1, <1>2
  <2>2. (p + 1) * n <= k * n
    BY <1>1, <2>1
  <2>3. (p + 1) * n = p * n + n
    OBVIOUS
  <2>4. QED
    BY <1>1, <2>2, <2>3
<1>3. ASSUME p >= k PROVE p * n >= t
  <2>1. k * n <= p * n
    BY <1>1, <1>3
  <2>2. (k + 1) * n = k * n + n
    BY <1>1
  <2>3. k * n \in Int /\ p * n \in Int
    BY <1>1
  <2>4. QED
    BY <1>1, <2>1, <2>2, <2>3
<1>4. p * n \in Int
  OBVIOUS
<1>5. QED
  BY <1>1, <1>2, <1>3, <1>4 DEF k

-----------------------------------------------------------------------------
(* The steps.                                                               *)

(* What Parse makes of a request whose page or cursor is another.           *)
LEMMA Unmoved ==
  ASSUME options' = options, request'.filters = request.filters, request'.sort = request.sort,
         request'.perPage = request.perPage
  PROVE  /\ Sound(request)' <=> Sound(request)
         /\ Parse(request)'.filters = Parse(request).filters
         /\ Parse(request)'.sorts = Parse(request).sorts
         /\ Parse(request)'.perPage = Parse(request).perPage
         /\ CursorEndpoint' <=> CursorEndpoint
<1>1. CursorEndpoint' <=> CursorEndpoint
  BY DEF CursorEndpoint
<1>2. Misconfigured(request)' <=> Misconfigured(request)
  BY <1>1 DEF Misconfigured
<1>3. Sound(request)' <=> Sound(request)
  BY <1>2 DEF Sound, Refuses
<1>4. Sorts(request)' = Sorts(request)
  BY <1>1 DEF Sorts, SortValue, Descending
<1>5. Parse(request)'.filters = Parse(request).filters
  BY DEF Parse, FilterValue
<1>6. Parse(request)'.sorts = Parse(request).sorts
  BY <1>4 DEF Parse
<1>7. Parse(request)'.perPage = Parse(request).perPage
  BY DEF Parse, Least
<1>8. QED
  BY <1>1, <1>3, <1>5, <1>6, <1>7

(* What it makes of the same request.                                       *)
LEMMA Unasked ==
  ASSUME options' = options, request' = request
  PROVE  /\ Sound(request)' <=> Sound(request)
         /\ Parse(request)' = Parse(request)
         /\ BadRequest(request)' <=> BadRequest(request)
         /\ CursorEndpoint' <=> CursorEndpoint
<1>1. CursorEndpoint' <=> CursorEndpoint
  BY DEF CursorEndpoint
<1>2. Sound(request)' <=> Sound(request)
  BY Unmoved
<1>3. Parse(request)'.filters = Parse(request).filters
  BY Unmoved
<1>4. Sorts(request)' = Sorts(request)
  BY <1>1 DEF Sorts, SortValue, Descending
<1>5. Parse(request)' = Parse(request)
  BY <1>1, <1>4 DEF Parse, FilterValue, Given, Least
<1>6. BadRequest(request)' <=> BadRequest(request)
  BY <1>1 DEF BadRequest, Refuses
<1>7. QED
  BY <1>1, <1>2, <1>5, <1>6

(* The fields of what is parsed.                                            *)
LEMMA ParseFields ==
  ASSUME QueryTyped, NEW q \in Requests, Sound(q), ~BadRequest(q)
  PROVE  /\ Parse(q).page = Given(q.page, 1) /\ Parse(q).page \in Nat \ {0}
         /\ Parse(q).perPage \in Nat \ {0}
         /\ Parse(q).cursorMode = CursorEndpoint
         /\ Parse(q).cursor = IF CursorEndpoint THEN q.cursor ELSE Absent
         /\ CursorEndpoint => q.cursor # Bad
         /\ Parse(q).sorts = Sorts(q)
<1>1. q.page \in Numbers \ {Bad} /\ q.perPage \in Numbers \ {Bad}
  BY RequestFacts DEF BadRequest
<1>2. options.perPage \in Nat \ {0} /\ options.maxPerPage \in Nat \ {0}
  BY QueryAssumption DEF QueryTyped
<1>3. Parse(q).page = Given(q.page, 1) /\ Given(q.page, 1) \in Nat \ {0}
  BY <1>1 DEF Parse, Given, Numbers
<1>4. Parse(q).perPage \in Nat \ {0}
  BY <1>1, <1>2 DEF Parse, Numbers, Least
<1>5. CursorEndpoint => q.cursor # Bad
  BY DEF BadRequest
<1>6. QED
  BY <1>3, <1>4, <1>5 DEF Parse

(* The initial states.                                                      *)
LEMMA WalkBegins == QueryInit => QueryInv
<1> SUFFICES ASSUME QueryInit PROVE QueryInv
  OBVIOUS
<1>1. QueryTyped
  <2>1. DOMAIN table \subseteq Ids /\ \A r \in DOMAIN table : table[r] \in Rows
    BY DEF QueryInit
  <2>2. shown \in [Ids -> Nat] /\ total \in Nat
    BY DEF QueryInit
  <2>3. QED
    BY <2>1, <2>2, AsksAreRequests DEF QueryInit, QueryTyped
<1>2. Parsed
  BY DEF QueryInit, Parsed, Walking, Answering
<1>3. Fresh
  BY DEF QueryInit, Fresh
<1>4. Numbered /\ Walked
  BY DEF QueryInit, Numbered, Walked, Walking
<1>5. QED
  BY <1>1, <1>2, <1>3, <1>4 DEF QueryInv

(* Rows match as before if neither the conditions nor the table changed.    *)
LEMMA SameRows ==
  ASSUME table' = table, result'.filters = result.filters
  PROVE  Matching' = Matching
BY DEF Matching, Meets, Cell

(* They are in the same order if neither the sorts nor the table changed.   *)
LEMMA SameOrder ==
  ASSUME table' = table, result'.sorts = result.sorts
  PROVE  /\ \A a, b : Precedes(a, b)' <=> Precedes(a, b)
         /\ \A S, n : Heads(S, n)' = Heads(S, n)
         /\ \A S : Ordered(S)' <=> Ordered(S)
         /\ \A r, c : Behind(r, c)' <=> Behind(r, c)
<1>1. \A a, b : Precedes(a, b)' <=> Precedes(a, b)
  BY DEF Precedes, Before, Cell
<1>2. \A S, n : Heads(S, n)' = Heads(S, n)
  BY <1>1 DEF Heads
<1>3. \A S : Ordered(S)' <=> Ordered(S)
  BY <1>1 DEF Ordered
<1>4. \A r, c : Behind(r, c)' <=> Behind(r, c)
  BY DEF Behind, Cell
<1>5. QED
  BY <1>1, <1>2, <1>3, <1>4

(* Parse and what comes of it.                                              *)
LEMMA HandleKeeps ==
  ASSUME QueryInv, Handle
  PROVE  QueryInv'
<1>1. QueryTyped' /\ Fresh'
  BY DEF QueryInv, QueryTyped, Fresh, Handle
<1>2. CASE phase' = "refused"
  BY <1>1, <1>2 DEF QueryInv, Parsed, Numbered, Walked, Walking, Answering
<1>3. CASE phase' # "refused"
  <2>1. /\ ~Misconfigured(request) /\ ~BadRequest(request)
        /\ phase' = IF CursorEndpoint THEN "select" ELSE "count"
        /\ result' = Parse(request)
    BY <1>3 DEF Handle
  <2>2. UNCHANGED <<table, options, request, total, shown>>
    BY DEF Handle
  <2>3. Sound(request)
    BY <2>1 DEF Sound, BadRequest
  <2>4. QueryTyped /\ request \in Requests
    BY DEF QueryInv, QueryTyped
  <2>5. /\ Parse(request).page = Given(request.page, 1) /\ Parse(request).page \in Nat \ {0}
        /\ Parse(request).perPage \in Nat \ {0}
        /\ Parse(request).cursorMode = CursorEndpoint
        /\ CursorEndpoint => request.cursor # Bad
    BY <2>1, <2>3, <2>4, ParseFields
  <2>6. /\ Sound(request)' <=> Sound(request)
        /\ Parse(request)' = Parse(request)
        /\ BadRequest(request)' <=> BadRequest(request)
        /\ CursorEndpoint' <=> CursorEndpoint
    BY <2>2, Unasked
  <2>7. Walking' /\ Answering'
    BY <2>1 DEF Walking, Answering
  <2>8. Parsed'
    <3>1. CursorEndpoint' = CursorEndpoint
      BY <2>2 DEF CursorEndpoint
    <3>2. QED
      BY <2>1, <2>3, <2>5, <2>6, <2>7, <3>1 DEF Parsed
  <2>9. Matching' = {r \in DOMAIN table : Wanted(r, request)}
    <3>1. Matching' = {r \in DOMAIN table : \A f \in Parse(request).filters : Meets(r, f)}
      BY <2>1, <2>2 DEF Matching, Meets, Cell
    <3>2. \A r \in DOMAIN table : (\A f \in Parse(request).filters : Meets(r, f)) <=> Wanted(r, request)
      BY <2>3, <2>4, ParseMeansIt
    <3>3. QED
      BY <3>1, <3>2
  <2>10. CASE phase = "first"
    <3>1. /\ steady' = Matching' /\ whole' = (request.page = Absent)
          /\ \A r \in Ids : shown'[r] = 0
          /\ request \in Asks
      BY <2>2, <2>9, <2>10 DEF Handle, QueryInv, Fresh
    <3>2. Matching' \subseteq Ids
      BY <2>9 DEF QueryInv, QueryTyped
    <3>3. Numbered'
      <4>1. CASE CursorEndpoint
        BY <2>1, <2>5, <4>1 DEF Numbered
      <4>2. CASE ~CursorEndpoint
        <5>1. /\ result'.page \in Nat \ {0} /\ result'.perPage \in Nat \ {0} /\ phase' = "count"
              /\ whole' => result'.page = 1
          BY <2>1, <2>5, <3>1, <4>2 DEF Given
        <5>2. whole' => Turned' = 0 /\ Turned' * result'.perPage = 0
          BY <2>7, <5>1 DEF Turned
        <5>3. {} \in Heads(Matching, 0)'
          <6>1. IsFiniteSet(Matching')
            BY <3>2, FS_Subset, QueryAssumption
          <6>2. PICK M : M = Matching'
            OBVIOUS
          <6>3. Cardinality(M) \in Nat
            BY <6>1, <6>2, FS_CardinalityType
          <6>4. QED
            BY <6>2, <6>3, FS_EmptySet DEF Heads, Least
        <5>4. whole' => \E H \in Heads(Matching, Turned * result.perPage)' :
                          \A r \in Ids : shown'[r] = IF r \in H THEN 1 ELSE 0
          BY <3>1, <5>2, <5>3
        <5>5. QED
          BY <3>1, <5>1, <5>2, <5>4 DEF Numbered
      <4>3. QED
        BY <4>1, <4>2
    <3>4. Walked'
      <4>1. CASE CursorEndpoint
        <5>1. request.cursor = Absent
          BY <2>5, <3>1, <4>1, QueryAssumption
        <5>2. steady' \subseteq Ids
          BY <3>1, <3>2
        <5>3. QED
          BY <2>1, <2>2, <2>5, <3>1, <4>1, <5>1, <5>2 DEF Walked
      <4>2. CASE ~CursorEndpoint
        BY <2>1, <2>5, <4>2 DEF Walked
      <4>3. QED
        BY <4>1, <4>2
    <3>5. QED
      BY <1>1, <2>8, <3>3, <3>4 DEF QueryInv
  <2>11. CASE phase # "first"
    <3>1. /\ phase = "next" /\ UNCHANGED <<steady, whole>>
          /\ Walking /\ ~Answering
      BY <2>11 DEF Handle, Walking, Answering
    <3>2. /\ result'.filters = result.filters /\ result'.sorts = result.sorts
          /\ result'.perPage = result.perPage /\ result.cursorMode = CursorEndpoint
          /\ result'.cursorMode = CursorEndpoint
      BY <2>1, <2>5, <3>1 DEF QueryInv, Parsed
    <3>3. Matching' = Matching
      BY <2>2, <3>2, SameRows
    <3>4. /\ \A S, n : Heads(S, n)' = Heads(S, n)
          /\ \A S : Ordered(S)' <=> Ordered(S)
          /\ \A r, c : Behind(r, c)' <=> Behind(r, c)
      BY <2>2, <3>2, SameOrder
    <3>5. Numbered'
      <4>1. CASE CursorEndpoint
        BY <3>2, <4>1 DEF Numbered
      <4>2. CASE ~CursorEndpoint
        <5>1. /\ result.page \in Nat \ {0} /\ result.perPage \in Nat \ {0}
              /\ request.page = result.page + 1
              /\ whole =>
                   /\ steady = Matching
                   /\ Turned = 0 \/ Turned * result.perPage < Cardinality(Matching)
                   /\ Ordered(Matching) =>
                        \E H \in Heads(Matching, Turned * result.perPage) :
                          \A r \in Ids : shown[r] = IF r \in H THEN 1 ELSE 0
          BY <3>1, <3>2, <4>2 DEF QueryInv, Numbered
        <5>2. result'.page = result.page + 1
          BY <2>1, <2>5, <5>1, QueryAssumption DEF Given
        <5>3. Turned' = Turned
          BY <2>7, <3>1, <5>1, <5>2 DEF Turned
        <5>4. phase' = "count"
          BY <2>1, <4>2
        <5>5. Ordered(Matching)' <=> Ordered(Matching)
          BY <3>3, <3>4 DEF Ordered
        <5>6. Heads(Matching, Turned * result.perPage)' = Heads(Matching, Turned * result.perPage)
          BY <3>2, <3>3, <3>4, <5>3 DEF Heads
        <5>7. QED
          BY <2>2, <3>1, <3>2, <3>3, <5>1, <5>2, <5>3, <5>4, <5>5, <5>6 DEF Numbered
      <4>3. QED
        BY <4>1, <4>2
    <3>6. Walked'
      BY <2>1, <2>2, <2>5, <3>1, <3>2, <3>3, <3>4 DEF QueryInv, Walked
    <3>7. QED
      BY <1>1, <2>8, <3>5, <3>6 DEF QueryInv
  <2>12. QED
    BY <2>10, <2>11
<1>4. QED
  BY <1>2, <1>3

(* A walk that goes on parses what it parsed before.                        *)
LEMMA ParsedStays ==
  ASSUME Parsed, Walking, UNCHANGED <<options, result>>,
         request'.filters = request.filters, request'.sort = request.sort,
         request'.perPage = request.perPage,
         Answering' => Answering /\ request' = request
  PROVE  Parsed'
<1>1. CursorEndpoint' = CursorEndpoint
  BY DEF CursorEndpoint
<1>2. /\ Sound(request)
      /\ result.filters = Parse(request).filters
      /\ result.sorts = Parse(request).sorts
      /\ result.perPage = Parse(request).perPage
      /\ result.cursorMode = CursorEndpoint
      /\ Answering => ~BadRequest(request) /\ result = Parse(request)
  BY DEF Parsed
<1>3. /\ Sound(request)' <=> Sound(request)
      /\ Parse(request)'.filters = Parse(request).filters
      /\ Parse(request)'.sorts = Parse(request).sorts
      /\ Parse(request)'.perPage = Parse(request).perPage
  BY Unmoved
<1>4. ASSUME Answering'
      PROVE  ~BadRequest(request)' /\ result' = Parse(request)'
  BY <1>2, <1>4, Unasked
<1>5. QED
  BY <1>1, <1>2, <1>3, <1>4 DEF Parsed

(* CountGORM and BuildCountSQL.                                             *)
LEMMA CountKeeps ==
  ASSUME QueryInv, Count
  PROVE  QueryInv'
<1>1. /\ phase = "count" /\ phase' = "select" /\ total' = Cardinality(Matching)
      /\ UNCHANGED <<table, options, request, result, shown, steady, whole>>
  BY DEF Count
<1>2. Walking /\ Walking' /\ Answering /\ Answering'
  BY <1>1 DEF Walking, Answering
<1>3. QueryTyped'
  <2>1. Cardinality(Matching) \in Nat
    BY MatchingFacts DEF QueryInv
  <2>2. QED
    BY <1>1, <2>1 DEF QueryInv, QueryTyped
<1>4. Parsed'
  BY <1>1, <1>2, ParsedStays DEF QueryInv
<1>5. Matching' = Matching /\ Turned' = Turned
  BY <1>1, <1>2, SameRows DEF Turned
<1>6. Ordered(Matching)' <=> Ordered(Matching)
  BY <1>1, <1>5, SameOrder DEF Ordered
<1>7. Heads(Matching, Turned * result.perPage)' = Heads(Matching, Turned * result.perPage)
  BY <1>1, <1>5, SameOrder DEF Heads
<1>8. Numbered'
  BY <1>1, <1>2, <1>5, <1>6, <1>7 DEF QueryInv, Numbered
<1>9. Fresh' /\ Walked'
  BY <1>1, <1>2 DEF QueryInv, Fresh, Walked
<1>10. QED
  BY <1>3, <1>4, <1>8, <1>9 DEF QueryInv

(* The client goes on to another page.                                      *)
LEMMA RequestMoves ==
  ASSUME NEW q \in Requests
  PROVE  /\ \A p \in Nat \ {0} :
              LET next == [q EXCEPT !.page = p]
              IN  /\ next \in Requests /\ next.page = p
                  /\ next.filters = q.filters /\ next.sort = q.sort /\ next.perPage = q.perPage
         /\ \A c \in [value : Nat, id : Nat] :
              LET next == [q EXCEPT !.cursor = c]
              IN  /\ next \in Requests /\ next.cursor = c
                  /\ next.filters = q.filters /\ next.sort = q.sort /\ next.perPage = q.perPage
BY DEF Requests, Numbers

(* Everything that a numbered page shows matches.                           *)
LEMMA PagesMatch ==
  ASSUME NEW P \in Pages
  PROVE  P \subseteq Matching
<1> DEFINE skip == IF Offset < 0 THEN 0 ELSE Offset
           A == Heads(Matching, skip)  B == Heads(Matching, skip + result.perPage)
<1>1. P \in {pq[2] \ pq[1] : pq \in {x \in A \X B : x[1] \subseteq x[2]}}
  BY DEF Pages
<1>2. \A b \in B : b \subseteq Matching
  BY DEF Heads
<1> HIDE DEF A, B
<1>3. QED
  BY <1>1, <1>2

(* The pages seen and the next one are the first rows of the order.         *)
LEMMA PageFollows ==
  ASSUME QueryTyped, result.page \in Nat \ {0}, result.perPage \in Nat \ {0},
         result.page = 1 \/ (result.page - 1) * result.perPage < Cardinality(Matching)
  PROVE  /\ Offset = (result.page - 1) * result.perPage /\ Offset \in Nat
         /\ Offset + result.perPage = result.page * result.perPage
         /\ Ordered(Matching) =>
              \A P \in Pages, H \in Heads(Matching, Offset) :
                H \cup P \in Heads(Matching, result.page * result.perPage) /\ H \cap P = {}
<1> DEFINE k == result.page - 1  n == result.perPage
<1>1. k \in Nat /\ n \in Nat \ {0} /\ k * n \in Nat
  OBVIOUS
<1>2. k * n < IntLimit /\ IntLimit \in Nat \ {0}
  <2>1. /\ Cardinality(Ids) < IntLimit /\ Cardinality(Ids) \in Nat /\ IntLimit \in Nat \ {0}
        /\ Cardinality(Matching) <= Cardinality(Ids) /\ Cardinality(Matching) \in Nat
    BY MatchingFacts, QueryAssumption
  <2>2. k * n < Cardinality(Matching) \/ k * n = 0
    BY <1>1
  <2>3. QED
    BY <1>1, <2>1, <2>2
<1>3. Offset = k * n
  BY <1>1, <1>2, Wrapping DEF Offset
<1>4. k * n + n = result.page * n
  BY <1>1
<1>5. ASSUME Ordered(Matching), NEW P \in Pages, NEW H \in Heads(Matching, Offset)
      PROVE  H \cup P \in Heads(Matching, result.page * n) /\ H \cap P = {}
  <2>1. PICK a \in Heads(Matching, Offset), b \in Heads(Matching, Offset + n) :
          a \subseteq b /\ P = b \ a
    <3>1. Pages = {pq[2] \ pq[1] : pq \in {x \in Heads(Matching, Offset) \X Heads(Matching, Offset + n)
                                             : x[1] \subseteq x[2]}}
      <4>1. ~(Offset < 0)
        BY <1>1, <1>3
      <4>2. QED
        BY <4>1 DEF Pages
    <3>2. QED
      BY <1>5, <3>1
  <2>2. a = H
    BY <1>5, <2>1, OneHead, MatchingFacts
  <2>3. H \cup P = b /\ H \cap P = {}
    BY <2>1, <2>2
  <2>4. QED
    BY <1>3, <1>4, <2>1, <2>3
<1>6. QED
  BY <1>1, <1>3, <1>4, <1>5

(* What is known when the handler selects.                                  *)
LEMMA Selecting ==
  ASSUME QueryInv, phase = "select"
  PROVE  /\ QueryTyped /\ Walking /\ Answering /\ request \in Requests /\ Sound(request)
         /\ result = Parse(request)
         /\ result.page \in Nat \ {0} /\ result.perPage \in Nat \ {0}
         /\ result.cursorMode = CursorEndpoint
         /\ result.cursor = IF CursorEndpoint THEN request.cursor ELSE Absent
         /\ result.sorts = Sorts(request)
         /\ CursorEndpoint => request.cursor # Bad
<1>1. QueryTyped /\ request \in Requests
  BY DEF QueryInv, QueryTyped
<1>2. Walking /\ Answering
  BY DEF Walking, Answering
<1>3. Sound(request) /\ ~BadRequest(request) /\ result = Parse(request)
  BY <1>2 DEF QueryInv, Parsed
<1>4. QED
  BY <1>1, <1>2, <1>3, ParseFields

(* ApplyGORM and BuildSQL, and the client.                                  *)
LEMMA SelectPageKeeps ==
  ASSUME QueryInv, SelectPage
  PROVE  QueryInv'
<1>1. /\ phase = "select" /\ ~result.cursorMode
      /\ UNCHANGED <<table, options, result, total, steady, whole>>
  BY DEF SelectPage
<1>2. /\ QueryTyped /\ Walking /\ Answering /\ request \in Requests
      /\ result.page \in Nat \ {0} /\ result.perPage \in Nat \ {0}
  BY <1>1, Selecting
<1>3. CASE Offset < 0 /\ phase' = "refused" /\ UNCHANGED <<shown, request>>
  <2>1. QueryTyped'
    BY <1>1, <1>2, <1>3 DEF QueryTyped
  <2>2. QED
    BY <1>3, <2>1 DEF QueryInv, Parsed, Fresh, Numbered, Walked, Walking, Answering
<1>4. ASSUME NEW P \in Pages, Shows(P),
             IF result.page < TotalPages
             THEN phase' = "next" /\ request' = [request EXCEPT !.page = result.page + 1]
             ELSE phase' = "done" /\ UNCHANGED request
      PROVE  QueryInv'
  <2>1. shown' = [r \in Ids |-> IF r \in P THEN shown[r] + 1 ELSE shown[r]]
    BY <1>4 DEF Shows
  <2>2. total \in Nat
    BY <1>2 DEF QueryTyped
  <2>3. /\ phase' \in {"next", "done"} /\ Walking' /\ ~Answering'
        /\ phase' = "next" => request'.page = result.page + 1
        /\ request' \in Requests /\ request'.filters = request.filters
        /\ request'.sort = request.sort /\ request'.perPage = request.perPage
    <3>1. result.page + 1 \in Nat \ {0}
      BY <1>2
    <3>2. CASE result.page < TotalPages
      <4>1. phase' = "next" /\ request' = [request EXCEPT !.page = result.page + 1]
        BY <1>4, <3>2
      <4>2. PICK p \in Nat \ {0} : p = result.page + 1
        BY <3>1
      <4>3. PICK q \in Requests : q = request
        BY <1>2
      <4>4. PICK next : next = [q EXCEPT !.page = p]
        OBVIOUS
      <4>5. /\ next \in Requests /\ next.page = p
            /\ next.filters = q.filters /\ next.sort = q.sort /\ next.perPage = q.perPage
        BY <4>4, RequestMoves
      <4>6. request' = next
        BY <4>1, <4>2, <4>3, <4>4
      <4>7. QED
        BY <4>1, <4>2, <4>3, <4>5, <4>6 DEF Walking, Answering
    <3>3. CASE ~(result.page < TotalPages)
      BY <1>2, <1>4, <3>3 DEF Walking, Answering
    <3>4. QED
      BY <3>2, <3>3
  <2>4. QueryTyped'
    <3>1. shown' \in [Ids -> Nat]
      BY <1>2, <2>1 DEF QueryTyped
    <3>2. QED
      BY <1>1, <1>2, <2>3, <3>1 DEF QueryTyped
  <2>5. Parsed'
    BY <1>1, <1>2, <2>3, ParsedStays DEF QueryInv
  <2>6. Fresh' /\ Walked'
    BY <1>1, <2>3 DEF Fresh, Walked
  <2>7. phase' = "next" <=> result.page * result.perPage < total
    <3>1. result.page < TotalPages <=> result.page * result.perPage < total
      BY <1>2, <2>2, PageArithmetic DEF TotalPages
    <3>2. QED
      BY <1>4, <3>1
  <2>8. Turned = result.page - 1 /\ Turned' = result.page
    BY <1>1, <1>2, <2>3 DEF Turned
  <2>9. Matching' = Matching
    BY <1>1, SameRows
  <2>10. Ordered(Matching)' <=> Ordered(Matching)
    BY <1>1, <2>9, SameOrder DEF Ordered
  <2>11. Heads(Matching, Turned * result.perPage)' = Heads(Matching, result.page * result.perPage)
    BY <1>1, <2>8, <2>9, SameOrder DEF Heads
  <2>12. ASSUME whole
         PROVE  /\ steady' = Matching' /\ total' = Cardinality(Matching')
                /\ phase' # "done" => Turned' * result'.perPage < Cardinality(Matching')
                /\ phase' = "done" => Turned' * result'.perPage >= Cardinality(Matching')
                /\ Ordered(Matching)' =>
                     \E H \in Heads(Matching, Turned * result.perPage)' :
                       \A r \in Ids : shown'[r] = IF r \in H THEN 1 ELSE 0
    <3>1. /\ steady = Matching /\ total = Cardinality(Matching)
          /\ Turned = 0 \/ Turned * result.perPage < Cardinality(Matching)
          /\ Ordered(Matching) =>
               \E H \in Heads(Matching, Turned * result.perPage) :
                 \A r \in Ids : shown[r] = IF r \in H THEN 1 ELSE 0
      BY <1>1, <1>2, <2>12 DEF QueryInv, Numbered
    <3>2. result.page = 1 \/ (result.page - 1) * result.perPage < Cardinality(Matching)
      BY <1>2, <2>8, <3>1
    <3>3. /\ Offset = (result.page - 1) * result.perPage
          /\ Ordered(Matching) =>
               \A Q \in Pages, H \in Heads(Matching, Offset) :
                 H \cup Q \in Heads(Matching, result.page * result.perPage) /\ H \cap Q = {}
      BY <1>2, <3>2, PageFollows
    <3>4. ASSUME Ordered(Matching)
          PROVE  \E H \in Heads(Matching, result.page * result.perPage) :
                   \A r \in Ids : shown'[r] = IF r \in H THEN 1 ELSE 0
      <4>1. PICK H \in Heads(Matching, Offset) :
              \A r \in Ids : shown[r] = IF r \in H THEN 1 ELSE 0
        BY <2>8, <3>1, <3>3, <3>4
      <4>2. H \cup P \in Heads(Matching, result.page * result.perPage) /\ H \cap P = {}
        BY <3>3, <3>4, <4>1
      <4>3. \A r \in Ids : shown'[r] = IF r \in H \cup P THEN 1 ELSE 0
        BY <2>1, <4>1, <4>2
      <4>4. QED
        BY <4>2, <4>3
    <3>5. result.page * result.perPage \in Nat /\ Cardinality(Matching) \in Nat
      BY <1>2, MatchingFacts
    <3>6. QED
      BY <1>1, <2>3, <2>7, <2>8, <2>9, <2>10, <2>11, <3>1, <3>4, <3>5
  <2>13. Numbered'
    BY <1>1, <1>2, <2>3, <2>12 DEF Numbered
  <2>14. QED
    BY <2>4, <2>5, <2>6, <2>13 DEF QueryInv
<1>5. QED
  BY <1>3, <1>4 DEF SelectPage

-----------------------------------------------------------------------------
(* The order of a cursor.                                                   *)

(* Where a row is, as a cursor says it.                                     *)
PlaceOf(a) == [value |-> Cell(a, result.sorts[1].column), id |-> a]

(* The sorts of a cursor put any two rows in order, by what the cursor says *)
(* of them.                                                                 *)
LEMMA CursorOrder ==
  ASSUME QueryTyped, Sound(request), CursorEndpoint, result.sorts = Sorts(request)
  PROVE  /\ \A a \in DOMAIN table : PlaceOf(a) \in [value : Nat, id : Nat] /\ ~Precedes(a, a)
         /\ \A a, b \in DOMAIN table : a # b => Precedes(a, b) \/ Precedes(b, a)
         /\ \A a, b \in DOMAIN table : Precedes(a, b) => ~Precedes(b, a)
         /\ \A a, b, d \in DOMAIN table : Precedes(a, b) /\ Precedes(b, d) => Precedes(a, d)
         /\ \A a, r \in DOMAIN table : Behind(r, PlaceOf(a)) <=> Precedes(a, r)
         /\ \A a, r \in DOMAIN table, c \in [value : Nat, id : Nat] :
              Behind(a, c) /\ ~Behind(r, c) => Precedes(r, a)
<1> DEFINE column == options.sorts[options.cursorSort]
           Key(a) == Cell(a, column)
<1>1. /\ result.sorts = <<[column |-> column, desc |-> Descending], [column |-> "id", desc |-> Descending]>>
      /\ result.sorts[1].column = column /\ result.sorts[1].desc = Descending
      /\ result.sorts[2].column = "id" /\ result.sorts[2].desc = Descending
      /\ DOMAIN result.sorts = {1, 2}
  BY DEF Sorts
<1>2. column \in Columns \cup {"id"}
  BY DEF Sound, Misconfigured
<1>3. \A a \in DOMAIN table : Key(a) \in Nat /\ a \in Nat /\ Cell(a, "id") = a
  BY <1>2, CellFacts DEF Cell
<1> HIDE DEF column
<1>4. \A a, b \in DOMAIN table :
        Precedes(a, b) <=> IF Descending THEN Key(a) > Key(b) \/ (Key(a) = Key(b) /\ a > b)
                                         ELSE Key(a) < Key(b) \/ (Key(a) = Key(b) /\ a < b)
  <2> SUFFICES ASSUME NEW a \in DOMAIN table, NEW b \in DOMAIN table
               PROVE  Precedes(a, b) <=> IF Descending THEN Key(a) > Key(b) \/ (Key(a) = Key(b) /\ a > b)
                                                       ELSE Key(a) < Key(b) \/ (Key(a) = Key(b) /\ a < b)
    OBVIOUS
  <2>1. Before(result.sorts[1], a, b) <=> IF Descending THEN Key(a) > Key(b) ELSE Key(a) < Key(b)
    BY <1>1 DEF Before
  <2>2. Before(result.sorts[2], a, b) <=> IF Descending THEN a > b ELSE a < b
    BY <1>1, <1>3 DEF Before
  <2>3. Precedes(a, b) <=> \/ Before(result.sorts[1], a, b)
                           \/ Before(result.sorts[2], a, b) /\ Key(a) = Key(b)
    <3>1. 1..(1 - 1) = {} /\ 1..(2 - 1) = {1}
      OBVIOUS
    <3>2. Precedes(a, b) <=>
            \/ /\ Before(result.sorts[1], a, b)
               /\ \A j \in 1..(1 - 1) : Cell(a, result.sorts[j].column) = Cell(b, result.sorts[j].column)
            \/ /\ Before(result.sorts[2], a, b)
               /\ \A j \in 1..(2 - 1) : Cell(a, result.sorts[j].column) = Cell(b, result.sorts[j].column)
      BY <1>1 DEF Precedes
    <3>3. QED
      BY <1>1, <3>1, <3>2
  <2>4. QED
    BY <2>1, <2>2, <2>3
<1>5. \A r \in DOMAIN table : \A c :
        Behind(r, c) <=> IF Descending THEN Key(r) < c.value \/ (Key(r) = c.value /\ r < c.id)
                                       ELSE Key(r) > c.value \/ (Key(r) = c.value /\ r > c.id)
  BY <1>1 DEF Behind
<1>6. \A a : PlaceOf(a) = [value |-> Key(a), id |-> a]
  BY <1>1 DEF PlaceOf
<1> HIDE DEF Key
<1>7. \A a \in DOMAIN table : PlaceOf(a) \in [value : Nat, id : Nat] /\ ~Precedes(a, a)
  BY <1>3, <1>4, <1>6
<1>8. \A a, b \in DOMAIN table : a # b => Precedes(a, b) \/ Precedes(b, a)
  BY <1>3, <1>4
<1>9. \A a, b \in DOMAIN table : Precedes(a, b) => ~Precedes(b, a)
  BY <1>3, <1>4
<1>10. \A a, b, d \in DOMAIN table : Precedes(a, b) /\ Precedes(b, d) => Precedes(a, d)
  BY <1>3, <1>4
<1>11. \A a, r \in DOMAIN table : Behind(r, PlaceOf(a)) <=> Precedes(a, r)
  BY <1>3, <1>4, <1>5, <1>6
<1>12. \A a, r \in DOMAIN table, c \in [value : Nat, id : Nat] :
         Behind(a, c) /\ ~Behind(r, c) => Precedes(r, a)
  BY <1>3, <1>4, <1>5
<1>13. QED
  BY <1>7, <1>8, <1>9, <1>10, <1>11, <1>12

(* Of finitely many rows one is the last: no row is behind one with fewest  *)
(* rows behind it.                                                          *)
LEMMA OneIsLast ==
  ASSUME QueryTyped, Sound(request), CursorEndpoint, result.sorts = Sorts(request),
         NEW V, V \subseteq DOMAIN table, V # {}
  PROVE  \E v \in V : \A x \in V \ {v} : Precedes(x, v)
<1> DEFINE Later(v) == {x \in V : Precedes(v, x)}
           T == {Later(v) : v \in V}
           R == StrictSubsetOrdering(V)
<1>1. IsFiniteSet(V)
  <2>1. V \in SUBSET Ids
    BY DEF QueryTyped
  <2>2. QED
    BY <2>1, QueryAssumption, FS_Subset
<1>2. IsWellFoundedOn(R, SUBSET V)
  BY <1>1, FS_StrictSubsetOrderingWellFounded, FS_FiniteSubsetsOfFinite
<1>3. T \subseteq SUBSET V /\ T # {}
  OBVIOUS
<1>4. \E t \in T : \A u \in T : <<u, t>> \notin R
  <2> HIDE DEF T, R
  <2>1. QED
    BY <1>2, <1>3, WFMin
<1>5. PICK v \in V : \A w \in V : <<Later(w), Later(v)>> \notin R
  BY <1>4
<1>6. \A w \in V : ~(Later(w) \subseteq Later(v) /\ Later(w) # Later(v))
  BY <1>5 DEF StrictSubsetOrdering
<1>7. Later(v) = {}
  <2> SUFFICES ASSUME NEW w \in Later(v) PROVE FALSE
    OBVIOUS
  <2>1. w \in V /\ Precedes(v, w)
    OBVIOUS
  <2>2. Later(w) \subseteq Later(v)
    BY <2>1, CursorOrder
  <2>3. w \notin Later(w)
    BY <2>1, CursorOrder
  <2>4. QED
    BY <1>6, <2>1, <2>2, <2>3
<1>8. \A x \in V \ {v} : Precedes(x, v)
  BY <1>7, CursorOrder
<1>9. QED
  BY <1>8

(* What NextCursor leaves on a page, and the row it points at.              *)
LEMMA VisibleFacts ==
  ASSUME QueryTyped, Sound(request), CursorEndpoint, result.sorts = Sorts(request),
         result.perPage \in Nat \ {0},
         NEW S, S \subseteq DOMAIN table, NEW P \in Heads(S, result.perPage + 1)
  PROVE  /\ Visible(P) \subseteq S
         /\ Cardinality(P) <= result.perPage => P = S /\ Visible(P) = S
         /\ Cardinality(P) > result.perPage =>
              /\ LastOf(Visible(P)) \in S
              /\ \A r \in S : r \in Visible(P) <=> ~Precedes(LastOf(Visible(P)), r)
         /\ Cardinality(P) \in Nat
<1> DEFINE n == result.perPage  V == Visible(P)  last == LastOf(V)
<1>1. /\ n + 1 \in Nat /\ n \in Nat \ {0} /\ IsFiniteSet(S)
  <2>1. S \in SUBSET Ids
    BY DEF QueryTyped
  <2>2. QED
    BY <2>1, QueryAssumption, FS_Subset
<1>2. /\ P \subseteq S /\ IsFiniteSet(P) /\ Cardinality(P) \in Nat
      /\ Cardinality(P) < n + 1 => P = S
      /\ \A p \in P, s \in S \ P : ~Precedes(s, p)
  BY <1>1, HeadSize
<1>3. V \subseteq S
  BY <1>2 DEF Visible
<1>4. ASSUME Cardinality(P) <= n PROVE P = S /\ V = S
  BY <1>1, <1>2, <1>4 DEF Visible
<1>5. ASSUME Cardinality(P) > n
      PROVE  last \in S /\ \A r \in S : r \in V <=> ~Precedes(last, r)
  <2>1. V = {p \in P : \E x \in P : Precedes(p, x)}
    BY <1>1, <1>2, <1>5 DEF Visible
  <2>2. P # {} /\ \A x : P # {x}
    BY <1>1, <1>2, <1>5, FS_EmptySet, FS_Singleton
  <2>3. PICK m \in P : \A x \in P \ {m} : Precedes(x, m)
    BY <1>2, <2>2, OneIsLast
  <2>4. PICK p \in P : p # m
    <3> SUFFICES ASSUME \A p \in P : p = m PROVE FALSE
      OBVIOUS
    <3>1. P = {m}
      OBVIOUS
    <3>2. QED
      BY <2>2, <3>1
  <2>5. V # {} /\ V \subseteq DOMAIN table
    BY <1>3, <2>1, <2>3, <2>4
  <2>6. \E v \in V : \A x \in V \ {v} : Precedes(x, v)
    BY <2>5, OneIsLast
  <2>7. last \in V /\ \A x \in V \ {last} : Precedes(x, last)
    <3> HIDE DEF V
    <3>1. QED
      BY <2>6 DEF LastOf
  <2>8. PICK k \in V : k = last
    BY <2>7
  <2>9. k \in P /\ \A x \in V \ {k} : Precedes(x, k)
    BY <2>1, <2>7, <2>8
  <2>10. ASSUME NEW r \in V PROVE ~Precedes(k, r)
    BY <2>5, <2>8, <2>9, <2>10, CursorOrder
  <2>11. ASSUME NEW r \in S, r \notin V PROVE Precedes(k, r)
    <3>1. k \in DOMAIN table /\ r \in DOMAIN table /\ k # r
      BY <2>5, <2>8, <2>11
    <3>2. ~Precedes(r, k)
      BY <1>2, <2>1, <2>9, <2>11
    <3>3. QED
      BY <3>1, <3>2, CursorOrder
  <2>12. QED
    BY <1>3, <2>8, <2>10, <2>11
<1>6. QED
  BY <1>1, <1>2, <1>3, <1>4, <1>5

(* The rows that a cursor has passed stay passed by the next one.           *)
LEMMA CursorMoves ==
  ASSUME QueryTyped, Sound(request), CursorEndpoint, result.sorts = Sorts(request),
         NEW c \in [value : Nat, id : Nat], NEW a \in DOMAIN table, Behind(a, c),
         NEW r \in DOMAIN table, ~Behind(r, c)
  PROVE  ~Behind(r, PlaceOf(a))
<1>1. Precedes(r, a)
  BY CursorOrder
<1>2. ~Precedes(a, r)
  BY <1>1, CursorOrder
<1>3. QED
  BY <1>2, CursorOrder

(* ApplyCursorGORM and BuildCursorSQL, NextCursor and the client.           *)
LEMMA SelectCursorKeeps ==
  ASSUME QueryInv, SelectCursor
  PROVE  QueryInv'
<1> DEFINE S == {r \in Matching : result.cursor = Absent \/ Keyset(r)}
<1>1. /\ phase = "select" /\ result.cursorMode
      /\ UNCHANGED <<table, options, result, total, steady, whole>>
  BY DEF SelectCursor
<1>2. /\ QueryTyped /\ Walking /\ Answering /\ request \in Requests /\ Sound(request)
      /\ result.perPage \in Nat \ {0} /\ CursorEndpoint
      /\ result.cursor = request.cursor /\ result.sorts = Sorts(request)
      /\ request.cursor # Bad
  BY <1>1, Selecting
<1>3. PICK P \in Heads(S, result.perPage + 1) :
        /\ Shows(Visible(P))
        /\ IF NextCursor(P) = Absent
           THEN phase' = "done" /\ UNCHANGED request
           ELSE phase' = "next" /\ request' = [request EXCEPT !.cursor = NextCursor(P)]
  BY DEF SelectCursor
<1>4. \A r : Keyset(r) <=> Behind(r, request.cursor)
  BY <1>2 DEF Keyset, Behind
<1>5. S \subseteq DOMAIN table
  BY DEF Matching
<1>6. /\ Visible(P) \subseteq S /\ Cardinality(P) \in Nat
      /\ Cardinality(P) <= result.perPage => P = S /\ Visible(P) = S
      /\ Cardinality(P) > result.perPage =>
           /\ LastOf(Visible(P)) \in S
           /\ \A r \in S : r \in Visible(P) <=> ~Precedes(LastOf(Visible(P)), r)
  <2> HIDE DEF S
  <2>1. QED
    BY <1>2, <1>5, VisibleFacts
<1>7. shown' = [r \in Ids |-> IF r \in Visible(P) THEN shown[r] + 1 ELSE shown[r]]
  BY <1>3 DEF Shows
<1>8. /\ request.cursor \in {Absent} \cup [value : Nat, id : Nat]
      /\ steady \subseteq Matching /\ steady \subseteq DOMAIN table /\ steady \subseteq Ids
      /\ \A r \in steady :
           shown[r] = IF request.cursor = Absent \/ Behind(r, request.cursor) THEN 0 ELSE 1
  <2>1. request.cursor \in {Absent, Bad} \cup [value : Nat, id : Nat]
    BY <1>2, RequestFacts
  <2>2. QED
    BY <1>1, <1>2, <2>1 DEF QueryInv, Walked, QueryTyped, Matching
<1>9. shown' \in [Ids -> Nat]
  BY <1>2, <1>7 DEF QueryTyped
<1>10. Matching' = Matching
  BY <1>1, SameRows
<1>11. \A r, c : Behind(r, c)' <=> Behind(r, c)
  BY <1>1, SameOrder
<1>12. CASE Cardinality(P) <= result.perPage
  <2>1. phase' = "done" /\ UNCHANGED request
    BY <1>3, <1>12 DEF NextCursor
  <2>2. Walking' /\ ~Answering'
    BY <2>1 DEF Walking, Answering
  <2>3. QueryTyped'
    BY <1>1, <1>2, <1>9, <2>1 DEF QueryTyped
  <2>4. Parsed'
    BY <1>1, <1>2, <2>1, <2>2, ParsedStays DEF QueryInv
  <2>5. \A r \in steady : shown'[r] = 1
    BY <1>4, <1>2, <1>6, <1>7, <1>8, <1>12
  <2>6. Walked'
    BY <1>1, <1>2, <1>8, <1>10, <2>1, <2>5 DEF Walked
  <2>7. QED
    BY <1>1, <2>1, <2>3, <2>4, <2>6 DEF QueryInv, Fresh, Numbered
<1>13. CASE Cardinality(P) > result.perPage
  <2>1. PICK last \in S : last = LastOf(Visible(P))
    BY <1>6, <1>13
  <2>2. last \in DOMAIN table /\ PlaceOf(last) \in [value : Nat, id : Nat]
    BY <1>2, <1>5, <2>1, CursorOrder
  <2>3. PICK c \in [value : Nat, id : Nat] : c = PlaceOf(last)
    BY <2>2
  <2>4. NextCursor(P) = c
    BY <1>2, <1>6, <1>13, <2>1, <2>3 DEF NextCursor, PlaceOf
  <2>5. c # Absent /\ c # Bad
    BY QueryAssumption
  <2>6. phase' = "next" /\ request' = [request EXCEPT !.cursor = c]
    BY <1>3, <2>4, <2>5
  <2>7. /\ request' \in Requests /\ request'.cursor = c
        /\ request'.filters = request.filters /\ request'.sort = request.sort
        /\ request'.perPage = request.perPage
    <3>1. PICK q \in Requests : q = request
      BY <1>2
    <3>2. PICK next : next = [q EXCEPT !.cursor = c]
      OBVIOUS
    <3>3. /\ next \in Requests /\ next.cursor = c
          /\ next.filters = q.filters /\ next.sort = q.sort /\ next.perPage = q.perPage
      BY <3>2, RequestMoves
    <3>4. request' = next
      BY <2>6, <3>1, <3>2
    <3>5. QED
      BY <3>1, <3>3, <3>4
  <2>8. Walking' /\ ~Answering'
    BY <2>6 DEF Walking, Answering
  <2>9. QueryTyped'
    BY <1>1, <1>2, <1>9, <2>6, <2>7 DEF QueryTyped
  <2>10. Parsed'
    BY <1>1, <1>2, <2>7, <2>8, ParsedStays DEF QueryInv
  <2>11. ASSUME NEW r \in steady
         PROVE  shown'[r] = IF Behind(r, c) THEN 0 ELSE 1
    <3>1. r \in DOMAIN table /\ r \in Matching /\ r \in Ids
      BY <1>8
    <3>2. Behind(r, c) <=> Precedes(last, r)
      BY <1>2, <2>2, <2>3, <3>1, CursorOrder
    <3>3. CASE r \in S
      <4>1. shown[r] = 0
        BY <1>4, <1>2, <1>8, <3>3
      <4>2. r \in Visible(P) <=> ~Behind(r, c)
        BY <1>6, <1>13, <2>1, <3>2, <3>3
      <4>3. QED
        BY <1>7, <3>1, <4>1, <4>2
    <3>4. CASE r \notin S
      <4>1. request.cursor \in [value : Nat, id : Nat] /\ ~Behind(r, request.cursor)
        BY <1>2, <1>4, <1>8, <3>1, <3>4
      <4>2. Behind(last, request.cursor)
        BY <1>2, <1>4, <4>1, <2>1, QueryAssumption
      <4>3. ~Behind(r, c)
        BY <1>2, <2>2, <2>3, <3>1, <4>1, <4>2, CursorMoves
      <4>4. shown[r] = 1 /\ r \notin Visible(P)
        BY <1>6, <1>8, <3>4, <4>1, QueryAssumption
      <4>5. QED
        BY <1>7, <3>1, <4>3, <4>4
    <3>5. QED
      BY <3>3, <3>4
  <2>12. Walked'
    BY <1>1, <1>8, <1>10, <1>11, <2>5, <2>6, <2>7, <2>11 DEF Walked
  <2>13. QED
    BY <1>1, <2>6, <2>9, <2>10, <2>12 DEF QueryInv, Fresh, Numbered
<1>14. QED
  BY <1>2, <1>6, <1>12, <1>13

(* Somebody inserts, updates or deletes a row.                              *)
LEMMA EditKeeps ==
  ASSUME QueryInv, NEW r \in Ids, Edit(r)
  PROVE  QueryInv'
<1>1. /\ phase \in {"next", "count", "select"} /\ whole' = FALSE /\ steady' = steady \ {r}
      /\ UNCHANGED <<options, request, result, total, phase, shown>>
  BY DEF Edit
<1>2. QueryTyped /\ Walking /\ Walking'
  BY <1>1 DEF QueryInv, Walking
<1>3. /\ DOMAIN table' \subseteq Ids /\ \A x \in DOMAIN table' : table'[x] \in Rows
      /\ \A x \in DOMAIN table \ {r} : x \in DOMAIN table' /\ table'[x] = table[x]
  <2>1. CASE \E row \in Rows :
               table' = [x \in DOMAIN table \cup {r} |-> IF x = r THEN row ELSE table[x]]
    BY <1>2, <2>1 DEF QueryTyped
  <2>2. CASE table' = Keeping(DOMAIN table \ {r})
    BY <1>2, <2>2 DEF QueryTyped, Keeping
  <2>3. QED
    BY <2>1, <2>2 DEF Edit
<1>4. QueryTyped'
  BY <1>1, <1>2, <1>3 DEF QueryTyped
<1>5. Parsed'
  BY <1>1, <1>2, ParsedStays DEF QueryInv, Answering
<1>6. \A x \in DOMAIN table \ {r} : \A c : Cell(x, c)' = Cell(x, c)
  BY <1>3 DEF Cell
<1>7. \A x \in DOMAIN table \ {r} : \A c : Behind(x, c)' <=> Behind(x, c)
  BY <1>1, <1>6 DEF Behind
<1>8. \A x \in DOMAIN table \ {r} : x \in Matching => x \in Matching'
  BY <1>1, <1>3, <1>6 DEF Matching, Meets
<1>9. Walked'
  <2>1. SUFFICES ASSUME result.cursorMode
        PROVE  /\ phase # "count" /\ request.cursor # Bad
               /\ steady' \subseteq Matching'
               /\ \A x \in steady' :
                    shown[x] = IF phase # "done" /\ (request.cursor = Absent \/ Behind(x, request.cursor)')
                               THEN 0 ELSE 1
    BY <1>1, <1>7 DEF Walked
  <2>2. /\ phase # "count" /\ request.cursor # Bad /\ steady \subseteq Matching
        /\ \A x \in steady :
             shown[x] = IF phase # "done" /\ (request.cursor = Absent \/ Behind(x, request.cursor))
                        THEN 0 ELSE 1
    BY <1>2, <2>1 DEF QueryInv, Walked
  <2>3. steady' \subseteq DOMAIN table \ {r}
    BY <1>1, <2>2 DEF Matching
  <2>4. QED
    BY <1>1, <1>7, <1>8, <2>2, <2>3
<1>10. Fresh' /\ Numbered'
  BY <1>1, <1>2 DEF QueryInv, Fresh, Numbered
<1>11. QED
  BY <1>4, <1>5, <1>9, <1>10 DEF QueryInv

(* A walk is as the invariant says.                                         *)
THEOREM QueryInvariance == QuerySpec => []QueryInv
<1>1. QueryInv /\ [QueryNext]_queryVars => QueryInv'
  <2> SUFFICES ASSUME QueryInv, [QueryNext]_queryVars PROVE QueryInv'
    OBVIOUS
  <2>1. CASE Handle
    BY <2>1, HandleKeeps
  <2>2. CASE Count
    BY <2>2, CountKeeps
  <2>3. CASE SelectPage
    BY <2>3, SelectPageKeeps
  <2>4. CASE SelectCursor
    BY <2>4, SelectCursorKeeps
  <2>5. CASE \E r \in Ids : Edit(r)
    BY <2>5, EditKeeps
  <2>6. CASE UNCHANGED queryVars
    <3>1. UNCHANGED <<table, options, request, result, total, phase, shown, steady, whole>>
      BY <2>6 DEF queryVars
    <3>2. QueryTyped' /\ Fresh'
      BY <3>1 DEF QueryInv, QueryTyped, Fresh
    <3>3. Parsed'
      <4>1. CASE Walking
        BY <3>1, <4>1, ParsedStays DEF QueryInv, Answering
      <4>2. CASE ~Walking
        BY <3>1, <4>2 DEF Parsed, Walking, Answering
      <4>3. QED
        BY <4>1, <4>2
    <3>4. Matching' = Matching /\ Turned' = Turned
      BY <3>1, SameRows DEF Turned, Answering
    <3>5. Ordered(Matching)' <=> Ordered(Matching)
      BY <3>1, <3>4, SameOrder DEF Ordered
    <3>6. Heads(Matching, Turned * result.perPage)' = Heads(Matching, Turned * result.perPage)
      BY <3>1, <3>4, SameOrder DEF Heads
    <3>7. Numbered'
      BY <3>1, <3>4, <3>5, <3>6 DEF QueryInv, Numbered, Walking
    <3>8. Walked'
      BY <3>1, <3>4, SameOrder DEF QueryInv, Walked, Walking
    <3>9. QED
      BY <3>2, <3>3, <3>7, <3>8 DEF QueryInv
  <2>7. QED
    BY <2>1, <2>2, <2>3, <2>4, <2>5, <2>6 DEF QueryNext
<1>2. QED
  BY WalkBegins, <1>1, PTL DEF QuerySpec

(* A client that goes from cursor to cursor until there is no next one sees *)
(* every row that was there from its first request and that nobody touched  *)
(* exactly once: the order of the cursor is total, so the rows behind the   *)
(* next cursor are those behind this one without those on the page.         *)
THEOREM WalkShowsEverything == QuerySpec => []CursorWalkIsComplete
<1>1. QueryInv => CursorWalkIsComplete
  <2> SUFFICES ASSUME QueryInv, result.cursorMode, phase # "refused", NEW r \in steady
               PROVE  shown[r] <= 1 /\ (phase = "done" => shown[r] = 1)
    BY DEF CursorWalkIsComplete
  <2>1. Walking
    BY DEF QueryInv, Fresh, NoResult, Walking
  <2>2. QED
    BY <2>1 DEF QueryInv, Walked
<1>2. QED
  BY QueryInvariance, <1>1, PTL

(* A client that goes through the numbered pages of a table that nobody     *)
(* touches, in an order that tells its rows apart, sees every row it asked  *)
(* for exactly once: no offset wraps around, and the rows on the pages seen *)
(* are the first ones of the order.                                         *)
THEOREM PagesShowEverything == QuerySpec => []PagesCoverTheTable
<1>1. QueryInv => PagesCoverTheTable
  <2> SUFFICES ASSUME QueryInv, phase = "done", whole, ~result.cursorMode, Ordered(Matching),
                      NEW r \in steady
               PROVE  shown[r] = 1
    BY DEF PagesCoverTheTable, Ordered
  <2>1. Walking /\ ~Answering
    BY DEF Walking, Answering
  <2>2. /\ result.page \in Nat \ {0} /\ result.perPage \in Nat \ {0} /\ steady = Matching
        /\ Turned * result.perPage >= Cardinality(Matching)
    BY <2>1 DEF QueryInv, Numbered
  <2>3. PICK H \in Heads(Matching, Turned * result.perPage) :
          \A x \in Ids : shown[x] = IF x \in H THEN 1 ELSE 0
    BY <2>1 DEF QueryInv, Numbered
  <2>4. /\ QueryTyped /\ IsFiniteSet(Matching) /\ Matching \subseteq DOMAIN table
    BY MatchingFacts DEF QueryInv
  <2>5. Cardinality(H) = Cardinality(Matching) /\ H \in SUBSET Matching
    <3>1. Turned * result.perPage \in Nat
      BY <2>1, <2>2 DEF Turned
    <3>2. H \subseteq Matching /\ Cardinality(H) = Least(Turned * result.perPage, Cardinality(Matching))
      BY <2>3 DEF Heads
    <3>3. Cardinality(Matching) \in Nat
      BY <2>4, MatchingFacts
    <3>4. QED
      BY <2>2, <3>1, <3>2, <3>3 DEF Least
  <2>6. H = Matching
    BY <2>4, <2>5, FS_Subset
  <2>7. r \in Ids
    BY <2>2, <2>4 DEF QueryTyped
  <2>8. QED
    BY <2>2, <2>3, <2>6, <2>7
<1>2. QED
  BY QueryInvariance, <1>1, PTL

(* No page shows a row that the parameters of the request do not ask for:   *)
(* what the statements select is what the parsed request wants.             *)
THEOREM NothingElseIsShown == QuerySpec => OnlyWantedIsShown
<1>1. QueryInv /\ [QueryNext]_queryVars =>
        [\A r \in Ids : shown'[r] # shown[r] => r \in DOMAIN table /\ Wanted(r, request)]_queryVars
  <2> SUFFICES ASSUME QueryInv, QueryNext, NEW r \in Ids, shown'[r] # shown[r]
               PROVE  r \in DOMAIN table /\ Wanted(r, request)
    OBVIOUS
  <2>1. phase = "select" /\ r \in Matching
    <3>1. CASE Handle \/ Count \/ \E x \in Ids : Edit(x)
      BY <3>1 DEF Handle, Count, Edit
    <3>2. CASE SelectPage
      <4>1. PICK P \in Pages : Shows(P)
        BY <3>2 DEF SelectPage
      <4>2. r \in P
        BY <4>1 DEF Shows
      <4>3. QED
        BY <3>2, <4>2, PagesMatch DEF SelectPage
    <3>3. CASE SelectCursor
      <4>1. PICK P \in SUBSET Matching : Shows(Visible(P))
        BY <3>3 DEF SelectCursor, Heads
      <4>2. r \in Visible(P)
        BY <4>1 DEF Shows
      <4>3. Visible(P) \subseteq Matching
        BY <4>1 DEF Visible
      <4>4. QED
        BY <3>3, <4>2, <4>3 DEF SelectCursor
    <3>4. QED
      BY <3>1, <3>2, <3>3 DEF QueryNext
  <2>2. QueryTyped /\ Sound(request) /\ result = Parse(request) /\ request \in Requests
    BY <2>1, Selecting
  <2>3. r \in DOMAIN table /\ \A f \in Parse(request).filters : Meets(r, f)
    BY <2>1, <2>2 DEF Matching
  <2>4. QED
    BY <2>2, <2>3, ParseMeansIt
<1>2. QED
  BY QueryInvariance, <1>1, PTL DEF QuerySpec, OnlyWantedIsShown

=============================================================================
