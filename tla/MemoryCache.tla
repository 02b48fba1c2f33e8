---------------------------- MODULE MemoryCache ----------------------------
(***************************************************************************)
(* runtime/cache: the in-memory store with its janitor, and Remember on    *)
(* top of it.  The lock covers the map and not the clock: Set stamps its   *)
(* entry before it locks, Get looks at the expiry after it unlocked.       *)
(***************************************************************************)
EXTENDS Integers

CONSTANTS
  Keys, Callers, Texts, Blank, IntEdge, None,   \* see CacheStore
  Calls,    \* what callers ask for: a record of op, key, value, ttl and by
  MaxTime   \* bound: the clock stops there

ASSUME CacheAssumption ==
  LET Stored == (-IntEdge)..(IntEdge - 1) \cup Texts \cup {Blank} IN
  /\ IntEdge \in Nat \ {0} /\ MaxTime \in Nat
  /\ Blank \notin Texts \cup Int /\ Texts \cap Int = {}
  /\ None \notin Stored /\ None \notin Keys
  /\ None \notin [value : Stored, expires : Nat] /\ None \notin [value : Stored, forever : BOOLEAN]
  /\ Calls \subseteq [op : {"get", "set", "forget", "increment", "remember"}, key : Keys,
                      value : Stored, ttl : Nat, by : (-IntEdge)..(IntEdge - 1)]

VARIABLES
  entries,  \* Memory.entries: None, or a value and when it expires
  now,      \* the clock; an entry that expires at 0 never does
  stopped,  \* Memory.stop is closed
  at,       \* where each caller is
  call,     \* what it asked for
  held,     \* the entry it read, or is about to store
  recent,   \* history: see CacheStore
  answer

cacheVars == <<entries, now, stopped, at, call, held, recent, answer>>

Expired(e) == e.expires # 0 /\ now > e.expires

Gone(k) == entries[k] = None \/ Expired(entries[k])

\* What is there of a key, and who is in a Get: the variables of CacheStore.
Live(k) == IF Gone(k) THEN None
           ELSE [value |-> entries[k].value, forever |-> entries[k].expires = 0]

Reading(c) == IF at[c] \in {"read", "check"} THEN call[c].key ELSE None

Store == INSTANCE CacheStore WITH
  data  <- [k \in Keys |-> Live(k)],
  asked <- [c \in Callers |-> Reading(c)]

CacheInit ==
  /\ entries = [k \in Keys |-> None]
  /\ now = 1
  /\ stopped = FALSE
  /\ at = [c \in Callers |-> "idle"]
  /\ call = [c \in Callers |-> None]
  /\ held = [c \in Callers |-> None]
  /\ recent = [c \in Callers |-> {}]
  /\ answer = [c \in Callers |-> None]

Moves(c, place) == at' = [at EXCEPT ![c] = place]

Ends(c) ==
  /\ Moves(c, "idle")
  /\ call' = [call EXCEPT ![c] = None]
  /\ held' = [held EXCEPT ![c] = None]

Stores(k, e) == entries' = [entries EXCEPT ![k] = e]

-----------------------------------------------------------------------------
First(op) ==
  CASE op \in {"get", "remember"} -> "read"
    [] op = "set"                 -> "stamp"
    [] OTHER                      -> op

CallStarts(c, q) ==
  /\ at[c] = "idle"
  /\ call' = [call EXCEPT ![c] = q]
  /\ Moves(c, First(q.op))
  /\ answer' = [answer EXCEPT ![c] = None]
  /\ UNCHANGED <<entries, now, stopped, held>>
  /\ Store!Watches

\* Get, under the read lock.
GetReads(c) ==
  /\ at[c] = "read"
  /\ held' = [held EXCEPT ![c] = entries[call[c].key]]
  /\ Moves(c, "check")
  /\ UNCHANGED <<entries, now, stopped, call, answer>>
  /\ Store!Watches

\* Mutant: the expiry is not looked at again.
HitsStale(e) == e # None

Hits(e) == e # None /\ ~Expired(e)

\* Get, after the lock.  Remember goes on where it cannot decode the value.
GetReturns(c) ==
  /\ at[c] = "check"
  /\ answer' = [answer EXCEPT ![c] = IF Hits(held[c]) THEN held[c].value ELSE None]
  /\ IF call[c].op = "get" \/ (Hits(held[c]) /\ held[c].value # Blank)
     THEN Ends(c)
     ELSE Moves(c, "compute") /\ held' = [held EXCEPT ![c] = None] /\ UNCHANGED call
  /\ UNCHANGED <<entries, now, stopped>>
  /\ Store!Watches

\* Remember's compute, which may fail.
Computes(c) ==
  /\ at[c] = "compute"
  /\ Ends(c) \/ (Moves(c, "stamp") /\ UNCHANGED <<call, held>>)
  /\ UNCHANGED <<entries, now, stopped, answer>>
  /\ Store!Watches

\* Set, before the lock.
SetStamps(c) ==
  /\ at[c] = "stamp"
  /\ LET q == call[c] IN
     held' = [held EXCEPT ![c] = [value |-> q.value, expires |-> IF q.ttl > 0 THEN now + q.ttl ELSE 0]]
  /\ Moves(c, "store")
  /\ UNCHANGED <<entries, now, stopped, call, answer>>
  /\ Store!Watches

SetStores(c) ==
  /\ at[c] = "store"
  /\ Stores(call[c].key, held[c])
  /\ Ends(c)
  /\ UNCHANGED <<now, stopped, answer>>
  /\ Store!Watches

Forgets(c) ==
  /\ at[c] = "forget"
  /\ Stores(call[c].key, None)
  /\ Ends(c)
  /\ UNCHANGED <<now, stopped, answer>>
  /\ Store!Watches

\* An int64 that passes its limit goes on from the other one.
Wrap(n) == ((n + IntEdge) % (2 * IntEdge)) - IntEdge

\* FormatInt and ParseInt undo each other; an empty value is not parsed.
NumberOf(value) == IF value = Blank THEN 0 ELSE value

\* Mutant: an expired entry passes its expiry on to the count.
FromStale(k) == IF entries[k] = None THEN [value |-> Blank, expires |-> 0] ELSE entries[k]

\* The entry that Increment counts on from.
From(k) == IF Gone(k) THEN [value |-> Blank, expires |-> 0] ELSE entries[k]

Increments(c) ==
  /\ at[c] = "increment"
  /\ LET k == call[c].key  e == From(k)
         sum == Wrap(NumberOf(e.value) + call[c].by)
     IN IF e.value \in Texts THEN UNCHANGED <<entries, answer>>
        ELSE /\ Stores(k, [e EXCEPT !.value = sum])
             /\ answer' = [answer EXCEPT ![c] = sum]
  /\ Ends(c)
  /\ UNCHANGED <<now, stopped>>
  /\ Store!Watches

\* One round of the janitor, under the lock.
Sweeps ==
  /\ ~stopped
  /\ entries' = [k \in Keys |-> IF Gone(k) THEN None ELSE entries[k]]
  /\ entries' # entries
  /\ UNCHANGED <<now, stopped, at, call, held, answer>>
  /\ Store!Watches

\* Close, by whoever closes the application; calls go on as before.
Closes ==
  /\ ~stopped
  /\ stopped' = TRUE
  /\ UNCHANGED <<entries, now, at, call, held, answer>>
  /\ Store!Watches

Passes ==
  /\ now < MaxTime
  /\ now' = now + 1
  /\ UNCHANGED <<entries, stopped, at, call, held, answer>>
  /\ Store!Watches

CacheNext ==
  \/ \E c \in Callers :
       \/ \E q \in Calls : CallStarts(c, q)
       \/ GetReads(c) \/ GetReturns(c) \/ Computes(c) \/ SetStamps(c) \/ SetStores(c)
       \/ Forgets(c) \/ Increments(c)
  \/ Sweeps \/ Closes \/ Passes

CacheSpec == CacheInit /\ [][CacheNext]_cacheVars

-----------------------------------------------------------------------------
(* Where the memory driver counts though the contract has an error: from  *)
(* zero when the value is empty, and past the limits of an int64.          *)
CountsInstead ==
  \E c \in Callers, k \in Keys, by \in Store!Ints :
    LET n == IF Live(k) = None THEN 0 ELSE NumberOf(Live(k).value) IN
    /\ Live(k) # None => Live(k).value \in Store!Ints \cup {Blank}
    /\ n + by \in Store!Ints => Live(k) # None /\ Live(k).value = Blank
    /\ Store!Counts(c, k, Wrap(n + by))

(* But for that the memory driver keeps the promise of cache.Store: no      *)
(* interleaving of its calls, the janitor and the clock loses a value that  *)
(* is for ever, brings an expired one back, or answers with what was not    *)
(* there.                                                                   *)
ImplementsStore ==
  Store!StoreInit /\ [][Store!StoreNext \/ CountsInstead]_(Store!storeVars)

(* cache.go says of Increment, for every driver: "A non-integer value is    *)
(* an error."  The memory driver makes an empty value a count, and so does  *)
(* not keep the promise as it stands.                                       *)
KeepsTheContract == Store!StoreSpec

=============================================================================
