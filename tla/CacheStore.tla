----------------------------- MODULE CacheStore -----------------------------
(***************************************************************************)
(* What cache.Store promises: a value is there until it is replaced,       *)
(* forgotten or, unless it was stored for ever, expires; counting keeps    *)
(* the time a value has left; and a Get answers with a value that was      *)
(* there at some moment of the call, or with a miss.                       *)
(*                                                                         *)
(* The Redis driver makes each call one command of the server.  An error   *)
(* changes nothing, and is no step here.                                   *)
(***************************************************************************)
EXTENDS Integers

CONSTANTS
  Keys,     \* the keys, with the store's prefix
  Callers,  \* the goroutines that use the store
  Texts,    \* values that are no numbers
  Blank,    \* the empty value
  IntEdge,  \* an int64 is in -IntEdge .. IntEdge - 1
  None

VARIABLES
  data,    \* what is there: None, or a value and whether it is for ever
  asked,   \* the key of the Get that a caller is in
  recent,  \* the values that key had since the call began
  answer   \* what the last Get or Increment of a caller returned, None for a miss

storeVars == <<data, asked, recent, answer>>

Ints    == (-IntEdge)..(IntEdge - 1)
Items   == Ints \cup Texts \cup {Blank}
Entries == [value : Items, forever : BOOLEAN]

\* Whoever is in a Get sees what becomes of its key.
Watches ==
  recent' = [c \in Callers |->
    {v \in Items : /\ asked'[c] # None
                  /\ \/ asked[c] # None /\ v \in recent[c]
                     \/ data'[asked'[c]] # None /\ v = data'[asked'[c]].value}]

StoreInit ==
  /\ data = [k \in Keys |-> None]
  /\ asked = [c \in Callers |-> None]
  /\ recent = [c \in Callers |-> {}]
  /\ answer = [c \in Callers |-> None]

Keeps(k, e) == data' = [data EXCEPT ![k] = e] /\ UNCHANGED <<asked, answer>> /\ Watches

\* A value stored for a time may be gone as soon as it is stored.
Set(k, v, forever) ==
  \/ Keeps(k, [value |-> v, forever |-> forever])
  \/ ~forever /\ Keeps(k, None)

Forget(k) == Keeps(k, None)

\* Counting from zero when the key is missing.
CountOf(e) == IF e = None THEN 0 ELSE e.value

\* A sum is stored and returned; it lives as long as what it replaces.
Counts(c, k, sum) ==
  /\ asked[c] = None
  /\ data' = [data EXCEPT ![k] = [value |-> sum, forever |-> IF @ = None THEN TRUE ELSE @.forever]]
  /\ answer' = [answer EXCEPT ![c] = sum]
  /\ UNCHANGED asked
  /\ Watches

\* A value that is no integer is an error, and so is a sum that is none of 64 bits.
Increment(c, k, by) ==
  /\ data[k] # None => data[k].value \in Ints
  /\ CountOf(data[k]) + by \in Ints
  /\ Counts(c, k, CountOf(data[k]) + by)

Expire ==
  /\ \E S \in SUBSET {k \in Keys : data[k] # None /\ ~data[k].forever} :
       data' = [k \in Keys |-> IF k \in S THEN None ELSE data[k]]
  /\ UNCHANGED <<asked, answer>>
  /\ Watches

Ask(c, k) ==
  /\ asked[c] = None
  /\ asked' = [asked EXCEPT ![c] = k]
  /\ answer' = [answer EXCEPT ![c] = None]
  /\ UNCHANGED data
  /\ Watches

Answer(c) ==
  /\ asked[c] # None
  /\ asked' = [asked EXCEPT ![c] = None]
  /\ \E v \in recent[c] \cup {None} : answer' = [answer EXCEPT ![c] = v]
  /\ UNCHANGED data
  /\ Watches

\* The caller has no more use for it.
Drop(c) ==
  /\ asked[c] = None
  /\ answer' = [answer EXCEPT ![c] = None]
  /\ UNCHANGED <<data, asked>>
  /\ Watches

StoreNext ==
  \/ \E k \in Keys :
       \/ \E v \in Items, forever \in BOOLEAN : Set(k, v, forever)
       \/ Forget(k)
       \/ \E c \in Callers : Ask(c, k) \/ \E by \in Ints : Increment(c, k, by)
  \/ Expire
  \/ \E c \in Callers : Answer(c) \/ Drop(c)

StoreSpec == StoreInit /\ [][StoreNext]_storeVars

=============================================================================
