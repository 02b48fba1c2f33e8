------------------------------ MODULE EventBus ------------------------------
(***************************************************************************)
(* runtime/events: handlers of one type of event come and go while it is   *)
(* emitted.  Emit copies the list under the lock and calls the copy        *)
(* without it; a handler may itself subscribe, unsubscribe or panic, which *)
(* is one of the steps that go between.                                    *)
(***************************************************************************)
EXTENDS Naturals, Sequences, SequencesExt

CONSTANTS
  Emitters,     \* the goroutines that call Emit
  MaxHandlers,  \* bound: the calls of On
  MaxEmits      \* bound: the Emits of each

ASSUME BusAssumption == MaxHandlers \in Nat /\ MaxEmits \in Nat

VARIABLES
  nextID,     \* Bus.nextID
  handlers,   \* Bus.handlers of the type, as ids
  emitting,   \* Emit is under way
  snapshot,   \* its copy, as far as it is still to be called
  failed,     \* the error it has joined is not nil
  emits,      \* how many there were
  called,     \* history: whom this Emit called
  constant    \* history: who was subscribed all through this Emit

busVars == <<nextID, handlers, emitting, snapshot, failed, emits, called, constant>>

BusInit ==
  /\ nextID = 0
  /\ handlers = <<>>
  /\ emitting = [e \in Emitters |-> FALSE]
  /\ snapshot = [e \in Emitters |-> <<>>]
  /\ failed = [e \in Emitters |-> FALSE]
  /\ emits = [e \in Emitters |-> 0]
  /\ called = [e \in Emitters |-> <<>>]
  /\ constant = [e \in Emitters |-> {}]

On ==
  /\ nextID < MaxHandlers
  /\ nextID' = nextID + 1
  /\ handlers' = Append(handlers, nextID')
  /\ UNCHANGED <<emitting, snapshot, failed, emits, called, constant>>

\* The function that On returned; the second call does nothing.
Unsubscribe(id) ==
  /\ \E i \in DOMAIN handlers : handlers[i] = id /\ handlers' = RemoveAt(handlers, i)
  /\ constant' = [e \in Emitters |-> constant[e] \ {id}]
  /\ UNCHANGED <<nextID, emitting, snapshot, failed, emits, called>>

EmitStarts(e) ==
  /\ ~emitting[e] /\ emits[e] < MaxEmits
  /\ emitting' = [emitting EXCEPT ![e] = TRUE]
  /\ snapshot' = [snapshot EXCEPT ![e] = handlers]
  /\ failed' = [failed EXCEPT ![e] = FALSE]
  /\ emits' = [emits EXCEPT ![e] = @ + 1]
  /\ called' = [called EXCEPT ![e] = <<>>]
  /\ constant' = [constant EXCEPT ![e] = ToSet(handlers)]
  /\ UNCHANGED <<nextID, handlers>>

\* Mutant: nothing is called after a handler that failed.
RestUnlessFailed(rest, ok) == IF ok THEN rest ELSE <<>>

\* What is left to call; a panic has become an error.
Rest(rest, ok) == rest

\* safeCall of the next handler.
HandlerReturns(e) ==
  /\ emitting[e] /\ snapshot[e] # <<>>
  /\ \E ok \in BOOLEAN :
       /\ snapshot' = [snapshot EXCEPT ![e] = Rest(Tail(@), ok)]
       /\ failed' = [failed EXCEPT ![e] = @ \/ ~ok]
  /\ called' = [called EXCEPT ![e] = Append(@, Head(snapshot[e]))]
  /\ UNCHANGED <<nextID, handlers, emitting, emits, constant>>

EmitReturns(e) ==
  /\ emitting[e] /\ snapshot[e] = <<>>
  /\ emitting' = [emitting EXCEPT ![e] = FALSE]
  /\ UNCHANGED <<nextID, handlers, snapshot, failed, emits, called, constant>>

BusNext ==
  \/ On
  \/ \E id \in 1..MaxHandlers : Unsubscribe(id)
  \/ \E e \in Emitters : EmitStarts(e) \/ HandlerReturns(e) \/ EmitReturns(e)

BusSpec == BusInit /\ [][BusNext]_busVars

-----------------------------------------------------------------------------
(* An Emit calls each handler at most once and in the order in which they   *)
(* subscribed, and everyone who was subscribed all through it, whoever      *)
(* fails, panics, comes or leaves meanwhile.                                *)
EmitReachesEveryone ==
  \A e \in Emitters :
    /\ \A i, j \in DOMAIN called[e] : i < j => called[e][i] < called[e][j]
    /\ emits[e] > 0 /\ ~emitting[e] =>
         constant[e] \subseteq ToSet(called[e])

=============================================================================
