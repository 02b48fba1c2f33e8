---------------------------- MODULE RateLimiter ----------------------------
(***************************************************************************)
(* runtime/ratelimit.go: one bucket per client, and the sweep that forgets *)
(* idle clients when there are many.  A request reads the clock and then   *)
(* waits for the lock; what follows under the lock is one step, in which   *)
(* the bucket reads the clock again.  What the middleware notes of a       *)
(* client, and what it sweeps by, is the reading from before the wait.     *)
(*                                                                         *)
(* Credit is counted so that a minute of TicksPerMinute ticks brings       *)
(* RequestsPerMinute tokens of TicksPerMinute each.  The bucket itself is  *)
(* x/time/rate's, as far as Allow shows of it.                             *)
(***************************************************************************)
EXTENDS Integers, FiniteSets

CONSTANTS
  Senders,            \* what Key makes of the requests
  Handlers,           \* the goroutines in the middleware, one request each
  RequestsPerMinute,
  Burst,              \* RateLimitOptions.Burst, 0 when it is not set
  TicksPerMinute,
  MaxClients,         \* 10,000
  MaxIdle,            \* ten minutes, in ticks
  MaxTicks,           \* bound: the clock stops there
  Unknown

ASSUME LimiterAssumption ==
  /\ RequestsPerMinute \in Nat \ {0} /\ Burst \in Nat /\ TicksPerMinute \in Nat \ {0}
  /\ MaxClients \in Nat /\ MaxIdle \in Nat /\ MaxTicks \in Nat
  /\ Unknown \notin [credit : Nat, at : Nat, lastSeen : Nat]
  /\ Unknown \notin [key : Senders, now : Nat]

VARIABLES
  clients,   \* RateLimiter.clients: Unknown, or the credit a bucket had at an instant, and lastSeen
  waiting,   \* for each handler, Unknown or the key and the now it brings to the lock
  ticks,     \* the clock
  admitted,  \* history: the requests that were let through
  slowest    \* history: the longest that a request has waited for the lock

limiterVars == <<clients, waiting, ticks, admitted, slowest>>

\* NewRateLimiter.
EffectiveBurst ==
  IF Burst >= 1 THEN Burst
  ELSE IF RequestsPerMinute \div 4 > 1 THEN RequestsPerMinute \div 4 ELSE 1

Full == EffectiveBurst * TicksPerMinute

Filled(credit, elapsed) ==
  LET sum == credit + RequestsPerMinute * elapsed
  IN IF sum < Full THEN sum ELSE Full

\* What a sender may spend now; one that is not known has a new bucket.
Credit(s) ==
  IF clients[s] = Unknown THEN Full
  ELSE Filled(clients[s].credit, ticks - clients[s].at)

LimiterInit ==
  /\ clients = [s \in Senders |-> Unknown]
  /\ waiting = [h \in Handlers |-> Unknown]
  /\ ticks = 0
  /\ admitted = [s \in Senders |-> 0]
  /\ slowest = 0

\* A request arrives: its key and the time, before it asks for the lock.
Arrives(h, s) ==
  /\ waiting[h] = Unknown
  /\ waiting' = [waiting EXCEPT ![h] = [key |-> s, now |-> ticks]]
  /\ UNCHANGED <<clients, ticks, admitted, slowest>>

\* Mutant: the sweep does not ask how long a client has been idle.
IdleAtOnce(client, now) == now > client.lastSeen

Idle(client, now) == now - client.lastSeen > MaxIdle

\* The sweep, after the request's own client was seen.
Swept(known, now) ==
  IF Cardinality({s \in Senders : known[s] # Unknown}) > MaxClients
  THEN [s \in Senders |-> IF known[s] # Unknown /\ Idle(known[s], now) THEN Unknown ELSE known[s]]
  ELSE known

\* The request has the lock, and lets it go at the end of the step.
Locked(h) ==
  /\ waiting[h] # Unknown
  /\ LET s == waiting[h].key
         now == waiting[h].now
         allowed == Credit(s) >= TicksPerMinute
         left == IF allowed THEN Credit(s) - TicksPerMinute ELSE Credit(s)
     IN /\ clients' = Swept([clients EXCEPT ![s] = [credit |-> left, at |-> ticks, lastSeen |-> now]], now)
        /\ admitted' = [admitted EXCEPT ![s] = IF allowed THEN @ + 1 ELSE @]
        /\ slowest' = IF ticks - now > slowest THEN ticks - now ELSE slowest
  /\ waiting' = [waiting EXCEPT ![h] = Unknown]
  /\ UNCHANGED ticks

TickPasses ==
  /\ ticks < MaxTicks
  /\ ticks' = ticks + 1
  /\ UNCHANGED <<clients, waiting, admitted, slowest>>

LimiterNext ==
  \/ TickPasses
  \/ \E h \in Handlers : Locked(h) \/ \E s \in Senders : Arrives(h, s)

LimiterSpec == LimiterInit /\ [][LimiterNext]_limiterVars

-----------------------------------------------------------------------------
(* Nobody gets more than the burst and what the rate has brought since,     *)
(* though clients are forgotten and begin with a full bucket, by readings   *)
(* of the clock that are as old as the wait for the lock: as long as no     *)
(* request has waited so long that a bucket does not fill in what is left   *)
(* of the ten minutes a client must be idle to be forgotten.  (After a      *)
(* longer wait, or with a Burst of more than ten minutes' requests, a       *)
(* client is forgotten before its bucket is full, and gets more.)           *)
RateIsKept ==
  Full + RequestsPerMinute * slowest <= RequestsPerMinute * MaxIdle =>
    \A s \in Senders :
      admitted[s] * TicksPerMinute <= Full + RequestsPerMinute * ticks

=============================================================================
