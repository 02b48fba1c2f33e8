--------------------------- MODULE ServicesProofs ---------------------------
(***************************************************************************)
(* Theorems about the services of an application: the rate limiter, for    *)
(* any rate, burst and number of clients, the local disk, for any names,   *)
(* users and contents, the memory cache, for any keys and callers, the     *)
(* event bus, for any handlers and emitters, and about its start, for any  *)
(* environment.                                                            *)
(***************************************************************************)
EXTENDS RateLimiter, LocalDisk, MemoryCache, EventBus, Startup, SequenceTheorems, TLAPS

-----------------------------------------------------------------------------
(* The rate limiter.                                                        *)

(* A client's record, and what a request brings to the lock.                *)
Client == [credit : Nat, at : Nat, lastSeen : Nat]
Brought == [key : Senders, now : Nat]

LimiterTyped ==
  /\ clients \in [Senders -> Client \cup {Unknown}]
  /\ waiting \in [Handlers -> Brought \cup {Unknown}]
  /\ ticks \in Nat /\ slowest \in Nat
  /\ admitted \in [Senders -> Nat]

(* No reading is of the future, and a client was last seen no longer than   *)
(* the slowest request's wait before its bucket was.                        *)
ReadingsArePast ==
  /\ \A h \in Handlers : waiting[h] # Unknown => waiting[h].now <= ticks
  /\ \A s \in Senders : clients[s] # Unknown =>
       clients[s].at <= ticks /\ clients[s].at <= clients[s].lastSeen + slowest

(* What a sender has spent and may still spend is what it began with and    *)
(* what the rate has brought; one that is not known has left at least the   *)
(* burst of it unspent.                                                     *)
Paid(s) ==
  /\ clients[s] # Unknown =>
       admitted[s] * TicksPerMinute + clients[s].credit <= Full + RequestsPerMinute * clients[s].at
  /\ clients[s] = Unknown =>
       admitted[s] * TicksPerMinute <= RequestsPerMinute * ticks

(* A bucket fills in the time that makes a client idle, less the longest    *)
(* wait so far.                                                             *)
Refills == Full + RequestsPerMinute * slowest <= RequestsPerMinute * MaxIdle

LimiterInv ==
  /\ LimiterTyped
  /\ ReadingsArePast
  /\ Refills => \A s \in Senders : Paid(s)

(* Products of naturals, for leaves that treat them as numbers.             *)
LEMMA Products ==
  ASSUME NEW a \in Nat, NEW b \in Nat, NEW c \in Nat
  PROVE  /\ a * b \in Nat
         /\ a * (b + c) = a * b + a * c
         /\ b <= c => a * b <= a * c
         /\ b <= c => a * (c - b) = a * c - a * b /\ c - b \in Nat
         /\ (b + 1) * a = b * a + a
OBVIOUS

LEMMA FullIsNatural == Full \in Nat
<1>1. EffectiveBurst \in Nat
  BY LimiterAssumption DEF EffectiveBurst
<1>2. QED
  BY <1>1, LimiterAssumption, Products DEF Full

(* What a sender may spend is bounded by what it has not spent.             *)
LEMMA CreditIsBounded ==
  ASSUME LimiterTyped, ReadingsArePast, NEW s \in Senders, Paid(s)
  PROVE  /\ Credit(s) \in Nat
         /\ admitted[s] * TicksPerMinute + Credit(s) <= Full + RequestsPerMinute * ticks
<1> DEFINE spent == admitted[s] * TicksPerMinute
<1>0. Full \in Nat /\ RequestsPerMinute \in Nat /\ TicksPerMinute \in Nat
  BY LimiterAssumption, FullIsNatural
<1>1. spent \in Nat /\ ticks \in Nat /\ RequestsPerMinute * ticks \in Nat
  BY <1>0, Products DEF LimiterTyped
<1>2. CASE clients[s] = Unknown
  BY <1>0, <1>1, <1>2 DEF Credit, Paid
<1>3. CASE clients[s] # Unknown
  <2> DEFINE c == clients[s].credit
             l == clients[s].at
  <2>1. c \in Nat /\ l \in Nat /\ l <= ticks /\ spent + c <= Full + RequestsPerMinute * l
    BY <1>3 DEF LimiterTyped, ReadingsArePast, Client, Paid
  <2>2. /\ RequestsPerMinute * (ticks - l) = RequestsPerMinute * ticks - RequestsPerMinute * l
        /\ RequestsPerMinute * l <= RequestsPerMinute * ticks
        /\ RequestsPerMinute * l \in Nat
    BY <1>0, <1>1, <2>1, Products
  <2>3. Credit(s) = Filled(c, ticks - l)
    BY <1>3 DEF Credit
  <2> HIDE DEF spent, c, l
  <2>4. QED
    BY <1>0, <1>1, <2>1, <2>2, <2>3 DEF Filled, spent
<1>4. QED
  BY <1>2, <1>3

(* What a sender may spend is a number, whoever has been paid.              *)
LEMMA CreditIsNatural ==
  ASSUME LimiterTyped, ReadingsArePast, NEW s \in Senders
  PROVE  Credit(s) \in Nat
<1>0. Full \in Nat /\ RequestsPerMinute \in Nat
  BY LimiterAssumption, FullIsNatural
<1>1. CASE clients[s] = Unknown
  BY <1>0, <1>1 DEF Credit
<1>2. CASE clients[s] # Unknown
  <2>1. clients[s].credit \in Nat /\ ticks - clients[s].at \in Nat
    BY <1>2 DEF LimiterTyped, ReadingsArePast, Client
  <2>2. PICK elapsed \in Nat : elapsed = ticks - clients[s].at
    BY <2>1
  <2>3. RequestsPerMinute * elapsed \in Nat
    BY <1>0, Products
  <2>4. QED
    BY <1>0, <1>2, <2>1, <2>2, <2>3 DEF Credit, Filled
<1>3. QED
  BY <1>1, <1>2

(* A client that is forgotten would have a full bucket: it was last seen    *)
(* longer ago than the sweep asks, and its bucket at most a wait later.     *)
LEMMA ForgottenIsFull ==
  ASSUME NEW n \in Nat, NEW t \in Nat, NEW wait \in Nat, NEW seen \in Nat, NEW l \in Nat,
         n <= t, n - seen > MaxIdle, l <= seen + wait,
         Full + RequestsPerMinute * wait <= RequestsPerMinute * MaxIdle
  PROVE  Full + RequestsPerMinute * l <= RequestsPerMinute * t
<1>0. Full \in Nat /\ RequestsPerMinute \in Nat /\ MaxIdle \in Nat
  BY LimiterAssumption, FullIsNatural
<1>1. l + MaxIdle <= t + wait
  BY <1>0
<1>2. PICK a \in Nat, b \in Nat : a = l + MaxIdle /\ b = t + wait
  BY <1>0
<1>3. RequestsPerMinute * a <= RequestsPerMinute * b
  BY <1>0, <1>1, <1>2, Products
<1>4. /\ RequestsPerMinute * (l + MaxIdle) = RequestsPerMinute * l + RequestsPerMinute * MaxIdle
      /\ RequestsPerMinute * (t + wait) = RequestsPerMinute * t + RequestsPerMinute * wait
  BY <1>0, Products
<1>5. /\ RequestsPerMinute * l \in Nat /\ RequestsPerMinute * MaxIdle \in Nat
      /\ RequestsPerMinute * t \in Nat /\ RequestsPerMinute * wait \in Nat
  BY <1>0, Products
<1>6. QED
  BY <1>0, <1>2, <1>3, <1>4, <1>5

(* Every arrival, every request under the lock with the sweep it may cause, *)
(* and every tick keep all accounts balanced.                               *)
LEMMA LimiterStep == LimiterInv /\ [LimiterNext]_limiterVars => LimiterInv'
<1> SUFFICES ASSUME LimiterInv, [LimiterNext]_limiterVars
             PROVE  LimiterInv'
  OBVIOUS
<1>0. Full \in Nat /\ RequestsPerMinute \in Nat /\ TicksPerMinute \in Nat /\ MaxIdle \in Nat
  BY LimiterAssumption, FullIsNatural
<1>1. ASSUME NEW h \in Handlers, NEW s \in Senders, Arrives(h, s) PROVE LimiterInv'
  <2>1. /\ waiting' = [waiting EXCEPT ![h] = [key |-> s, now |-> ticks]]
        /\ UNCHANGED <<clients, ticks, admitted, slowest>>
    BY <1>1 DEF Arrives
  <2>2. LimiterTyped'
    BY <2>1 DEF LimiterInv, LimiterTyped, Brought
  <2>3. ReadingsArePast'
    BY <2>1 DEF LimiterInv, LimiterTyped, ReadingsArePast
  <2>4. (Refills => \A x \in Senders : Paid(x))'
    BY <2>1, FullIsNatural DEF LimiterInv, Refills, Paid, Full, EffectiveBurst
  <2>5. QED
    BY <2>2, <2>3, <2>4 DEF LimiterInv
<1>2. ASSUME NEW h \in Handlers, Locked(h) PROVE LimiterInv'
  <2>1. PICK s \in Senders, n \in Nat :
           /\ waiting[h].key = s /\ waiting[h].now = n /\ n <= ticks
    BY <1>2 DEF Locked, LimiterInv, LimiterTyped, Brought, ReadingsArePast
  <2> DEFINE left == IF Credit(s) >= TicksPerMinute THEN Credit(s) - TicksPerMinute ELSE Credit(s)
             known == [clients EXCEPT ![s] = [credit |-> left, at |-> ticks, lastSeen |-> n]]
  <2>2. /\ clients' = Swept(known, n)
        /\ admitted' = [admitted EXCEPT ![s] = IF Credit(s) >= TicksPerMinute THEN @ + 1 ELSE @]
        /\ slowest' = IF ticks - n > slowest THEN ticks - n ELSE slowest
        /\ waiting' = [waiting EXCEPT ![h] = Unknown]
        /\ ticks' = ticks
    BY <1>2, <2>1 DEF Locked
  <2>3. /\ slowest \in Nat /\ slowest' \in Nat /\ ticks \in Nat
        /\ slowest <= slowest' /\ ticks <= n + slowest'
    BY <2>1, <2>2 DEF LimiterInv, LimiterTyped
  <2>4. left \in Nat
    BY <1>0, CreditIsNatural DEF LimiterInv
  <2>5. known \in [Senders -> Client \cup {Unknown}]
    BY <2>1, <2>3, <2>4 DEF LimiterInv, LimiterTyped, Client
  <2> HIDE DEF left
  <2>6. \A x \in Senders : known[x] # Unknown =>
           known[x] \in Client /\ known[x].at <= ticks /\ known[x].at <= known[x].lastSeen + slowest'
    <3> SUFFICES ASSUME NEW x \in Senders, known[x] # Unknown
                 PROVE  known[x] \in Client /\ known[x].at <= ticks
                        /\ known[x].at <= known[x].lastSeen + slowest'
      OBVIOUS
    <3>0. known[x] \in Client
      BY <2>5
    <3>1. CASE x = s
      <4>1. known[x] = [credit |-> left, at |-> ticks, lastSeen |-> n]
        BY <3>1 DEF LimiterInv, LimiterTyped
      <4> HIDE DEF known
      <4>2. QED
        BY <2>1, <2>3, <3>0, <4>1
    <3>2. CASE x # s
      <4>1. known[x] = clients[x]
        BY <3>2 DEF LimiterInv, LimiterTyped
      <4>2. known[x].at <= ticks /\ known[x].at <= known[x].lastSeen + slowest
        BY <4>1 DEF LimiterInv, ReadingsArePast
      <4>3. known[x].at \in Nat /\ known[x].lastSeen \in Nat
        BY <3>0 DEF Client
      <4> HIDE DEF known
      <4>4. PICK l \in Nat, seen \in Nat, short \in Nat, long \in Nat :
               /\ l = known[x].at /\ seen = known[x].lastSeen
               /\ short = slowest /\ long = slowest'
        BY <2>3, <4>3
      <4>5. l <= seen + long
        BY <2>3, <4>2, <4>4
      <4>6. QED
        BY <3>0, <4>2, <4>4, <4>5
    <3>3. QED
      BY <3>1, <3>2
  <2>7. \A x \in Senders : known[x] = Unknown =>
           x # s /\ clients[x] = Unknown /\ admitted'[x] = admitted[x]
    <3>1. known[s] = [credit |-> left, at |-> ticks, lastSeen |-> n]
      BY DEF LimiterInv, LimiterTyped
    <3>2. known[s] # Unknown
      BY <2>1, <2>3, <2>4, <3>1, LimiterAssumption
    <3>3. QED
      BY <2>2, <3>2 DEF LimiterInv, LimiterTyped
  <2>8. ASSUME Refills
        PROVE  \A x \in Senders : known[x] # Unknown =>
                 admitted'[x] * TicksPerMinute + known[x].credit <= Full + RequestsPerMinute * known[x].at
    <3> SUFFICES ASSUME NEW x \in Senders, known[x] # Unknown
                 PROVE  admitted'[x] * TicksPerMinute + known[x].credit
                          <= Full + RequestsPerMinute * known[x].at
      OBVIOUS
    <3>1. CASE x = s
      <4>1. /\ Credit(s) \in Nat
            /\ admitted[s] * TicksPerMinute + Credit(s) <= Full + RequestsPerMinute * ticks
        BY <2>8, CreditIsBounded DEF LimiterInv
      <4>2. known[s].credit = left /\ known[s].at = ticks
        BY DEF LimiterInv, LimiterTyped
      <4>3. admitted[s] \in Nat /\ admitted[s] * TicksPerMinute \in Nat /\ RequestsPerMinute * ticks \in Nat
        BY <1>0, <2>3, Products DEF LimiterInv, LimiterTyped
      <4>4. CASE Credit(s) >= TicksPerMinute
        <5>1. admitted'[s] = admitted[s] + 1 /\ left = Credit(s) - TicksPerMinute
          BY <2>2, <4>4 DEF LimiterInv, LimiterTyped, left
        <5>2. admitted'[s] * TicksPerMinute = admitted[s] * TicksPerMinute + TicksPerMinute
          BY <1>0, <4>3, <5>1, Products
        <5>3. QED
          BY <1>0, <3>1, <4>1, <4>2, <4>3, <4>4, <5>1, <5>2
      <4>5. CASE ~(Credit(s) >= TicksPerMinute)
        <5>1. admitted'[s] = admitted[s] /\ left = Credit(s)
          BY <2>2, <4>5 DEF LimiterInv, LimiterTyped, left
        <5>2. QED
          BY <3>1, <4>1, <4>2, <5>1
      <4>6. QED
        BY <4>4, <4>5
    <3>2. CASE x # s
      <4>1. known[x] = clients[x] /\ admitted'[x] = admitted[x]
        BY <2>2, <3>2 DEF LimiterInv, LimiterTyped
      <4>2. QED
        BY <2>8, <4>1 DEF LimiterInv, Paid
    <3>3. QED
      BY <3>1, <3>2
  <2> HIDE DEF known
  <2>9. \A x \in Senders : \/ clients'[x] = known[x]
                           \/ clients'[x] = Unknown /\ known[x] # Unknown /\ n - known[x].lastSeen > MaxIdle
    BY <2>2, <2>5 DEF Swept, Idle
  <2>10. LimiterTyped'
    <3>1. clients' \in [Senders -> Client \cup {Unknown}]
      BY <2>2, <2>5 DEF Swept
    <3>2. admitted' \in [Senders -> Nat]
      BY <2>2 DEF LimiterInv, LimiterTyped
    <3>3. waiting' \in [Handlers -> Brought \cup {Unknown}]
      BY <2>2 DEF LimiterInv, LimiterTyped
    <3>4. QED
      BY <2>2, <2>3, <3>1, <3>2, <3>3 DEF LimiterTyped
  <2>11. ReadingsArePast'
    <3>1. \A g \in Handlers : waiting'[g] # Unknown => waiting'[g].now <= ticks'
      BY <2>2 DEF LimiterInv, LimiterTyped, ReadingsArePast
    <3>2. \A x \in Senders : clients'[x] # Unknown =>
            clients'[x].at <= ticks' /\ clients'[x].at <= clients'[x].lastSeen + slowest'
      BY <2>2, <2>6, <2>9
    <3>3. QED
      BY <3>1, <3>2 DEF ReadingsArePast
  <2>12. ASSUME Refills' PROVE \A x \in Senders : Paid(x)'
    <3>0. Full' = Full
      BY DEF Full, EffectiveBurst
    <3>1. Full + RequestsPerMinute * slowest' <= RequestsPerMinute * MaxIdle
      BY <2>12, <3>0 DEF Refills
    <3>2. Refills
      <4>1. PICK wait \in Nat : wait = slowest'
        BY <2>3
      <4>2. RequestsPerMinute * slowest <= RequestsPerMinute * wait
        BY <1>0, <2>3, <4>1, Products
      <4>3. /\ RequestsPerMinute * slowest \in Nat /\ RequestsPerMinute * wait \in Nat
            /\ RequestsPerMinute * MaxIdle \in Nat
        BY <1>0, <2>3, <4>1, Products
      <4>4. QED
        <5>1. Full + RequestsPerMinute * wait <= RequestsPerMinute * MaxIdle
          BY <3>1, <4>1
        <5>2. Full + RequestsPerMinute * slowest <= RequestsPerMinute * MaxIdle
          BY <1>0, <4>2, <4>3, <5>1
        <5>3. QED
          BY <5>2 DEF Refills
    <3>3. ASSUME NEW x \in Senders PROVE Paid(x)'
      <4>1. CASE known[x] = Unknown
        <5>1. clients'[x] = Unknown /\ admitted'[x] = admitted[x] /\ clients[x] = Unknown
          BY <2>7, <2>9, <4>1
        <5>2. admitted[x] * TicksPerMinute <= RequestsPerMinute * ticks
          BY <3>2, <5>1 DEF LimiterInv, Paid
        <5>3. QED
          BY <2>2, <5>1, <5>2 DEF Paid
      <4>2. CASE known[x] # Unknown /\ clients'[x] = known[x]
        <5>1. admitted'[x] * TicksPerMinute + known[x].credit <= Full + RequestsPerMinute * known[x].at
          BY <2>8, <3>2, <4>2
        <5>2. QED
          BY <3>0, <4>2, <5>1 DEF Paid
      <4>3. CASE known[x] # Unknown /\ clients'[x] = Unknown /\ n - known[x].lastSeen > MaxIdle
        <5>1. admitted'[x] * TicksPerMinute + known[x].credit <= Full + RequestsPerMinute * known[x].at
          BY <2>8, <3>2, <4>3
        <5>2. PICK l \in Nat, seen \in Nat, credit \in Nat, wait \in Nat, spent \in Nat :
                 /\ l = known[x].at /\ seen = known[x].lastSeen /\ credit = known[x].credit
                 /\ wait = slowest' /\ spent = admitted'[x] * TicksPerMinute
          <6>1. known[x] \in Client
            BY <2>6, <4>3
          <6>2. admitted'[x] \in Nat
            BY <2>10 DEF LimiterTyped
          <6>3. admitted'[x] * TicksPerMinute \in Nat
            BY <1>0, <6>2, Products
          <6>4. QED
            BY <2>3, <6>1, <6>3 DEF Client
        <5>3. l <= seen + wait
          BY <2>6, <4>3, <5>2
        <5>4. n - seen > MaxIdle /\ Full + RequestsPerMinute * wait <= RequestsPerMinute * MaxIdle
          BY <3>1, <4>3, <5>2
        <5>5. Full + RequestsPerMinute * l <= RequestsPerMinute * ticks
          BY <2>1, <2>3, <5>3, <5>4, ForgottenIsFull
        <5>6. RequestsPerMinute * l \in Nat /\ RequestsPerMinute * ticks \in Nat
          BY <1>0, <2>3, <5>2, Products
        <5>7. spent <= RequestsPerMinute * ticks
          BY <1>0, <5>1, <5>2, <5>5, <5>6
        <5>8. QED
          BY <2>2, <4>3, <5>2, <5>7 DEF Paid
      <4>4. QED
        BY <2>9, <4>1, <4>2, <4>3
    <3>4. QED
      BY <3>3
  <2>13. QED
    BY <2>10, <2>11, <2>12 DEF LimiterInv
<1>3. CASE TickPasses
  <2>1. /\ UNCHANGED <<clients, waiting, admitted, slowest>>
        /\ ticks' = ticks + 1 /\ ticks \in Nat
    BY <1>3 DEF TickPasses, LimiterInv, LimiterTyped
  <2>2. LimiterTyped'
    BY <2>1 DEF LimiterInv, LimiterTyped
  <2>3. ReadingsArePast'
    BY <2>1 DEF LimiterInv, LimiterTyped, ReadingsArePast, Brought, Client
  <2>4. RequestsPerMinute * ticks <= RequestsPerMinute * ticks' /\ RequestsPerMinute * ticks \in Nat
        /\ RequestsPerMinute * ticks' \in Nat
    BY <1>0, <2>1, Products
  <2>5. ASSUME Refills', NEW x \in Senders PROVE Paid(x)'
    <3>0. Full' = Full
      BY DEF Full, EffectiveBurst
    <3>1. Paid(x) /\ admitted[x] * TicksPerMinute \in Nat
      BY <1>0, <2>1, <2>5, <3>0, Products DEF LimiterInv, LimiterTyped, Refills
    <3>2. CASE clients[x] = Unknown
      BY <2>1, <2>4, <3>1, <3>2 DEF Paid
    <3>3. CASE clients[x] # Unknown
      BY <2>1, <3>0, <3>1, <3>3 DEF Paid
    <3>4. QED
      BY <3>2, <3>3
  <2>6. QED
    BY <2>2, <2>3, <2>5 DEF LimiterInv
<1>4. CASE UNCHANGED limiterVars
  <2>1. UNCHANGED <<clients, waiting, ticks, admitted, slowest>>
    BY <1>4 DEF limiterVars
  <2>2. Full' = Full
    BY DEF Full, EffectiveBurst
  <2>3. LimiterTyped' /\ ReadingsArePast'
    BY <2>1 DEF LimiterInv, LimiterTyped, ReadingsArePast
  <2>4. (Refills => \A x \in Senders : Paid(x))'
    BY <2>1, <2>2 DEF LimiterInv, Refills, Paid
  <2>5. QED
    BY <2>3, <2>4 DEF LimiterInv
<1>5. QED
  BY <1>1, <1>2, <1>3, <1>4 DEF LimiterNext

(* For any rate and burst, and whoever is forgotten when and by however old *)
(* a reading of the clock: no sender gets more than the burst and what the  *)
(* rate has brought since the start, as long as no request has waited for   *)
(* the lock so long that a bucket does not fill in the rest of the time     *)
(* that makes a client idle.                                                *)
THEOREM RateIsKeptForEver == LimiterSpec => []RateIsKept
<1>1. LimiterInit => LimiterInv
  <2> SUFFICES ASSUME LimiterInit PROVE LimiterInv
    OBVIOUS
  <2>1. LimiterTyped /\ ReadingsArePast
    BY DEF LimiterInit, LimiterTyped, ReadingsArePast
  <2>2. ASSUME NEW s \in Senders PROVE Paid(s)
    BY LimiterAssumption DEF LimiterInit, Paid
  <2>3. QED
    BY <2>1, <2>2 DEF LimiterInv
<1>2. LimiterInv => RateIsKept
  <2> SUFFICES ASSUME LimiterInv, Refills, NEW s \in Senders
               PROVE  admitted[s] * TicksPerMinute <= Full + RequestsPerMinute * ticks
    BY DEF RateIsKept, Refills
  <2>1. /\ Credit(s) \in Nat
        /\ admitted[s] * TicksPerMinute + Credit(s) <= Full + RequestsPerMinute * ticks
    BY CreditIsBounded DEF LimiterInv
  <2>2. admitted[s] * TicksPerMinute \in Nat /\ RequestsPerMinute * ticks \in Nat
    BY LimiterAssumption, Products DEF LimiterInv, LimiterTyped
  <2>3. QED
    BY <2>1, <2>2, FullIsNatural
<1>3. QED
  BY <1>1, <1>2, LimiterStep, PTL DEF LimiterSpec

-----------------------------------------------------------------------------
(* The local disk.                                                          *)

DiskTyped ==
  /\ files \in [Names -> 0..MaxPuts]
  /\ written \in [Puts -> 0..Chunks]
  /\ puts \in 0..MaxPuts
  /\ does \in [Users -> {"idle", "copy", "rename", "read"}]
  /\ file \in [Users -> 0..MaxPuts]
  /\ read \in [Users -> 0..Chunks]

Writing(u) == does[u] \in {"copy", "rename"}

(* Who copies is alone with a file of its own that nobody can find, and     *)
(* what can be found, is about to be, or is read, is complete.              *)
Private(u) ==
  /\ does[u] # "idle" => file[u] \in 1..puts
  /\ Writing(u) => /\ \A n \in Names : files[n] # file[u]
                   /\ \A x \in Users \ {u} : does[x] # "idle" => file[x] # file[u]
  /\ does[u] \in {"rename", "read"} => written[file[u]] = Chunks

DiskInv ==
  /\ DiskTyped
  /\ \A n \in Names : files[n] <= puts /\ (files[n] # 0 => written[files[n]] = Chunks)
  /\ \A u \in Users : Private(u)
  /\ \A g \in got : g[2] = Chunks

LEMMA DiskStep == DiskInv /\ [DiskNext]_diskVars => DiskInv'
<1> SUFFICES ASSUME DiskInv, [DiskNext]_diskVars PROVE DiskInv'
  OBVIOUS
<1> USE DiskAssumption DEF DiskInv, DiskTyped, Private, Writing, Becomes, Puts
<1>1. ASSUME NEW u \in Users, NEW n \in Names, PutStages(u, n) PROVE DiskInv'
  BY <1>1 DEF PutStages
<1>2. ASSUME NEW u \in Users, NEW n \in Names, GetOpens(u, n) PROVE DiskInv'
  BY <1>2 DEF GetOpens
<1>3. ASSUME NEW u \in Users, PutCopies(u) PROVE DiskInv'
  BY <1>3 DEF PutCopies
<1>4. ASSUME NEW u \in Users, PutFails(u) PROVE DiskInv'
  BY <1>4 DEF PutFails
<1>5. ASSUME NEW u \in Users, PutCloses(u) PROVE DiskInv'
  BY <1>5 DEF PutCloses, Copied
<1>6. ASSUME NEW u \in Users, PutRenames(u) PROVE DiskInv'
  <2>1. /\ does[u] = "rename" /\ file[u] \in 1..puts /\ written[file[u]] = Chunks
        /\ does' = [does EXCEPT ![u] = "idle"]
        /\ files' = [files EXCEPT ![name[u]] = file[u]]
        /\ UNCHANGED <<written, puts, file, read, got>>
    BY <1>6 DEF PutRenames
  <2>2. DiskTyped' /\ (\A g \in got : g[2] = Chunks)'
    BY <2>1
  <2>3. \A n \in Names : files'[n] = files[n] \/ files'[n] = file[u]
    BY <2>1
  <2>4. \A x \in Users : does'[x] # "idle" => x # u /\ does'[x] = does[x]
    BY <2>1
  <2>5. ASSUME NEW x \in Users PROVE Private(x)'
    BY <2>1, <2>3, <2>4
  <2>6. (\A n \in Names : files[n] <= puts /\ (files[n] # 0 => written[files[n]] = Chunks))'
    BY <2>1, <2>3
  <2>7. QED
    BY <2>2, <2>5, <2>6
<1>7. ASSUME NEW u \in Users, ReaderReads(u) PROVE DiskInv'
  <2>1. does[u] = "read" /\ file[u] \in 1..puts /\ written[file[u]] = Chunks
    BY <1>7 DEF ReaderReads
  <2>2. CASE read[u] < written[file[u]]
    <3>1. read' = [read EXCEPT ![u] = @ + 1] /\ UNCHANGED <<files, written, puts, does, file, got>>
      BY <1>7, <2>2 DEF ReaderReads
    <3>2. read[u] + 1 \in 0..Chunks
      BY <2>1, <2>2
    <3>3. QED
      BY <3>1, <3>2
  <2>3. CASE ~(read[u] < written[file[u]])
    <3>1. read[u] = Chunks
      BY <2>1, <2>3
    <3>2. got' = got \cup {<<file[u], Chunks>>} /\ does' = [does EXCEPT ![u] = "idle"]
          /\ UNCHANGED <<files, written, puts, file, read>>
      BY <1>7, <2>3, <3>1 DEF ReaderReads
    <3>3. \A g \in got' : g[2] = Chunks
      BY <3>2
    <3>4. QED
      BY <3>2, <3>3
  <2>4. QED
    BY <2>2, <2>3
<1>8. ASSUME NEW n \in Names, Delete(n) PROVE DiskInv'
  BY <1>8 DEF Delete
<1>9. CASE Dies
  BY <1>9 DEF Dies
<1>10. CASE UNCHANGED diskVars
  BY <1>10 DEF diskVars
<1>11. QED
  BY <1>1, <1>2, <1>3, <1>4, <1>5, <1>6, <1>7, <1>8, <1>9, <1>10 DEF DiskNext

(* For any names, users and contents: what is under a name or was read from *)
(* one is always the whole of one Put.                                      *)
THEOREM FilesAreWhole == DiskSpec => []WholeFiles
<1>1. DiskInit => DiskInv
  BY DiskAssumption DEF DiskInit, DiskInv, DiskTyped, Private, Writing, Puts
<1>2. DiskInv => WholeFiles
  BY DEF DiskInv, Private, Writing, WholeFiles
<1>3. QED
  BY <1>1, <1>2, DiskStep, PTL DEF DiskSpec

-----------------------------------------------------------------------------
(* The memory cache.                                                        *)

Values == Store!Items

(* An entry of the map, and what a caller asks for.                         *)
Entry == [value : Values, expires : Nat]

Call == [op : {"get", "set", "forget", "increment", "remember"}, key : Keys,
         value : Values, ttl : Nat, by : Store!Ints]

CacheTyped ==
  /\ entries \in [Keys -> Entry \cup {None}]
  /\ now \in Nat
  /\ at \in [Callers -> {"idle", "read", "check", "compute", "stamp", "store", "forget", "increment"}]
  /\ call \in [Callers -> Call \cup {None}]
  /\ held \in [Callers -> Entry \cup {None}]
  /\ recent \in [Callers -> SUBSET Values]

(* A caller under way has asked for something and one that is about to      *)
(* store has an entry.                                                      *)
CacheLocals ==
  \A c \in Callers :
    /\ at[c] # "idle" => call[c] \in Call
    /\ at[c] = "store" => held[c] \in Entry

(* What a Get read is a miss by now, or was there during the call.          *)
ReadWasThere ==
  \A c \in Callers :
    at[c] = "check" => held[c] = None \/ Expired(held[c]) \/ held[c].value \in recent[c]

CacheInv == CacheTyped /\ CacheLocals /\ ReadWasThere

LEMMA CacheFacts ==
  /\ None \notin Values \cup Keys \cup Entry \cup [value : Values, forever : BOOLEAN]
  /\ Calls \subseteq Call /\ Store!Ints \subseteq Int /\ Blank \notin Int /\ Blank \in Values
  /\ Store!Ints \subseteq Values /\ IntEdge \in Nat \ {0}
  /\ \A v \in Values \ Texts : NumberOf(v) \in Int
  /\ \A n \in Int : Wrap(n) \in Store!Ints
  /\ \A n \in Store!Ints : Wrap(n) = n
  /\ \A v \in Values \ Texts : v \in Store!Ints \cup {Blank}
<1>1. /\ \A n \in Int : Wrap(n) \in Store!Ints
      /\ \A n \in Store!Ints : Wrap(n) = n
  BY CacheAssumption DEF Wrap, Store!Ints
<1>2. QED
  BY <1>1, CacheAssumption DEF Values, Entry, Call, Store!Items, Store!Ints, NumberOf

(* A step after which every key has what it had, or what expired, and       *)
(* nobody enters or leaves a Get, is one of the store's expiry.             *)
LEMMA QuietImplements ==
  ASSUME CacheInv, now' = now, Store!Watches, UNCHANGED answer,
         \A k \in Keys : Live(k)' = Live(k),
         \A c \in Callers : Reading(c)' = Reading(c)
  PROVE  Store!StoreNext
<1> DEFINE data == [k \in Keys |-> Live(k)]
           asked == [c \in Callers |-> Reading(c)]
<1>1. data' = [k \in Keys |-> IF k \in {} THEN None ELSE data[k]]
  OBVIOUS
<1>2. asked' = asked
  OBVIOUS
<1>3. {} \in SUBSET {k \in Keys : data[k] # None /\ ~data[k].forever}
  OBVIOUS
<1>4. \E S \in SUBSET {k \in Keys : data[k] # None /\ ~data[k].forever} :
        data' = [k \in Keys |-> IF k \in S THEN None ELSE data[k]]
  BY <1>1, <1>3
<1>5. Store!Expire
  BY <1>2, <1>4 DEF Store!Expire
<1>6. QED
  BY <1>5 DEF Store!StoreNext

(* Whoever stays in a Get keeps the values it saw and sees the new one.     *)
LEMMA WatchersSee ==
  ASSUME CacheInv, Store!Watches, NEW c \in Callers, Reading(c)' # None
  PROVE  /\ recent'[c] \subseteq Values
         /\ Reading(c) # None => recent[c] \subseteq recent'[c]
         /\ \A k \in Keys : /\ Reading(c)' = k /\ Live(k)' # None
                           /\ Live(k)'.value \in Values
                           => Live(k)'.value \in recent'[c]
<1> DEFINE data == [k \in Keys |-> Live(k)]
           asked == [d \in Callers |-> Reading(d)]
<1>1. asked[c] = Reading(c) /\ asked'[c] = Reading(c)'
  OBVIOUS
<1>2. recent'[c] = {v \in Values : /\ asked'[c] # None
                                  /\ \/ asked[c] # None /\ v \in recent[c]
                                     \/ data'[asked'[c]] # None /\ v = data'[asked'[c]].value}
  BY DEF Store!Watches, Values
<1>3. recent[c] \subseteq Values
  BY DEF CacheInv, CacheTyped
<1>4. \A k \in Keys : data'[k] = Live(k)'
  OBVIOUS
<1> HIDE DEF data, asked
<1>5. QED
  BY <1>1, <1>2, <1>3, <1>4

(* The part of the invariant that a step of others, or one outside the map  *)
(* and Get, leaves alone: what was read stays a miss, or was there.         *)
LEMMA ReadStays ==
  ASSUME CacheInv, Store!Watches, now' \in Nat, now' >= now, NEW c \in Callers,
         at[c] = "check", at'[c] = "check", call'[c] = call[c], held'[c] = held[c]
  PROVE  held'[c] = None \/ Expired(held[c])' \/ held'[c].value \in recent'[c]
<1>1. call[c] \in Call
  BY DEF CacheInv, CacheLocals
<1>2. Reading(c) # None /\ Reading(c)' # None
  BY <1>1, CacheFacts DEF Reading, Call
<1>3. recent[c] \subseteq recent'[c]
  BY <1>2, WatchersSee
<1>4. held[c] = None \/ Expired(held[c]) \/ held[c].value \in recent[c]
  BY DEF CacheInv, ReadWasThere
<1>5. CASE held[c] = None \/ held[c].value \in recent[c]
  BY <1>3, <1>5
<1>6. CASE held[c] # None /\ Expired(held[c])
  <2>1. held[c] \in Entry /\ now \in Nat
    BY <1>6 DEF CacheInv, CacheTyped
  <2>2. held[c].expires \in Nat
    BY <2>1 DEF Entry
  <2>3. Expired(held[c])'
    BY <1>6, <2>1, <2>2 DEF Expired
  <2>4. QED
    BY <2>3
<1>7. QED
  BY <1>4, <1>5, <1>6

(* A step of one caller that does not end in the middle of a Get.           *)
LEMMA CallerKeeps ==
  ASSUME CacheInv, Store!Watches, NEW c \in Callers,
         entries' \in [Keys -> Entry \cup {None}], now' = now,
         NEW place \in {"idle", "read", "compute", "stamp", "store", "forget", "increment"},
         NEW q \in Call \cup {None}, NEW e \in Entry \cup {None},
         Moves(c, place), call' = [call EXCEPT ![c] = q], held' = [held EXCEPT ![c] = e],
         place # "idle" => q \in Call, place = "store" => e \in Entry
  PROVE  CacheInv'
<1>1. recent' \in [Callers -> SUBSET Values]
  BY DEF Store!Watches, Values
<1>2. CacheTyped'
  BY <1>1 DEF CacheInv, CacheTyped, Moves
<1>3. CacheLocals'
  BY DEF CacheInv, CacheTyped, CacheLocals, Moves
<1>4. ReadWasThere'
  <2>1. SUFFICES ASSUME NEW d \in Callers, at'[d] = "check"
                 PROVE  held'[d] = None \/ Expired(held[d])' \/ held'[d].value \in recent'[d]
    BY DEF ReadWasThere
  <2>2. d # c /\ at[d] = "check" /\ call'[d] = call[d] /\ held'[d] = held[d]
    BY <2>1 DEF CacheInv, CacheTyped, Moves
  <2>3. now \in Nat /\ now' = now
    BY DEF CacheInv, CacheTyped
  <2>4. QED
    BY <2>1, <2>2, <2>3, ReadStays
<1>5. QED
  BY <1>2, <1>3, <1>4 DEF CacheInv

(* A step of nobody's: the janitor's, Close's or the clock's.               *)
LEMMA NobodyKeeps ==
  ASSUME CacheInv, Store!Watches, UNCHANGED <<at, call, held>>,
         entries' \in [Keys -> Entry \cup {None}], now' \in Nat, now' >= now
  PROVE  CacheInv'
<1>1. recent' \in [Callers -> SUBSET Values]
  BY DEF Store!Watches, Values
<1>2. CacheTyped' /\ CacheLocals'
  BY <1>1 DEF CacheInv, CacheTyped, CacheLocals
<1>3. ReadWasThere'
  BY ReadStays DEF ReadWasThere
<1>4. QED
  BY <1>2, <1>3 DEF CacheInv

(* Get's look at the map: the value was there.                              *)
LEMMA GetReadsKeeps == ASSUME CacheInv, NEW c \in Callers, GetReads(c) PROVE CacheInv'
<1>1. /\ at[c] = "read" /\ at' = [at EXCEPT ![c] = "check"] /\ call[c] \in Call
      /\ held' = [held EXCEPT ![c] = entries[call[c].key]] /\ UNCHANGED <<entries, now, call>>
      /\ Store!Watches /\ now \in Nat /\ now' \in Nat /\ now' >= now
  BY DEF GetReads, Moves, CacheInv, CacheTyped, CacheLocals
<1>2. recent' \in [Callers -> SUBSET Values]
  BY <1>1 DEF Store!Watches, Values
<1>3. call[c].key \in Keys /\ entries[call[c].key] \in Entry \cup {None}
  BY <1>1 DEF Call, CacheInv, CacheTyped
<1>4. CacheTyped' /\ CacheLocals'
  BY <1>1, <1>2, <1>3 DEF CacheInv, CacheTyped, CacheLocals
<1>5. ASSUME NEW d \in Callers, at'[d] = "check"
      PROVE  held'[d] = None \/ Expired(held[d])' \/ held'[d].value \in recent'[d]
  <2>1. CASE d # c
    <3>1. at[d] = "check" /\ call'[d] = call[d] /\ held'[d] = held[d]
      BY <1>1, <1>5, <2>1 DEF CacheInv, CacheTyped
    <3>2. QED
      BY <1>1, <1>5, <3>1, ReadStays
  <2>2. CASE d = c /\ entries[call[c].key] # None /\ ~Expired(entries[call[c].key])
    <3> DEFINE k == call[c].key
    <3>1. held'[c] = entries[k] /\ entries' = entries /\ now' = now /\ at'[c] = "check" /\ call'[c] = call[c]
      BY <1>1 DEF CacheInv, CacheTyped
    <3>2. entries[k] \in Entry /\ entries[k].value \in Values
      BY <1>3, <2>2 DEF Entry
    <3>3. Reading(c)' = k
      BY <3>1 DEF Reading
    <3>4. Live(k)' = [value |-> entries[k].value, forever |-> entries[k].expires = 0]
      BY <2>2, <3>1 DEF Live, Gone, Expired
    <3>5. Live(k)' # None /\ Live(k)'.value = entries[k].value /\ Reading(c)' # None
      BY <1>3, <3>2, <3>3, <3>4, CacheFacts
    <3>6. Live(k)'.value \in recent'[c]
      BY <1>1, <1>3, <3>2, <3>3, <3>5, WatchersSee
    <3>7. QED
      BY <2>2, <3>1, <3>5, <3>6
  <2>3. CASE d = c /\ (entries[call[c].key] = None \/ Expired(entries[call[c].key]))
    <3>1. held'[c] = entries[call[c].key] /\ now' = now
      BY <1>1 DEF CacheInv, CacheTyped
    <3>2. QED
      BY <2>3, <3>1 DEF Expired
  <2>4. QED
    BY <2>1, <2>2, <2>3
<1>6. ReadWasThere'
  BY <1>5 DEF ReadWasThere
<1>7. QED
  BY <1>4, <1>6 DEF CacheInv

(* What Increment leaves in the map.                                        *)
LEMMA CountFacts ==
  ASSUME CacheInv, NEW k \in Keys, NEW by \in Store!Ints, From(k).value \notin Texts
  PROVE  /\ From(k) \in Entry
         /\ [From(k) EXCEPT !.value = Wrap(NumberOf(From(k).value) + by)] \in Entry
<1>1. From(k) \in Entry
  BY CacheFacts DEF From, Gone, Entry, CacheInv, CacheTyped
<1>2. From(k).value \in Values \ Texts
  BY <1>1 DEF Entry
<1>3. NumberOf(From(k).value) + by \in Int
  <2>1. by \in Int
    BY CacheFacts
  <2>2. NumberOf(From(k).value) \in Int
    BY <1>2, CacheFacts
  <2>3. QED
    BY <2>1, <2>2
<1>4. Wrap(NumberOf(From(k).value) + by) \in Values
  BY <1>3, CacheFacts
<1>5. QED
  BY <1>1, <1>4 DEF Entry

LEMMA CacheStep == CacheInv /\ [CacheNext]_cacheVars => CacheInv'
<1> SUFFICES ASSUME CacheInv, [CacheNext]_cacheVars PROVE CacheInv'
  OBVIOUS
<1>0. /\ now \in Nat /\ entries \in [Keys -> Entry \cup {None}]
      /\ call \in [Callers -> Call \cup {None}] /\ held \in [Callers -> Entry \cup {None}]
  BY DEF CacheInv, CacheTyped
<1>1. ASSUME NEW c \in Callers, NEW q \in Calls, CallStarts(c, q) PROVE CacheInv'
  <2>1. q \in Call /\ First(q.op) \in {"read", "stamp", "forget", "increment"}
    BY CacheFacts DEF First, Call
  <2>2. held' = [held EXCEPT ![c] = held[c]] /\ entries' = entries /\ now' = now
    BY <1>0, <1>1 DEF CallStarts
  <2>3. Store!Watches /\ Moves(c, First(q.op)) /\ call' = [call EXCEPT ![c] = q]
    BY <1>1 DEF CallStarts
  <2>4. held[c] \in Entry \cup {None}
    BY <1>0
  <2>5. QED
    BY <1>0, <2>1, <2>2, <2>3, <2>4, CallerKeeps
<1>2. ASSUME NEW c \in Callers, Ends(c), Store!Watches, now' = now,
             entries' \in [Keys -> Entry \cup {None}]
      PROVE  CacheInv'
  BY <1>2, CallerKeeps DEF Ends
<1>3. ASSUME NEW c \in Callers, GetReturns(c) PROVE CacheInv'
  <2>1. Store!Watches /\ now' = now /\ entries' = entries /\ at[c] = "check"
    BY <1>3 DEF GetReturns
  <2>2. CASE Ends(c)
    BY <1>0, <1>2, <2>1, <2>2
  <2>3. CASE Moves(c, "compute") /\ held' = [held EXCEPT ![c] = None] /\ UNCHANGED call
    <3>1. call[c] \in Call /\ call' = [call EXCEPT ![c] = call[c]]
      BY <1>0, <2>1, <2>3 DEF CacheInv, CacheLocals
    <3>2. QED
      BY <1>0, <2>1, <2>3, <3>1, CallerKeeps
  <2>4. QED
    BY <1>3, <2>2, <2>3 DEF GetReturns
<1>4. ASSUME NEW c \in Callers, Computes(c) PROVE CacheInv'
  <2>1. Store!Watches /\ now' = now /\ entries' = entries /\ at[c] = "compute"
    BY <1>4 DEF Computes
  <2>2. CASE Ends(c)
    BY <1>0, <1>2, <2>1, <2>2
  <2>3. CASE Moves(c, "stamp") /\ UNCHANGED <<call, held>>
    <3>1. /\ call[c] \in Call /\ call' = [call EXCEPT ![c] = call[c]]
          /\ held[c] \in Entry \cup {None} /\ held' = [held EXCEPT ![c] = held[c]]
      BY <1>0, <2>1, <2>3 DEF CacheInv, CacheLocals
    <3>2. QED
      BY <1>0, <2>1, <2>3, <3>1, CallerKeeps
  <2>4. QED
    BY <1>4, <2>2, <2>3 DEF Computes
<1>5. ASSUME NEW c \in Callers, SetStamps(c) PROVE CacheInv'
  <2> DEFINE q == call[c]
             e == [value |-> q.value, expires |-> IF q.ttl > 0 THEN now + q.ttl ELSE 0]
  <2>1. /\ Store!Watches /\ now' = now /\ entries' = entries /\ at[c] = "stamp"
        /\ Moves(c, "store") /\ call' = call /\ held' = [held EXCEPT ![c] = e]
    BY <1>5 DEF SetStamps
  <2>2. q \in Call /\ call' = [call EXCEPT ![c] = q]
    BY <1>0, <2>1 DEF CacheInv, CacheLocals
  <2>3. e \in Entry
    BY <1>0, <2>2 DEF Call, Entry
  <2> HIDE DEF q, e
  <2>4. QED
    BY <1>0, <2>1, <2>2, <2>3, CallerKeeps
<1>6. ASSUME NEW c \in Callers, SetStores(c) PROVE CacheInv'
  <2>1. held[c] \in Entry /\ Ends(c) /\ Store!Watches /\ now' = now
    BY <1>6 DEF SetStores, CacheInv, CacheLocals
  <2>2. entries' \in [Keys -> Entry \cup {None}]
    BY <1>0, <1>6, <2>1 DEF SetStores, Stores
  <2>3. QED
    BY <1>2, <2>1, <2>2
<1>7. ASSUME NEW c \in Callers, Forgets(c) PROVE CacheInv'
  BY <1>0, <1>2, <1>7 DEF Forgets, Stores
<1>8. ASSUME NEW c \in Callers, Increments(c) PROVE CacheInv'
  <2> DEFINE k == call[c].key
  <2>1. /\ at[c] = "increment" /\ Ends(c) /\ Store!Watches /\ now' = now
        /\ k \in Keys /\ call[c].by \in Store!Ints
    BY <1>8 DEF Increments, CacheInv, CacheLocals, Call
  <2>2. CASE From(k).value \in Texts
    BY <1>0, <1>2, <1>8, <2>1, <2>2 DEF Increments
  <2>3. CASE From(k).value \notin Texts
    <3>1. entries' = [entries EXCEPT ![k] =
                        [From(k) EXCEPT !.value = Wrap(NumberOf(From(k).value) + call[c].by)]]
      BY <1>8, <2>3 DEF Increments, Stores
    <3>2. entries' \in [Keys -> Entry \cup {None}]
      BY <1>0, <2>1, <2>3, <3>1, CountFacts
    <3>3. QED
      BY <1>2, <2>1, <3>2
  <2>4. QED
    BY <2>2, <2>3
<1>9. CASE Sweeps \/ Closes
  BY <1>0, <1>9, NobodyKeeps DEF Sweeps, Closes
<1>10. CASE Passes
  <2>1. now' \in Nat /\ now' >= now
    BY <1>0, <1>10 DEF Passes
  <2>2. QED
    BY <1>0, <1>10, <2>1, NobodyKeeps DEF Passes
<1>11. CASE UNCHANGED cacheVars
  BY <1>11 DEF cacheVars, CacheInv, CacheTyped, CacheLocals, ReadWasThere, Expired
<1>12. QED
  BY <1>1, <1>3, <1>4, <1>5, <1>6, <1>7, <1>8, <1>9, <1>10, <1>11, GetReadsKeeps DEF CacheNext

-----------------------------------------------------------------------------
(* Each step as one of CacheStore.                                          *)

(* What a key has is None or a record of CacheStore.                        *)
LEMMA LiveFacts ==
  ASSUME CacheInv, NEW k \in Keys
  PROVE  /\ ~Gone(k) => /\ entries[k] \in Entry
                        /\ Live(k) = [value |-> entries[k].value, forever |-> entries[k].expires = 0]
                        /\ Live(k) # None
         /\ Gone(k) => Live(k) = None
<1>1. CASE Gone(k)
  BY <1>1 DEF Live
<1>2. CASE ~Gone(k)
  <2>1. entries[k] \in Entry
    BY <1>2 DEF Gone, CacheInv, CacheTyped
  <2>2. [value |-> entries[k].value, forever |-> entries[k].expires = 0] \in [value : Values, forever : BOOLEAN]
    BY <2>1 DEF Entry
  <2>3. QED
    BY <1>2, <2>1, <2>2, CacheFacts DEF Live
<1>3. QED
  BY <1>1, <1>2

(* Values that stay in the map are there as long as the clock stands.       *)
LEMMA LiveStays ==
  ASSUME UNCHANGED now, NEW k \in Keys, entries'[k] = entries[k]
  PROVE  Live(k)' = Live(k)
BY DEF Live, Gone, Expired

(* A step of a caller outside Get that leaves map and answers alone.        *)
LEMMA CallerIsQuiet ==
  ASSUME CacheInv, NEW c \in Callers, UNCHANGED <<entries, now, answer>>, Store!Watches,
         NEW place, at' = [at EXCEPT ![c] = place],
         \A d \in Callers \ {c} : call'[d] = call[d],
         Reading(c)' = Reading(c)
  PROVE  Store!StoreNext
<1>1. \A k \in Keys : Live(k)' = Live(k)
  BY LiveStays
<1>2. \A d \in Callers \ {c} : Reading(d)' = Reading(d)
  BY DEF Reading, CacheInv, CacheTyped
<1>3. \A d \in Callers : Reading(d)' = Reading(d)
  BY <1>2
<1>4. QED
  BY <1>1, <1>3, QuietImplements

(* What changes one key of the map outside Get and nothing else.            *)
LEMMA OneKeyChanges ==
  ASSUME CacheInv, NEW c \in Callers, at[c] \notin {"read", "check"}, Ends(c),
         NEW k \in Keys, NEW e, Stores(k, e), UNCHANGED now
  PROVE  /\ [j \in Keys |-> Live(j)]' = [[j \in Keys |-> Live(j)] EXCEPT ![k] = Live(k)']
         /\ [d \in Callers |-> Reading(d)]' = [d \in Callers |-> Reading(d)]
         /\ entries'[k] = e
<1>1. entries'[k] = e /\ \A j \in Keys \ {k} : entries'[j] = entries[j]
  BY DEF Stores, CacheInv, CacheTyped
<1>2. \A j \in Keys \ {k} : Live(j)' = Live(j)
  BY <1>1, LiveStays
<1>3. \A d \in Callers : Reading(d)' = Reading(d)
  BY DEF Ends, Moves, Reading, CacheInv, CacheTyped
<1>4. QED
  BY <1>1, <1>2, <1>3

LEMMA SetImplements == ASSUME CacheInv, NEW c \in Callers, SetStores(c) PROVE Store!StoreNext
<1> DEFINE data == [j \in Keys |-> Live(j)]
<1>0. /\ held[c] \in Entry /\ call[c].key \in Keys
  BY DEF SetStores, CacheInv, CacheLocals, Call
<1>k. PICK k \in Keys : k = call[c].key
  BY <1>0
<1>e. PICK e \in Entry : e = held[c]
  BY <1>0
<1> DEFINE v == e.value
           forever == e.expires = 0
<1>1. at[c] = "store" /\ Ends(c) /\ Stores(k, e) /\ UNCHANGED <<now, answer>> /\ Store!Watches
  BY <1>k, <1>e DEF SetStores
<1>2. v \in Values /\ e.expires \in Nat /\ forever \in BOOLEAN
  BY DEF Entry
<1>3. /\ data' = [data EXCEPT ![k] = Live(k)'] /\ entries'[k] = e
      /\ [d \in Callers |-> Reading(d)]' = [d \in Callers |-> Reading(d)]
  BY <1>1, <1>2, OneKeyChanges
<1>4. e # None
  BY CacheFacts
<1>5. Live(k)' = IF Expired(e) THEN None ELSE [value |-> v, forever |-> forever]
  BY <1>1, <1>3, <1>4 DEF Live, Gone, Expired
<1>6. forever => ~Expired(e)
  BY DEF Expired
<1>7. Store!Keeps(k, [value |-> v, forever |-> forever]) \/ (~forever /\ Store!Keeps(k, None))
  <2>1. CASE Expired(e)
    <3>1. data' = [data EXCEPT ![k] = None] /\ ~forever
      BY <1>3, <1>5, <1>6, <2>1
    <3>2. QED
      BY <1>1, <1>3, <3>1 DEF Store!Keeps
  <2>2. CASE ~Expired(e)
    <3>1. data' = [data EXCEPT ![k] = [value |-> v, forever |-> forever]]
      BY <1>3, <1>5, <2>2
    <3> HIDE DEF v, forever
    <3>2. QED
      BY <1>1, <1>3, <3>1 DEF Store!Keeps
  <2>3. QED
    BY <2>1, <2>2
<1>8. Store!Set(k, v, forever)
  BY <1>7 DEF Store!Set
<1>9. QED
  BY <1>2, <1>8 DEF Store!StoreNext, Values

LEMMA ForgetImplements == ASSUME CacheInv, NEW c \in Callers, Forgets(c) PROVE Store!StoreNext
<1> DEFINE data == [j \in Keys |-> Live(j)]
<1>k. PICK k \in Keys : k = call[c].key
  BY DEF Forgets, CacheInv, CacheLocals, Call
<1>1. at[c] = "forget" /\ Ends(c) /\ Stores(k, None) /\ UNCHANGED <<now, answer>> /\ Store!Watches
  BY <1>k DEF Forgets
<1>2. /\ data' = [data EXCEPT ![k] = Live(k)'] /\ entries'[k] = None
      /\ [d \in Callers |-> Reading(d)]' = [d \in Callers |-> Reading(d)]
  BY <1>1, OneKeyChanges
<1>3. Live(k)' = None
  BY <1>2 DEF Live, Gone
<1>4. Store!Forget(k)
  BY <1>1, <1>2, <1>3 DEF Store!Forget, Store!Keeps
<1>5. QED
  BY <1>1, <1>4 DEF Store!StoreNext

LEMMA IncrementImplements ==
  ASSUME CacheInv, NEW c \in Callers, Increments(c) PROVE Store!StoreNext \/ CountsInstead
<1> DEFINE data == [j \in Keys |-> Live(j)]
           asked == [d \in Callers |-> Reading(d)]
           by == call[c].by
<1>k. PICK k \in Keys : k = call[c].key
  BY DEF Increments, CacheInv, CacheLocals, Call
<1> DEFINE sum == Wrap(NumberOf(From(k).value) + by)
<1>1. /\ at[c] = "increment" /\ Ends(c) /\ UNCHANGED now /\ Store!Watches
      /\ by \in Store!Ints /\ Reading(c)' = Reading(c)
      /\ asked[c] = None
  BY DEF Increments, CacheInv, CacheTyped, CacheLocals, Call, Ends, Moves, Reading
<1>2. CASE From(k).value \in Texts
  <2>1. UNCHANGED <<entries, answer>> /\ \A d \in Callers \ {c} : call'[d] = call[d]
    BY <1>k, <1>1, <1>2 DEF Increments, Ends, CacheInv, CacheTyped
  <2>2. at' = [at EXCEPT ![c] = "idle"]
    BY <1>1 DEF Ends, Moves
  <2>3. QED
    BY <1>1, <2>1, <2>2, CallerIsQuiet
<1>3. CASE From(k).value \notin Texts
  <2>1. Stores(k, [From(k) EXCEPT !.value = sum]) /\ answer' = [answer EXCEPT ![c] = sum]
    BY <1>k, <1>3 DEF Increments
  <2>2. /\ data' = [data EXCEPT ![k] = Live(k)'] /\ entries'[k] = [From(k) EXCEPT !.value = sum]
        /\ asked' = asked
    BY <1>1, <2>1, OneKeyChanges
  <2>3. From(k) \in Entry /\ [From(k) EXCEPT !.value = sum] \in Entry
    BY <1>1, <1>3, CountFacts
  <2>4. [From(k) EXCEPT !.value = sum] # None /\ ~Expired(From(k))
    BY <2>3, CacheFacts DEF From, Gone, Expired
  <2>5. Live(k)' = [value |-> sum, forever |-> From(k).expires = 0]
    BY <1>1, <2>2, <2>3, <2>4 DEF Live, Gone, Expired, Entry
  <2> DEFINE n == IF Live(k) = None THEN 0 ELSE NumberOf(Live(k).value)
  <2>6. /\ Live(k) # None => Live(k).value = From(k).value
        /\ n = NumberOf(From(k).value)
        /\ Live(k)' = [value |-> sum, forever |-> IF Live(k) = None THEN TRUE ELSE Live(k).forever]
    <3>1. CASE Gone(k)
      <4>1. From(k) = [value |-> Blank, expires |-> 0] /\ Live(k) = None
        BY <3>1 DEF From, Live
      <4>2. (From(k).expires = 0) = TRUE /\ From(k).value = Blank
        BY <4>1
      <4>3. n = NumberOf(From(k).value)
        BY <4>1, <4>2 DEF NumberOf
      <4>4. (IF Live(k) = None THEN TRUE ELSE Live(k).forever) = TRUE
        BY <4>1
      <4>5. QED
        BY <2>5, <4>1, <4>2, <4>3, <4>4
    <3>2. CASE ~Gone(k)
      <4>1. From(k) = entries[k] /\ Live(k) = [value |-> From(k).value, forever |-> From(k).expires = 0] /\ Live(k) # None
        BY <1>1, <3>2, LiveFacts DEF From
      <4>2. PICK f : f = (From(k).expires = 0)
        OBVIOUS
      <4>3. Live(k) = [value |-> From(k).value, forever |-> f] /\ Live(k)' = [value |-> sum, forever |-> f]
        BY <2>5, <4>1, <4>2
      <4>4. Live(k).forever = f /\ Live(k).value = From(k).value
        BY <4>3
      <4>5. QED
        BY <4>1, <4>3, <4>4
    <3>3. QED
      BY <3>1, <3>2
  <2>7. From(k).value \in Store!Ints \cup {Blank}
    BY <1>3, <2>3, CacheFacts DEF Entry
  <2>8. n + by \in Int /\ sum = Wrap(n + by)
    <3>1. n \in Int /\ by \in Int
      BY <1>1, <1>3, <2>3, <2>6, CacheFacts DEF Entry
    <3>2. QED
      BY <2>6, <3>1
  <2>9. Store!Counts(c, k, sum)
    <3>1. data' = [data EXCEPT ![k] = [value |-> sum, forever |-> IF @ = None THEN TRUE ELSE @.forever]]
      BY <2>2, <2>6
    <3>2. QED
      BY <1>1, <2>1, <2>2, <3>1 DEF Store!Counts
  <2>10. CASE (Live(k) # None => Live(k).value # Blank) /\ n + by \in Store!Ints
    <3>1. sum = n + by
      BY <2>8, <2>10, CacheFacts
    <3>2. Store!CountOf(data[k]) = n
      BY <2>10 DEF Store!CountOf, NumberOf
    <3>3. data[k] # None => data[k].value \in Store!Ints
      BY <2>6, <2>7, <2>10
    <3>4. Store!Increment(c, k, by)
      BY <2>9, <2>10, <3>1, <3>2, <3>3 DEF Store!Increment
    <3>5. QED
      BY <1>1, <3>4 DEF Store!StoreNext
  <2>11. CASE ~((Live(k) # None => Live(k).value # Blank) /\ n + by \in Store!Ints)
    <3>1. Live(k) # None => Live(k).value \in Store!Ints \cup {Blank}
      BY <2>6, <2>7
    <3>2. n + by \in Store!Ints => Live(k) # None /\ Live(k).value = Blank
      BY <2>11
    <3>3. Store!Counts(c, k, Wrap(n + by))
      BY <2>8, <2>9
    <3>4. QED
      BY <1>1, <3>1, <3>2, <3>3 DEF CountsInstead
  <2>12. QED
    BY <2>10, <2>11
<1>4. QED
  BY <1>2, <1>3

(* The call is over, or a Get has begun: CacheStore's Drop and Ask.         *)
LEMMA CallImplements ==
  ASSUME CacheInv, NEW c \in Callers, NEW q \in Calls, CallStarts(c, q) PROVE Store!StoreNext
<1> DEFINE data == [j \in Keys |-> Live(j)]
           asked == [d \in Callers |-> Reading(d)]
<1>1. /\ at[c] = "idle" /\ at' = [at EXCEPT ![c] = First(q.op)] /\ call' = [call EXCEPT ![c] = q]
      /\ answer' = [answer EXCEPT ![c] = None] /\ UNCHANGED <<entries, now>> /\ Store!Watches
      /\ q \in Call
  BY CacheFacts DEF CallStarts, Moves
<1>2. data' = data
  BY <1>1, LiveStays
<1>3. asked[c] = None /\ q.key \in Keys
  BY <1>1 DEF Reading, Call
<1>4. \A d \in Callers \ {c} : Reading(d)' = Reading(d)
  BY <1>1 DEF Reading, CacheInv, CacheTyped
<1>5. at'[c] = First(q.op) /\ call'[c] = q
  BY <1>1 DEF CacheInv, CacheTyped
<1>6. CASE First(q.op) = "read"
  <2>1. Reading(c)' = q.key
    BY <1>5, <1>6 DEF Reading
  <2>2. asked' = [asked EXCEPT ![c] = q.key]
    BY <1>4, <2>1
  <2>3. Store!Ask(c, q.key)
    BY <1>1, <1>2, <1>3, <2>2 DEF Store!Ask
  <2>4. QED
    BY <1>3, <2>3 DEF Store!StoreNext
<1>7. CASE First(q.op) \in {"stamp", "forget", "increment"}
  <2>1. Reading(c)' = None
    BY <1>5, <1>7 DEF Reading
  <2>2. asked' = asked
    BY <1>3, <1>4, <2>1
  <2>3. Store!Drop(c)
    BY <1>1, <1>2, <1>3, <2>2 DEF Store!Drop
  <2>4. QED
    BY <2>3 DEF Store!StoreNext
<1>8. QED
  BY <1>1, <1>6, <1>7 DEF First, Call

LEMMA AnswerImplements == ASSUME CacheInv, NEW c \in Callers, GetReturns(c) PROVE Store!StoreNext
<1> DEFINE data == [j \in Keys |-> Live(j)]
           asked == [d \in Callers |-> Reading(d)]
<1>1. /\ at[c] = "check" /\ UNCHANGED <<entries, now>> /\ Store!Watches
      /\ answer' = [answer EXCEPT ![c] = IF Hits(held[c]) THEN held[c].value ELSE None]
      /\ at'[c] \notin {"read", "check"}
      /\ \A d \in Callers \ {c} : at'[d] = at[d] /\ call'[d] = call[d]
  BY DEF GetReturns, Ends, Moves, CacheInv, CacheTyped
<1>2. data' = data
  BY <1>1, LiveStays
<1>3. call[c].key \in Keys /\ asked[c] # None
  BY <1>1, CacheFacts DEF CacheInv, CacheLocals, Call, Reading
<1>4. asked' = [asked EXCEPT ![c] = None]
  <2>1. Reading(c)' = None /\ \A d \in Callers \ {c} : Reading(d)' = Reading(d)
    BY <1>1 DEF Reading
  <2>2. QED
    BY <2>1
<1>5. PICK v \in recent[c] \cup {None} : v = IF Hits(held[c]) THEN held[c].value ELSE None
  BY <1>1 DEF CacheInv, ReadWasThere, Hits
<1>6. \E w \in recent[c] \cup {None} : answer' = [answer EXCEPT ![c] = w]
  BY <1>1, <1>5
<1>7. Store!Answer(c)
  BY <1>1, <1>2, <1>3, <1>4, <1>6 DEF Store!Answer
<1>8. QED
  BY <1>7 DEF Store!StoreNext

(* What the janitor removes is gone already.                                *)
LEMMA SweepImplements == ASSUME CacheInv, Sweeps \/ Closes PROVE Store!StoreNext
<1>1. /\ UNCHANGED <<now, at, call, answer>> /\ Store!Watches
      /\ \A k \in Keys : entries'[k] = entries[k] \/ (Gone(k) /\ entries'[k] = None)
  BY DEF Sweeps, Closes
<1>2. \A k \in Keys : Live(k)' = Live(k)
  <2>1. SUFFICES ASSUME NEW k \in Keys PROVE Live(k)' = Live(k)
    OBVIOUS
  <2>2. CASE entries'[k] = entries[k]
    BY <1>1, <2>2, LiveStays
  <2>3. CASE Gone(k) /\ entries'[k] = None
    BY <2>3 DEF Live, Gone
  <2>4. QED
    BY <1>1, <2>2, <2>3
<1>3. \A c \in Callers : Reading(c)' = Reading(c)
  BY <1>1 DEF Reading
<1>4. QED
  BY <1>1, <1>2, <1>3, QuietImplements

(* What the clock takes away was not for ever.                              *)
LEMMA PassImplements == ASSUME CacheInv, Passes PROVE Store!StoreNext
<1> DEFINE data == [j \in Keys |-> Live(j)]
           asked == [d \in Callers |-> Reading(d)]
           S == {k \in Keys : ~Gone(k) /\ entries[k].expires # 0 /\ now + 1 > entries[k].expires}
<1>1. now' = now + 1 /\ now \in Nat /\ UNCHANGED <<entries, at, call, answer>> /\ Store!Watches
  BY DEF Passes, CacheInv, CacheTyped
<1>2. ASSUME NEW k \in Keys PROVE Live(k)' = IF k \in S THEN None ELSE Live(k)
  <2>1. CASE entries[k] = None
    BY <1>1, <2>1 DEF Live, Gone
  <2>2. CASE entries[k] # None
    <3>1. entries[k].expires \in Nat
      BY <2>2 DEF CacheInv, CacheTyped, Entry
    <3>2. CASE k \in S
      BY <1>1, <2>2, <3>1, <3>2 DEF Live, Gone, Expired
    <3>3. CASE k \notin S
      <4>1. Gone(k)' = Gone(k)
        BY <1>1, <2>2, <3>1, <3>3 DEF Gone, Expired
      <4>2. QED
        BY <1>1, <3>3, <4>1 DEF Live
    <3>4. QED
      BY <3>2, <3>3
  <2>3. QED
    BY <2>1, <2>2
<1>3. ASSUME NEW k \in S PROVE k \in Keys /\ data[k] # None /\ ~data[k].forever
  <2>1. k \in Keys /\ ~Gone(k) /\ entries[k].expires # 0
    OBVIOUS
  <2>2. /\ Live(k) = [value |-> entries[k].value, forever |-> entries[k].expires = 0]
        /\ Live(k) # None
    BY <2>1, LiveFacts
  <2>3. (entries[k].expires = 0) = FALSE
    BY <2>1
  <2>4. Live(k) = [value |-> entries[k].value, forever |-> FALSE]
    BY <2>2, <2>3
  <2>5. ~Live(k).forever
    BY <2>4
  <2>6. QED
    BY <2>1, <2>2, <2>5
<1>4. data' = [k \in Keys |-> IF k \in S THEN None ELSE data[k]]
  BY <1>2
<1>5. asked' = asked
  BY <1>1 DEF Reading
<1>6. S \in SUBSET {k \in Keys : data[k] # None /\ ~data[k].forever}
  BY <1>3
<1>7. \E T \in SUBSET {k \in Keys : data[k] # None /\ ~data[k].forever} :
        data' = [k \in Keys |-> IF k \in T THEN None ELSE data[k]]
  BY <1>4, <1>6
<1>8. Store!Expire
  BY <1>1, <1>5, <1>7 DEF Store!Expire
<1>9. QED
  BY <1>8 DEF Store!StoreNext

(* Whatever is asked for, whoever else is at it and however long it takes:  *)
(* every step of the memory driver is one that CacheStore allows, or counts *)
(* where it has an error.                                                   *)
THEOREM CacheKeepsItsPromise == CacheSpec => ImplementsStore
<1>1. CacheInit => CacheInv
  <2>1. SUFFICES ASSUME CacheInit PROVE CacheInv
    OBVIOUS
  <2>2. CacheTyped
    BY <2>1 DEF CacheInit, CacheTyped
  <2>3. QED
    BY <2>1, <2>2 DEF CacheInit, CacheInv, CacheLocals, ReadWasThere
<1>2. CacheInit => Store!StoreInit
  <2>1. SUFFICES ASSUME CacheInit PROVE Store!StoreInit
    OBVIOUS
  <2>2. \A k \in Keys : Live(k) = None
    BY <2>1 DEF CacheInit, Live, Gone
  <2>3. \A c \in Callers : Reading(c) = None
    BY <2>1 DEF CacheInit, Reading
  <2>4. QED
    BY <2>1, <2>2, <2>3 DEF CacheInit, Store!StoreInit
<1>3. CacheInv /\ [CacheNext]_cacheVars => [Store!StoreNext \/ CountsInstead]_(Store!storeVars)
  <2> SUFFICES ASSUME CacheInv, [CacheNext]_cacheVars
              PROVE  Store!StoreNext \/ CountsInstead \/ UNCHANGED Store!storeVars
    OBVIOUS
  <2>1. ASSUME NEW c \in Callers, GetReads(c) PROVE Store!StoreNext
    <3>1. /\ at' = [at EXCEPT ![c] = "check"] /\ at[c] = "read" /\ UNCHANGED <<entries, now, answer, call>>
          /\ Store!Watches
      BY <2>1 DEF GetReads, Moves
    <3>2. Reading(c)' = Reading(c)
      BY <3>1 DEF Reading, CacheInv, CacheTyped
    <3>3. QED
      BY <3>1, <3>2, CallerIsQuiet
  <2>2. ASSUME NEW c \in Callers, NEW place \in {"idle", "stamp", "store"},
               at' = [at EXCEPT ![c] = place], at[c] \in {"compute", "stamp"},
               UNCHANGED <<entries, now, answer>>, Store!Watches,
               \A d \in Callers \ {c} : call'[d] = call[d]
        PROVE  Store!StoreNext
    <3>1. Reading(c)' = Reading(c)
      BY <2>2 DEF Reading, CacheInv, CacheTyped
    <3>2. QED
      BY <2>2, <3>1, CallerIsQuiet
  <2>3. ASSUME NEW c \in Callers, Computes(c) \/ SetStamps(c) PROVE Store!StoreNext
    <3>1. /\ at[c] \in {"compute", "stamp"} /\ UNCHANGED <<entries, now, answer>> /\ Store!Watches
          /\ \A d \in Callers \ {c} : call'[d] = call[d]
      BY <2>3 DEF Computes, SetStamps, Ends, CacheInv, CacheTyped
    <3>2. \E place \in {"idle", "stamp", "store"} : at' = [at EXCEPT ![c] = place]
      BY <2>3 DEF Computes, SetStamps, Ends, Moves
    <3>3. QED
      BY <2>2, <3>1, <3>2
  <2>4. CASE UNCHANGED cacheVars
    <3>1. /\ \A k \in Keys : Live(k)' = Live(k)
          /\ \A c \in Callers : Reading(c)' = Reading(c)
      BY <2>4 DEF cacheVars, Live, Gone, Expired, Reading
    <3>2. UNCHANGED Store!storeVars
      BY <2>4, <3>1 DEF cacheVars, Store!storeVars
    <3>3. QED
      BY <3>2
  <2>5. QED
    BY <2>1, <2>3, <2>4, CallImplements, AnswerImplements, SetImplements, ForgetImplements,
       IncrementImplements, SweepImplements, PassImplements DEF CacheNext
<1>4. QED
  BY <1>1, <1>2, <1>3, CacheStep, PTL DEF CacheSpec, ImplementsStore

-----------------------------------------------------------------------------
(* The event bus.                                                           *)

Rising(s) == \A i, j \in DOMAIN s : i < j => s[i] < s[j]

(* What stays when a subscription is taken out of the list.                 *)
LEMMA RemoveAtFacts ==
  ASSUME NEW S, NEW s \in Seq(S), NEW k \in 1..Len(s)
  PROVE  /\ RemoveAt(s, k) \in Seq(S)
         /\ Len(RemoveAt(s, k)) = Len(s) - 1
         /\ \A i \in 1..(Len(s) - 1) : RemoveAt(s, k)[i] = IF i < k THEN s[i] ELSE s[i + 1]
<1> DEFINE a == SubSeq(s, 1, k - 1)
           b == SubSeq(s, k + 1, Len(s))
<1>1. /\ a \in Seq(S) /\ Len(a) = k - 1
      /\ \A i \in 1..(k - 1) : a[i] = s[i]
  <2>1. \A i \in 1..(k - 1) : s[i] \in S
    OBVIOUS
  <2>2. /\ a \in Seq(S)
        /\ Len(a) = IF 1 <= k - 1 THEN (k - 1) - 1 + 1 ELSE 0
        /\ \A i \in 1..((k - 1) - 1 + 1) : a[i] = s[1 + i - 1]
    BY <2>1, SubSeqProperties
  <2> HIDE DEF a
  <2>3. QED
    BY <2>2
<1>2. /\ b \in Seq(S) /\ Len(b) = Len(s) - k
      /\ \A i \in 1..(Len(s) - k) : b[i] = s[k + i]
  <2>1. \A i \in (k + 1)..Len(s) : s[i] \in S
    OBVIOUS
  <2>2. /\ b \in Seq(S)
        /\ Len(b) = IF k + 1 <= Len(s) THEN Len(s) - (k + 1) + 1 ELSE 0
        /\ \A i \in 1..(Len(s) - (k + 1) + 1) : b[i] = s[k + 1 + i - 1]
    BY <2>1, SubSeqProperties
  <2> HIDE DEF b
  <2>3. QED
    BY <2>2
<1>3. RemoveAt(s, k) = a \o b
  BY DEF RemoveAt
<1> HIDE DEF a, b
<1>4. /\ a \o b \in Seq(S) /\ Len(a \o b) = Len(s) - 1
      /\ \A i \in 1..(Len(s) - 1) : (a \o b)[i] = IF i <= k - 1 THEN a[i] ELSE b[i - (k - 1)]
  BY <1>1, <1>2, ConcatProperties
<1>5. ASSUME NEW i \in 1..(Len(s) - 1) PROVE (a \o b)[i] = IF i < k THEN s[i] ELSE s[i + 1]
  <2>1. Len(s) \in Nat /\ k \in Nat
    OBVIOUS
  <2>2. CASE i < k
    <3>1. i <= k - 1 /\ i \in 1..(k - 1)
      BY <2>1, <2>2
    <3>2. QED
      BY <1>1, <1>4, <2>2, <3>1
  <2>3. CASE ~(i < k)
    <3>1. ~(i <= k - 1) /\ i - (k - 1) \in 1..(Len(s) - k) /\ k + (i - (k - 1)) = i + 1
      BY <2>1, <2>3
    <3>2. (a \o b)[i] = b[i - (k - 1)] /\ b[i - (k - 1)] = s[k + (i - (k - 1))]
      BY <1>2, <1>4, <3>1
    <3>3. QED
      BY <2>3, <3>1, <3>2
  <2>4. QED
    BY <2>2, <2>3
<1>6. QED
  BY <1>3, <1>4, <1>5

BusTyped ==
  /\ nextID \in Nat /\ handlers \in Seq(Nat)
  /\ emitting \in [Emitters -> BOOLEAN] /\ emits \in [Emitters -> Nat]
  /\ snapshot \in [Emitters -> Seq(Nat)] /\ called \in [Emitters -> Seq(Nat)]
  /\ constant \in [Emitters -> SUBSET Nat]

(* The list is in the order of the calls of On.                             *)
InOrder == Rising(handlers) /\ \A i \in DOMAIN handlers : handlers[i] <= nextID

(* What one Emit has called comes before what it has still to call, and     *)
(* whoever stayed is one or the other.                                      *)
Emission(e) ==
  /\ Rising(called[e]) /\ Rising(snapshot[e])
  /\ \A i \in DOMAIN called[e], j \in DOMAIN snapshot[e] : called[e][i] < snapshot[e][j]
  /\ constant[e] \subseteq ToSet(called[e]) \cup ToSet(snapshot[e])
  /\ ~emitting[e] => snapshot[e] = <<>>

BusInv == BusTyped /\ InOrder /\ \A e \in Emitters : Emission(e)

LEMMA EmissionStays ==
  ASSUME NEW e \in Emitters, Emission(e), constant'[e] \subseteq constant[e],
         UNCHANGED <<called[e], snapshot[e], emitting[e]>>
  PROVE  Emission(e)'
BY DEF Emission, Rising, ToSet

LEMMA BusStep == BusInv /\ [BusNext]_busVars => BusInv'
<1> SUFFICES ASSUME BusInv, [BusNext]_busVars PROVE BusInv'
  OBVIOUS
<1>1. BusTyped /\ InOrder /\ \A e \in Emitters : Emission(e)
  BY DEF BusInv
<1>2. CASE On
  <2>1. /\ nextID' = nextID + 1 /\ handlers' = Append(handlers, nextID')
        /\ UNCHANGED <<emitting, snapshot, failed, emits, called, constant>>
    BY <1>2 DEF On
  <2>2. nextID \in Nat /\ handlers \in Seq(Nat)
    BY <1>1 DEF BusTyped
  <2>3. /\ handlers' \in Seq(Nat) /\ Len(handlers') = Len(handlers) + 1
        /\ \A i \in 1..Len(handlers) : handlers'[i] = handlers[i]
        /\ handlers'[Len(handlers) + 1] = nextID + 1
    BY <2>1, <2>2
  <2>4. \A i \in 1..Len(handlers) : handlers[i] \in Nat /\ handlers[i] <= nextID
    BY <1>1, <2>2 DEF InOrder
  <2>5. InOrder'
    BY <1>1, <2>1, <2>2, <2>3, <2>4 DEF InOrder, Rising
  <2>6. BusTyped'
    BY <1>1, <2>1, <2>2, <2>3 DEF BusTyped
  <2>7. \A e \in Emitters : Emission(e)'
    BY <1>1, <2>1, EmissionStays
  <2>8. QED
    BY <2>5, <2>6, <2>7 DEF BusInv
<1>3. ASSUME NEW id \in 1..MaxHandlers, Unsubscribe(id) PROVE BusInv'
  <2>1. PICK k \in DOMAIN handlers : handlers' = RemoveAt(handlers, k)
    BY <1>3 DEF Unsubscribe
  <2>2. /\ constant' = [e \in Emitters |-> constant[e] \ {id}]
        /\ UNCHANGED <<nextID, emitting, snapshot, failed, emits, called>>
    BY <1>3 DEF Unsubscribe
  <2>3. nextID \in Nat /\ handlers \in Seq(Nat) /\ k \in 1..Len(handlers)
    BY <1>1, <2>1 DEF BusTyped
  <2>4. /\ handlers' \in Seq(Nat) /\ Len(handlers') = Len(handlers) - 1
        /\ \A i \in 1..(Len(handlers) - 1) :
             handlers'[i] = IF i < k THEN handlers[i] ELSE handlers[i + 1]
    BY <2>1, <2>3, RemoveAtFacts
  <2>5. /\ Rising(handlers)' /\ \A i \in DOMAIN handlers' : handlers'[i] <= nextID
    <3>1. DOMAIN handlers' = 1..(Len(handlers) - 1) /\ DOMAIN handlers = 1..Len(handlers)
      BY <2>3, <2>4
    <3>2. ASSUME NEW i \in DOMAIN handlers'
          PROVE  \E x \in DOMAIN handlers : /\ handlers'[i] = handlers[x]
                                            /\ x = IF i < k THEN i ELSE i + 1
      <4>1. i \in 1..(Len(handlers) - 1) /\ Len(handlers) \in Nat
        BY <2>3, <3>1
      <4>2. i \in DOMAIN handlers /\ i + 1 \in DOMAIN handlers
        BY <3>1, <4>1
      <4>3. handlers'[i] = IF i < k THEN handlers[i] ELSE handlers[i + 1]
        BY <2>4, <4>1
      <4>4. QED
        BY <4>2, <4>3
    <3>3. ASSUME NEW i \in DOMAIN handlers', NEW j \in DOMAIN handlers', i < j
          PROVE  handlers'[i] < handlers'[j]
      <4>1. PICK x, y \in DOMAIN handlers : /\ handlers'[i] = handlers[x] /\ handlers'[j] = handlers[y]
                                            /\ x = (IF i < k THEN i ELSE i + 1)
                                            /\ y = (IF j < k THEN j ELSE j + 1)
        BY <3>2
      <4>2. x < y
        BY <2>3, <3>1, <3>3, <4>1
      <4>3. QED
        BY <1>1, <4>1, <4>2 DEF InOrder, Rising
    <3>4. QED
      BY <1>1, <3>2, <3>3 DEF InOrder, Rising
  <2>6. BusTyped'
    BY <1>1, <2>2, <2>4 DEF BusTyped
  <2>7. \A e \in Emitters : Emission(e)'
    BY <1>1, <2>2, EmissionStays
  <2>8. QED
    BY <2>2, <2>5, <2>6, <2>7 DEF BusInv, InOrder
<1>4. ASSUME NEW e \in Emitters, EmitStarts(e) PROVE BusInv'
  <2>1. /\ emitting' = [emitting EXCEPT ![e] = TRUE] /\ snapshot' = [snapshot EXCEPT ![e] = handlers]
        /\ emits' = [emits EXCEPT ![e] = @ + 1] /\ called' = [called EXCEPT ![e] = <<>>]
        /\ constant' = [constant EXCEPT ![e] = ToSet(handlers)]
        /\ UNCHANGED <<nextID, handlers>>
    BY <1>4 DEF EmitStarts
  <2>2. handlers \in Seq(Nat) /\ ToSet(handlers) \subseteq Nat
    BY <1>1 DEF BusTyped, ToSet
  <2>3. BusTyped' /\ InOrder'
    BY <1>1, <2>1, <2>2 DEF BusTyped, InOrder, Rising
  <2>4. /\ called'[e] = <<>> /\ snapshot'[e] = handlers /\ constant'[e] = ToSet(handlers)
        /\ emitting'[e] = TRUE
    BY <1>1, <2>1 DEF BusTyped
  <2>5. Emission(e)'
    BY <1>1, <2>4 DEF Emission, Rising, InOrder, ToSet
  <2>6. ASSUME NEW x \in Emitters, x # e PROVE Emission(x)'
    BY <1>1, <2>1, <2>6, EmissionStays DEF BusTyped
  <2>7. QED
    BY <2>3, <2>5, <2>6 DEF BusInv
<1>5. ASSUME NEW e \in Emitters, HandlerReturns(e) PROVE BusInv'
  <2>1. /\ emitting[e] /\ snapshot[e] # <<>>
        /\ snapshot' = [snapshot EXCEPT ![e] = Tail(@)]
        /\ called' = [called EXCEPT ![e] = Append(@, Head(snapshot[e]))]
        /\ UNCHANGED <<nextID, handlers, emitting, emits, constant>>
    BY <1>5 DEF HandlerReturns, Rest
  <2>2. snapshot[e] \in Seq(Nat) /\ called[e] \in Seq(Nat)
    BY <1>1 DEF BusTyped
  <2>3. PICK s \in Seq(Nat), c \in Seq(Nat) : s = snapshot[e] /\ c = called[e]
    BY <2>2
  <2>4. /\ Tail(s) \in Seq(Nat) /\ Len(Tail(s)) = Len(s) - 1
        /\ \A i \in 1..(Len(s) - 1) : Tail(s)[i] = s[i + 1]
        /\ Head(s) = s[1] /\ s[1] \in Nat
    BY <2>1, <2>3
  <2>5. /\ Append(c, s[1]) \in Seq(Nat) /\ Len(Append(c, s[1])) = Len(c) + 1
        /\ \A i \in 1..Len(c) : Append(c, s[1])[i] = c[i]
        /\ Append(c, s[1])[Len(c) + 1] = s[1]
    BY <2>3, <2>4
  <2>6. snapshot'[e] = Tail(s) /\ called'[e] = Append(c, s[1])
    BY <1>1, <2>1, <2>3, <2>4 DEF BusTyped
  <2>7. BusTyped' /\ InOrder'
    BY <1>1, <2>1, <2>3, <2>4, <2>5 DEF BusTyped, InOrder, Rising
  <2>8. Emission(e)'
    <3>1. /\ Rising(c) /\ Rising(s) /\ constant[e] \subseteq ToSet(c) \cup ToSet(s)
          /\ \A i \in DOMAIN c, j \in DOMAIN s : c[i] < s[j]
      BY <1>1, <2>3 DEF Emission
    <3>2. DOMAIN c = 1..Len(c) /\ DOMAIN s = 1..Len(s) /\ Len(s) \in Nat \ {0} /\ Len(c) \in Nat
      BY <2>1, <2>3
    <3>3. DOMAIN Tail(s) = 1..(Len(s) - 1) /\ DOMAIN Append(c, s[1]) = 1..(Len(c) + 1)
      BY <2>4, <2>5
    <3>4. \A i \in 1..Len(c) : c[i] < s[1]
      <4>1. 1 \in DOMAIN s /\ DOMAIN c = 1..Len(c)
        BY <3>2
      <4>2. QED
        BY <3>1, <4>1
    <3>5. \A j \in 1..(Len(s) - 1) : s[1] < s[j + 1]
      BY <3>1, <3>2 DEF Rising
    <3>6. Rising(Tail(s))
      BY <2>4, <3>1, <3>2, <3>3 DEF Rising
    <3>7. Rising(Append(c, s[1]))
      <4>1. ASSUME NEW i \in 1..Len(c), NEW j \in 1..(Len(c) + 1), i < j
            PROVE  Append(c, s[1])[i] < Append(c, s[1])[j]
        <5>1. CASE j = Len(c) + 1
          BY <2>5, <3>4, <5>1
        <5>2. CASE j # Len(c) + 1
          <6>1. i \in 1..Len(c) /\ j \in 1..Len(c)
            BY <3>2, <5>2
          <6>2. Append(c, s[1])[i] = c[i] /\ Append(c, s[1])[j] = c[j]
            BY <2>5, <6>1
          <6>3. c[i] < c[j]
            BY <3>1, <3>2, <4>1, <6>1 DEF Rising
          <6>4. QED
            BY <6>2, <6>3
        <5>3. QED
          BY <5>1, <5>2
      <4>2. QED
        BY <3>2, <3>3, <4>1 DEF Rising
    <3>8. ASSUME NEW i \in 1..(Len(c) + 1), NEW j \in 1..(Len(s) - 1)
          PROVE  Append(c, s[1])[i] < Tail(s)[j]
      <4>1. CASE i = Len(c) + 1
        BY <2>4, <2>5, <3>5, <4>1
      <4>2. CASE i # Len(c) + 1
        BY <2>4, <2>5, <3>1, <3>2, <4>2
      <4>3. QED
        BY <4>1, <4>2
    <3>9. ASSUME NEW h \in constant[e] PROVE h \in ToSet(Append(c, s[1])) \cup ToSet(Tail(s))
      <4>1. CASE h \in ToSet(c)
        BY <2>5, <3>2, <3>3, <4>1 DEF ToSet
      <4>2. ASSUME NEW i \in 1..Len(s), h = s[i] PROVE h \in ToSet(Append(c, s[1])) \cup ToSet(Tail(s))
        <5>1. CASE i = 1
          <6>1. Len(c) + 1 \in DOMAIN Append(c, s[1]) /\ Append(c, s[1])[Len(c) + 1] = h
            BY <2>5, <3>2, <3>3, <4>2, <5>1
          <6>2. QED
            BY <6>1 DEF ToSet
        <5>2. CASE i # 1
          <6>1. i - 1 \in 1..(Len(s) - 1) /\ Tail(s)[i - 1] = h
            BY <2>4, <3>2, <4>2, <5>2
          <6>2. QED
            BY <3>3, <6>1 DEF ToSet
        <5>3. QED
          BY <5>1, <5>2
      <4>3. QED
        BY <3>1, <3>2, <4>1, <4>2 DEF ToSet
    <3>10. QED
      BY <2>1, <2>6, <3>3, <3>6, <3>7, <3>8, <3>9 DEF Emission, Rising, ToSet
  <2>9. ASSUME NEW x \in Emitters, x # e PROVE Emission(x)'
    BY <1>1, <2>1, <2>9, EmissionStays DEF BusTyped
  <2>10. QED
    BY <2>7, <2>8, <2>9 DEF BusInv
<1>6. ASSUME NEW e \in Emitters, EmitReturns(e) PROVE BusInv'
  <2>1. /\ snapshot[e] = <<>> /\ emitting' = [emitting EXCEPT ![e] = FALSE]
        /\ UNCHANGED <<nextID, handlers, snapshot, failed, emits, called, constant>>
    BY <1>6 DEF EmitReturns
  <2>2. BusTyped' /\ InOrder'
    BY <1>1, <2>1 DEF BusTyped, InOrder, Rising
  <2>3. \A x \in Emitters : Emission(x)'
    <3> SUFFICES ASSUME NEW x \in Emitters PROVE Emission(x)'
      OBVIOUS
    <3>1. /\ Emission(x) /\ UNCHANGED <<called[x], snapshot[x], constant[x]>>
          /\ emitting'[x] = emitting[x] \/ snapshot[x] = <<>>
      BY <1>1, <2>1 DEF BusTyped
    <3>2. QED
      BY <3>1 DEF Emission, Rising, ToSet
  <2>4. QED
    BY <2>2, <2>3 DEF BusInv
<1>7. CASE UNCHANGED busVars
  <2>1. UNCHANGED <<nextID, handlers, emitting, snapshot, failed, emits, called, constant>>
    BY <1>7 DEF busVars
  <2>2. BusTyped' /\ InOrder'
    BY <1>1, <2>1 DEF BusTyped, InOrder, Rising
  <2>3. \A x \in Emitters : Emission(x)'
    BY <1>1, <2>1, EmissionStays
  <2>4. QED
    BY <2>2, <2>3 DEF BusInv
<1>8. QED
  BY <1>2, <1>3, <1>4, <1>5, <1>6, <1>7 DEF BusNext

(* Every Emit calls its handlers in the order of their subscription, each   *)
(* once, and leaves out nobody who stayed subscribed, for any number of     *)
(* handlers and of Emits under way together.                                *)
THEOREM EveryoneIsReached == BusSpec => []EmitReachesEveryone
<1>1. BusInit => BusInv
  BY DEF BusInit, BusInv, BusTyped, InOrder, Emission, Rising, ToSet
<1>2. BusInv => EmitReachesEveryone
  <2> SUFFICES ASSUME BusInv, NEW e \in Emitters
      PROVE  /\ \A i, j \in DOMAIN called[e] : i < j => called[e][i] < called[e][j]
             /\ emits[e] > 0 /\ ~emitting[e] => constant[e] \subseteq ToSet(called[e])
    BY DEF EmitReachesEveryone
  <2>1. Emission(e)
    BY DEF BusInv
  <2>2. ToSet(<<>>) = {}
    BY DEF ToSet
  <2>3. QED
    BY <2>1, <2>2 DEF Emission, Rising
<1>3. QED
  BY <1>1, <1>2, BusStep, PTL DEF BusSpec

-----------------------------------------------------------------------------
(* The start of an application.                                             *)

(* The fields of the configuration that Load returns.                       *)
ConfigKeys ==
  {"development", "database", "origins", "proxies", "jwt", "session", "google", "github", "redirects", "cache",
   "queue", "redis", "workers", "limited", "perMinute", "burst", "maxBody", "timeouts", "metrics", "pprof", "docs",
   "title", "docsPath", "specPath", "docsLogin", "devtools", "devPath", "mail", "encryption", "port", "sender",
   "whatsapp", "cloud", "version", "storage", "endpoint", "bucket"}

(* What New gets from Load: a configuration that validate accepted.         *)
Accepted(c) ==
  /\ DOMAIN c = ConfigKeys
  /\ c.development \in BOOLEAN
  /\ {c.maxBody, c.perMinute, c.workers, c.port} \subseteq Int
  /\ ~Invalid(c)

(* There is no configuration before Load, and an accepted one after it.     *)
StartedInv ==
  /\ step = "dotenv" => cfg = NoConfig
  /\ step \in {"new", "wire", "running"} => Accepted(cfg)
  /\ WhatLoadAcceptsStarts

(* A number of the environment that Atoi reads is one.                      *)
LEMMA ReadsInt ==
  ASSUME NEW k \in Ints, NEW default \in Int, ~IllTyped
  PROVE  Read(k, default, IntOf) \in Int
  BY StartupAssumption DEF IllTyped, Unreadable, Read

(* What Load returns when validate finds nothing.                           *)
LEMMA LoadedAccepted ==
  ASSUME ~IllTyped, ~Invalid(Loaded)
  PROVE  Accepted(Loaded)
<1>1. DOMAIN Loaded = ConfigKeys
  BY DEF Loaded, ConfigKeys
<1>2. Loaded.development = Development /\ Development \in BOOLEAN
  BY DEF Loaded, Development
<1>3. /\ Loaded.maxBody = Read("MAX_BODY_BYTES", 1048576, IntOf)
      /\ Loaded.perMinute = Read("RATE_LIMIT_PER_MINUTE", 60, IntOf)
      /\ Loaded.workers = Read("QUEUE_CONCURRENCY", 10, IntOf)
      /\ Loaded.port = Read("MAIL_PORT", 0, IntOf)
  BY DEF Loaded
<1>4. {Loaded.maxBody, Loaded.perMinute, Loaded.workers, Loaded.port} \subseteq Int
  BY <1>3, ReadsInt DEF Ints
<1>5. QED
  BY <1>1, <1>2, <1>4 DEF Accepted

(* Options changes nothing of an accepted configuration but the title.      *)
LEMMA OptionsKeep ==
  ASSUME NEW c, Accepted(c)
  PROVE  \A k \in ConfigKeys \ {"title"} : Options(c)[k] = c[k]
<1>1. c.docsPath # "" /\ c.specPath # "" /\ c.devPath # ""
  BY StartupAssumption DEF Accepted, Invalid, BadDocs
<1>2. c.maxBody # 0
  <2>1. c.maxBody \in Int
    BY DEF Accepted
  <2>2. ~(c.maxBody <= 0)
    BY DEF Accepted, Invalid
  <2>3. QED
    BY <2>1, <2>2
<1>3. DOMAIN c = ConfigKeys
  BY DEF Accepted
<1>4. DOMAIN Defaults = {"docsPath", "specPath", "devPath", "title"}
  BY DEF Defaults
<1>5. ASSUME NEW k \in ConfigKeys, k # "title" PROVE Options(c)[k] = c[k]
  <2>1. Options(c)[k] = IF k \in DOMAIN Defaults THEN Or(c[k], Defaults[k])
                        ELSE IF k = "maxBody" /\ c[k] = 0 THEN 1048576 ELSE c[k]
    BY <1>3 DEF Options
  <2>2. CASE k \in {"docsPath", "specPath", "devPath"}
    <3>1. Options(c)[k] = Or(c[k], Defaults[k])
      BY <1>4, <2>1, <2>2
    <3>2. c[k] # ""
      BY <1>1, <2>2
    <3>3. QED
      BY <3>1, <3>2 DEF Or
  <2>3. CASE k = "maxBody"
    BY <1>2, <1>4, <2>1, <2>3
  <2>4. CASE k \notin {"docsPath", "specPath", "devPath", "maxBody"}
    BY <1>4, <1>5, <2>1, <2>4
  <2>5. QED
    BY <2>2, <2>3, <2>4
<1>6. QED
  BY <1>5

(* What New refuses of an accepted configuration is a proxy or a Redis URL. *)
LEMMA NewRefuses ==
  ASSUME NEW c, Accepted(c), NEW o, o = Options(c),
         BadOptions(o) \/ BadCache(o) \/ BadQueue(o) \/ BadPing(o)
  PROVE  Overlooked(c)
<1>1. \A k \in ConfigKeys \ {"title"} : o[k] = c[k]
  BY OptionsKeep
<1>2. /\ o.maxBody = c.maxBody /\ o.limited = c.limited /\ o.perMinute = c.perMinute
      /\ o.docs = c.docs /\ o.docsLogin = c.docsLogin /\ o.docsPath = c.docsPath
      /\ o.specPath = c.specPath /\ o.devtools = c.devtools /\ o.development = c.development
      /\ o.devPath = c.devPath /\ o.proxies = c.proxies /\ o.cache = c.cache
      /\ o.queue = c.queue /\ o.redis = c.redis /\ o.workers = c.workers
  BY <1>1 DEF ConfigKeys
<1>3. CASE BadOptions(o)
  <2>1. c.maxBody \in Int /\ c.perMinute \in Int
    BY DEF Accepted
  <2>2. ~(c.maxBody <= 0) /\ ~(c.limited /\ c.perMinute <= 0)
    BY DEF Accepted, Invalid
  <2>3. ~(o.maxBody < 1) /\ ~(o.limited /\ o.perMinute < 1)
    BY <1>2, <2>1, <2>2
  <2>4. ~(Half(o.docsLogin) \/ o.docsPath = o.specPath \/ ~({o.docsPath, o.specPath} \subseteq Rooted))
    BY <1>2 DEF Accepted, Invalid, BadDocs
  <2>5. ~(o.devtools /\ (~o.development \/ o.devPath \notin Rooted))
    BY <1>2 DEF Accepted, Invalid, BadDocs
  <2>6. QED
    BY <1>2, <1>3, <2>3, <2>4, <2>5 DEF BadOptions, Overlooked
<1>4. ASSUME "redis" \in {c.cache, c.queue} PROVE c.redis \in DOMAIN SchemeOf
  BY <1>4 DEF Accepted, Invalid, BadDrivers, RedisMissing
<1>5. CASE BadCache(o)
  BY <1>2, <1>4, <1>5 DEF BadCache, Accepted, Invalid, BadDrivers, Overlooked
<1>6. CASE BadQueue(o)
  <2>1. c.workers \in Int
    BY DEF Accepted
  <2>2. ~(c.workers < 1)
    BY DEF Accepted, Invalid, BadDrivers
  <2>3. ~(o.workers < 0)
    BY <1>2, <2>1, <2>2
  <2>4. QED
    BY <1>2, <1>4, <1>6, <2>3 DEF BadQueue, Accepted, Invalid, BadDrivers, Overlooked
<1>7. CASE BadPing(o)
  BY <1>2, <1>4, <1>7 DEF BadPing, Overlooked
<1>8. QED
  BY <1>3, <1>5, <1>6, <1>7

(* No step refuses what Load accepted for another reason.                   *)
LEMMA StartStep == StartedInv /\ [StartNext]_startVars => StartedInv'
<1> SUFFICES ASSUME StartedInv, [StartNext]_startVars PROVE StartedInv'
  OBVIOUS
<1> USE DEF StartedInv
<1>1. CASE UNCHANGED startVars
  <2>1. step' = step /\ cfg' = cfg /\ refused' = refused
    BY <1>1 DEF startVars
  <2>2. PICK c : c = cfg
    OBVIOUS
  <2>3. cfg' = c
    BY <2>1, <2>2
  <2>4. step' \in {"new", "wire", "running"} => Accepted(cfg')
    BY <2>1, <2>2, <2>3
  <2>5. WhatLoadAcceptsStarts'
    BY <2>1 DEF WhatLoadAcceptsStarts
  <2>6. QED
    BY <2>1, <2>4, <2>5
<1>2. CASE ReadsLine
  BY <1>2 DEF ReadsLine, Goes, WhatLoadAcceptsStarts
<1>3. CASE Loads
  <2>1. CASE IllTyped \/ Invalid(Loaded)
    BY <1>3, <2>1 DEF Loads, Goes, WhatLoadAcceptsStarts
  <2>2. CASE ~(IllTyped \/ Invalid(Loaded))
    <3>1. step' = "new" /\ cfg' = Loaded
      BY <1>3, <2>2 DEF Loads, Goes
    <3>2. PICK c : c = Loaded
      OBVIOUS
    <3>3. Accepted(c)
      BY <2>2, <3>2, LoadedAccepted
    <3>4. cfg' = c
      BY <3>1, <3>2
    <3>5. Accepted(cfg')
      BY <3>3, <3>4
    <3>6. QED
      BY <3>1, <3>5 DEF WhatLoadAcceptsStarts
  <2>3. QED
    BY <2>1, <2>2
<1>4. CASE News
  <2>1. step = "new" /\ cfg' = cfg
    BY <1>4 DEF News
  <2>2. PICK c : c = cfg
    OBVIOUS
  <2>3. PICK o : o = Options(c)
    OBVIOUS
  <2>4. Accepted(c)
    BY <2>1, <2>2
  <2>5. \/ step' = "refused" /\ refused' = "app" /\ NeedsDatabase
        \/ step' = "refused" /\ refused' = "New" /\ (BadOptions(o) \/ BadCache(o) \/ BadQueue(o) \/ BadPing(o))
        \/ step' = "refused" /\ refused' = "database"
        \/ step' = "panics"
        \/ step' = "wire"
    BY <1>4, <2>2, <2>3 DEF News, Goes
  <2>6. CASE step' = "refused" /\ refused' = "app" /\ NeedsDatabase
    <3>1. c.development
      BY <2>2, <2>4, <2>6 DEF NeedsDatabase, Accepted, Invalid
    <3>2. QED
      BY <2>1, <2>2, <2>6, <3>1 DEF WhatLoadAcceptsStarts
  <2>7. CASE step' = "refused" /\ refused' = "New" /\ (BadOptions(o) \/ BadCache(o) \/ BadQueue(o) \/ BadPing(o))
    <3>1. Overlooked(c) /\ cfg' = c
      BY <2>1, <2>2, <2>3, <2>4, <2>7, NewRefuses
    <3>2. Overlooked(cfg')
      BY <3>1
    <3>3. QED
      BY <2>7, <3>2 DEF WhatLoadAcceptsStarts
  <2>8. CASE step' = "refused" /\ refused' = "database"
    BY <2>1, <2>8 DEF WhatLoadAcceptsStarts
  <2>9. CASE step' \in {"panics", "wire"}
    <3>1. cfg' = c
      BY <2>1, <2>2
    <3>2. Accepted(cfg')
      BY <2>4, <3>1
    <3>3. QED
      BY <2>9, <3>2 DEF WhatLoadAcceptsStarts
  <2>10. QED
    BY <2>5, <2>6, <2>7, <2>8, <2>9
<1>5. CASE Wires \/ DiscoveryFails
  <2>1. /\ step = "wire" /\ cfg' = cfg
        /\ \/ step' = "running"
           \/ step' = "refused" /\ refused' \in {"session", "auth", "google"}
    BY <1>5 DEF Wires, DiscoveryFails, Goes
  <2>2. PICK c : c = cfg
    OBVIOUS
  <2>3. Accepted(c) /\ cfg' = c
    BY <2>1, <2>2
  <2>4. Accepted(cfg')
    BY <2>3
  <2>5. QED
    BY <2>1, <2>4 DEF WhatLoadAcceptsStarts
<1>6. CASE Uses
  <2>1. /\ step = "running" /\ cfg' = cfg /\ step' = "refused" /\ refused' \in Refusing(cfg)
    BY <1>6 DEF Uses, Goes
  <2>2. PICK c : c = cfg
    OBVIOUS
  <2>3. Accepted(c) /\ cfg' = c /\ refused' \in Refusing(c)
    BY <2>1, <2>2
  <2>4. ~BadDrivers(c) /\ c.port \in Int
    BY <2>3 DEF Accepted, Invalid
  <2>5. \/ refused' = "mail" /\ c.mail = "smtp" /\ BadPort(c)
        \/ refused' = "storage" /\ c.storage = "s3"
    BY <2>3, <2>4 DEF Refusing, BadDrivers
  <2>6. CASE refused' = "mail" /\ c.mail = "smtp" /\ BadPort(c)
    <3>1. cfg'.mail = "smtp" /\ BadPort(cfg')
      BY <2>3, <2>6
    <3>2. QED
      BY <2>1, <2>6, <3>1 DEF WhatLoadAcceptsStarts
  <2>7. CASE refused' = "storage" /\ c.storage = "s3"
    <3>1. cfg'.storage = "s3"
      BY <2>3, <2>7
    <3>2. QED
      BY <2>1, <2>7, <3>1 DEF WhatLoadAcceptsStarts
  <2>8. QED
    BY <2>5, <2>6, <2>7
<1>7. CASE RootFails
  <2>1. step' = "refused" /\ refused' = "disk"
    BY <1>7 DEF RootFails, Goes
  <2>2. QED
    BY <2>1 DEF WhatLoadAcceptsStarts
<1>8. QED
  BY <1>1, <1>2, <1>3, <1>4, <1>5, <1>6, <1>7 DEF StartNext

(* For any application, environment, .env and whatever the libraries make   *)
(* of a text: what Load accepted is refused later only for what Load does   *)
(* not look at.                                                             *)
THEOREM AcceptedStarts == StartSpec => []WhatLoadAcceptsStarts
<1>1. StartInit => StartedInv
  BY DEF StartInit, StartedInv, WhatLoadAcceptsStarts
<1>2. StartedInv => WhatLoadAcceptsStarts
  BY DEF StartedInv
<1>3. QED
  BY <1>1, <1>2, StartStep, PTL DEF StartSpec
=============================================================================
