---------------------------- MODULE SignInProofs ----------------------------
(***************************************************************************)
(* Theorems about SignIn, for any requests, providers and limits.          *)
(***************************************************************************)
EXTENDS SignIn, TLAPS

(* Where a request may be. *)
Places == {"idle", "begin", "callback", "page", "logout", "exchange", "respond", "answered"}

Typed ==
  /\ clock \in Nat
  /\ at \in [Requests -> Places]
  /\ begun \in [Requests -> Providers \cup {None}]
  /\ saved \in [Requests -> BOOLEAN]
  /\ asked \in [Requests -> Kinds]
  /\ sess \in [Requests -> Session]
  /\ jar \in Session

(* A request begins a flow when it is handled and never again.              *)
Beginning ==
  \A r \in Requests :
    /\ at[r] = "begin" => asked[r].kind = "begin"
    /\ at[r] \in {"idle", "begin"} => begun[r] = None

(* The flows of a session are the ones that were begun, each with the       *)
(* provider it was begun with.                                              *)
Known(s, providers) == \A f \in s.flows : providers[f.state] = f.provider

(* Every copy of the session, however old, has such flows only.             *)
FlowInv ==
  /\ Known(jar, begun)
  /\ \A r \in Requests : Known(sess[r], begun)

SentInv == \A x \in sent : x.to \in Providers /\ begun[x.state] = x.to /\ x.state \in Requests

(* Together they are inductive: that a verifier goes where its flow began    *)
(* needs every copy of the session, also those in answers still under way.  *)
IInv == Typed /\ Beginning /\ FlowInv /\ SentInv

-----------------------------------------------------------------------------
(* What the kinds of requests carry.                                        *)
LEMMA KindFacts ==
  ASSUME NEW q \in Kinds
  PROVE  /\ q.kind \in {"begin", "callback", "page", "logout"}
         /\ q.kind = "begin" => q.provider \in Providers
         /\ q.kind = "callback" => q.state \in Requests /\ q.provider \in Providers
<1>1. CASE q \in [kind : {"begin"}, provider : Providers]
  BY <1>1
<1>2. CASE q \in [kind : {"callback"}, provider : Providers, state : Requests, code : BOOLEAN]
  BY <1>2
<1>3. CASE q \in [kind : {"page"}]
  BY <1>3
<1>4. CASE q \in [kind : {"logout"}, token : Requests]
  BY <1>4
<1>5. QED
  BY <1>1, <1>2, <1>3, <1>4 DEF Kinds

(* What the middleware does to a session leaves its flows alone.            *)
LEMMA SessionFacts ==
  ASSUME NEW s \in Session, NEW r \in Requests
  PROVE  /\ Minted(s, r) \in Session /\ Minted(s, r).flows = s.flows
         /\ Flashed(s, r) \in Session /\ Flashed(s, r).flows = s.flows
         /\ Forgotten(s) \in Session /\ Forgotten(s).flows = s.flows
         /\ [s EXCEPT !.flashes = {}] \in Session /\ [s EXCEPT !.flashes = {}].flows = s.flows
         /\ [s EXCEPT !.user = r] \in Session /\ [s EXCEPT !.user = r].flows = s.flows
         /\ \A n : Consumed(s, n) \in Session /\ Consumed(s, n).flows \subseteq s.flows
BY DEF Session, Minted, Flashed, Forgotten, Consumed

(* A handler that leaves the session with flows it had before, and begins   *)
(* nothing.                                                                 *)
LEMMA HandlesKeeps ==
  ASSUME IInv, NEW r \in Requests, NEW place \in Places \ {"idle", "begin"}, NEW s \in Session,
         NEW saves \in BOOLEAN,
         s.flows \subseteq sess[r].flows, Handles(r, place, s, saves), UNCHANGED begun,
         SentInv'
  PROVE  IInv'
<1>1. /\ at' = [at EXCEPT ![r] = place] /\ sess' = [sess EXCEPT ![r] = s]
      /\ UNCHANGED <<clock, jar, asked, begun>>
  BY DEF Handles
<1>2. saved' \in [Requests -> BOOLEAN]
  BY DEF Handles, IInv, Typed
<1>3. Typed'
  BY <1>1, <1>2 DEF IInv, Typed
<1>4. Beginning'
  BY <1>1 DEF IInv, Typed, Beginning
<1>5. FlowInv'
  BY <1>1 DEF IInv, Typed, FlowInv, Known
<1>6. QED
  BY <1>3, <1>4, <1>5 DEF IInv

-----------------------------------------------------------------------------
LEMMA BeginKeeps == ASSUME IInv, NEW r \in Requests, Begin(r) PROVE IInv'
<1> DEFINE s == Minted(sess[r], r)
           f == [state |-> r, provider |-> asked[r].provider, expires |-> clock + FlowTTL]
           t == [s EXCEPT !.flows = @ \cup {f}]
<1>1. /\ at[r] = "begin" /\ begun[r] = None /\ asked[r] \in Kinds /\ asked[r].kind = "begin"
      /\ sess[r] \in Session /\ UNCHANGED <<sent, spent, shown>>
  BY DEF Begin, IInv, Typed, Beginning
<1>2. s \in Session /\ s.flows = sess[r].flows
  BY <1>1, SessionFacts
<1>3. asked[r].provider \in Providers
  BY <1>1, KindFacts
<1>4. CASE Cardinality(s.flows) >= MaxPending
  <2>1. Handles(r, "respond", Flashed(s, r), TRUE) /\ UNCHANGED begun
    BY <1>4 DEF Begin, Fails
  <2>2. Flashed(s, r) \in Session /\ Flashed(s, r).flows = s.flows
    BY <1>2, SessionFacts
  <2>3. SentInv'
    BY <1>1, <2>1 DEF IInv, SentInv
  <2>4. QED
    BY <1>2, <2>1, <2>2, <2>3, HandlesKeeps DEF Places
<1>5. CASE ~(Cardinality(s.flows) >= MaxPending)
  <2>1. Handles(r, "respond", t, TRUE) /\ begun' = [begun EXCEPT ![r] = asked[r].provider]
    BY <1>5 DEF Begin
  <2>2. f \in Flows
    BY <1>3, SignInAssumption DEF Flows, IInv, Typed
  <2>3. t \in Session /\ t.flows = sess[r].flows \cup {f}
    BY <1>2, <2>2 DEF Session
  <2>4. /\ at' = [at EXCEPT ![r] = "respond"] /\ sess' = [sess EXCEPT ![r] = t]
        /\ UNCHANGED <<clock, jar, asked>>
    BY <2>1 DEF Handles
  <2>5. saved' \in [Requests -> BOOLEAN]
    BY <2>1 DEF Handles, IInv, Typed
  <2> HIDE DEF s, t
  <2>6. Typed'
    BY <1>3, <2>1, <2>3, <2>4, <2>5 DEF IInv, Typed, Places
  <2>7. Beginning'
    BY <2>1, <2>4 DEF IInv, Typed, Beginning
  <2>8. \A n \in Requests : begun[n] # None => begun'[n] = begun[n]
    BY <1>1, <2>1 DEF IInv, Typed
  <2>9. ASSUME NEW z \in Session, Known(z, begun) PROVE Known(z, begun')
    <3> SUFFICES ASSUME NEW g \in z.flows PROVE begun'[g.state] = g.provider
      BY DEF Known
    <3>1. g.state \in Requests /\ g.provider \in Providers /\ begun[g.state] = g.provider
      BY <2>9 DEF Session, Flows, Known
    <3>2. QED
      BY <2>8, <3>1, SignInAssumption
  <2>10. Known(t, begun')
    <3>1. begun'[f.state] = f.provider
      BY <2>1 DEF IInv, Typed
    <3>2. Known(sess[r], begun')
      BY <1>1, <2>9 DEF IInv, FlowInv
    <3> HIDE DEF f
    <3>3. QED
      BY <2>3, <3>1, <3>2 DEF Known
  <2>11. FlowInv'
    <3>1. Known(jar, begun') /\ \A x \in Requests : Known(sess[x], begun')
      BY <2>9 DEF IInv, Typed, FlowInv
    <3>2. QED
      BY <2>4, <2>10, <3>1 DEF IInv, Typed, FlowInv
  <2>12. SentInv'
    BY <1>1, <2>8, SignInAssumption DEF IInv, SentInv
  <2>13. QED
    BY <2>6, <2>7, <2>11, <2>12 DEF IInv
<1>6. QED
  BY <1>4, <1>5

LEMMA CompleteKeeps == ASSUME IInv, NEW r \in Requests, Complete(r) PROVE IInv'
<1> DEFINE q == asked[r]
           s == Minted(sess[r], r)
           c == Consumed(s, q.state)
<1>1. /\ sess[r] \in Session /\ Known(sess[r], begun) /\ begun' = begun
  BY DEF Complete, IInv, Typed, FlowInv
<1>2. s \in Session /\ s.flows = sess[r].flows
  BY <1>1, SessionFacts
<1>3. c \in Session /\ c.flows \subseteq s.flows
  BY <1>2, SessionFacts
<1>4. Flashed(s, r) \in Session /\ Flashed(s, r).flows = s.flows
  BY <1>2, SessionFacts
<1>5. Flashed(c, r) \in Session /\ Flashed(c, r).flows = c.flows
  BY <1>3, SessionFacts
<1>6. CASE ~q.code
  <2>1. Handles(r, "respond", Flashed(s, r), TRUE) /\ UNCHANGED sent
    BY <1>6 DEF Complete, Fails
  <2>2. SentInv'
    BY <1>1, <2>1 DEF IInv, SentInv
  <2>3. QED
    BY <1>1, <1>2, <1>4, <2>1, <2>2, HandlesKeeps DEF Places
<1>7. CASE q.code /\ \E f \in s.flows : Valid(f, q)
  <2>1. /\ Handles(r, "exchange", c, TRUE)
        /\ sent' = sent \cup {[by |-> r, state |-> q.state, to |-> q.provider]}
    BY <1>7 DEF Complete
  <2>2. PICK f \in s.flows : f.state = q.state /\ f.provider = q.provider
    BY <1>7 DEF Valid
  <2>3. f.state \in Requests /\ f.provider \in Providers /\ begun[f.state] = f.provider
    BY <1>1, <1>2 DEF Session, Flows, Known
  <2> HIDE DEF q
  <2>4. SentInv'
    BY <1>1, <2>1, <2>2, <2>3 DEF IInv, SentInv
  <2>5. QED
    BY <1>1, <1>2, <1>3, <2>1, <2>4, HandlesKeeps DEF Places
<1>8. CASE q.code /\ ~\E f \in s.flows : Valid(f, q)
  <2>1. Handles(r, "respond", Flashed(c, r), TRUE) /\ UNCHANGED sent
    BY <1>8 DEF Complete, Fails
  <2>2. SentInv'
    BY <1>1, <2>1 DEF IInv, SentInv
  <2>3. QED
    BY <1>1, <1>2, <1>3, <1>5, <2>1, <2>2, HandlesKeeps DEF Places
<1>9. QED
  BY <1>6, <1>7, <1>8

LEMMA ExchangeKeeps == ASSUME IInv, NEW r \in Requests, Exchange(r) PROVE IInv'
<1> DEFINE s == [sess[r] EXCEPT !.user = r]
<1>1. sess[r] \in Session /\ begun' = begun /\ sent' = sent
  BY DEF Exchange, IInv, Typed
<1>2. s \in Session /\ s.flows = sess[r].flows
  BY <1>1, SessionFacts
<1>3. Flashed(s, r) \in Session /\ Flashed(s, r).flows = s.flows
  BY <1>2, SessionFacts
<1>4. Flashed(sess[r], r) \in Session /\ Flashed(sess[r], r).flows = sess[r].flows
  BY <1>1, SessionFacts
<1>5. SentInv'
  BY <1>1 DEF IInv, SentInv
<1>6. CASE Handles(r, "respond", Flashed(s, r), TRUE)
  BY <1>1, <1>2, <1>3, <1>5, <1>6, HandlesKeeps DEF Places
<1>7. CASE Handles(r, "respond", Flashed(sess[r], r), TRUE)
  BY <1>1, <1>4, <1>5, <1>7, HandlesKeeps DEF Places
<1>8. QED
  BY <1>6, <1>7 DEF Exchange, Fails

LEMMA PageAndLogoutKeep ==
  ASSUME IInv, NEW r \in Requests, Page(r) \/ Logout(r) PROVE IInv'
<1>1. sess[r] \in Session /\ begun' = begun /\ sent' = sent
  BY DEF Page, Logout, IInv, Typed
<1>2. SentInv'
  BY <1>1 DEF IInv, SentInv
<1>3. CASE Page(r)
  <2> DEFINE s == Minted(sess[r], r)
             t == [s EXCEPT !.flashes = {}]
  <2>1. s \in Session /\ s.flows = sess[r].flows
    BY <1>1, SessionFacts
  <2>2. t \in Session /\ t.flows = s.flows
    BY <2>1, SessionFacts
  <2>3. Handles(r, "respond", t, FALSE)
    BY <1>3 DEF Page
  <2>4. QED
    BY <1>1, <1>2, <2>1, <2>2, <2>3, HandlesKeeps DEF Places
<1>4. CASE Logout(r)
  <2>1. Forgotten(sess[r]) \in Session /\ Forgotten(sess[r]).flows = sess[r].flows
    BY <1>1, SessionFacts
  <2>2. CASE Handles(r, "respond", Forgotten(sess[r]), TRUE)
    BY <1>1, <1>2, <2>1, <2>2, HandlesKeeps DEF Places
  <2>3. CASE Handles(r, "respond", sess[r], FALSE)
    BY <1>1, <1>2, <2>3, HandlesKeeps DEF Places
  <2>4. QED
    BY <1>4, <2>2, <2>3 DEF Logout
<1>5. QED
  BY <1>3, <1>4

(* The browser and the user at the provider only carry sessions around.     *)
LEMMA BrowserKeeps ==
  ASSUME IInv, NEW r \in Requests,
         (\E q \in Kinds : Send(r, q)) \/ Receive(r) \/ Lose(r) \/ Grant(r)
  PROVE  IInv'
<1> USE DEF IInv, Typed, Beginning, FlowInv, SentInv
<1>1. ASSUME NEW q \in Kinds, Send(r, q) PROVE IInv'
  <2>1. /\ at[r] = "idle" /\ at' = [at EXCEPT ![r] = q.kind]
        /\ asked' = [asked EXCEPT ![r] = q] /\ sess' = [sess EXCEPT ![r] = jar]
        /\ UNCHANGED <<clock, jar, saved, begun, sent>>
    BY <1>1 DEF Send, providerVars
  <2>2. q.kind \in Places
    BY KindFacts DEF Places
  <2>3. Typed'
    BY <2>1, <2>2
  <2>4. Beginning'
    BY <2>1
  <2>5. FlowInv' /\ SentInv'
    BY <2>1
  <2>6. QED
    BY <2>3, <2>4, <2>5
<1>2. CASE Receive(r)
  <2>1. /\ at' = [at EXCEPT ![r] = "answered"]
        /\ jar' = IF saved[r] THEN sess[r] ELSE jar
        /\ UNCHANGED <<clock, asked, sess, saved, begun, sent>>
    BY <1>2 DEF Receive, providerVars
  <2>2. QED
    BY <2>1 DEF Places
<1>3. CASE Lose(r)
  BY <1>3 DEF Lose, providerVars, Places
<1>4. CASE Grant(r)
  BY <1>4 DEF Grant, browserVars, historyVars
<1>5. QED
  BY <1>1, <1>2, <1>3, <1>4

LEMMA Inductive == IInv /\ [Next]_vars => IInv'
<1> SUFFICES ASSUME IInv, [Next]_vars PROVE IInv'
  OBVIOUS
<1>1. CASE Tick
  BY <1>1 DEF Tick, browserVars, providerVars, historyVars, IInv, Typed, Beginning, FlowInv, SentInv
<1>2. CASE UNCHANGED vars
  BY <1>2 DEF vars, browserVars, providerVars, historyVars, IInv, Typed, Beginning, FlowInv, SentInv
<1>3. QED
  BY <1>1, <1>2, BeginKeeps, CompleteKeeps, ExchangeKeeps, PageAndLogoutKeep, BrowserKeeps DEF Next

(* A browser without a cookie.                                              *)
LEMMA InitInv == Init => IInv
<1> SUFFICES ASSUME Init PROVE IInv
  OBVIOUS
<1>1. Empty \in Session /\ Empty.flows = {}
  BY DEF Empty, Session
<1>2. [kind |-> "page"] \in Kinds
  BY DEF Kinds
<1>3. Typed
  BY <1>1, <1>2 DEF Init, Typed, Places
<1>4. Beginning /\ SentInv
  BY DEF Init, Beginning, SentInv
<1>5. FlowInv
  BY <1>1 DEF Init, FlowInv, Known
<1>6. QED
  BY <1>3, <1>4, <1>5 DEF IInv

(* However the cookies of a browser overwrite each other, whatever callback *)
(* comes for a flow and whenever: its verifier is sent to the provider it   *)
(* was begun with and to nobody else.                                       *)
THEOREM VerifierNeverLeaks == Spec => []VerifierStaysWithProvider
<1>1. IInv => VerifierStaysWithProvider
  BY DEF IInv, SentInv, VerifierStaysWithProvider
<1>2. QED
  BY <1>1, InitInv, Inductive, PTL DEF Spec

-----------------------------------------------------------------------------
(* One request at a time.  The session of the only request under way is the *)
(* one the browser will hold; nobody else can put an older one back.        *)

(* The request has been handled. *)
Handled(n) == at[n] \in {"respond", "answered"}

(* A flash is named by a request that has been handled.                     *)
FlashInv ==
  /\ \A n \in jar.flashes : Handled(n)
  /\ \A r \in Requests : \A n \in sess[r].flashes : Handled(n)
  /\ \A x \in shown : Handled(x[1])

KindInv ==
  \A r \in Requests :
    /\ at[r] = "idle" => ~saved[r]
    /\ at[r] \in {"callback", "exchange"} => asked[r].kind = "callback"

(* Nothing in the session was used before: no flow's verifier was sent and  *)
(* no flash was shown.                                                      *)
Unused(s, codes, flashes) ==
  /\ \A f \in s.flows : \A x \in codes : x.state # f.state
  /\ \A n \in s.flashes : \A x \in flashes : x[1] # n

(* A handler signs in by its callback only.                                 *)
UserFrom(r, s, t) == \/ s.user \in {t.user, None}
                     \/ asked[r].kind = "callback" /\ s.user = r

(* What the only request under way has done to its copy of the session.     *)
Held(r) ==
  /\ Unused(sess[r], sent, shown)
  /\ saved[r] \/ sess[r] = jar
  /\ UserFrom(r, sess[r], jar)

AloneInv ==
  sequential =>
    /\ \A x, y \in Requests : Pending(x) /\ Pending(y) => x = y
    /\ (\A r \in Requests : ~Pending(r)) => Unused(jar, sent, shown)
    /\ \A r \in Requests : Pending(r) => Held(r)

OnceEach(codes, flashes) ==
  /\ \A x, y \in codes : x.state = y.state => x = y
  /\ \A x, y \in flashes : x[1] = y[1] => x = y

(* The inductive form of SequentialSession.                                 *)
SeqInv == FlashInv /\ KindInv /\ AloneInv /\ SequentialSession

(* What the middleware does to a session besides its flows.                 *)
LEMMA FlashFacts ==
  ASSUME NEW s \in Session, NEW r \in Requests
  PROVE  /\ Minted(s, r).flashes = s.flashes /\ Minted(s, r).user = s.user
         /\ Flashed(s, r).flashes = s.flashes \cup {r} /\ Flashed(s, r).user = s.user
         /\ Forgotten(s).flashes = s.flashes /\ Forgotten(s).user = None
         /\ [s EXCEPT !.flashes = {}].flashes = {} /\ [s EXCEPT !.flashes = {}].user = s.user
         /\ [s EXCEPT !.user = r].flashes = s.flashes /\ [s EXCEPT !.user = r].user = r
         /\ \A n : /\ Consumed(s, n).flashes = s.flashes /\ Consumed(s, n).user = s.user
                   /\ \A f \in Consumed(s, n).flows : f.state # n
BY DEF Session, Minted, Flashed, Forgotten, Consumed

(* A request that is handled and leaves an unused session keeps SeqInv.     *)
LEMMA HandlesAlone ==
  ASSUME IInv, SeqInv, NEW r \in Requests, NEW place \in {"exchange", "respond"},
         NEW s \in Session, NEW saves \in BOOLEAN, Handles(r, place, s, saves),
         at[r] \in {"begin", "callback", "page", "logout", "exchange"},
         place = "exchange" => asked[r].kind = "callback",
         s.flashes \subseteq sess[r].flashes \/ place = "respond",
         s.flashes \subseteq sess[r].flashes \cup {r},
         \A x \in shown' : x \in shown \/ x[1] \in sess[r].flashes,
         UserFrom(r, s, sess[r]),
         sequential => Unused(s, sent', shown') /\ OnceEach(sent', shown')
  PROVE  SeqInv'
<1>1. /\ at' = [at EXCEPT ![r] = place] /\ sess' = [sess EXCEPT ![r] = s]
      /\ saved' = [saved EXCEPT ![r] = @ \/ saves \/ s # sess[r]]
      /\ UNCHANGED <<jar, asked, signedOut, sequential>>
  BY DEF Handles
<1>2. /\ at \in [Requests -> Places] /\ sess \in [Requests -> Session]
      /\ saved \in [Requests -> BOOLEAN] /\ jar \in Session
  BY DEF IInv, Typed
<1>3. /\ at'[r] = place /\ sess'[r] = s
      /\ \A x \in Requests \ {r} : at'[x] = at[x] /\ sess'[x] = sess[x] /\ saved'[x] = saved[x]
  BY <1>1, <1>2
<1>4. \A n : n \in Requests /\ Handled(n) => Handled(n)'
  BY <1>3 DEF Handled
<1>5. \A z \in Session : z.flashes \subseteq Requests
  BY DEF Session
<1>6. FlashInv'
  <2>1. \A n \in jar'.flashes : Handled(n)'
    BY <1>1, <1>2, <1>4, <1>5 DEF SeqInv, FlashInv
  <2>2. ASSUME NEW n \in s.flashes PROVE Handled(n)'
    BY <1>2, <1>3, <1>4, <1>5 DEF SeqInv, FlashInv, Handled
  <2>3. ASSUME NEW x \in Requests, NEW n \in sess'[x].flashes PROVE Handled(n)'
    BY <1>2, <1>3, <1>4, <1>5, <2>2 DEF SeqInv, FlashInv
  <2>4. ASSUME NEW x \in shown' PROVE Handled(x[1])'
    <3>1. Handled(x[1])
      BY DEF SeqInv, FlashInv
    <3>2. CASE x[1] = r
      BY <3>1, <3>2 DEF Handled
    <3>3. CASE x[1] # r
      BY <1>1, <1>2, <3>1, <3>3 DEF Handled
    <3>4. QED
      BY <3>2, <3>3
  <2>5. QED
    BY <2>1, <2>3, <2>4 DEF FlashInv
<1>7. KindInv'
  BY <1>1, <1>2, <1>3 DEF SeqInv, KindInv
<1>8. ASSUME sequential'
      PROVE  /\ AloneInv' /\ SequentialSession'
  <2>1. sequential /\ Pending(r) /\ Pending(r)'
    BY <1>1, <1>3, <1>8 DEF Pending
  <2>2. \A x \in Requests : Pending(x) => x = r
    BY <2>1 DEF SeqInv, AloneInv
  <2>3. \A x \in Requests : Pending(x)' => x = r
    BY <1>3, <2>2 DEF Pending
  <2>4. Held(r)
    BY <2>1 DEF SeqInv, AloneInv
  <2>5. saved'[r] \/ s = jar
    BY <1>1, <1>2, <2>4 DEF Held
  <2>6. UserFrom(r, s, jar)
    BY <2>4 DEF Held, UserFrom
  <2>7. Held(r)'
    BY <1>1, <1>3, <2>1, <2>5, <2>6 DEF Held, UserFrom
  <2>8. AloneInv'
    BY <2>1, <2>3, <2>7 DEF AloneInv
  <2>9. SequentialSession'
    BY <1>1, <2>1 DEF SeqInv, SequentialSession, OnceEach
  <2>10. QED
    BY <2>8, <2>9
<1>9. QED
  BY <1>6, <1>7, <1>8 DEF SeqInv, AloneInv, SequentialSession

(* What the request that is handled alone may rely on.                      *)
LEMMA AloneFacts ==
  ASSUME IInv, SeqInv, NEW r \in Requests, Pending(r), sequential
  PROVE  Unused(sess[r], sent, shown) /\ OnceEach(sent, shown)
BY DEF SeqInv, AloneInv, Held, SequentialSession, OnceEach

(* No flash of a request that is not handled yet was shown.                 *)
LEMMA OwnFlash ==
  ASSUME IInv, SeqInv, NEW r \in Requests, ~Handled(r)
  PROVE  \A x \in shown : x[1] # r
BY DEF SeqInv, FlashInv

(* A failure adds its own flash and perhaps drops a flow.                   *)
LEMMA FailsAlone ==
  ASSUME IInv, SeqInv, NEW r \in Requests, NEW s \in Session,
         Handles(r, "respond", Flashed(s, r), TRUE),
         at[r] \in {"begin", "callback", "exchange"},
         s.flashes = sess[r].flashes, s.flows \subseteq sess[r].flows,
         UserFrom(r, s, sess[r]), UNCHANGED <<sent, shown>>
  PROVE  SeqInv'
<1> DEFINE t == Flashed(s, r)
<1>1. /\ t \in Session /\ t.flows = s.flows /\ t.flashes = s.flashes \cup {r}
      /\ t.user = s.user
  <2>1. t \in Session /\ t.flows = s.flows
    BY SessionFacts
  <2>2. t.flashes = s.flashes \cup {r} /\ t.user = s.user
    BY FlashFacts
  <2>3. QED
    BY <2>1, <2>2
<1>2. ASSUME sequential PROVE Unused(t, sent', shown') /\ OnceEach(sent', shown')
  <2>1. Unused(sess[r], sent, shown) /\ OnceEach(sent, shown)
    BY <1>2, AloneFacts DEF Pending
  <2>2. \A x \in shown : x[1] # r
    BY OwnFlash DEF Handled
  <2> HIDE DEF t
  <2>3. QED
    BY <1>1, <2>1, <2>2 DEF Unused
<1>3. UserFrom(r, t, sess[r])
  BY <1>1 DEF UserFrom
<1> HIDE DEF t
<1>4. QED
  BY <1>1, <1>2, <1>3, HandlesAlone DEF t

LEMMA BeginAlone == ASSUME IInv, SeqInv, NEW r \in Requests, Begin(r) PROVE SeqInv'
<1> DEFINE f == [state |-> r, provider |-> asked[r].provider, expires |-> clock + FlowTTL]
<1>1. /\ at[r] = "begin" /\ begun[r] = None /\ sess[r] \in Session
      /\ asked[r] \in Kinds /\ asked[r].kind = "begin" /\ UNCHANGED <<sent, shown>>
  BY DEF Begin, IInv, Typed, Beginning
<1>2. PICK s \in Session : s = Minted(sess[r], r)
  BY <1>1, SessionFacts
<1>3. s.flows = sess[r].flows /\ s.flashes = sess[r].flashes /\ s.user = sess[r].user
  <2>1. s.flows = sess[r].flows
    BY <1>1, <1>2, SessionFacts
  <2>2. s.flashes = sess[r].flashes /\ s.user = sess[r].user
    BY <1>1, <1>2, FlashFacts
  <2>3. QED
    BY <2>1, <2>2
<1>4. UserFrom(r, s, sess[r])
  BY <1>3 DEF UserFrom
<1>5. CASE Cardinality(s.flows) >= MaxPending
  <2>1. Handles(r, "respond", Flashed(s, r), TRUE)
    BY <1>2, <1>5 DEF Begin, Fails
  <2>2. QED
    BY <1>1, <1>3, <1>4, <2>1, FailsAlone
<1>6. CASE ~(Cardinality(s.flows) >= MaxPending)
  <2>1. Handles(r, "respond", [s EXCEPT !.flows = @ \cup {f}], TRUE)
    BY <1>2, <1>6 DEF Begin
  <2>2. f \in Flows /\ f.state = r
    BY <1>1, KindFacts, SignInAssumption DEF Flows, IInv, Typed
  <2> HIDE DEF f
  <2>3. PICK t \in Session : t = [s EXCEPT !.flows = @ \cup {f}]
    BY <2>2 DEF Session
  <2>4. t.flows = s.flows \cup {f} /\ t.flashes = s.flashes /\ t.user = s.user
    BY <2>3 DEF Session
  <2>5. \A x \in sent : x.state # r
    BY <1>1, SignInAssumption DEF IInv, SentInv
  <2>6. ASSUME sequential PROVE Unused(t, sent', shown') /\ OnceEach(sent', shown')
    <3>1. Unused(sess[r], sent, shown) /\ OnceEach(sent, shown)
      BY <1>1, <2>6, AloneFacts DEF Pending
    <3>2. QED
      BY <1>1, <1>3, <2>2, <2>4, <2>5, <3>1 DEF Unused
  <2>7. UserFrom(r, t, sess[r])
    BY <1>3, <2>4 DEF UserFrom
  <2>8. Handles(r, "respond", t, TRUE)
    BY <2>1, <2>3
  <2>9. QED
    BY <1>1, <1>3, <2>4, <2>6, <2>7, <2>8, HandlesAlone
<1>7. QED
  BY <1>5, <1>6

LEMMA CompleteAlone == ASSUME IInv, SeqInv, NEW r \in Requests, Complete(r) PROVE SeqInv'
<1>1. /\ at[r] = "callback" /\ sess[r] \in Session /\ UNCHANGED shown
      /\ asked[r] \in Kinds /\ asked[r].kind = "callback"
  BY DEF Complete, IInv, Typed, SeqInv, KindInv
<1>2. PICK q \in Kinds : q = asked[r]
  BY <1>1
<1>3. PICK s \in Session : s = Minted(sess[r], r)
  BY <1>1, SessionFacts
<1>4. s.flows = sess[r].flows /\ s.flashes = sess[r].flashes /\ s.user = sess[r].user
  <2>1. s.flows = sess[r].flows
    BY <1>1, <1>3, SessionFacts
  <2>2. s.flashes = sess[r].flashes /\ s.user = sess[r].user
    BY <1>1, <1>3, FlashFacts
  <2>3. QED
    BY <2>1, <2>2
<1>5. PICK c \in Session : c = Consumed(s, q.state)
  BY SessionFacts
<1>6. /\ c.flows \subseteq s.flows /\ c.flashes = s.flashes /\ c.user = s.user
      /\ \A f \in c.flows : f.state # q.state
  BY <1>5 DEF Consumed, Session
<1>7. UserFrom(r, s, sess[r]) /\ UserFrom(r, c, sess[r])
  BY <1>4, <1>6 DEF UserFrom
<1>8. CASE ~q.code
  <2>1. Handles(r, "respond", Flashed(s, r), TRUE) /\ UNCHANGED sent
    BY <1>2, <1>3, <1>8 DEF Complete, Fails
  <2>2. QED
    BY <1>1, <1>4, <1>7, <2>1, FailsAlone
<1>9. CASE q.code /\ \E f \in s.flows : Valid(f, q)
  <2>1. /\ Handles(r, "exchange", c, TRUE)
        /\ sent' = sent \cup {[by |-> r, state |-> q.state, to |-> q.provider]}
    BY <1>2, <1>3, <1>5, <1>9 DEF Complete
  <2>2. PICK f \in s.flows : f.state = q.state
    BY <1>9 DEF Valid
  <2>3. ASSUME sequential PROVE Unused(c, sent', shown') /\ OnceEach(sent', shown')
    <3>1. Unused(sess[r], sent, shown) /\ OnceEach(sent, shown)
      BY <1>1, <2>3, AloneFacts DEF Pending
    <3>2. \A x \in sent : x.state # q.state
      BY <1>4, <2>2, <3>1 DEF Unused
    <3>3. PICK z : z = [by |-> r, state |-> q.state, to |-> q.provider]
      OBVIOUS
    <3>4. z.state = q.state /\ sent' = sent \cup {z}
      BY <2>1, <3>3
    <3>5. Unused(c, sent', shown')
      BY <1>1, <1>4, <1>6, <3>1, <3>4 DEF Unused
    <3>6. OnceEach(sent', shown')
      BY <1>1, <3>1, <3>2, <3>4 DEF OnceEach
    <3>7. QED
      BY <3>5, <3>6
  <2>4. QED
    BY <1>1, <1>4, <1>6, <1>7, <2>1, <2>3, HandlesAlone
<1>10. CASE q.code /\ ~\E f \in s.flows : Valid(f, q)
  <2>1. Handles(r, "respond", Flashed(c, r), TRUE) /\ UNCHANGED sent
    BY <1>2, <1>3, <1>5, <1>10 DEF Complete, Fails
  <2>2. QED
    BY <1>1, <1>4, <1>6, <1>7, <2>1, FailsAlone
<1>11. QED
  BY <1>8, <1>9, <1>10

LEMMA ExchangeAlone == ASSUME IInv, SeqInv, NEW r \in Requests, Exchange(r) PROVE SeqInv'
<1>1. /\ at[r] = "exchange" /\ sess[r] \in Session /\ UNCHANGED <<sent, shown>>
      /\ asked[r].kind = "callback"
  BY DEF Exchange, IInv, Typed, SeqInv, KindInv
<1>2. PICK s \in Session : s = [sess[r] EXCEPT !.user = r]
  BY <1>1, SessionFacts
<1>3. s.flows = sess[r].flows /\ s.flashes = sess[r].flashes /\ s.user = r
  BY <1>1, <1>2, SessionFacts, FlashFacts
<1>4. UserFrom(r, s, sess[r]) /\ UserFrom(r, sess[r], sess[r])
  BY <1>1, <1>3 DEF UserFrom
<1>5. CASE Handles(r, "respond", Flashed(s, r), TRUE)
  BY <1>1, <1>3, <1>4, <1>5, FailsAlone
<1>6. CASE Handles(r, "respond", Flashed(sess[r], r), TRUE)
  BY <1>1, <1>4, <1>6, FailsAlone
<1>7. QED
  BY <1>2, <1>5, <1>6 DEF Exchange, Fails

LEMMA PageAlone == ASSUME IInv, SeqInv, NEW r \in Requests, Page(r) PROVE SeqInv'
<1>1. at[r] = "page" /\ sess[r] \in Session /\ UNCHANGED sent
  BY DEF Page, IInv, Typed
<1>2. PICK s \in Session : s = Minted(sess[r], r)
  BY <1>1, SessionFacts
<1>3. s.flows = sess[r].flows /\ s.flashes = sess[r].flashes /\ s.user = sess[r].user
  <2>1. s.flows = sess[r].flows
    BY <1>1, <1>2, SessionFacts
  <2>2. s.flashes = sess[r].flashes /\ s.user = sess[r].user
    BY <1>1, <1>2, FlashFacts
  <2>3. QED
    BY <2>1, <2>2
<1>4. PICK t \in Session : t = [s EXCEPT !.flashes = {}]
  BY SessionFacts
<1>5. t.flows = s.flows /\ t.flashes = {} /\ t.user = s.user
  BY <1>4, SessionFacts, FlashFacts
<1>6. Handles(r, "respond", t, FALSE) /\ shown' = shown \cup {<<n, r>> : n \in s.flashes}
  BY <1>2, <1>4 DEF Page
<1>7. \A x \in shown' : x \in shown \/ (x[1] \in sess[r].flashes /\ x = <<x[1], r>>)
  BY <1>3, <1>6
<1>8. ASSUME sequential PROVE Unused(t, sent', shown') /\ OnceEach(sent', shown')
  <2>1. Unused(sess[r], sent, shown) /\ OnceEach(sent, shown)
    BY <1>1, <1>8, AloneFacts DEF Pending
  <2>2. Unused(t, sent', shown')
    BY <1>1, <1>3, <1>5, <2>1 DEF Unused
  <2>3. ASSUME NEW x \in shown', NEW y \in shown', x[1] = y[1] PROVE x = y
    <3>1. CASE x \in shown /\ y \in shown
      BY <2>1, <2>3, <3>1 DEF OnceEach
    <3>2. CASE x \notin shown /\ y \notin shown
      BY <1>7, <2>3, <3>2
    <3>3. \A z \in shown : z[1] \notin sess[r].flashes
      BY <2>1 DEF Unused
    <3>4. QED
      BY <1>7, <2>3, <3>1, <3>2, <3>3
  <2>4. QED
    BY <1>1, <2>1, <2>2, <2>3 DEF OnceEach
<1>9. UserFrom(r, t, sess[r])
  BY <1>3, <1>5 DEF UserFrom
<1>10. QED
  BY <1>1, <1>5, <1>6, <1>7, <1>8, <1>9, HandlesAlone

LEMMA LogoutAlone == ASSUME IInv, SeqInv, NEW r \in Requests, Logout(r) PROVE SeqInv'
<1>1. at[r] = "logout" /\ sess[r] \in Session /\ UNCHANGED <<sent, shown>>
  BY DEF Logout, IInv, Typed
<1>2. PICK s \in Session : s = Forgotten(sess[r])
  BY <1>1, SessionFacts
<1>3. s.flows = sess[r].flows /\ s.flashes = sess[r].flashes /\ s.user = None
  BY <1>1, <1>2, SessionFacts, FlashFacts
<1>4. UserFrom(r, s, sess[r]) /\ UserFrom(r, sess[r], sess[r])
  BY <1>3 DEF UserFrom
<1>5. ASSUME sequential
      PROVE  Unused(s, sent', shown') /\ Unused(sess[r], sent', shown') /\ OnceEach(sent', shown')
  <2>1. Unused(sess[r], sent, shown) /\ OnceEach(sent, shown)
    BY <1>1, <1>5, AloneFacts DEF Pending
  <2>2. QED
    BY <1>1, <1>3, <2>1 DEF Unused
<1>6. CASE Handles(r, "respond", s, TRUE)
  BY <1>1, <1>3, <1>4, <1>5, <1>6, HandlesAlone
<1>7. CASE Handles(r, "respond", sess[r], FALSE)
  BY <1>1, <1>4, <1>5, <1>7, HandlesAlone
<1>8. QED
  BY <1>2, <1>6, <1>7 DEF Logout

(* A request takes the session along, and an answer puts its own back.      *)
LEMMA SendAlone ==
  ASSUME IInv, SeqInv, NEW r \in Requests, NEW q \in Kinds, Send(r, q) PROVE SeqInv'
<1>1. /\ at[r] = "idle" /\ at' = [at EXCEPT ![r] = q.kind]
      /\ asked' = [asked EXCEPT ![r] = q] /\ sess' = [sess EXCEPT ![r] = jar]
      /\ sequential' = (sequential /\ \A x \in Requests : ~Pending(x))
      /\ UNCHANGED <<jar, saved, sent, shown, signedOut>>
  BY DEF Send
<1>2. /\ at \in [Requests -> Places] /\ sess \in [Requests -> Session]
      /\ asked \in [Requests -> Kinds] /\ q.kind \in {"begin", "callback", "page", "logout"}
  BY KindFacts DEF IInv, Typed
<1>3. \A n : Handled(n) => Handled(n)'
  BY <1>1, <1>2 DEF Handled
<1>4. FlashInv'
  BY <1>1, <1>2, <1>3 DEF SeqInv, FlashInv
<1>5. KindInv'
  BY <1>1, <1>2 DEF SeqInv, KindInv
<1>6. ASSUME sequential' PROVE AloneInv' /\ SequentialSession'
  <2>1. sequential /\ \A x \in Requests : ~Pending(x)
    BY <1>1, <1>6
  <2>2. \A x \in Requests : Pending(x)' <=> x = r
    BY <1>1, <1>2, <2>1 DEF Pending
  <2>3. Unused(jar, sent, shown)
    BY <2>1 DEF SeqInv, AloneInv
  <2>4. Held(r)'
    BY <1>1, <1>2, <2>3 DEF Held, UserFrom
  <2>5. QED
    BY <1>1, <2>1, <2>2, <2>4 DEF SeqInv, AloneInv, SequentialSession
<1>7. QED
  BY <1>4, <1>5, <1>6 DEF SeqInv, AloneInv, SequentialSession

LEMMA ReceiveAlone ==
  ASSUME IInv, SeqInv, NEW r \in Requests, Receive(r) PROVE SeqInv'
<1>1. /\ at[r] = "respond" /\ at' = [at EXCEPT ![r] = "answered"]
      /\ jar' = IF saved[r] THEN sess[r] ELSE jar
      /\ signedOut' = IF asked[r].kind = "logout" THEN sess[r].user = None
                      ELSE signedOut /\ ~(asked[r].kind = "callback" /\ sess[r].user = r)
      /\ UNCHANGED <<asked, sess, saved, sent, shown, sequential>>
  BY DEF Receive
<1>2. at \in [Requests -> Places] /\ saved \in [Requests -> BOOLEAN]
  BY DEF IInv, Typed
<1>3. \A n : Handled(n) => Handled(n)'
  BY <1>1, <1>2 DEF Handled
<1>4. FlashInv'
  BY <1>1, <1>3 DEF SeqInv, FlashInv
<1>5. KindInv'
  BY <1>1, <1>2 DEF SeqInv, KindInv
<1>6. ASSUME sequential' PROVE AloneInv' /\ SequentialSession'
  <2>1. sequential /\ Pending(r)
    BY <1>1, <1>6 DEF Pending
  <2>2. \A x \in Requests : ~Pending(x)'
    BY <1>1, <1>2, <2>1 DEF SeqInv, AloneInv, Pending
  <2>3. Held(r)
    BY <2>1 DEF SeqInv, AloneInv
  <2>4. jar' = sess[r]
    BY <1>1, <1>2, <2>3 DEF Held
  <2>5. Unused(jar', sent', shown')
    BY <1>1, <2>3, <2>4 DEF Held
  <2>6. signedOut' => jar'.user = None
    BY <1>1, <2>1, <2>3, <2>4 DEF Held, UserFrom, SeqInv, SequentialSession
  <2>7. QED
    BY <1>1, <2>1, <2>2, <2>5, <2>6 DEF SeqInv, AloneInv, SequentialSession
<1>7. QED
  BY <1>4, <1>5, <1>6 DEF SeqInv, AloneInv, SequentialSession

(* A lost answer ends the promise; the user at the provider and the clock   *)
(* touch no session.                                                        *)
LEMMA OthersAlone ==
  ASSUME IInv, SeqInv, Tick \/ (\E r \in Requests : Lose(r) \/ Grant(r)) \/ UNCHANGED vars
  PROVE  SeqInv'
<1> USE DEF SeqInv, FlashInv, KindInv, AloneInv, SequentialSession, Held, Handled, Pending,
            UserFrom, Unused
<1>1. CASE Tick \/ (\E r \in Requests : Grant(r)) \/ UNCHANGED vars
  BY <1>1 DEF Tick, Grant, vars, browserVars, providerVars, historyVars
<1>2. ASSUME NEW r \in Requests, Lose(r) PROVE SeqInv'
  BY <1>2 DEF Lose, IInv, Typed
<1>3. QED
  BY <1>1, <1>2

(* A browser that makes one request at a time and receives every answer:    *)
(* no callback is exchanged twice, no flash is shown twice, and signing out *)
(* lasts, for any requests, providers and limits.                           *)
THEOREM OneAtATimeIsSafe == Spec => []SequentialSession
<1>1. Init => SeqInv
  BY DEF Init, SeqInv, FlashInv, KindInv, AloneInv, SequentialSession, Pending, Unused, Empty
<1>2. IInv /\ SeqInv /\ [Next]_vars => SeqInv'
  BY BeginAlone, CompleteAlone, ExchangeAlone, PageAlone, LogoutAlone, SendAlone,
     ReceiveAlone, OthersAlone DEF Next
<1>3. SeqInv => SequentialSession
  BY DEF SeqInv
<1>4. QED
  BY <1>1, <1>2, <1>3, InitInv, Inductive, PTL DEF Spec
=============================================================================
