------------------------------- MODULE SignIn -------------------------------
(***************************************************************************)
(* Browser sign-in: runtime/session, runtime/oauth and the session half of *)
(* runtime/auth, as the generated application wires them.                  *)
(*                                                                         *)
(* The session is the value of a cookie.  A request works on the copy it   *)
(* brought, and a response that saved anything replaces the whole cookie   *)
(* of the browser, so requests of one browser that are under way together  *)
(* do not see each other.  Responses come in any order, or never.          *)
(*                                                                         *)
(* A flow is named by its random state, which stands for its nonce and its *)
(* verifier too.  The providers and the browser are external.              *)
(***************************************************************************)
EXTENDS Naturals, FiniteSets

CONSTANTS
  Requests,    \* the requests the browser makes
  Providers,   \* the names in Manager.providers
  MaxPending,  \* maxPendingFlows
  FlowTTL,     \* Manager.flowTTL
  MaxTime,     \* bound: the clock stops there
  None

ASSUME SignInAssumption ==
  /\ MaxPending \in Nat \ {0} /\ FlowTTL \in Nat /\ MaxTime \in Nat
  /\ None \notin Requests \cup Providers

\* What names a flow, a CSRF token and a flash is the request that made it.
Flows   == [state : Requests, provider : Providers, expires : Nat]
Session == [flows : SUBSET Flows, csrf : Requests \cup {None},
            flashes : SUBSET Requests, user : Requests \cup {None}]
Empty   == [flows |-> {}, csrf |-> None, flashes |-> {}, user |-> None]

VARIABLES
  clock,
  jar,         \* the session in the cookie the browser holds
  at,          \* where each request is
  asked,       \* what it asks for
  sess,        \* its copy of the session
  saved,       \* it has called Save: the response carries the cookie
  begun,       \* the provider of each flow that Begin stored
  granted,     \* the flows the user has agreed to at the provider
  spent,       \* the flows whose code the provider has taken
  sent,        \* history: who sent a code and a verifier to whom
  shown,       \* history: which flash was shown by whom
  signedOut,   \* history: the last that was received is a sign-out
  sequential   \* history: no request was sent before the last was answered

browserVars  == <<jar, at, asked, sess, saved>>
providerVars == <<begun, granted, spent>>
historyVars  == <<sent, shown, signedOut, sequential>>
vars == <<clock, browserVars, providerVars, historyVars>>

Kinds == [kind : {"begin"}, provider : Providers]
         \cup [kind : {"callback"}, provider : Providers, state : Requests, code : BOOLEAN]
         \cup [kind : {"page"}]
         \cup [kind : {"logout"}, token : Requests]

Init ==
  /\ clock = 0
  /\ jar = Empty
  /\ at = [r \in Requests |-> "idle"]
  /\ asked = [r \in Requests |-> [kind |-> "page"]]
  /\ sess = [r \in Requests |-> Empty]
  /\ saved = [r \in Requests |-> FALSE]
  /\ begun = [r \in Requests |-> None]
  /\ granted = {}
  /\ spent = {}
  /\ sent = {}
  /\ shown = {}
  /\ signedOut = FALSE
  /\ sequential = TRUE

-----------------------------------------------------------------------------
(* The browser, and the user at the provider.                               *)

Pending(r) == at[r] \notin {"idle", "answered"}

\* A callback carries the state of a flow that was begun, and the code when
\* the user agreed; a form carries the token of a page that was answered.
Possible(q) ==
  CASE q.kind = "callback" -> begun[q.state] # None /\ (q.code => q.state \in granted)
    [] q.kind = "logout"   -> at[q.token] = "answered" /\ jar.user # None
    [] OTHER               -> TRUE

Send(r, q) ==
  /\ at[r] = "idle" /\ Possible(q)
  /\ at' = [at EXCEPT ![r] = q.kind]
  /\ asked' = [asked EXCEPT ![r] = q]
  /\ sess' = [sess EXCEPT ![r] = jar]
  /\ sequential' = (sequential /\ \A x \in Requests : ~Pending(x))
  /\ UNCHANGED <<clock, jar, saved, providerVars, sent, shown, signedOut>>

\* A response that saved replaces the cookie.
Receive(r) ==
  /\ at[r] = "respond"
  /\ at' = [at EXCEPT ![r] = "answered"]
  /\ jar' = IF saved[r] THEN sess[r] ELSE jar
  /\ signedOut' = IF asked[r].kind = "logout" THEN sess[r].user = None
                  ELSE signedOut /\ ~(asked[r].kind = "callback" /\ sess[r].user = r)
  /\ UNCHANGED <<clock, asked, sess, saved, providerVars, sent, shown, sequential>>

\* The response is lost.
Lose(r) ==
  /\ at[r] = "respond"
  /\ at' = [at EXCEPT ![r] = "answered"]
  /\ sequential' = FALSE
  /\ UNCHANGED <<clock, jar, asked, sess, saved, providerVars, sent, shown, signedOut>>

Grant(n) ==
  /\ begun[n] # None /\ at[n] = "answered"
  /\ granted' = granted \cup {n}
  /\ UNCHANGED <<clock, browserVars, begun, spent, historyVars>>

Tick ==
  /\ clock < MaxTime
  /\ clock' = clock + 1
  /\ UNCHANGED <<browserVars, providerVars, historyVars>>

-----------------------------------------------------------------------------
(* What middleware and handlers do to the copy of the session.              *)

\* ensureToken, for every GET that CSRF sees, and for Token.
Minted(s, r) == IF s.csrf = None THEN [s EXCEPT !.csrf = r] ELSE s

\* PutFlash.
Flashed(s, r) == [s EXCEPT !.flashes = @ \cup {r}]

\* LogoutSession.
Forgotten(s) == [s EXCEPT !.user = None]

\* The handler of r goes on to place with the session s, saved if it differs
\* or the handler saves whatever it is.
Handles(r, place, s, saves) ==
  /\ at' = [at EXCEPT ![r] = place]
  /\ sess' = [sess EXCEPT ![r] = s]
  /\ saved' = [saved EXCEPT ![r] = @ \/ saves \/ s # sess[r]]
  /\ UNCHANGED <<clock, jar, asked, granted, signedOut, sequential>>

\* redirectOAuthFailure.
Fails(r, s) == Handles(r, "respond", Flashed(s, r), TRUE)

\* A page asks for the flashes and for the token of its form.
Page(r) ==
  /\ at[r] = "page"
  /\ LET s == Minted(sess[r], r) IN
     /\ Handles(r, "respond", [s EXCEPT !.flashes = {}], FALSE)
     /\ shown' = shown \cup {<<f, r>> : f \in s.flashes}
  /\ UNCHANGED <<begun, spent, sent>>

\* CSRF takes the token that the session holds.  What the application's own
\* handler for signing out does is LogoutSession.
Logout(r) ==
  /\ at[r] = "logout"
  /\ IF sess[r].csrf # None /\ sess[asked[r].token].csrf = sess[r].csrf
     THEN Handles(r, "respond", Forgotten(sess[r]), TRUE)
     ELSE Handles(r, "respond", sess[r], FALSE)
  /\ UNCHANGED <<begun, spent, sent, shown>>

-----------------------------------------------------------------------------
(* The manager of flows.                                                    *)

Begin(r) ==
  /\ at[r] = "begin"
  /\ LET s == Minted(sess[r], r)
         f == [state |-> r, provider |-> asked[r].provider, expires |-> clock + FlowTTL]
     IN IF Cardinality(s.flows) >= MaxPending
        THEN Fails(r, s) /\ UNCHANGED begun
        ELSE /\ Handles(r, "respond", [s EXCEPT !.flows = @ \cup {f}], TRUE)
             /\ begun' = [begun EXCEPT ![r] = asked[r].provider]
  /\ UNCHANGED <<spent, sent, shown>>

\* Mutant: the flow stays until its exchange has succeeded.
ConsumedLate(s, n) == s

\* delete and writeFlows, before anything is checked.
Consumed(s, n) == [s EXCEPT !.flows = {f \in @ : f.state # n}]

\* Mutant: any provider will do.
ValidForAnybody(f, q) == f.state = q.state /\ clock <= f.expires

Valid(f, q) == f.state = q.state /\ f.provider = q.provider /\ clock <= f.expires

\* Complete up to the exchange.  An error of the provider (no code) is
\* answered before Complete, and leaves the flow where it is.
Complete(r) ==
  /\ at[r] = "callback"
  /\ LET q == asked[r]
         s == Minted(sess[r], r)
         c == Consumed(s, q.state)
     IN IF ~q.code THEN Fails(r, s) /\ UNCHANGED sent
        ELSE IF \E f \in s.flows : Valid(f, q)
        THEN /\ Handles(r, "exchange", c, TRUE)
             /\ sent' = sent \cup {[by |-> r, state |-> q.state, to |-> q.provider]}
        ELSE Fails(r, c) /\ UNCHANGED sent
  /\ UNCHANGED <<begun, spent, shown>>

\* The provider takes a code once, and only with the verifier it belongs to;
\* the exchange, the profile or LoginOAuth may fail all the same.
Exchange(r) ==
  /\ at[r] = "exchange"
  /\ LET q == asked[r] IN
     \/ /\ q.state \in granted \ spent /\ begun[q.state] = q.provider
        /\ spent' = spent \cup {q.state}
        /\ Handles(r, "respond", Flashed([sess[r] EXCEPT !.user = r], r), TRUE)
     \/ /\ spent' \in {spent, spent \cup {q.state}}
        /\ Fails(r, sess[r])
  /\ UNCHANGED <<begun, sent, shown>>

-----------------------------------------------------------------------------
Next ==
  \/ Tick
  \/ \E r \in Requests :
       \/ \E q \in Kinds : Send(r, q)
       \/ Receive(r) \/ Lose(r) \/ Grant(r)
       \/ Page(r) \/ Logout(r) \/ Begin(r) \/ Complete(r) \/ Exchange(r)

Spec == Init /\ [][Next]_vars

-----------------------------------------------------------------------------
(* Every variable holds what its comment says.                              *)
TypeOK ==
  /\ clock \in 0..MaxTime
  /\ jar \in Session
  /\ at \in [Requests -> {"idle", "begin", "callback", "page", "logout",
                          "exchange", "respond", "answered"}]
  /\ asked \in [Requests -> Kinds]
  /\ sess \in [Requests -> Session]
  /\ saved \in [Requests -> BOOLEAN]
  /\ begun \in [Requests -> Providers \cup {None}]
  /\ granted \subseteq Requests /\ spent \subseteq Requests
  /\ sent \subseteq [by : Requests, state : Requests, to : Providers]
  /\ shown \subseteq Requests \X Requests
  /\ signedOut \in BOOLEAN /\ sequential \in BOOLEAN

(* The verifier of a flow is sent to the provider the flow was begun with   *)
(* and to nobody else, whatever callback comes for it and however cookies   *)
(* overwrite each other.                                                    *)
VerifierStaysWithProvider ==
  \A x \in sent : begun[x.state] = x.to

(* A browser that makes one request at a time and gets every answer sees    *)
(* what the packages promise: a callback "cannot be replayed", a flash is   *)
(* shown once, and a session that was signed out stays so until the next    *)
(* sign-in.  With requests under way together none of the three holds.      *)
SequentialSession ==
  sequential =>
    /\ \A x, y \in sent : x.state = y.state => x = y
    /\ \A x, y \in shown : x[1] = y[1] => x = y
    /\ signedOut => jar.user = None

=============================================================================
