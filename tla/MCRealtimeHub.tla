--------------------------- MODULE MCRealtimeHub ---------------------------
(* Model-checking instances of RealtimeHub. *)
EXTENDS RealtimeHub, TLC

\* A name with a space behind it, and what strings.TrimSpace makes of it.
Trim == [s \in Spellings |-> IF s = "admin " THEN "admin" ELSE s]

\* Connections of one kind, and publishers, run the same code, and no property
\* names one of them.
Symmetry == Permutations(Streams) \cup Permutations(Publishers)

\* In the run "hub" connections of one kind only are made; beside streams,
\* of which there are two, one event is published.
Connected(kind) == \E c \in kind : conn[c] # "none"

Small ==
  Connected(Streams) => ~Connected(WebSockets) /\ \A p \in Publishers : number[p] <= 1

\* Next, with the two actions that could break Small restricted.
HubNext ==
  \/ \E c \in Clients : Connect(c) /\ Small'
  \/ \E p \in Publishers, n \in Names : Publish(p, n) /\ Small'
  \/ \E n \in Names : Register(n)
  \/ \E c \in Clients : \/ Read(c) \/ PeerCloses(c) \/ HandlerStep(c) \/ StreamWrites(c)
                        \/ RemoveEnter(c) \/ RemoveFinish(c)
  \/ \E c \in WebSockets : \/ WriterStep(c) \/ WriterWrites(c)
                           \/ PingFails(c) \/ PingEnds(c)
  \/ \E p \in Publishers : PublisherStep(p)
  \/ CloseStep
  \/ \E k \in Closers : CallClose(k) \/ CloseReturn(k)

HubSpec == Init /\ [][HubNext]_vars
============================================================================
