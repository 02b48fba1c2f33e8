---------------------------- MODULE RealtimeHub ----------------------------
(***************************************************************************)
(* The fan-out hub of runtime/realtime/realtime.go: named channels, one    *)
(* bounded outbound queue per connection, and the goroutines that share    *)
(* them.  A WebSocket connection runs three goroutines (the handler, which *)
(* reads requests; writeWebSocket, which drains the queue; ping); a server-*)
(* sent-events connection runs one (the handler, which subscribes, then    *)
(* streams).  Publish and Close run on goroutines of the application.      *)
(*                                                                         *)
(* One step is one critical section of Hub.mu, one channel operation or    *)
(* one blocking call, so every interleaving the lock allows is explored.   *)
(* Names, payloads and errors are reduced to what the properties tell      *)
(* apart.                                                                  *)
(***************************************************************************)
EXTENDS Naturals, Sequences, FiniteSets

CONSTANTS
  WebSockets,    \* connections served by Hub.Handler
  Streams,       \* connections served by Hub.SSE
  NoClient,      \* the absence of a client, never one of the two sets above
  Names,         \* channel names anybody may mention, without surrounding space
  Spellings,     \* what a WebSocket message may hold as a name, padded or not
  TrimSpace,     \* strings.TrimSpace, from a spelling to its name
  Private,       \* the names registered with Hub.Private
  Publishers,    \* goroutines that call Hub.Publish
  Closers,       \* goroutines that call Hub.Close; "run" is the one of Hub.Run
  ClientBuffer,  \* Options.ClientBuffer, the capacity of client.send
  MaxPublishes,  \* bound: calls of Publish per publisher
  MaxRequests    \* bound: WebSocket requests, or SSE channels, per connection

Clients == WebSockets \cup Streams

ASSUME HubAssumption ==
  /\ WebSockets \cap Streams = {}
  /\ NoClient \notin Clients
  /\ Names # {}
  /\ Names \subseteq Spellings
  /\ TrimSpace \in [Spellings -> Names]
  /\ \A n \in Names : TrimSpace[n] = n
  /\ Private \subseteq Names
  /\ ClientBuffer \in Nat \ {0}
  /\ MaxPublishes \in Nat
  /\ MaxRequests \in Nat

VARIABLES
  channels,      \* the registered names, DOMAIN h.channels
  subscribers,   \* channel.clients of every name
  clients,       \* h.clients
  closing,       \* h.closed, h.closeOnce and h.done: open, sweeping, closed
  sweep,         \* the clients Close has still to remove
  sweepItem,     \* the client Close is removing
  closers,       \* who calls Close: Run and the application
  once,          \* client.once; client.done is closed when it is "finished"
  send,          \* client.send, the bounded outbound queue
  handler,       \* where the connection's request handler is
  work,          \* the handler's current request, then its reply to it
  asked,         \* how many requests (SSE: channels) it has taken up
  writer,        \* where writeWebSocket is
  pinger,        \* where ping is
  conn,          \* the network connection: none, open, closed
  publisher,     \* where a call of Publish is
  topic,         \* its channel name
  number,        \* how many calls the publisher has made
  snapshot,      \* its copy of channel.clients
  targets,       \* the clients of the copy its loop has not reached
  item,          \* the client its loop is at
  granted,       \* history: the private names a connection was granted
  log            \* history: every message ever accepted by client.send

mapVars  == <<channels, subscribers, clients>>
stopVars == <<closing, sweep, sweepItem, closers>>
hubVars  == <<mapVars, stopVars, once>>
msgVars  == <<send, log>>
reqVars  == <<work, asked, granted>>
sockVars == <<writer, pinger, conn>>
connVars == <<handler, reqVars, sockVars>>
pubVars  == <<publisher, topic, number, snapshot, targets, item>>
vars     == <<hubVars, msgVars, connVars, pubVars>>

Event(n, p, k) == [kind |-> "event", channel |-> n, from |-> p, number |-> k]
Ack(k, s)      == [kind |-> k, channel |-> s]
Error          == [kind |-> "error"]
Request        == {Ack(k, s) : k \in {"subscribe", "unsubscribe"}, s \in Spellings}

Message ==
  {Event(n, p, k) : n \in Names, p \in Publishers, k \in 1..MaxPublishes}
    \cup {Ack(k, s) : k \in {"subscribed", "unsubscribed"}, s \in Spellings}
    \cup {Error}

Done(c) == once[c] = "finished"     \* client.done is closed

Full(c) == Len(send[c]) >= ClientBuffer     \* client.send would block

Init ==
  /\ channels    = {}
  /\ subscribers = [n \in Names |-> {}]
  /\ clients     = {}
  /\ closing     = "open"
  /\ sweep       = {}
  /\ sweepItem   = NoClient
  /\ closers     = [k \in Closers |-> "idle"]
  /\ once        = [c \in Clients |-> "unused"]
  /\ send        = [c \in Clients |-> <<>>]
  /\ handler     = [c \in Clients |-> "new"]
  /\ work        = [c \in Clients |-> Error]
  /\ asked       = [c \in Clients |-> 0]
  /\ writer      = [c \in WebSockets |-> "none"]
  /\ pinger      = [c \in WebSockets |-> "none"]
  /\ conn        = [c \in Clients |-> "none"]
  /\ publisher   = [p \in Publishers |-> "idle"]
  /\ topic       = [p \in Publishers |-> CHOOSE n \in Names : TRUE]
  /\ number      = [p \in Publishers |-> 0]
  /\ snapshot    = [p \in Publishers |-> {}]
  /\ targets     = [p \in Publishers |-> {}]
  /\ item        = [p \in Publishers |-> NoClient]
  /\ granted     = [c \in Clients |-> {}]
  /\ log         = [c \in Clients |-> <<>>]
-----------------------------------------------------------------------------
(* Registration: Hub.Public, Hub.Private.  A name is registered once, and   *)
(* never on a closed hub.                                                   *)

Register(n) ==
  /\ n \notin channels
  /\ closing = "open"
  /\ channels' = channels \cup {n}
  /\ UNCHANGED <<subscribers, clients, stopVars, once, connVars, msgVars, pubVars>>

-----------------------------------------------------------------------------
(* Hub.remove.  sync.Once makes the first caller run the body and every     *)
(* other caller wait for it to end.  The body empties the maps under h.mu,  *)
(* then closes client.done outside it.                                      *)

Removing(c) ==
  \/ handler[c] = "exit"
  \/ c \in WebSockets /\ (writer[c] = "remove" \/ pinger[c] = "remove")
  \/ \E p \in Publishers : publisher[p] = "remove" /\ item[p] = c
  \/ sweepItem = c

Forget(c) ==
  /\ clients' = clients \ {c}
  /\ subscribers' = [n \in Names |-> subscribers[n] \ {c}]

RemoveEnter(c) ==
  /\ once[c] = "unused"
  /\ Removing(c)
  /\ once' = [once EXCEPT ![c] = "running"]
  /\ Forget(c)
  /\ UNCHANGED <<channels, stopVars, connVars, msgVars, pubVars>>

RemoveFinish(c) ==
  /\ once[c] = "running"
  /\ once' = [once EXCEPT ![c] = "finished"]
  /\ UNCHANGED <<mapVars, stopVars, connVars, msgVars, pubVars>>

-----------------------------------------------------------------------------
(* The request handlers: Hub.Handler for a WebSocket, Hub.SSE for a stream. *)

Goto(c, place) == handler' = [handler EXCEPT ![c] = place]

Disconnect(c) == conn' = [conn EXCEPT ![c] = "closed"]

\* Mutant: add admits a client whatever h.closed says.
AdmitsAlways == TRUE

Admits == closing = "open"     \* the test of Hub.add

\* Hub.add, and for a WebSocket the two goroutines started behind it.
Connect(c) ==
  /\ handler[c] = "new"
  /\ IF ~Admits
     THEN /\ Goto(c, "gone")
          /\ Disconnect(c)
          /\ UNCHANGED <<clients, writer, pinger>>
     ELSE /\ clients' = clients \cup {c}
          /\ conn' = [conn EXCEPT ![c] = "open"]
          /\ IF c \in WebSockets
             THEN /\ Goto(c, "read")
                  /\ writer' = [writer EXCEPT ![c] = "select"]
                  /\ pinger' = [pinger EXCEPT ![c] = "wait"]
             ELSE /\ Goto(c, "next")
                  /\ UNCHANGED <<writer, pinger>>
  /\ UNCHANGED <<channels, subscribers, stopVars, once, reqVars, msgVars, pubVars>>

\* connection.Read delivers a request.  An unreadable message and an unknown
\* action are both answered with an error.
Read(c) ==
  /\ c \in WebSockets
  /\ handler[c] = "read"
  /\ conn[c] = "open"
  /\ asked[c] < MaxRequests
  /\ asked' = [asked EXCEPT ![c] = @ + 1]
  /\ \/ \E r \in Request :
          /\ work' = [work EXCEPT ![c] = r]
          /\ Goto(c, IF r.kind = "subscribe" THEN "lookup" ELSE "unsubscribe")
     \/ /\ work' = [work EXCEPT ![c] = Error]
        /\ Goto(c, "reply")
  /\ UNCHANGED <<hubVars, msgVars, granted, sockVars, pubVars>>

\* connection.Read fails once the connection is closed, by either side.
ReadFails(c) ==
  /\ c \in WebSockets
  /\ handler[c] = "read"
  /\ conn[c] = "closed"
  /\ Goto(c, "exit")
  /\ UNCHANGED <<hubVars, msgVars, reqVars, sockVars, pubVars>>

\* The loop over requestedChannels, which trims every name: subscribe to one
\* more, or begin to stream.  A request that names no channel is refused.
NextChannel(c) ==
  /\ c \in Streams
  /\ handler[c] = "next"
  /\ \/ /\ asked[c] < MaxRequests
        /\ asked' = [asked EXCEPT ![c] = @ + 1]
        /\ \E n \in Names : work' = [work EXCEPT ![c] = Ack("subscribe", n)]
        /\ Goto(c, "lookup")
     \/ /\ Goto(c, IF asked[c] = 0 THEN "exit" ELSE "stream")
        /\ UNCHANGED <<asked, work>>
  /\ UNCHANGED <<hubVars, msgVars, granted, sockVars, pubVars>>

\* What a failed subscription leads to: an error message, or the end of a stream.
Refuse(c) ==
  /\ work' = [work EXCEPT ![c] = Error]
  /\ Goto(c, IF c \in WebSockets THEN "reply" ELSE "exit")

\* The name subscribe and unsubscribe work with.  The reply echoes the spelling.
Requested(c) == TrimSpace[work[c].channel]

\* Mutant: no channel asks its AuthFunc.
NeedsAuthNever(n) == FALSE

NeedsAuth(n) == n \in Private

\* Hub.subscribe under the read lock.
Lookup(c) ==
  /\ handler[c] = "lookup"
  /\ IF Requested(c) \in channels
     THEN /\ Goto(c, IF NeedsAuth(Requested(c)) THEN "authorize" ELSE "commit")
          /\ UNCHANGED work
     ELSE Refuse(c)
  /\ UNCHANGED <<hubVars, msgVars, asked, granted, sockVars, pubVars>>

\* Hub.subscribe between the locks: the AuthFunc of a private channel.
Authorize(c) ==
  /\ handler[c] = "authorize"
  /\ \/ /\ granted' = [granted EXCEPT ![c] = @ \cup {Requested(c)}]
        /\ Goto(c, "commit")
        /\ UNCHANGED work
     \/ /\ Refuse(c)
        /\ UNCHANGED granted
  /\ UNCHANGED <<hubVars, msgVars, asked, sockVars, pubVars>>

\* Hub.subscribe under the write lock.  It asks whether the hub is closed, not
\* whether the client is still one of h.clients.
Commit(c) ==
  /\ handler[c] = "commit"
  /\ IF closing = "open" /\ Requested(c) \in channels
     THEN /\ subscribers' = [subscribers EXCEPT ![Requested(c)] = @ \cup {c}]
          /\ work' = [work EXCEPT ![c] = Ack("subscribed", @.channel)]
          /\ Goto(c, "reply")
     ELSE /\ Refuse(c)
          /\ UNCHANGED subscribers
  /\ UNCHANGED <<channels, clients, stopVars, once,
                 asked, granted, sockVars, msgVars, pubVars>>

\* Mutant: unsubscribe looks the name up as the message spells it.
LeaveChannelAsSpelt(c) ==
  subscribers' =
    [n \in Names |-> IF n = work[c].channel THEN subscribers[n] \ {c} ELSE subscribers[n]]

LeaveChannel(c) == subscribers' = [subscribers EXCEPT ![Requested(c)] = @ \ {c}]

\* Hub.unsubscribe.
Unsubscribe(c) ==
  /\ handler[c] = "unsubscribe"
  /\ LeaveChannel(c)
  /\ work' = [work EXCEPT ![c] = Ack("unsubscribed", @.channel)]
  /\ Goto(c, "reply")
  /\ UNCHANGED <<channels, clients, stopVars, once,
                 asked, granted, sockVars, msgVars, pubVars>>

\* client.enqueue, first select: is client.done closed?
ReplyCheck(c) ==
  /\ handler[c] = "reply"
  /\ Goto(c, IF Done(c) THEN "exit" ELSE "enqueue")
  /\ UNCHANGED <<hubVars, msgVars, reqVars, sockVars, pubVars>>

\* client.enqueue, second select: a send that never blocks.
Accept(c, m) ==
  /\ send' = [send EXCEPT ![c] = Append(@, m)]
  /\ log' = [log EXCEPT ![c] = Append(@, m)]

ReplyEnqueue(c) ==
  /\ handler[c] = "enqueue"
  /\ IF Full(c)
     THEN Goto(c, "exit") /\ UNCHANGED <<send, log>>
     ELSE Accept(c, work[c]) /\ Goto(c, IF c \in WebSockets THEN "read" ELSE "next")
  /\ work' = [work EXCEPT ![c] = Error]
  /\ UNCHANGED <<hubVars, asked, granted, sockVars, pubVars>>

\* The select of the streaming loop, and the write of one frame.
StreamSelect(c) ==
  /\ handler[c] = "stream"
  /\ \/ /\ conn[c] = "closed" \/ Done(c)
        /\ Goto(c, "exit")
        /\ UNCHANGED send
     \/ /\ send[c] # <<>>
        /\ send' = [send EXCEPT ![c] = Tail(@)]
        /\ Goto(c, "write")
  /\ UNCHANGED <<hubVars, log, reqVars, sockVars, pubVars>>

StreamWrites(c) ==
  /\ handler[c] = "write"
  /\ Goto(c, "stream")
  /\ UNCHANGED <<hubVars, msgVars, reqVars, sockVars, pubVars>>

StreamWriteFails(c) ==
  /\ handler[c] = "write"
  /\ conn[c] = "closed"
  /\ Goto(c, "exit")
  /\ UNCHANGED <<hubVars, msgVars, reqVars, sockVars, pubVars>>

\* The deferred calls: remove, then for a WebSocket cancel and <-writerDone.
Leave(c) ==
  /\ handler[c] = "exit"
  /\ Done(c)
  /\ Goto(c, IF c \in WebSockets THEN "join" ELSE "gone")
  /\ UNCHANGED <<hubVars, msgVars, reqVars, sockVars, pubVars>>

Join(c) ==
  /\ handler[c] = "join"
  /\ writer[c] = "done"
  /\ Goto(c, "gone")
  /\ UNCHANGED <<hubVars, msgVars, reqVars, sockVars, pubVars>>

-----------------------------------------------------------------------------
(* writeWebSocket.  ctx is cancelled by the handler just before it joins.   *)

Cancelled(c) == handler[c] = "join"

Step(pc, c, place) == pc' = [pc EXCEPT ![c] = place]

\* Mutant: the writer does not watch client.done.
WriterStopsLate(c) == Cancelled(c)

WriterStops(c) == Cancelled(c) \/ Done(c)

WriterSelect(c) ==
  /\ writer[c] = "select"
  /\ \/ /\ WriterStops(c)
        /\ Disconnect(c)
        /\ Step(writer, c, "done")
        /\ UNCHANGED send
     \/ /\ send[c] # <<>>
        /\ send' = [send EXCEPT ![c] = Tail(@)]
        /\ Step(writer, c, "write")
        /\ UNCHANGED conn
  /\ UNCHANGED <<hubVars, log, handler, reqVars, pinger, pubVars>>

\* Mutant: the loop of writeWebSocket ends after its first message.
WriterWritesOnce(c) ==
  /\ writer[c] = "write"
  /\ Step(writer, c, "done")
  /\ UNCHANGED <<hubVars, msgVars, handler, reqVars, pinger, conn, pubVars>>

\* The peer takes the message.  A peer that has stopped reading never does.
WriterWrites(c) ==
  /\ writer[c] = "write"
  /\ Step(writer, c, "select")
  /\ UNCHANGED <<hubVars, msgVars, handler, reqVars, pinger, conn, pubVars>>

WriterFails(c) ==
  /\ writer[c] = "write"
  /\ conn[c] = "closed" \/ Cancelled(c)
  /\ Disconnect(c)
  /\ Step(writer, c, "remove")
  /\ UNCHANGED <<hubVars, msgVars, handler, reqVars, pinger, pubVars>>

WriterRemoved(c) ==
  /\ writer[c] = "remove"
  /\ Done(c)
  /\ Step(writer, c, "done")
  /\ UNCHANGED <<hubVars, msgVars, handler, reqVars, pinger, conn, pubVars>>

(* ping.  A ping fails when the peer does not answer it in time, whether or *)
(* not it still reads.                                                      *)

PingFails(c) ==
  /\ pinger[c] = "wait"
  /\ Step(pinger, c, "remove")
  /\ UNCHANGED <<hubVars, msgVars, handler, reqVars, writer, conn, pubVars>>

PingEnds(c) ==
  /\ \/ pinger[c] = "wait" /\ (Done(c) \/ handler[c] \in {"join", "gone"})
     \/ pinger[c] = "remove" /\ Done(c)
  /\ Step(pinger, c, "done")
  /\ UNCHANGED <<hubVars, msgVars, handler, reqVars, writer, conn, pubVars>>

\* The peer, or the network, closes the connection.
PeerCloses(c) ==
  /\ conn[c] = "open"
  /\ Disconnect(c)
  /\ UNCHANGED <<hubVars, msgVars, handler, reqVars, writer, pinger, pubVars>>

-----------------------------------------------------------------------------
(* Hub.Publish: copy channel.clients under the read lock, then offer the    *)
(* event to each client of the copy without any lock.                       *)

Publish(p, n) ==
  /\ publisher[p] = "idle"
  /\ number[p] < MaxPublishes
  /\ n \in channels
  /\ Step(publisher, p, "loop")
  /\ topic' = [topic EXCEPT ![p] = n]
  /\ number' = [number EXCEPT ![p] = @ + 1]
  /\ snapshot' = [snapshot EXCEPT ![p] = subscribers[n]]
  /\ targets' = [targets EXCEPT ![p] = subscribers[n]]
  /\ UNCHANGED <<hubVars, msgVars, connVars, item>>

\* Mutant: the loop does not advance past the client it is at.
StillAhead(p, c) == targets[p]

Ahead(p, c) == targets[p] \ {c}

PublishCheck(p) ==
  /\ publisher[p] = "loop"
  /\ \E c \in targets[p] :
       /\ item' = [item EXCEPT ![p] = c]
       /\ targets' = [targets EXCEPT ![p] = Ahead(p, c)]
       /\ Step(publisher, p, IF Done(c) THEN "remove" ELSE "enqueue")
  /\ UNCHANGED <<hubVars, msgVars, connVars, topic, number, snapshot>>

\* Mutant: a full queue makes Publish skip the client instead of removing it.
PublishEnqueueDrops(p) ==
  /\ publisher[p] = "enqueue"
  /\ IF Full(item[p])
     THEN UNCHANGED msgVars
     ELSE Accept(item[p], Event(topic[p], p, number[p]))
  /\ Step(publisher, p, "loop")
  /\ item' = [item EXCEPT ![p] = NoClient]
  /\ UNCHANGED <<hubVars, connVars, topic, number, snapshot, targets>>

PublishEnqueue(p) ==
  /\ publisher[p] = "enqueue"
  /\ IF Full(item[p])
     THEN /\ Step(publisher, p, "remove")
          /\ UNCHANGED <<msgVars, item>>
     ELSE /\ Accept(item[p], Event(topic[p], p, number[p]))
          /\ Step(publisher, p, "loop")
          /\ item' = [item EXCEPT ![p] = NoClient]
  /\ UNCHANGED <<hubVars, connVars, topic, number, snapshot, targets>>

PublishRemoved(p) ==
  /\ publisher[p] = "remove"
  /\ Done(item[p])
  /\ Step(publisher, p, "loop")
  /\ item' = [item EXCEPT ![p] = NoClient]
  /\ UNCHANGED <<hubVars, msgVars, connVars, topic, number, snapshot, targets>>

PublishReturn(p) ==
  /\ publisher[p] = "loop"
  /\ targets[p] = {}
  /\ Step(publisher, p, "idle")
  /\ snapshot' = [snapshot EXCEPT ![p] = {}]
  /\ UNCHANGED <<hubVars, msgVars, connVars, topic, number, targets, item>>

-----------------------------------------------------------------------------
(* Hub.Close, called by Hub.Run when its context ends and by anybody else.  *)
(* closeOnce makes one caller run the body and the others wait for it.      *)

CallClose(k) ==
  /\ closers[k] = "idle"
  /\ Step(closers, k, "closing")
  /\ UNCHANGED <<mapVars, closing, sweep, sweepItem, once, connVars, msgVars, pubVars>>

CloseBegin ==
  /\ closing = "open"
  /\ \E k \in Closers : closers[k] = "closing"
  /\ closing' = "sweeping"
  /\ sweep' = clients
  /\ UNCHANGED <<mapVars, sweepItem, closers, once, connVars, msgVars, pubVars>>

CloseNext ==
  /\ closing = "sweeping"
  /\ sweepItem = NoClient
  /\ \E c \in sweep :
       /\ sweepItem' = c
       /\ sweep' = sweep \ {c}
  /\ UNCHANGED <<mapVars, closing, closers, once, connVars, msgVars, pubVars>>

CloseRemoved ==
  /\ sweepItem # NoClient
  /\ Done(sweepItem)
  /\ sweepItem' = NoClient
  /\ UNCHANGED <<mapVars, closing, sweep, closers, once, connVars, msgVars, pubVars>>

CloseFinish ==
  /\ closing = "sweeping"
  /\ sweep = {}
  /\ sweepItem = NoClient
  /\ closing' = "closed"
  /\ UNCHANGED <<mapVars, sweep, sweepItem, closers, once, connVars, msgVars, pubVars>>

\* Mutant: h.done is never closed, so Run notices only its own context.
CloseReturnCallerOnly(k) ==
  /\ closing = "closed"
  /\ closers[k] = "closing"
  /\ Step(closers, k, "returned")
  /\ UNCHANGED <<mapVars, closing, sweep, sweepItem, once, connVars, msgVars, pubVars>>

\* Close returns once the hub is closed; so does Run, which also watches h.done.
CloseReturn(k) ==
  /\ closing = "closed"
  /\ closers[k] = "closing" \/ (k = "run" /\ closers[k] = "idle")
  /\ Step(closers, k, "returned")
  /\ UNCHANGED <<mapVars, closing, sweep, sweepItem, once, connVars, msgVars, pubVars>>

-----------------------------------------------------------------------------
(* The goroutines.  What a peer or the application decides to do is kept    *)
(* apart from what a goroutine does on its own: only the latter is fair.    *)

HandlerStep(c) ==
  \/ ReadFails(c) \/ NextChannel(c) \/ Lookup(c) \/ Authorize(c) \/ Commit(c)
  \/ Unsubscribe(c) \/ ReplyCheck(c) \/ ReplyEnqueue(c)
  \/ StreamSelect(c) \/ StreamWriteFails(c) \/ Leave(c) \/ Join(c)

WriterStep(c) == WriterSelect(c) \/ WriterFails(c) \/ WriterRemoved(c)

PublisherStep(p) ==
  PublishCheck(p) \/ PublishEnqueue(p) \/ PublishRemoved(p) \/ PublishReturn(p)

CloseStep == CloseBegin \/ CloseNext \/ CloseRemoved \/ CloseFinish

Next ==
  \/ \E n \in Names : Register(n)
  \/ \E c \in Clients : \/ Connect(c) \/ Read(c) \/ PeerCloses(c)
                        \/ HandlerStep(c) \/ StreamWrites(c)
                        \/ RemoveEnter(c) \/ RemoveFinish(c)
  \/ \E c \in WebSockets : \/ WriterStep(c) \/ WriterWrites(c)
                           \/ PingFails(c) \/ PingEnds(c)
  \/ \E p \in Publishers : PublisherStep(p) \/ \E n \in Names : Publish(p, n)
  \/ CloseStep
  \/ \E k \in Closers : CallClose(k) \/ CloseReturn(k)

Spec == Init /\ [][Next]_vars

\* Goroutines are scheduled, critical sections are short and the sync package
\* starves nobody.  Peers are promised nothing: they may stop reading for ever.
FairSpec ==
  /\ Spec
  /\ \A c \in Clients : /\ WF_vars(HandlerStep(c))
                        /\ WF_vars(RemoveEnter(c) \/ RemoveFinish(c))
  /\ \A c \in WebSockets : WF_vars(WriterStep(c)) /\ WF_vars(PingEnds(c))
  /\ \A p \in Publishers : WF_vars(PublisherStep(p))
  /\ WF_vars(CloseStep)
  /\ \A k \in Closers : WF_vars(CloseReturn(k))

-----------------------------------------------------------------------------
\* Where a request handler can be.
Places == {"new", "read", "next", "lookup", "authorize", "commit", "unsubscribe",
           "reply", "enqueue", "stream", "write", "exit", "join", "gone"}

HubTypeOK ==
  /\ channels \subseteq Names
  /\ subscribers \in [Names -> SUBSET Clients]
  /\ clients \subseteq Clients
  /\ closing \in {"open", "sweeping", "closed"}
  /\ sweep \subseteq Clients
  /\ sweepItem \in Clients \cup {NoClient}
  /\ closers \in [Closers -> {"idle", "closing", "returned"}]
  /\ once \in [Clients -> {"unused", "running", "finished"}]

QueueTypeOK ==
  /\ send \in [Clients -> Seq(Message)]
  /\ \A c \in Clients : Len(send[c]) <= ClientBuffer
  /\ log \in [Clients -> Seq(Message)]

ConnectionTypeOK ==
  /\ handler \in [Clients -> Places]
  /\ work \in [Clients -> Request \cup Message]
  /\ asked \in [Clients -> 0..MaxRequests]
  /\ writer \in [WebSockets -> {"none", "select", "write", "remove", "done"}]
  /\ pinger \in [WebSockets -> {"none", "wait", "remove", "done"}]
  /\ conn \in [Clients -> {"none", "open", "closed"}]
  /\ granted \in [Clients -> SUBSET Names]

PublisherTypeOK ==
  /\ publisher \in [Publishers -> {"idle", "loop", "enqueue", "remove"}]
  /\ topic \in [Publishers -> Names]
  /\ number \in [Publishers -> 0..MaxPublishes]
  /\ snapshot \in [Publishers -> SUBSET Clients]
  /\ targets \in [Publishers -> SUBSET Clients]
  /\ item \in [Publishers -> Clients \cup {NoClient}]

(* Every variable holds what its comment says: the maps hold connections,   *)
(* the queues hold messages, and no queue outgrows Options.ClientBuffer.    *)
TypeOK == HubTypeOK /\ QueueTypeOK /\ ConnectionTypeOK /\ PublisherTypeOK

\* m acknowledges a request about n, however the request spelt it.
Says(m, k, n) == m.kind = k /\ TrimSpace[m.channel] = n

\* What a client has been told: the last acknowledgement about n says so.
Told(c, n) ==
  \E i \in DOMAIN log[c] :
    /\ Says(log[c][i], "subscribed", n)
    /\ \A j \in i + 1 .. Len(log[c]) : ~Says(log[c][j], "unsubscribed", n)

Accepted(c, m) == \E i \in DOMAIN log[c] : log[c][i] = m

(* Publish loses no event silently.  Whatever interleaves with its unlocked *)
(* loop, each client the loop has passed has the event in its stream or has *)
(* been removed from the hub (Publish: enqueue, else remove).               *)
DeliveredOrEvicted ==
  \A p \in Publishers : publisher[p] # "idle" =>
    \A c \in snapshot[p] \ (targets[p] \cup {item[p]}) :
      Done(c) \/ Accepted(c, Event(topic[p], p, number[p]))

(* One publisher's events reach a client in the order of the Publish calls, *)
(* and none reaches it twice, although each call walks a fresh copy of the  *)
(* subscribers without the lock.                                            *)
PublisherOrder ==
  \A c \in Clients : \A i, j \in DOMAIN log[c] :
    ( /\ i < j
      /\ log[c][i].kind = "event"
      /\ log[c][j].kind = "event"
      /\ log[c][i].from = log[c][j].from )
    => log[c][i].number < log[c][j].number

(* A connection is sent events of a private channel only after that         *)
(* channel's AuthFunc has accepted this connection (Hub.subscribe).         *)
AuthorizedStream ==
  \A c \in Clients : \A i \in DOMAIN log[c] :
    (log[c][i].kind = "event" /\ log[c][i].channel \in Private)
      => log[c][i].channel \in granted[c]

(* Between two requests, a client that nobody has begun to remove is        *)
(* subscribed to exactly the channels its acknowledgements say, once their  *)
(* spelling is trimmed: "admin " and "admin" name one subscription, and an  *)
(* unsubscription under either spelling ends it.                            *)
AcknowledgedView ==
  \A c \in Clients :
    (handler[c] \in {"read", "stream", "write"} /\ once[c] = "unused")
      => \A n \in Names : c \in subscribers[n] <=> Told(c, n)

(* h.clients holds exactly the connections whose handler runs and whose     *)
(* removal has not begun: nothing Close should end is missing from it, and  *)
(* nothing that has left comes back (add, remove).                          *)
ClientsAreTracked ==
  \A c \in Clients :
    c \in clients <=> (handler[c] \notin {"new", "gone"} /\ once[c] = "unused")

(* When Close closes h.done every connection has been removed, those that   *)
(* raced with it included: add refuses after h.closed, and the copy Close   *)
(* sweeps was taken in the critical section that set it.                    *)
ClosedHubIsEmpty ==
  closing = "closed" => clients = {}

(* The eviction promise of TestPublishEvictsSlowClients, "evicted client    *)
(* remains subscribed" being its failure: a client that was removed is in   *)
(* no channel, at the latest when its handler has returned.                 *)
EvictedIsUnsubscribed ==
  \A c \in Clients : (Done(c) /\ handler[c] = "gone")
    => \A n \in Names : c \notin subscribers[n]

(* Close and Run return once Close is called, whatever the peers do and     *)
(* whoever else removes clients at the same time.                           *)
CloseReturns ==
  \A k \in Closers : closers[k] = "closing" ~> \A j \in {k, "run"} : closers[j] = "returned"

\* The peer does not leave a write pending for ever.
Responsive(c) ==
  []<>(handler[c] # "write" /\ (c \in WebSockets => writer[c] # "write"))

\* Every goroutine of the connection has returned.
TornDown(c) ==
  /\ handler[c] = "gone"
  /\ c \in WebSockets => writer[c] = "done" /\ pinger[c] = "done"

(* A removed client whose peer keeps reading is torn down: its goroutines   *)
(* return, whichever of them, of the publishers or Close removed it.        *)
RemovedIsTornDown ==
  \A c \in Clients : Responsive(c) => (Done(c) ~> TornDown(c))

(* Every message the queue accepted is handed to the connection or the      *)
(* client is removed: nothing sits in a live client's queue for ever.       *)
AcceptedIsWritten ==
  \A c \in Clients : Responsive(c) => (send[c] # <<>> ~> (send[c] = <<>> \/ Done(c)))

=============================================================================
