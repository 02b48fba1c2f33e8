------------------------- MODULE RealtimeHubProofs -------------------------
(***************************************************************************)
(* Theorems about RealtimeHub, for any connections, names, publishers and  *)
(* queue capacity.                                                         *)
(***************************************************************************)
EXTENDS RealtimeHub, TLAPS

(* What the locals of a goroutine hold depends on where it is: the handler  *)
(* has a request until it has a reply, and Publish is at a client while it  *)
(* offers it the event.                                                     *)
Locals ==
  /\ \A c \in Clients :
       /\ handler[c] \in {"lookup", "authorize", "commit", "unsubscribe"}
            => work[c] \in Request
       /\ handler[c] \in {"reply", "enqueue"} => work[c] \in Message
  /\ \A p \in Publishers :
       /\ publisher[p] # "idle" => number[p] \in 1..MaxPublishes
       /\ publisher[p] \in {"enqueue", "remove"} => item[p] \in Clients
       /\ publisher[p] \notin {"enqueue", "remove"} => item[p] = NoClient

(* What the constructors of messages and requests build.                    *)
LEMMA MessageFacts ==
  /\ \A n \in Names, p \in Publishers, k \in 1..MaxPublishes : Event(n, p, k) \in Message
  /\ \A n \in Spellings : Ack("subscribed", n) \in Message
  /\ \A n \in Spellings : Ack("unsubscribed", n) \in Message
  /\ Error \in Message
  /\ \A n \in Names : Ack("subscribe", n) \in Request
  /\ \A r \in Request : r.channel \in Spellings /\ TrimSpace[r.channel] \in Names
<1>1. \A n \in Names, p \in Publishers, k \in 1..MaxPublishes : Event(n, p, k) \in Message
  BY DEF Message
<1>2. ASSUME NEW n \in Spellings PROVE Ack("subscribed", n) \in Message
  BY DEF Message
<1>3. ASSUME NEW n \in Spellings PROVE Ack("unsubscribed", n) \in Message
  BY DEF Message
<1>4. Error \in Message
  BY DEF Message
<1>5. ASSUME NEW n \in Names PROVE Ack("subscribe", n) \in Request
  BY HubAssumption DEF Request
<1>6. ASSUME NEW r \in Request PROVE r.channel \in Spellings /\ TrimSpace[r.channel] \in Names
  <2>1. PICK k \in {"subscribe", "unsubscribe"}, n \in Spellings : r = Ack(k, n)
    BY <1>6 DEF Request
  <2>2. QED
    BY <2>1, HubAssumption DEF Ack
<1>7. QED
  BY <1>1, <1>2, <1>3, <1>4, <1>5, <1>6

(* The initial values have their types.                                     *)
LEMMA InitTyped == Init => TypeOK /\ Locals
<1> SUFFICES ASSUME Init PROVE TypeOK /\ Locals
  OBVIOUS
<1> USE HubAssumption, MessageFacts
<1>1. send \in [Clients -> Seq(Message)] /\ \A c \in Clients : Len(send[c]) <= ClientBuffer
  BY DEF Init
<1>2. log \in [Clients -> Seq(Message)]
  BY DEF Init
<1>3. HubTypeOK /\ QueueTypeOK /\ PublisherTypeOK
  BY <1>1, <1>2 DEF Init, HubTypeOK, QueueTypeOK, PublisherTypeOK
<1>4. ConnectionTypeOK
  BY DEF Init, ConnectionTypeOK, Places
<1>5. Locals
  BY DEF Init, Locals
<1>6. QED
  BY <1>3, <1>4, <1>5 DEF TypeOK


(* A send into a queue that is not full keeps the queues within their       *)
(* bound.                                                                   *)
LEMMA PushTyped ==
  ASSUME QueueTypeOK, NEW c \in Clients, NEW m \in Message, ~Full(c), Accept(c, m)
  PROVE  QueueTypeOK'
<1>1. send' \in [Clients -> Seq(Message)]
  <2>1. Append(send[c], m) \in Seq(Message)
    BY DEF QueueTypeOK
  <2>2. QED
    BY <2>1 DEF QueueTypeOK, Accept
<1>2. log' \in [Clients -> Seq(Message)]
  <2>1. Append(log[c], m) \in Seq(Message)
    BY DEF QueueTypeOK
  <2>2. QED
    BY <2>1 DEF QueueTypeOK, Accept
<1>3. ASSUME NEW d \in Clients PROVE Len(send'[d]) <= ClientBuffer
  <2>1. send[c] \in Seq(Message) /\ Len(send[c]) \in Nat
    BY DEF QueueTypeOK
  <2>2. Len(Append(send[c], m)) = Len(send[c]) + 1
    BY <2>1
  <2>3. send'[d] = IF d = c THEN Append(send[c], m) ELSE send[d]
    BY DEF QueueTypeOK, Accept
  <2>4. QED
    BY <2>1, <2>2, <2>3, HubAssumption DEF QueueTypeOK, Full
<1>4. QED
  BY <1>1, <1>2, <1>3 DEF QueueTypeOK

(* Taking the first message off a queue keeps the queues typed.             *)
LEMMA PopTyped ==
  ASSUME QueueTypeOK, NEW c \in Clients, send[c] # <<>>,
         send' = [send EXCEPT ![c] = Tail(@)], UNCHANGED log
  PROVE  QueueTypeOK'
<1>1. Tail(send[c]) \in Seq(Message) /\ Len(Tail(send[c])) = Len(send[c]) - 1
  BY DEF QueueTypeOK
<1>2. send' \in [Clients -> Seq(Message)]
  BY <1>1 DEF QueueTypeOK
<1>3. ASSUME NEW d \in Clients PROVE Len(send'[d]) <= ClientBuffer
  <2>1. send'[d] = IF d = c THEN Tail(send[c]) ELSE send[d]
    BY DEF QueueTypeOK
  <2>2. send[c] \in Seq(Message) /\ Len(send[c]) \in Nat /\ Len(send[c]) <= ClientBuffer
    BY DEF QueueTypeOK
  <2>3. QED
    BY <1>1, <2>1, <2>2, HubAssumption DEF QueueTypeOK
<1>4. QED
  BY <1>2, <1>3 DEF QueueTypeOK

(* Every step keeps the types; what a handler or Publish sends is a message *)
(* because of what Locals says about it.                                    *)
LEMMA StepTyped == TypeOK /\ Locals /\ [Next]_vars => TypeOK'
<1> SUFFICES ASSUME TypeOK, Locals, [Next]_vars PROVE TypeOK'
  OBVIOUS
<1> USE DEF vars, hubVars, mapVars, stopVars, msgVars, reqVars, sockVars,
        connVars, pubVars
<1>1. ASSUME NEW n \in Names, Register(n) PROVE TypeOK'
  BY <1>1 DEF Register, TypeOK, HubTypeOK, QueueTypeOK, ConnectionTypeOK, PublisherTypeOK
<1>2. ASSUME NEW c \in Clients, Connect(c) PROVE TypeOK'
  <2>1. handler' \in [Clients -> Places]
    BY <1>2 DEF TypeOK, ConnectionTypeOK, Connect, Goto, Places
  <2>2. conn' \in [Clients -> {"none", "open", "closed"}]
    BY <1>2 DEF TypeOK, ConnectionTypeOK, Connect, Disconnect
  <2>3. writer' \in [WebSockets -> {"none", "select", "write", "remove", "done"}]
    BY <1>2 DEF TypeOK, ConnectionTypeOK, Connect
  <2>4. pinger' \in [WebSockets -> {"none", "wait", "remove", "done"}]
    BY <1>2 DEF TypeOK, ConnectionTypeOK, Connect
  <2>5. HubTypeOK'
    BY <1>2 DEF TypeOK, HubTypeOK, Connect, stopVars
  <2>6. QED
    BY <1>2, <2>1, <2>2, <2>3, <2>4, <2>5 DEF Connect, TypeOK, HubTypeOK, QueueTypeOK,
         ConnectionTypeOK, PublisherTypeOK
<1>3. ASSUME NEW c \in Clients, Read(c) PROVE TypeOK'
  <2>1. \E m \in Request \cup {Error} : work' = [work EXCEPT ![c] = m]
    BY <1>3 DEF Read
  <2>2. work' \in [Clients -> Request \cup Message]
    BY <2>1, MessageFacts DEF TypeOK, ConnectionTypeOK
  <2>3. handler' \in [Clients -> Places]
    BY <1>3 DEF TypeOK, ConnectionTypeOK, Read, Goto, Places
  <2>4. asked' \in [Clients -> 0..MaxRequests]
    BY <1>3, HubAssumption DEF TypeOK, ConnectionTypeOK, Read
  <2>5. QED
    BY <1>3, <2>1, <2>2, <2>3, <2>4 DEF Read, TypeOK, HubTypeOK, QueueTypeOK,
         ConnectionTypeOK, PublisherTypeOK
<1>4. ASSUME NEW c \in Clients, PeerCloses(c) PROVE TypeOK'
  BY <1>4 DEF PeerCloses, Disconnect, TypeOK, HubTypeOK, QueueTypeOK, ConnectionTypeOK,
       PublisherTypeOK
<1>5. ASSUME NEW c \in Clients, ReadFails(c) PROVE TypeOK'
  BY <1>5 DEF ReadFails, Goto, Places, TypeOK, HubTypeOK, QueueTypeOK, ConnectionTypeOK,
       PublisherTypeOK
<1>6. ASSUME NEW c \in Clients, NextChannel(c) PROVE TypeOK'
  <2>1. work' \in [Clients -> Request \cup Message]
    BY <1>6, MessageFacts DEF TypeOK, ConnectionTypeOK, NextChannel
  <2>2. handler' \in [Clients -> Places]
    BY <1>6 DEF TypeOK, ConnectionTypeOK, NextChannel, Goto, Places
  <2>3. asked' \in [Clients -> 0..MaxRequests]
    BY <1>6, HubAssumption DEF TypeOK, ConnectionTypeOK, NextChannel
  <2>4. QED
    BY <1>6, <2>1, <2>2, <2>3 DEF NextChannel, TypeOK, HubTypeOK, QueueTypeOK,
         ConnectionTypeOK, PublisherTypeOK
<1>7. ASSUME NEW c \in Clients, Lookup(c) PROVE TypeOK'
  <2>1. work' \in [Clients -> Request \cup Message]
    BY <1>7, MessageFacts DEF TypeOK, ConnectionTypeOK, Lookup, Refuse
  <2>2. handler' \in [Clients -> Places]
    BY <1>7 DEF TypeOK, ConnectionTypeOK, Lookup, Refuse, Goto, Places
  <2>3. QED
    BY <1>7, <2>1, <2>2 DEF Lookup, TypeOK, HubTypeOK, QueueTypeOK, ConnectionTypeOK,
         PublisherTypeOK
<1>8. ASSUME NEW c \in Clients, Authorize(c) PROVE TypeOK'
  <2>1. work' \in [Clients -> Request \cup Message]
    BY <1>8, MessageFacts DEF TypeOK, ConnectionTypeOK, Authorize, Refuse
  <2>2. handler' \in [Clients -> Places]
    BY <1>8 DEF TypeOK, ConnectionTypeOK, Authorize, Refuse, Goto, Places
  <2>3. Requested(c) \in Names
    BY <1>8, MessageFacts DEF Locals, Authorize, Requested
  <2>4. granted' \in [Clients -> SUBSET Names]
    BY <1>8, <2>3 DEF TypeOK, ConnectionTypeOK, Authorize
  <2>5. QED
    BY <1>8, <2>1, <2>2, <2>3, <2>4 DEF Authorize, TypeOK, HubTypeOK, QueueTypeOK,
         ConnectionTypeOK, PublisherTypeOK
<1>9. ASSUME NEW c \in Clients, Commit(c) PROVE TypeOK'
  <2>1. Requested(c) \in Names /\ work[c].channel \in Spellings
    BY <1>9, MessageFacts DEF Locals, Commit, Requested
  <2>2. work' \in [Clients -> Request \cup Message]
    BY <1>9, <2>1, MessageFacts DEF TypeOK, ConnectionTypeOK, Commit, Refuse
  <2>3. handler' \in [Clients -> Places]
    BY <1>9 DEF TypeOK, ConnectionTypeOK, Commit, Refuse, Goto, Places
  <2>4. subscribers' \in [Names -> SUBSET Clients]
    BY <1>9 DEF TypeOK, HubTypeOK, Commit
  <2>5. QED
    BY <1>9, <2>1, <2>2, <2>3, <2>4 DEF Commit, TypeOK, HubTypeOK, QueueTypeOK,
         ConnectionTypeOK, PublisherTypeOK
<1>10. ASSUME NEW c \in Clients, Unsubscribe(c) PROVE TypeOK'
  BY <1>10, MessageFacts DEF Locals, Unsubscribe, LeaveChannel, Goto, Places, TypeOK,
       HubTypeOK, QueueTypeOK, ConnectionTypeOK, PublisherTypeOK
<1>11. ASSUME NEW c \in Clients, ReplyCheck(c) PROVE TypeOK'
  BY <1>11 DEF ReplyCheck, Goto, Places, TypeOK, HubTypeOK, QueueTypeOK, ConnectionTypeOK,
       PublisherTypeOK
<1>12. ASSUME NEW c \in Clients, ReplyEnqueue(c) PROVE TypeOK'
  <2>1. work[c] \in Message
    BY <1>12 DEF Locals, ReplyEnqueue
  <2>2. QueueTypeOK'
    BY <1>12, <2>1, PushTyped DEF TypeOK, QueueTypeOK, ReplyEnqueue
  <2>3. work' \in [Clients -> Request \cup Message]
    BY <1>12, MessageFacts DEF TypeOK, ConnectionTypeOK, ReplyEnqueue
  <2>4. handler' \in [Clients -> Places]
    BY <1>12 DEF TypeOK, ConnectionTypeOK, ReplyEnqueue, Goto, Places
  <2>5. QED
    BY <1>12, <2>1, <2>2, <2>3, <2>4 DEF ReplyEnqueue, TypeOK, HubTypeOK, QueueTypeOK,
         ConnectionTypeOK, PublisherTypeOK
<1>13. ASSUME NEW c \in Clients, StreamSelect(c) PROVE TypeOK'
  <2>1. handler' \in [Clients -> Places]
    BY <1>13 DEF TypeOK, ConnectionTypeOK, StreamSelect, Goto, Places
  <2>2. QueueTypeOK'
    BY <1>13, PopTyped DEF TypeOK, QueueTypeOK, StreamSelect
  <2>3. QED
    BY <1>13, <2>1, <2>2 DEF StreamSelect, TypeOK, HubTypeOK, QueueTypeOK,
         ConnectionTypeOK, PublisherTypeOK
<1>14. ASSUME NEW c \in Clients, StreamWriteFails(c) PROVE TypeOK'
  BY <1>14 DEF StreamWriteFails, Goto, Places, TypeOK, HubTypeOK, QueueTypeOK,
       ConnectionTypeOK, PublisherTypeOK
<1>15. ASSUME NEW c \in Clients, Leave(c) PROVE TypeOK'
  BY <1>15 DEF Leave, Goto, Places, TypeOK, HubTypeOK, QueueTypeOK, ConnectionTypeOK,
       PublisherTypeOK
<1>16. ASSUME NEW c \in Clients, Join(c) PROVE TypeOK'
  BY <1>16 DEF Join, Goto, Places, TypeOK, HubTypeOK, QueueTypeOK, ConnectionTypeOK,
       PublisherTypeOK
<1>17. ASSUME NEW c \in Clients, StreamWrites(c) PROVE TypeOK'
  BY <1>17 DEF StreamWrites, Goto, Places, TypeOK, HubTypeOK, QueueTypeOK,
       ConnectionTypeOK, PublisherTypeOK
<1>18. ASSUME NEW c \in Clients, RemoveEnter(c) PROVE TypeOK'
  BY <1>18 DEF RemoveEnter, Forget, TypeOK, HubTypeOK, QueueTypeOK, ConnectionTypeOK,
       PublisherTypeOK
<1>19. ASSUME NEW c \in Clients, RemoveFinish(c) PROVE TypeOK'
  BY <1>19 DEF RemoveFinish, TypeOK, HubTypeOK, QueueTypeOK, ConnectionTypeOK, PublisherTypeOK
<1>20. ASSUME NEW c \in WebSockets, WriterSelect(c) PROVE TypeOK'
  <2>1. c \in Clients
    BY DEF Clients
  <2>2. QueueTypeOK'
    BY <1>20, <2>1, PopTyped DEF TypeOK, QueueTypeOK, WriterSelect
  <2>3. writer' \in [WebSockets -> {"none", "select", "write", "remove", "done"}]
    BY <1>20 DEF TypeOK, ConnectionTypeOK, WriterSelect, Step
  <2>4. conn' \in [Clients -> {"none", "open", "closed"}]
    BY <1>20 DEF TypeOK, ConnectionTypeOK, WriterSelect, Disconnect
  <2>5. QED
    BY <1>20, <2>1, <2>2, <2>3, <2>4 DEF WriterSelect, TypeOK, HubTypeOK, QueueTypeOK,
         ConnectionTypeOK, PublisherTypeOK
<1>21. ASSUME NEW c \in WebSockets, WriterFails(c) PROVE TypeOK'
  BY <1>21 DEF WriterFails, Disconnect, Step, TypeOK, HubTypeOK, QueueTypeOK,
       ConnectionTypeOK, PublisherTypeOK
<1>22. ASSUME NEW c \in WebSockets, WriterRemoved(c) PROVE TypeOK'
  BY <1>22 DEF WriterRemoved, Step, TypeOK, HubTypeOK, QueueTypeOK, ConnectionTypeOK,
       PublisherTypeOK
<1>23. ASSUME NEW c \in WebSockets, WriterWrites(c) PROVE TypeOK'
  BY <1>23 DEF WriterWrites, Step, TypeOK, HubTypeOK, QueueTypeOK, ConnectionTypeOK,
       PublisherTypeOK
<1>24. ASSUME NEW c \in WebSockets, PingFails(c) PROVE TypeOK'
  BY <1>24 DEF PingFails, Step, TypeOK, HubTypeOK, QueueTypeOK, ConnectionTypeOK,
       PublisherTypeOK
<1>25. ASSUME NEW c \in WebSockets, PingEnds(c) PROVE TypeOK'
  BY <1>25 DEF PingEnds, Step, TypeOK, HubTypeOK, QueueTypeOK, ConnectionTypeOK, PublisherTypeOK
<1>26. ASSUME NEW p \in Publishers, PublishCheck(p) PROVE TypeOK'
  BY <1>26 DEF Locals, PublishCheck, Ahead, Step, TypeOK, HubTypeOK, QueueTypeOK,
       ConnectionTypeOK, PublisherTypeOK
<1>27. ASSUME NEW p \in Publishers, PublishEnqueue(p) PROVE TypeOK'
  <2>1. item[p] \in Clients /\ number[p] \in 1..MaxPublishes
    BY <1>27 DEF Locals, PublishEnqueue
  <2>2. PICK d \in Clients, m \in Message : d = item[p] /\ m = Event(topic[p], p, number[p])
    BY <2>1, MessageFacts DEF TypeOK, PublisherTypeOK
  <2>3. QueueTypeOK'
    BY <1>27, <2>2, PushTyped DEF TypeOK, QueueTypeOK, PublishEnqueue, msgVars
  <2>4. PublisherTypeOK'
    BY <1>27 DEF TypeOK, PublisherTypeOK, PublishEnqueue, Step
  <2>5. QED
    BY <1>27, <2>1, <2>2, <2>3, <2>4 DEF PublishEnqueue, TypeOK, HubTypeOK, QueueTypeOK,
         ConnectionTypeOK, PublisherTypeOK
<1>28. ASSUME NEW p \in Publishers, PublishRemoved(p) PROVE TypeOK'
  BY <1>28 DEF PublishRemoved, Step, TypeOK, HubTypeOK, QueueTypeOK, ConnectionTypeOK,
       PublisherTypeOK
<1>29. ASSUME NEW p \in Publishers, PublishReturn(p) PROVE TypeOK'
  BY <1>29 DEF PublishReturn, Step, TypeOK, HubTypeOK, QueueTypeOK, ConnectionTypeOK,
       PublisherTypeOK
<1>30. ASSUME NEW p \in Publishers, NEW n \in Names, Publish(p, n) PROVE TypeOK'
  BY <1>30, HubAssumption DEF Publish, Step, TypeOK, HubTypeOK, QueueTypeOK,
       ConnectionTypeOK, PublisherTypeOK
<1>31. ASSUME CloseBegin PROVE TypeOK'
  BY <1>31 DEF CloseBegin, TypeOK, HubTypeOK, QueueTypeOK, ConnectionTypeOK, PublisherTypeOK
<1>32. ASSUME CloseNext PROVE TypeOK'
  BY <1>32 DEF CloseNext, TypeOK, HubTypeOK, QueueTypeOK, ConnectionTypeOK, PublisherTypeOK
<1>33. ASSUME CloseRemoved PROVE TypeOK'
  BY <1>33 DEF CloseRemoved, TypeOK, HubTypeOK, QueueTypeOK, ConnectionTypeOK, PublisherTypeOK
<1>34. ASSUME CloseFinish PROVE TypeOK'
  BY <1>34 DEF CloseFinish, TypeOK, HubTypeOK, QueueTypeOK, ConnectionTypeOK, PublisherTypeOK
<1>35. ASSUME NEW k \in Closers, CallClose(k) PROVE TypeOK'
  BY <1>35 DEF CallClose, Step, TypeOK, HubTypeOK, QueueTypeOK, ConnectionTypeOK,
       PublisherTypeOK
<1>36. ASSUME NEW k \in Closers, CloseReturn(k) PROVE TypeOK'
  BY <1>36 DEF CloseReturn, Step, TypeOK, HubTypeOK, QueueTypeOK, ConnectionTypeOK,
       PublisherTypeOK
<1>37. ASSUME UNCHANGED vars PROVE TypeOK'
  BY <1>37 DEF TypeOK, HubTypeOK, QueueTypeOK, ConnectionTypeOK, PublisherTypeOK
<1> HIDE DEF vars, hubVars, mapVars, stopVars, msgVars, reqVars, sockVars,
        connVars, pubVars
<1>38. QED
  BY <1>1, <1>2, <1>3, <1>4, <1>5, <1>6, <1>7, <1>8, <1>9, <1>10, <1>11, <1>12, <1>13,
       <1>14, <1>15, <1>16, <1>17, <1>18, <1>19, <1>20, <1>21, <1>22, <1>23, <1>24, <1>25,
       <1>26, <1>27, <1>28, <1>29, <1>30, <1>31, <1>32, <1>33, <1>34, <1>35, <1>36, <1>37
  DEF Next, HandlerStep, WriterStep, PublisherStep, CloseStep

(* Every step keeps what the goroutines hold in line with where they are.   *)
LEMMA StepLocals == TypeOK /\ Locals /\ [Next]_vars => Locals'
<1> SUFFICES ASSUME TypeOK, Locals, [Next]_vars PROVE Locals'
  OBVIOUS
<1> USE MessageFacts DEF Locals, TypeOK, ConnectionTypeOK, PublisherTypeOK,
        vars, hubVars, mapVars, stopVars, msgVars, reqVars, sockVars,
        connVars, pubVars
<1>1. ASSUME NEW n \in Names, Register(n) PROVE Locals'
  BY <1>1 DEF Register
<1>2. ASSUME NEW c \in Clients, Connect(c) PROVE Locals'
  BY <1>2 DEF Connect, Goto, Disconnect
<1>3. ASSUME NEW c \in Clients, Read(c) PROVE Locals'
  BY <1>3 DEF Read, Goto
<1>4. ASSUME NEW c \in Clients, PeerCloses(c) PROVE Locals'
  BY <1>4 DEF PeerCloses, Disconnect
<1>5. ASSUME NEW c \in Clients, ReadFails(c) PROVE Locals'
  BY <1>5 DEF ReadFails, Goto
<1>6. ASSUME NEW c \in Clients, NextChannel(c) PROVE Locals'
  BY <1>6 DEF NextChannel, Goto
<1>7. ASSUME NEW c \in Clients, Lookup(c) PROVE Locals'
  BY <1>7 DEF Lookup, Refuse, Goto
<1>8. ASSUME NEW c \in Clients, Authorize(c) PROVE Locals'
  BY <1>8 DEF Authorize, Refuse, Goto
<1>9. ASSUME NEW c \in Clients, Commit(c) PROVE Locals'
  BY <1>9 DEF Commit, Refuse, Goto
<1>10. ASSUME NEW c \in Clients, Unsubscribe(c) PROVE Locals'
  BY <1>10 DEF Unsubscribe, LeaveChannel, Goto
<1>11. ASSUME NEW c \in Clients, ReplyCheck(c) PROVE Locals'
  BY <1>11 DEF ReplyCheck, Goto
<1>12. ASSUME NEW c \in Clients, ReplyEnqueue(c) PROVE Locals'
  BY <1>12 DEF ReplyEnqueue, Accept, Full, Goto
<1>13. ASSUME NEW c \in Clients, StreamSelect(c) PROVE Locals'
  BY <1>13 DEF StreamSelect, Goto
<1>14. ASSUME NEW c \in Clients, StreamWriteFails(c) PROVE Locals'
  BY <1>14 DEF StreamWriteFails, Goto
<1>15. ASSUME NEW c \in Clients, Leave(c) PROVE Locals'
  BY <1>15 DEF Leave, Goto
<1>16. ASSUME NEW c \in Clients, Join(c) PROVE Locals'
  BY <1>16 DEF Join, Goto
<1>17. ASSUME NEW c \in Clients, StreamWrites(c) PROVE Locals'
  BY <1>17 DEF StreamWrites, Goto
<1>18. ASSUME NEW c \in Clients, RemoveEnter(c) PROVE Locals'
  BY <1>18 DEF RemoveEnter, Forget
<1>19. ASSUME NEW c \in Clients, RemoveFinish(c) PROVE Locals'
  BY <1>19 DEF RemoveFinish
<1>20. ASSUME NEW c \in WebSockets, WriterSelect(c) PROVE Locals'
  BY <1>20 DEF WriterSelect, Disconnect, Step
<1>21. ASSUME NEW c \in WebSockets, WriterFails(c) PROVE Locals'
  BY <1>21 DEF WriterFails, Disconnect, Step
<1>22. ASSUME NEW c \in WebSockets, WriterRemoved(c) PROVE Locals'
  BY <1>22 DEF WriterRemoved, Step
<1>23. ASSUME NEW c \in WebSockets, WriterWrites(c) PROVE Locals'
  BY <1>23 DEF WriterWrites, Step
<1>24. ASSUME NEW c \in WebSockets, PingFails(c) PROVE Locals'
  BY <1>24 DEF PingFails, Step
<1>25. ASSUME NEW c \in WebSockets, PingEnds(c) PROVE Locals'
  BY <1>25 DEF PingEnds, Step
<1>26. ASSUME NEW p \in Publishers, PublishCheck(p) PROVE Locals'
  BY <1>26 DEF PublishCheck, Ahead, Step
<1>27. ASSUME NEW p \in Publishers, PublishEnqueue(p) PROVE Locals'
  BY <1>27 DEF PublishEnqueue, Accept, Full, Step
<1>28. ASSUME NEW p \in Publishers, PublishRemoved(p) PROVE Locals'
  BY <1>28 DEF PublishRemoved, Step
<1>29. ASSUME NEW p \in Publishers, PublishReturn(p) PROVE Locals'
  BY <1>29 DEF PublishReturn, Step
<1>30. ASSUME NEW p \in Publishers, NEW n \in Names, Publish(p, n) PROVE Locals'
  BY <1>30, HubAssumption DEF Publish, Step
<1>31. ASSUME CloseBegin PROVE Locals'
  BY <1>31 DEF CloseBegin
<1>32. ASSUME CloseNext PROVE Locals'
  BY <1>32 DEF CloseNext
<1>33. ASSUME CloseRemoved PROVE Locals'
  BY <1>33 DEF CloseRemoved
<1>34. ASSUME CloseFinish PROVE Locals'
  BY <1>34 DEF CloseFinish
<1>35. ASSUME NEW k \in Closers, CallClose(k) PROVE Locals'
  BY <1>35 DEF CallClose, Step
<1>36. ASSUME NEW k \in Closers, CloseReturn(k) PROVE Locals'
  BY <1>36 DEF CloseReturn, Step
<1>37. ASSUME UNCHANGED vars PROVE Locals'
  BY <1>37
<1> HIDE MessageFacts DEF Locals, TypeOK, ConnectionTypeOK, PublisherTypeOK,
        vars, hubVars, mapVars, stopVars, msgVars, reqVars, sockVars,
        connVars, pubVars
<1>38. QED
  BY <1>1, <1>2, <1>3, <1>4, <1>5, <1>6, <1>7, <1>8, <1>9, <1>10, <1>11, <1>12, <1>13,
       <1>14, <1>15, <1>16, <1>17, <1>18, <1>19, <1>20, <1>21, <1>22, <1>23, <1>24, <1>25,
       <1>26, <1>27, <1>28, <1>29, <1>30, <1>31, <1>32, <1>33, <1>34, <1>35, <1>36, <1>37
  DEF Next, HandlerStep, WriterStep, PublisherStep, CloseStep

-----------------------------------------------------------------------------
(* The hub's maps.  A connection whose handler has not been admitted is     *)
(* nowhere; one whose handler joins its writer has been removed; and while  *)
(* Close sweeps, what is left of h.clients is what it has still to reach.   *)

(* A connection that was not admitted yet is in no map and no copy.         *)
Untouched ==
  \A c \in Clients : handler[c] = "new" =>
    /\ once[c] = "unused"
    /\ c \in WebSockets => writer[c] = "none" /\ pinger[c] = "none"
    /\ \A n \in Names : c \notin subscribers[n]
    /\ \A p \in Publishers : c \notin targets[p] /\ c # item[p]
    /\ c \notin sweep /\ c # sweepItem

(* A handler joins its writer only after Hub.remove has returned.           *)
JoinedIsRemoved == \A c \in Clients : handler[c] = "join" => Done(c)

(* While Close sweeps, h.clients holds only what it has still to remove.    *)
Sweeping ==
  /\ closing = "sweeping" => clients \subseteq sweep \cup {sweepItem}
  /\ closing = "closed" => clients = {}

(* The hub's part of the inductive invariant.                               *)
HubInv == Untouched /\ JoinedIsRemoved /\ ClientsAreTracked /\ Sweeping

(* The places of an admitted handler that has not been told to leave.       *)
Settled == Places \ {"new", "join", "gone"}

(* A step that only moves an admitted handler, and at most subscribes its   *)
(* client, disturbs nothing the hub's invariant is about.                   *)
LEMMA HandlerMoves ==
  ASSUME TypeOK, HubInv, NEW c \in Clients, NEW place \in Settled,
         handler[c] \in Settled, handler' = [handler EXCEPT ![c] = place],
         \A n \in Names : subscribers'[n] \subseteq subscribers[n] \cup {c},
         UNCHANGED <<clients, stopVars, once, sockVars, pubVars>>
  PROVE  HubInv'
<1>1. \A d \in Clients : handler'[d] = IF d = c THEN place ELSE handler[d]
  BY DEF TypeOK, ConnectionTypeOK
<1>2. UNCHANGED <<clients, closing, sweep, sweepItem, once, writer, pinger, targets, item>>
  BY DEF stopVars, sockVars, pubVars
<1>3. place \notin {"new", "join", "gone"} /\ handler[c] \notin {"new", "join", "gone"}
  BY DEF Settled
<1>4. Untouched'
  BY <1>1, <1>2, <1>3 DEF HubInv, Untouched
<1>5. JoinedIsRemoved'
  BY <1>1, <1>2, <1>3 DEF HubInv, JoinedIsRemoved, Done
<1>6. ClientsAreTracked'
  BY <1>1, <1>2, <1>3 DEF HubInv, ClientsAreTracked
<1>7. Sweeping'
  BY <1>2 DEF HubInv, Sweeping
<1>8. QED
  BY <1>4, <1>5, <1>6, <1>7 DEF HubInv

(* Every step keeps the hub's invariant.                                    *)
LEMMA StepHub == TypeOK /\ Locals /\ HubInv /\ [Next]_vars => HubInv'
<1> SUFFICES ASSUME TypeOK, Locals, HubInv, [Next]_vars PROVE HubInv'
  OBVIOUS
<1> USE HubAssumption DEF HubInv, Untouched, JoinedIsRemoved,
        ClientsAreTracked, Sweeping, Done, Locals, TypeOK, HubTypeOK,
        ConnectionTypeOK, PublisherTypeOK, Places, Clients, vars, hubVars,
        mapVars, stopVars, msgVars, reqVars, sockVars, connVars, pubVars
<1>1. ASSUME NEW n \in Names, Register(n) PROVE HubInv'
  BY <1>1 DEF Register
<1>2. ASSUME NEW c \in Clients, Connect(c) PROVE HubInv'
  BY <1>2 DEF Connect, Goto, Disconnect, Admits
<1>3. ASSUME NEW c \in Clients, Read(c) PROVE HubInv'
  BY <1>3 DEF Read, Goto
<1>4. ASSUME NEW c \in Clients, PeerCloses(c) PROVE HubInv'
  BY <1>4 DEF PeerCloses, Disconnect
<1>5. ASSUME NEW c \in Clients, ReadFails(c) PROVE HubInv'
  BY <1>5 DEF ReadFails, Goto
<1>6. ASSUME NEW c \in Clients, NextChannel(c) PROVE HubInv'
  BY <1>6 DEF NextChannel, Goto
<1>7. ASSUME NEW c \in Clients, Lookup(c) PROVE HubInv'
  BY <1>7 DEF Lookup, Refuse, Goto
<1>8. ASSUME NEW c \in Clients, Authorize(c) PROVE HubInv'
  BY <1>8 DEF Authorize, Refuse, Goto
<1>9. ASSUME NEW c \in Clients, Commit(c) PROVE HubInv'
  <2>1. /\ handler[c] = "commit"
        /\ handler' \in {[handler EXCEPT ![c] = place] : place \in {"reply", "exit"}}
        /\ \A n \in Names : subscribers'[n] \subseteq subscribers[n] \cup {c}
        /\ UNCHANGED <<clients, stopVars, once, sockVars, pubVars>>
    BY <1>9 DEF Commit, Refuse, Goto
  <2>2. PICK place \in {"reply", "exit"} : handler' = [handler EXCEPT ![c] = place]
    BY <2>1
  <2>3. QED
    BY <2>1, <2>2, HandlerMoves DEF Settled
<1>10. ASSUME NEW c \in Clients, Unsubscribe(c) PROVE HubInv'
  BY <1>10 DEF Unsubscribe, LeaveChannel, Goto
<1>11. ASSUME NEW c \in Clients, ReplyCheck(c) PROVE HubInv'
  BY <1>11 DEF ReplyCheck, Goto
<1>12. ASSUME NEW c \in Clients, ReplyEnqueue(c) PROVE HubInv'
  <2>1. /\ handler[c] = "enqueue"
        /\ handler' \in {[handler EXCEPT ![c] = place] : place \in {"exit", "read", "next"}}
        /\ UNCHANGED <<hubVars, sockVars, pubVars>>
    BY <1>12 DEF ReplyEnqueue, Goto
  <2>2. PICK place \in {"exit", "read", "next"} : handler' = [handler EXCEPT ![c] = place]
    BY <2>1
  <2>3. QED
    BY <2>1, <2>2, HandlerMoves DEF Settled, Places
<1>13. ASSUME NEW c \in Clients, StreamSelect(c) PROVE HubInv'
  <2>1. /\ handler[c] = "stream"
        /\ handler' \in {[handler EXCEPT ![c] = place] : place \in {"exit", "write"}}
        /\ UNCHANGED <<hubVars, sockVars, pubVars>>
    BY <1>13 DEF StreamSelect, Goto, reqVars
  <2>2. PICK place \in {"exit", "write"} : handler' = [handler EXCEPT ![c] = place]
    BY <2>1
  <2>3. QED
    BY <2>1, <2>2, HandlerMoves DEF Settled, Places
<1>14. ASSUME NEW c \in Clients, StreamWriteFails(c) PROVE HubInv'
  BY <1>14 DEF StreamWriteFails, Goto
<1>15. ASSUME NEW c \in Clients, Leave(c) PROVE HubInv'
  BY <1>15 DEF Leave, Goto
<1>16. ASSUME NEW c \in Clients, Join(c) PROVE HubInv'
  BY <1>16 DEF Join, Goto
<1>17. ASSUME NEW c \in Clients, StreamWrites(c) PROVE HubInv'
  BY <1>17 DEF StreamWrites, Goto
<1>18. ASSUME NEW c \in Clients, RemoveEnter(c) PROVE HubInv'
  BY <1>18 DEF RemoveEnter, Forget, Removing
<1>19. ASSUME NEW c \in Clients, RemoveFinish(c) PROVE HubInv'
  BY <1>19 DEF RemoveFinish
<1>20. ASSUME NEW c \in WebSockets, WriterSelect(c) PROVE HubInv'
  BY <1>20 DEF WriterSelect, Disconnect, Step, WriterStops, Cancelled
<1>21. ASSUME NEW c \in WebSockets, WriterFails(c) PROVE HubInv'
  BY <1>21 DEF WriterFails, Disconnect, Step
<1>22. ASSUME NEW c \in WebSockets, WriterRemoved(c) PROVE HubInv'
  BY <1>22 DEF WriterRemoved, Step
<1>23. ASSUME NEW c \in WebSockets, WriterWrites(c) PROVE HubInv'
  BY <1>23 DEF WriterWrites, Step
<1>24. ASSUME NEW c \in WebSockets, PingFails(c) PROVE HubInv'
  BY <1>24 DEF PingFails, Step
<1>25. ASSUME NEW c \in WebSockets, PingEnds(c) PROVE HubInv'
  BY <1>25 DEF PingEnds, Step
<1>26. ASSUME NEW p \in Publishers, PublishCheck(p) PROVE HubInv'
  BY <1>26 DEF PublishCheck, Ahead, Step
<1>27. ASSUME NEW p \in Publishers, PublishEnqueue(p) PROVE HubInv'
  BY <1>27 DEF PublishEnqueue, Accept, Full, Step
<1>28. ASSUME NEW p \in Publishers, PublishRemoved(p) PROVE HubInv'
  BY <1>28 DEF PublishRemoved, Step
<1>29. ASSUME NEW p \in Publishers, PublishReturn(p) PROVE HubInv'
  BY <1>29 DEF PublishReturn, Step
<1>30. ASSUME NEW p \in Publishers, NEW n \in Names, Publish(p, n) PROVE HubInv'
  BY <1>30 DEF Publish, Step
<1>31. ASSUME CloseBegin PROVE HubInv'
  BY <1>31 DEF CloseBegin
<1>32. ASSUME CloseNext PROVE HubInv'
  BY <1>32 DEF CloseNext
<1>33. ASSUME CloseRemoved PROVE HubInv'
  BY <1>33 DEF CloseRemoved
<1>34. ASSUME CloseFinish PROVE HubInv'
  BY <1>34 DEF CloseFinish
<1>35. ASSUME NEW k \in Closers, CallClose(k) PROVE HubInv'
  BY <1>35 DEF CallClose, Step
<1>36. ASSUME NEW k \in Closers, CloseReturn(k) PROVE HubInv'
  BY <1>36 DEF CloseReturn, Step
<1>37. ASSUME UNCHANGED vars PROVE HubInv'
  BY <1>37
<1> HIDE HubAssumption DEF HubInv, Untouched, JoinedIsRemoved,
        ClientsAreTracked, Sweeping, Done, Locals, TypeOK, HubTypeOK,
        ConnectionTypeOK, PublisherTypeOK, Places, Clients, vars, hubVars,
        mapVars, stopVars, msgVars, reqVars, sockVars, connVars, pubVars
<1>38. QED
  BY <1>1, <1>2, <1>3, <1>4, <1>5, <1>6, <1>7, <1>8, <1>9, <1>10, <1>11, <1>12, <1>13,
       <1>14, <1>15, <1>16, <1>17, <1>18, <1>19, <1>20, <1>21, <1>22, <1>23, <1>24, <1>25,
       <1>26, <1>27, <1>28, <1>29, <1>30, <1>31, <1>32, <1>33, <1>34, <1>35, <1>36, <1>37
  DEF Next, HandlerStep, WriterStep, PublisherStep, CloseStep

(* A new hub is empty.                                                      *)
LEMMA InitHub == Init => HubInv
BY HubAssumption DEF Init, HubInv, Untouched, JoinedIsRemoved, ClientsAreTracked, Sweeping

(* What the connections and the hub agree on in every reachable state.      *)
IInv == TypeOK /\ Locals /\ HubInv

(* The conjunction is inductive, hence holds in every reachable state.      *)
LEMMA Inductive == Spec => []IInv
<1>1. Init => IInv
  BY InitTyped, InitHub DEF IInv
<1>2. IInv /\ [Next]_vars => IInv'
  BY StepTyped, StepLocals, StepHub DEF IInv
<1>3. QED
  BY <1>1, <1>2, PTL DEF Spec

(* Type correctness for any number of connections and any queue capacity:   *)
(* in particular no send ever finds client.send fuller than ClientBuffer.   *)
THEOREM TypeCorrect == Spec => []TypeOK
<1>1. IInv => TypeOK
  BY DEF IInv
<1>2. QED
  BY <1>1, Inductive, PTL

(* The set h.clients is exactly the connections that are served and that    *)
(* nobody has begun to remove, for every interleaving of add and remove.    *)
THEOREM TracksClients == Spec => []ClientsAreTracked
<1>1. IInv => ClientsAreTracked
  BY DEF IInv, HubInv
<1>2. QED
  BY <1>1, Inductive, PTL

(* Once Close has closed h.done no client is left, those that raced with it *)
(* included.                                                                *)
THEOREM CloseEmptiesHub == Spec => []ClosedHubIsEmpty
<1>1. IInv => ClosedHubIsEmpty
  BY DEF IInv, HubInv, Sweeping, ClosedHubIsEmpty
<1>2. QED
  BY <1>1, Inductive, PTL

-----------------------------------------------------------------------------
(* What each step can change.                                               *)

(* Only the two non-blocking sends of client.enqueue extend a stream.       *)
LEMMA LogFrame ==
  ASSUME [Next]_vars
  PROVE  \/ UNCHANGED log
         \/ \E c \in Clients : ReplyEnqueue(c)
         \/ \E p \in Publishers : PublishEnqueue(p)
BY DEF Next, HandlerStep, WriterStep, PublisherStep, CloseStep, Register, Connect, Read,
     PeerCloses, ReadFails, NextChannel, Lookup, Authorize, Commit, Unsubscribe,
     ReplyCheck, StreamSelect, StreamWrites, StreamWriteFails, Leave, Join, RemoveEnter,
     RemoveFinish, WriterSelect, WriterWrites, WriterFails, WriterRemoved, PingFails,
     PingEnds, Publish, PublishCheck, PublishRemoved, PublishReturn, CloseBegin,
     CloseNext, CloseRemoved, CloseFinish, CallClose, CloseReturn, vars, msgVars

(* Only Hub.remove moves client.once.                                       *)
LEMMA OnceFrame ==
  ASSUME [Next]_vars
  PROVE  \/ UNCHANGED once
         \/ \E c \in Clients : RemoveEnter(c) \/ RemoveFinish(c)
BY DEF Next, HandlerStep, WriterStep, PublisherStep, CloseStep, Register, Connect, Read,
     PeerCloses, ReadFails, NextChannel, Lookup, Authorize, Commit, Unsubscribe,
     ReplyCheck, ReplyEnqueue, StreamSelect, StreamWrites, StreamWriteFails, Leave, Join,
     WriterSelect, WriterWrites, WriterFails, WriterRemoved, PingFails, PingEnds, Publish,
     PublishCheck, PublishEnqueue, PublishRemoved, PublishReturn, CloseBegin, CloseNext,
     CloseRemoved, CloseFinish, CallClose, CloseReturn, vars, hubVars

(* Only Publish moves its own locals.                                       *)
LEMMA PublisherFrame ==
  ASSUME [Next]_vars
  PROVE  \/ UNCHANGED pubVars
         \/ \E p \in Publishers : PublisherStep(p) \/ \E n \in Names : Publish(p, n)
BY DEF Next, HandlerStep, WriterStep, CloseStep, Register, Connect, Read, PeerCloses,
     ReadFails, NextChannel, Lookup, Authorize, Commit, Unsubscribe, ReplyCheck,
     ReplyEnqueue, StreamSelect, StreamWrites, StreamWriteFails, Leave, Join, RemoveEnter,
     RemoveFinish, WriterSelect, WriterWrites, WriterFails, WriterRemoved, PingFails,
     PingEnds, CloseBegin, CloseNext, CloseRemoved, CloseFinish, CallClose, CloseReturn,
     vars

(* Nothing but a grant changes what a connection was granted, and a grant   *)
(* is never taken back.                                                     *)
LEMMA GrantedFrame ==
  ASSUME [Next]_vars
  PROVE  UNCHANGED granted \/ \E c \in Clients : Authorize(c)
BY DEF Next, HandlerStep, WriterStep, PublisherStep, CloseStep, Register, Connect, Read,
     PeerCloses, ReadFails, NextChannel, Lookup, Commit, Unsubscribe, ReplyCheck,
     ReplyEnqueue, StreamSelect, StreamWrites, StreamWriteFails, Leave, Join, RemoveEnter,
     RemoveFinish, WriterSelect, WriterWrites, WriterFails, WriterRemoved, PingFails,
     PingEnds, Publish, PublishCheck, PublishEnqueue, PublishRemoved, PublishReturn,
     CloseBegin, CloseNext, CloseRemoved, CloseFinish, CallClose, CloseReturn, vars,
     connVars, reqVars

(* Only Commit puts a client into a channel.                                *)
LEMMA SubscribersFrame ==
  ASSUME [Next]_vars
  PROVE  \/ UNCHANGED subscribers
         \/ \E c \in Clients : RemoveEnter(c) \/ Commit(c) \/ Unsubscribe(c)
BY DEF Next, HandlerStep, WriterStep, PublisherStep, CloseStep, Register, Connect, Read,
     PeerCloses, ReadFails, NextChannel, Lookup, Authorize, ReplyCheck, ReplyEnqueue,
     StreamSelect, StreamWrites, StreamWriteFails, Leave, Join, RemoveFinish,
     WriterSelect, WriterWrites, WriterFails, WriterRemoved, PingFails, PingEnds, Publish,
     PublishCheck, PublishEnqueue, PublishRemoved, PublishReturn, CloseBegin, CloseNext,
     CloseRemoved, CloseFinish, CallClose, CloseReturn, vars, hubVars, mapVars

-----------------------------------------------------------------------------
(* The stream of a connection only grows, one message at a time.            *)

(* The positions and elements of a sequence with one more element.          *)
LEMMA AppendFacts ==
  ASSUME NEW S, NEW s \in Seq(S), NEW m \in S
  PROVE  /\ DOMAIN Append(s, m) = DOMAIN s \cup {Len(s) + 1}
         /\ DOMAIN s = 1..Len(s)
         /\ Len(s) \in Nat
         /\ \A i \in DOMAIN s : Append(s, m)[i] = s[i]
         /\ Append(s, m)[Len(s) + 1] = m
OBVIOUS

(* A step leaves every stream alone or extends one, by a reply of its own   *)
(* handler or by the event of a publisher that is at this client.           *)
LEMMA LogGrows ==
  ASSUME TypeOK, Locals, [Next]_vars
  PROVE  \/ UNCHANGED log
         \/ \E c \in Clients : \E m \in Message :
              /\ log' = [log EXCEPT ![c] = Append(@, m)]
              /\ \/ ReplyEnqueue(c) /\ handler[c] = "enqueue" /\ m = work[c]
                 \/ \E p \in Publishers : /\ PublishEnqueue(p)
                                          /\ publisher[p] = "enqueue"
                                          /\ item[p] = c
                                          /\ m = Event(topic[p], p, number[p])
<1>1. ASSUME NEW c \in Clients, ReplyEnqueue(c), log' # log
      PROVE  log' = [log EXCEPT ![c] = Append(@, work[c])] /\ work[c] \in Message
                /\ handler[c] = "enqueue"
  BY <1>1 DEF ReplyEnqueue, Accept, Locals
<1>2. ASSUME NEW p \in Publishers, PublishEnqueue(p), log' # log
      PROVE  /\ log' = [log EXCEPT ![item[p]] = Append(@, Event(topic[p], p, number[p]))]
             /\ publisher[p] = "enqueue"
             /\ item[p] \in Clients
             /\ Event(topic[p], p, number[p]) \in Message
  <2>1. log' = [log EXCEPT ![item[p]] = Append(@, Event(topic[p], p, number[p]))]
    BY <1>2 DEF PublishEnqueue, Accept, msgVars
  <2>2. publisher[p] = "enqueue"
    BY <1>2 DEF PublishEnqueue
  <2>3. item[p] \in Clients /\ number[p] \in 1..MaxPublishes /\ topic[p] \in Names
    BY <2>2 DEF Locals, TypeOK, PublisherTypeOK
  <2>4. QED
    BY <2>1, <2>2, <2>3, MessageFacts
<1>3. QED
  BY <1>1, <1>2, LogFrame

(* What a stream contains it keeps, position by position.                   *)
LEMMA LogKeeps ==
  ASSUME TypeOK, Locals, [Next]_vars, NEW d \in Clients
  PROVE  /\ DOMAIN log[d] \subseteq DOMAIN log'[d]
         /\ \A i \in DOMAIN log[d] : log'[d][i] = log[d][i]
<1>1. CASE UNCHANGED log
  BY <1>1
<1>2. ASSUME NEW c \in Clients, NEW m \in Message, log' = [log EXCEPT ![c] = Append(@, m)]
      PROVE  /\ DOMAIN log[d] \subseteq DOMAIN log'[d]
             /\ \A i \in DOMAIN log[d] : log'[d][i] = log[d][i]
  <2>1. log[d] \in Seq(Message) /\ log'[d] = IF c = d THEN Append(log[d], m) ELSE log[d]
    BY <1>2 DEF TypeOK, QueueTypeOK
  <2>2. QED
    BY <2>1, AppendFacts
<1>3. QED
  BY <1>1, <1>2, LogGrows

(* A removed client stays removed.                                          *)
LEMMA DoneStays ==
  ASSUME TypeOK, [Next]_vars, NEW d \in Clients, Done(d)
  PROVE  Done(d)'
BY OnceFrame DEF Done, TypeOK, HubTypeOK, RemoveEnter, RemoveFinish

-----------------------------------------------------------------------------
(* DeliveredOrEvicted is inductive: what the loop has passed stays passed,  *)
(* and it passes a client only by an accepted send or a finished removal.   *)

(* Every step keeps DeliveredOrEvicted.                                     *)
LEMMA DeliveredStep ==
  ASSUME TypeOK, Locals, DeliveredOrEvicted, [Next]_vars
  PROVE  DeliveredOrEvicted'
<1> DEFINE Has(c, m) == Done(c) \/ Accepted(c, m)
<1>1. ASSUME NEW c \in Clients, NEW m, Has(c, m) PROVE Has(c, m)'
  <2>1. CASE Done(c)
    BY <2>1, DoneStays
  <2>2. CASE Accepted(c, m)
    BY <2>2, LogKeeps DEF Accepted
  <2>3. QED
    BY <1>1, <2>1, <2>2
<1> DEFINE Passed(p) == snapshot[p] \ (targets[p] \cup {item[p]})
<1> SUFFICES ASSUME NEW q \in Publishers, (publisher[q] # "idle")', NEW c \in Passed(q)'
             PROVE  Has(c, Event(topic[q], q, number[q]))'
  BY DEF DeliveredOrEvicted
<1>2. /\ snapshot[q] \subseteq Clients
      /\ publisher[q] # "idle" =>
           \A d \in Passed(q) : d \in Clients /\ Has(d, Event(topic[q], q, number[q]))
  BY DEF DeliveredOrEvicted, TypeOK, PublisherTypeOK
<1>3. ASSUME publisher[q] # "idle", topic'[q] = topic[q], number'[q] = number[q], c \in Passed(q)
      PROVE  Has(c, Event(topic[q], q, number[q]))'
  <2>1. Has(c, Event(topic[q], q, number[q])) /\ c \in Clients
    BY <1>2, <1>3
  <2>2. Has(c, Event(topic[q], q, number[q]))' <=> Done(c)' \/ Accepted(c, Event(topic[q], q, number[q]))'
    OBVIOUS
  <2> DEFINE m == Event(topic[q], q, number[q])
  <2>3. m' = m
    BY <1>3 DEF Event
  <2>4. CASE Done(c)
    BY <2>1, <2>4, DoneStays
  <2>5. CASE Accepted(c, m)
    <3>1. PICK i \in DOMAIN log[c] : log[c][i] = m
      BY <2>5 DEF Accepted
    <3>2. i \in DOMAIN log'[c] /\ log'[c][i] = m'
      BY <3>1, <2>1, <2>3, LogKeeps
    <3>3. QED
      BY <3>2 DEF Accepted
  <2>6. QED
    BY <2>1, <2>4, <2>5
<1>4. CASE UNCHANGED <<publisher[q], topic[q], number[q], snapshot[q], targets[q], item[q]>>
  BY <1>3, <1>4
<1>5. ASSUME NEW n \in Names, Publish(q, n) PROVE FALSE
  BY <1>5 DEF Publish, TypeOK, PublisherTypeOK
<1>6. CASE PublishCheck(q)
  <2>1. PICK d \in targets[q] : /\ item' = [item EXCEPT ![q] = d]
                                /\ targets' = [targets EXCEPT ![q] = targets[q] \ {d}]
    BY <1>6 DEF PublishCheck, Ahead
  <2>2. /\ item'[q] = d /\ targets'[q] = targets[q] \ {d}
        /\ publisher[q] = "loop" /\ item[q] = NoClient
        /\ UNCHANGED <<topic, number, snapshot>>
    BY <1>6, <2>1 DEF PublishCheck, TypeOK, PublisherTypeOK, Locals
  <2>3. c \in Passed(q)
    BY <1>2, <2>2, HubAssumption
  <2>4. QED
    BY <1>3, <2>2, <2>3
<1>7. CASE PublishEnqueue(q)
  <2>1. /\ publisher[q] = "enqueue" /\ item[q] \in Clients
        /\ UNCHANGED <<topic, number, snapshot, targets>>
    BY <1>7 DEF PublishEnqueue, Locals
  <2>2. CASE Full(item[q])
    BY <1>3, <1>7, <2>1, <2>2 DEF PublishEnqueue
  <2>3. CASE ~Full(item[q])
    <3>1. Accept(item[q], Event(topic[q], q, number[q]))
      BY <1>7, <2>3 DEF PublishEnqueue
    <3>2. CASE c = item[q]
      <4> DEFINE m == Event(topic[q], q, number[q])
      <4>1. log'[c] = Append(log[c], m) /\ log[c] \in Seq(Message)
        BY <2>1, <3>1, <3>2 DEF Accept, TypeOK, QueueTypeOK
      <4>2. m \in Message
        BY <2>1, MessageFacts DEF Locals, TypeOK, PublisherTypeOK
      <4>3. Len(log[c]) + 1 \in DOMAIN log'[c] /\ log'[c][Len(log[c]) + 1] = m
        BY <4>1, <4>2, AppendFacts
      <4>4. m' = m
        BY <2>1 DEF Event
      <4>5. Accepted(c, m)'
        BY <4>3, <4>4 DEF Accepted
      <4>6. QED
        BY <4>5
    <3>3. CASE c # item[q]
      BY <1>3, <2>1, <3>3
    <3>4. QED
      BY <3>2, <3>3
  <2>4. QED
    BY <2>2, <2>3
<1>8. CASE PublishRemoved(q)
  <2>1. /\ publisher[q] = "remove" /\ item[q] \in Clients /\ Done(item[q])
        /\ UNCHANGED <<topic, number, snapshot, targets>>
    BY <1>8 DEF PublishRemoved, Locals
  <2>2. CASE c = item[q]
    BY <2>1, <2>2, DoneStays
  <2>3. CASE c # item[q]
    BY <1>3, <2>1, <2>3
  <2>4. QED
    BY <2>2, <2>3
<1>9. ASSUME PublishReturn(q) PROVE FALSE
  BY <1>9 DEF PublishReturn, Step, TypeOK, PublisherTypeOK
<1>10. ASSUME NEW p \in Publishers, p # q, PublisherStep(p) \/ \E n \in Names : Publish(p, n)
       PROVE  UNCHANGED <<publisher[q], topic[q], number[q], snapshot[q], targets[q], item[q]>>
  BY <1>10 DEF PublisherStep, Publish, PublishCheck, PublishEnqueue, PublishRemoved,
               PublishReturn, Step, TypeOK, PublisherTypeOK
<1>11. CASE UNCHANGED pubVars
  BY <1>4, <1>11 DEF pubVars
<1>12. QED
  BY <1>4, <1>5, <1>6, <1>7, <1>8, <1>9, <1>10, <1>11, PublisherFrame DEF PublisherStep

(* Publish loses no event silently, for any number of publishers, clients   *)
(* and channels: a client it has passed has the event or was removed.       *)
THEOREM LosesNothingSilently == Spec => []DeliveredOrEvicted
<1>1. Init => DeliveredOrEvicted
  BY DEF Init, DeliveredOrEvicted
<1>2. IInv /\ DeliveredOrEvicted /\ [Next]_vars => DeliveredOrEvicted'
  BY DeliveredStep DEF IInv
<1>3. QED
  BY <1>1, <1>2, Inductive, PTL DEF Spec

-----------------------------------------------------------------------------
(* A handler's replies are never events, so the events of a stream are the  *)
(* ones Publish put there.                                                  *)

IsEvent(m) == m.kind = "event"

Replies == \A c \in Clients : handler[c] \in {"reply", "enqueue"} => ~IsEvent(work[c])

(* Acknowledgements and errors are no events, and an event has the parts it *)
(* was built from.                                                          *)
LEMMA ReplyFacts ==
  /\ ~IsEvent(Error)
  /\ \A k \in {"subscribe", "subscribed", "unsubscribed"}, s \in Spellings :
       ~IsEvent(Ack(k, s)) /\ Ack(k, s).channel = s
  /\ \A n \in Names, p \in Publishers, k \in 1..MaxPublishes :
       LET m == Event(n, p, k)
       IN  IsEvent(m) /\ m.channel = n /\ m.from = p /\ m.number = k
BY DEF IsEvent, Error, Ack, Event

(* Only the steps of its own handler change what a connection works on, and *)
(* where.                                                                   *)
LEMMA WorkFrame ==
  ASSUME [Next]_vars
  PROVE  \/ UNCHANGED work /\ UNCHANGED handler
         \/ \E c \in Clients : \/ Connect(c) \/ Read(c) \/ HandlerStep(c) \/ StreamWrites(c)
BY DEF Next, WriterStep, PublisherStep, CloseStep, Register, PeerCloses, RemoveEnter,
     RemoveFinish, WriterSelect, WriterWrites, WriterFails, WriterRemoved, PingFails,
     PingEnds, Publish, PublishCheck, PublishEnqueue, PublishRemoved, PublishReturn,
     CloseBegin, CloseNext, CloseRemoved, CloseFinish, CallClose, CloseReturn, vars,
     connVars, reqVars

(* Every step keeps the replies apart from the events.                      *)
LEMMA RepliesStep ==
  ASSUME TypeOK, Locals, Replies, [Next]_vars
  PROVE  Replies'
<1> SUFFICES ASSUME NEW d \in Clients, handler'[d] \in {"reply", "enqueue"}
             PROVE  ~IsEvent(work'[d])
  BY DEF Replies, IsEvent
<1>1. handler[d] \in {"reply", "enqueue"} => ~IsEvent(work[d])
  BY DEF Replies
<1>2. /\ handler \in [Clients -> Places]
      /\ work \in [Clients -> Request \cup Message]
      /\ handler[d] \in {"lookup", "authorize", "commit", "unsubscribe"}
           => work[d].channel \in Spellings
  BY MessageFacts DEF TypeOK, ConnectionTypeOK, Locals
<1>3. CASE UNCHANGED work /\ UNCHANGED handler
  BY <1>1, <1>3
<1>4. ASSUME NEW c \in Clients, Connect(c) \/ Read(c) \/ HandlerStep(c) \/ StreamWrites(c), c # d
      PROVE  work'[d] = work[d] /\ handler'[d] = handler[d]
  BY <1>2, <1>4 DEF HandlerStep, Connect, Read, ReadFails, NextChannel, Lookup, Authorize,
     Commit, Unsubscribe, ReplyCheck, ReplyEnqueue, StreamSelect, StreamWrites,
     StreamWriteFails, Leave, Join, Refuse, Goto, reqVars
<1>5. CASE Connect(d) \/ Read(d)
  BY <1>2, <1>5, ReplyFacts DEF Connect, Read, Goto, reqVars
<1>6. CASE ReadFails(d) \/ NextChannel(d) \/ Leave(d) \/ Join(d)
  BY <1>2, <1>6 DEF ReadFails, NextChannel, Leave, Join, Goto
<1>7. CASE Lookup(d) \/ Authorize(d)
  BY <1>2, <1>7, ReplyFacts DEF Lookup, Authorize, Refuse, Goto
<1>8. CASE Commit(d) \/ Unsubscribe(d)
  BY <1>2, <1>8, ReplyFacts DEF Commit, Unsubscribe, Refuse, Goto
<1>9. CASE ReplyCheck(d) \/ ReplyEnqueue(d)
  BY <1>1, <1>2, <1>9, ReplyFacts DEF ReplyCheck, ReplyEnqueue, Goto, reqVars
<1>10. CASE StreamSelect(d) \/ StreamWriteFails(d) \/ StreamWrites(d)
  BY <1>2, <1>10 DEF StreamSelect, StreamWriteFails, StreamWrites, Goto
<1>11. QED
  BY <1>1, <1>3, <1>4, <1>5, <1>6, <1>7, <1>8, <1>9, <1>10, WorkFrame DEF HandlerStep

(* Each position of a stream after a step was there before, or is the next  *)
(* one and holds a reply or the event of a publisher that is at the client. *)
LEMMA LogAdds ==
  ASSUME TypeOK, Locals, Replies, [Next]_vars, NEW d \in Clients, NEW i \in DOMAIN log'[d]
  PROVE  \/ i \in DOMAIN log[d] /\ log'[d][i] = log[d][i]
         \/ /\ i = Len(log[d]) + 1
            /\ \/ ~IsEvent(log'[d][i])
               \/ \E p \in Publishers : /\ publisher[p] = "enqueue" /\ item[p] = d
                                        /\ PublishEnqueue(p)
                                        /\ log'[d][i] = Event(topic[p], p, number[p])
<1>1. CASE UNCHANGED log
  BY <1>1
<1>2. ASSUME NEW c \in Clients, NEW m \in Message, log' = [log EXCEPT ![c] = Append(@, m)]
      PROVE  \/ i \in DOMAIN log[d] /\ log'[d][i] = log[d][i]
             \/ i = Len(log[d]) + 1 /\ c = d /\ log'[d][i] = m
  <2>1. log[d] \in Seq(Message) /\ log'[d] = IF c = d THEN Append(log[d], m) ELSE log[d]
    BY <1>2 DEF TypeOK, QueueTypeOK
  <2>2. QED
    BY <2>1, AppendFacts
<1>3. ASSUME NEW c \in Clients, handler[c] = "enqueue" PROVE ~IsEvent(work[c])
  BY <1>3 DEF Replies
<1>4. QED
  BY <1>1, <1>2, <1>3, LogGrows

-----------------------------------------------------------------------------
(* Authorization.  A grant is needed wherever the handler, the channel and  *)
(* Publish carry a client towards a private channel's events.               *)

Carried ==
  /\ \A c \in Clients : (handler[c] = "commit" /\ Requested(c) \in Private)
       => Requested(c) \in granted[c]
  /\ \A n \in Private : \A c \in subscribers[n] : n \in granted[c]
  /\ \A p \in Publishers : topic[p] \in Private =>
       /\ \A c \in targets[p] : topic[p] \in granted[c]
       /\ item[p] # NoClient => topic[p] \in granted[item[p]]

(* A grant is never taken back.                                             *)
LEMMA GrantsStay ==
  ASSUME TypeOK, [Next]_vars, NEW d \in Clients
  PROVE  granted[d] \subseteq granted'[d]
BY GrantedFrame DEF Authorize, TypeOK, ConnectionTypeOK

(* A handler is at Commit for a private channel only once it was granted.   *)
LEMMA HandlerCarries ==
  ASSUME TypeOK, Locals, Carried, [Next]_vars, NEW d \in Clients,
         handler'[d] = "commit", Requested(d)' \in Private
  PROVE  Requested(d)' \in granted'[d]
<1>1. handler[d] = "commit" /\ Requested(d) \in Private => Requested(d) \in granted[d]
  BY DEF Carried
<1>2. /\ handler \in [Clients -> Places]
      /\ work \in [Clients -> Request \cup Message]
      /\ granted \in [Clients -> SUBSET Names]
  BY DEF TypeOK, ConnectionTypeOK
<1>3. CASE work'[d] = work[d] /\ handler'[d] = handler[d]
  BY <1>1, <1>3, GrantsStay DEF Requested
<1>4. ASSUME NEW c \in Clients, Connect(c) \/ Read(c) \/ HandlerStep(c) \/ StreamWrites(c), c # d
      PROVE  work'[d] = work[d] /\ handler'[d] = handler[d]
  BY <1>2, <1>4 DEF HandlerStep, Connect, Read, ReadFails, NextChannel, Lookup, Authorize,
     Commit, Unsubscribe, ReplyCheck, ReplyEnqueue, StreamSelect, StreamWrites,
     StreamWriteFails, Leave, Join, Refuse, Goto, reqVars
<1>5. CASE Lookup(d)
  BY <1>2, <1>5 DEF Lookup, NeedsAuth, Refuse, Goto, Requested
<1>6. CASE Authorize(d)
  BY <1>2, <1>6 DEF Authorize, Refuse, Goto, Requested
<1>7. CASE Connect(d) \/ Read(d) \/ StreamWrites(d)
  BY <1>2, <1>7 DEF Connect, Read, StreamWrites, Goto
<1>8. CASE ReadFails(d) \/ NextChannel(d) \/ Commit(d) \/ Unsubscribe(d)
  BY <1>2, <1>8 DEF ReadFails, NextChannel, Commit, Unsubscribe, Refuse, Goto
<1>9. CASE ReplyCheck(d) \/ ReplyEnqueue(d) \/ StreamSelect(d) \/ StreamWriteFails(d) \/ Leave(d) \/ Join(d)
  BY <1>2, <1>9 DEF ReplyCheck, ReplyEnqueue, StreamSelect, StreamWriteFails, Leave, Join, Goto
<1>10. QED
  BY <1>3, <1>4, <1>5, <1>6, <1>7, <1>8, <1>9, WorkFrame DEF HandlerStep

(* A client is in a private channel only once it was granted.               *)
LEMMA ChannelCarries ==
  ASSUME TypeOK, Locals, Carried, [Next]_vars, NEW n \in Private, NEW d \in subscribers'[n]
  PROVE  n \in granted'[d]
<1>1. subscribers \in [Names -> SUBSET Clients] /\ n \in Names
  BY HubAssumption DEF TypeOK, HubTypeOK
<1>2. CASE d \in subscribers[n]
  BY <1>1, <1>2, GrantsStay DEF Carried
<1>3. ASSUME NEW c \in Clients, RemoveEnter(c) \/ Unsubscribe(c) PROVE d \in subscribers[n]
  BY <1>1, <1>3 DEF RemoveEnter, Forget, Unsubscribe, LeaveChannel
<1>4. ASSUME NEW c \in Clients, Commit(c), d \notin subscribers[n] PROVE n \in granted'[d]
  <2>1. Requested(c) \in Names
    BY <1>4, MessageFacts DEF Commit, Locals, Requested
  <2>2. n = Requested(c) /\ d = c /\ handler[c] = "commit"
    BY <1>1, <1>4, <2>1 DEF Commit
  <2>3. QED
    BY <1>4, <2>2, GrantsStay DEF Carried
<1>5. QED
  BY <1>2, <1>3, <1>4, SubscribersFrame

(* Publish carries a private channel's event only to granted clients.       *)
LEMMA PublishCarries ==
  ASSUME TypeOK, Locals, Carried, [Next]_vars, NEW q \in Publishers, topic'[q] \in Private
  PROVE  /\ \A c \in targets'[q] : topic'[q] \in granted'[c]
         /\ item'[q] # NoClient => topic'[q] \in granted'[item'[q]]
<1>1. /\ targets[q] \subseteq Clients /\ item[q] \in Clients \cup {NoClient}
      /\ publisher[q] \notin {"enqueue", "remove"} => item[q] = NoClient
  BY DEF TypeOK, PublisherTypeOK, Locals
<1>2. ASSUME topic'[q] = topic[q], targets'[q] \subseteq targets[q],
             item'[q] \in {item[q], NoClient} \cup targets[q]
      PROVE  /\ \A c \in targets'[q] : topic'[q] \in granted'[c]
             /\ item'[q] # NoClient => topic'[q] \in granted'[item'[q]]
  BY <1>1, <1>2, GrantsStay DEF Carried
<1>3. ASSUME NEW n \in Names, Publish(q, n)
      PROVE  /\ \A c \in targets'[q] : topic'[q] \in granted'[c]
             /\ item'[q] = NoClient
  <2>1. /\ topic'[q] = n /\ targets'[q] = subscribers[n] /\ item' = item
        /\ publisher[q] = "idle"
    BY <1>3 DEF Publish, TypeOK, PublisherTypeOK
  <2>2. subscribers[n] \subseteq Clients
    BY DEF TypeOK, HubTypeOK
  <2>3. QED
    BY <1>1, <2>1, <2>2, GrantsStay DEF Carried
<1>4. CASE PublisherStep(q)
  BY <1>2, <1>4 DEF PublisherStep, PublishCheck, PublishEnqueue, PublishRemoved, PublishReturn,
     Ahead, TypeOK, PublisherTypeOK
<1>5. ASSUME NEW p \in Publishers, p # q, PublisherStep(p) \/ \E n \in Names : Publish(p, n)
      PROVE  UNCHANGED <<topic[q], targets[q], item[q]>>
  BY <1>5 DEF PublisherStep, Publish, PublishCheck, PublishEnqueue, PublishRemoved,
     PublishReturn, TypeOK, PublisherTypeOK
<1>6. CASE UNCHANGED pubVars
  BY <1>2, <1>6 DEF pubVars
<1>7. QED
  BY <1>2, <1>3, <1>4, <1>5, <1>6, PublisherFrame

(* The inductive form of AuthorizedStream.                                  *)
AuthInv == Replies /\ Carried /\ AuthorizedStream

(* Every step keeps AuthorizedStream.                                       *)
LEMMA AuthorizedStep ==
  ASSUME TypeOK, Locals, AuthInv, [Next]_vars
  PROVE  AuthorizedStream'
<1> SUFFICES ASSUME NEW d \in Clients, NEW i \in DOMAIN log'[d],
                    log'[d][i].kind = "event", log'[d][i].channel \in Private
             PROVE  log'[d][i].channel \in granted'[d]
  BY DEF AuthorizedStream
<1>1. ASSUME i \in DOMAIN log[d], log'[d][i] = log[d][i]
      PROVE  log'[d][i].channel \in granted'[d]
  BY <1>1, GrantsStay DEF AuthInv, AuthorizedStream
<1>2. CASE ~IsEvent(log'[d][i])
  BY <1>2 DEF IsEvent
<1>3. ASSUME NEW p \in Publishers, publisher[p] = "enqueue", item[p] = d,
             log'[d][i] = Event(topic[p], p, number[p])
      PROVE  log'[d][i].channel \in granted'[d]
  <2>1. log'[d][i].channel = topic[p]
    BY <1>3 DEF Event
  <2>2. topic[p] \in granted[d]
    BY <1>3, <2>1, HubAssumption DEF AuthInv, Carried
  <2>3. QED
    BY <2>1, <2>2, GrantsStay
<1>4. QED
  BY <1>1, <1>2, <1>3, LogAdds DEF AuthInv

(* No connection is ever sent an event of a private channel that did not    *)
(* authorize it, for any number of channels, publishers and connections.    *)
THEOREM PrivateStaysPrivate == Spec => []AuthorizedStream
<1>1. Init => AuthInv
  BY HubAssumption DEF Init, AuthInv, Replies, Carried, AuthorizedStream
<1>2. IInv /\ AuthInv /\ [Next]_vars => AuthInv'
  <2> SUFFICES ASSUME IInv, AuthInv, [Next]_vars PROVE AuthInv'
    OBVIOUS
  <2>1. Carried'
    BY HandlerCarries, ChannelCarries, PublishCarries DEF IInv, AuthInv, Carried
  <2>2. Replies' /\ AuthorizedStream'
    BY RepliesStep, AuthorizedStep DEF IInv, AuthInv
  <2>3. QED
    BY <2>1, <2>2 DEF AuthInv
<1>3. AuthInv => AuthorizedStream
  BY DEF AuthInv
<1>4. QED
  BY <1>1, <1>2, <1>3, Inductive, PTL DEF Spec

-----------------------------------------------------------------------------
(* Order.  A publisher's events reach a stream with rising numbers because  *)
(* the clients its loop has still to reach have none of the current call.   *)

(* All events of publisher p in the stream of c are from calls before the   *)
(* k-th.                                                                    *)
Below(c, p, k) ==
  \A i \in DOMAIN log[c] :
    (IsEvent(log[c][i]) /\ log[c][i].from = p) => log[c][i].number < k

(* A stream holds only events of calls that were made.                      *)
Numbered == \A c \in Clients, p \in Publishers : Below(c, p, number[p] + 1)

(* The clients a call of Publish has still to serve have no event of that   *)
(* call.                                                                    *)
Fresh ==
  \A p \in Publishers :
    /\ publisher[p] = "enqueue" => item[p] \notin targets[p] /\ Below(item[p], p, number[p])
    /\ publisher[p] # "idle" => \A c \in targets[p] : Below(c, p, number[p])

(* The inductive form of PublisherOrder.                                    *)
OrderInv == Replies /\ Numbered /\ Fresh /\ PublisherOrder

(* The events of a stream name a publisher and one of its calls.            *)
LEMMA EventTyped ==
  ASSUME TypeOK, NEW c \in Clients, NEW i \in DOMAIN log[c], IsEvent(log[c][i])
  PROVE  log[c][i].from \in Publishers /\ log[c][i].number \in 1..MaxPublishes
<1>1. log[c][i] \in Message
  BY DEF TypeOK, QueueTypeOK
<1>2. log[c][i] \in {Event(n, p, k) : n \in Names, p \in Publishers, k \in 1..MaxPublishes}
  BY <1>1, ReplyFacts DEF Message
<1>3. QED
  BY <1>2, ReplyFacts

(* Unless publisher q delivers to d in this step, d has no newer events of  *)
(* q than before.                                                           *)
LEMMA BelowStays ==
  ASSUME TypeOK, Locals, Replies, [Next]_vars, NEW d \in Clients, NEW q \in Publishers,
         NEW k \in Nat, Below(d, q, k),
         ~(PublishEnqueue(q) /\ publisher[q] = "enqueue" /\ item[q] = d)
  PROVE  Below(d, q, k)'
<1> SUFFICES ASSUME NEW i \in DOMAIN log'[d], IsEvent(log'[d][i]), log'[d][i].from = q
             PROVE  log'[d][i].number < k
  BY DEF Below, IsEvent
<1>1. CASE i \in DOMAIN log[d] /\ log'[d][i] = log[d][i]
  BY <1>1 DEF Below
<1>2. ASSUME NEW p \in Publishers, log'[d][i] = Event(topic[p], p, number[p]) PROVE p = q
  BY <1>2 DEF Event
<1>3. QED
  BY <1>1, <1>2, LogAdds

(* No stream holds an event of a call that was not made.                    *)
LEMMA NumberedStep ==
  ASSUME TypeOK, Locals, OrderInv, [Next]_vars
  PROVE  Numbered'
<1> SUFFICES ASSUME NEW d \in Clients, NEW q \in Publishers,
                    NEW i \in DOMAIN log'[d], IsEvent(log'[d][i]), log'[d][i].from = q
             PROVE  log'[d][i].number < number'[q] + 1
  BY DEF Numbered, Below, IsEvent
<1>1. number[q] \in Nat /\ number'[q] \in Nat /\ number[q] <= number'[q]
  BY PublisherFrame DEF PublisherStep, Publish, PublishCheck, PublishEnqueue, PublishRemoved,
     PublishReturn, TypeOK, PublisherTypeOK, pubVars
<1>2. CASE i \in DOMAIN log[d] /\ log'[d][i] = log[d][i]
  <2>1. log[d][i].number < number[q] + 1 /\ log[d][i].number \in 1..MaxPublishes
    BY <1>2, EventTyped DEF OrderInv, Numbered, Below
  <2>2. QED
    BY <1>1, <1>2, <2>1, HubAssumption
<1>3. ASSUME NEW p \in Publishers, log'[d][i] = Event(topic[p], p, number[p])
      PROVE  log'[d][i].number = number[q]
  BY <1>3 DEF Event
<1>4. QED
  BY <1>1, <1>2, <1>3, LogAdds DEF OrderInv

(* What Publish has still to offer is newer than all its earlier events     *)
(* there.                                                                   *)
LEMMA FreshStep ==
  ASSUME TypeOK, Locals, OrderInv, [Next]_vars
  PROVE  Fresh'
<1> SUFFICES ASSUME NEW q \in Publishers
    PROVE  /\ (publisher[q] = "enqueue")' => /\ (item[q] \notin targets[q])'
                                             /\ Below(item[q], q, number[q])'
           /\ (publisher[q] # "idle")' => \A c \in targets'[q] : Below(c, q, number[q])'
  BY DEF Fresh
<1>1. /\ number[q] \in Nat /\ targets[q] \subseteq Clients
      /\ publisher[q] = "enqueue" => item[q] \in Clients
      /\ publisher[q] # "enqueue" /\ publisher[q] # "remove" => item[q] = NoClient
      /\ Replies /\ Fresh /\ Numbered
  BY DEF TypeOK, PublisherTypeOK, Locals, OrderInv
<1>2. ASSUME NEW c \in Clients, Below(c, q, number[q]), number'[q] = number[q],
             ~(PublishEnqueue(q) /\ publisher[q] = "enqueue" /\ item[q] = c)
      PROVE  Below(c, q, number[q])'
  BY <1>1, <1>2, BelowStays DEF Below
<1>3. CASE UNCHANGED <<publisher[q], number[q], targets[q], item[q]>>
           /\ ~PublishEnqueue(q)
  BY <1>1, <1>2, <1>3 DEF Fresh, Below
<1>4. ASSUME NEW n \in Names, Publish(q, n)
      PROVE  /\ publisher'[q] = "loop"
             /\ \A c \in targets'[q] : Below(c, q, number[q])'
  <2>1. /\ publisher'[q] = "loop" /\ number'[q] = number[q] + 1
        /\ targets'[q] \subseteq Clients /\ ~PublishEnqueue(q)
    BY <1>4 DEF Publish, PublishEnqueue, Step, TypeOK, PublisherTypeOK, HubTypeOK
  <2>2. ASSUME NEW c \in Clients PROVE Below(c, q, number[q])'
    BY <1>1, <1>4, <2>1 DEF Numbered, Below, Publish, msgVars
  <2>3. QED
    BY <2>1, <2>2
<1>5. CASE PublishCheck(q)
  <2>1. PICK c \in targets[q] : /\ item' = [item EXCEPT ![q] = c]
                                /\ targets' = [targets EXCEPT ![q] = targets[q] \ {c}]
    BY <1>5 DEF PublishCheck, Ahead
  <2>2. /\ publisher[q] = "loop" /\ item'[q] = c /\ targets'[q] = targets[q] \ {c}
        /\ number'[q] = number[q]
    BY <1>5, <2>1 DEF PublishCheck, TypeOK, PublisherTypeOK
  <2>3. \A d \in targets[q] : Below(d, q, number[q])
    BY <1>1, <2>2 DEF Fresh
  <2>4. \A d \in targets[q] : Below(d, q, number[q])'
    BY <1>1, <1>2, <2>2, <2>3
  <2>5. Below(item[q], q, number[q])'
    BY <2>2, <2>4 DEF Below
  <2>6. QED
    BY <2>2, <2>4, <2>5
<1>6. CASE PublishEnqueue(q)
  <2>1. /\ publisher[q] = "enqueue" /\ publisher'[q] \in {"loop", "remove"}
        /\ number'[q] = number[q] /\ targets'[q] = targets[q]
    BY <1>6 DEF PublishEnqueue, Step, TypeOK, PublisherTypeOK
  <2>2. \A c \in targets[q] : Below(c, q, number[q]) /\ c # item[q]
    BY <1>1, <2>1 DEF Fresh
  <2>3. QED
    BY <1>1, <1>2, <2>1, <2>2
<1>7. CASE PublishRemoved(q) \/ PublishReturn(q)
  <2>1. /\ publisher[q] # "idle" /\ publisher[q] # "enqueue" /\ publisher'[q] # "enqueue"
        /\ number'[q] = number[q] /\ targets'[q] = targets[q]
    BY <1>7 DEF PublishRemoved, PublishReturn, Step, TypeOK, PublisherTypeOK
  <2>2. \A c \in targets[q] : Below(c, q, number[q])
    BY <1>1, <2>1 DEF Fresh
  <2>3. QED
    BY <1>1, <1>2, <2>1, <2>2
<1>8. ASSUME NEW p \in Publishers, p # q, PublisherStep(p) \/ \E n \in Names : Publish(p, n)
      PROVE  /\ UNCHANGED <<publisher[q], number[q], targets[q], item[q]>>
  BY <1>8 DEF PublisherStep, Publish, PublishCheck, PublishEnqueue, PublishRemoved,
     PublishReturn, Step, TypeOK, PublisherTypeOK
<1>9. CASE UNCHANGED pubVars
  BY <1>3, <1>6, <1>9 DEF pubVars
<1>10. QED
  BY <1>3, <1>4, <1>5, <1>6, <1>7, <1>8, <1>9, PublisherFrame DEF PublisherStep

(* Every step keeps PublisherOrder.                                         *)
LEMMA OrderStep ==
  ASSUME TypeOK, Locals, OrderInv, [Next]_vars
  PROVE  PublisherOrder'
<1> SUFFICES ASSUME NEW d \in Clients, NEW i \in DOMAIN log'[d], NEW j \in DOMAIN log'[d],
                    i < j, IsEvent(log'[d][i]), IsEvent(log'[d][j]),
                    log'[d][i].from = log'[d][j].from
             PROVE  log'[d][i].number < log'[d][j].number
  BY DEF PublisherOrder, IsEvent
<1>1. log[d] \in Seq(Message) /\ Len(log[d]) \in Nat /\ DOMAIN log[d] = 1..Len(log[d])
  BY AppendFacts DEF TypeOK, QueueTypeOK
<1>2. CASE j \in DOMAIN log[d] /\ log'[d][j] = log[d][j]
  <2>1. i \in DOMAIN log[d] /\ log'[d][i] = log[d][i]
    BY <1>1, <1>2, LogAdds DEF OrderInv
  <2>2. QED
    BY <1>2, <2>1 DEF OrderInv, PublisherOrder, IsEvent
<1>3. ASSUME NEW p \in Publishers, publisher[p] = "enqueue", item[p] = d, j = Len(log[d]) + 1,
             log'[d][j] = Event(topic[p], p, number[p])
      PROVE  log'[d][i].number < log'[d][j].number
  <2>1. log'[d][j].from = p /\ log'[d][j].number = number[p]
    BY <1>3 DEF Event
  <2>2. i \in DOMAIN log[d] /\ log'[d][i] = log[d][i]
    BY <1>1, <1>3, LogAdds DEF OrderInv
  <2>3. Below(d, p, number[p])
    BY <1>3 DEF OrderInv, Fresh
  <2>4. QED
    BY <2>1, <2>2, <2>3 DEF Below
<1>4. QED
  BY <1>2, <1>3, LogAdds DEF OrderInv

(* Per publisher, events reach every client in order and at most once, for  *)
(* any number of publishers, clients, channels and Publish calls.           *)
THEOREM PublishesInOrder == Spec => []PublisherOrder
<1>1. Init => OrderInv
  BY HubAssumption DEF Init, OrderInv, Replies, Numbered, Below, Fresh, PublisherOrder
<1>2. IInv /\ OrderInv /\ [Next]_vars => OrderInv'
  BY RepliesStep, NumberedStep, FreshStep, OrderStep DEF IInv, OrderInv
<1>3. OrderInv => PublisherOrder
  BY DEF OrderInv
<1>4. QED
  BY <1>1, <1>2, <1>3, Inductive, PTL DEF Spec

-----------------------------------------------------------------------------
(* What a client was told.  Between Commit, or Unsubscribe, and the send of *)
(* its acknowledgement the channel is ahead of the stream; everywhere else  *)
(* the two agree.                                                           *)

(* The handler has changed the channel and has still to say so.             *)
Answering(c, k, n) == handler[c] \in {"reply", "enqueue"} /\ Says(work[c], k, n)

Announced(c, n) ==
  IF Answering(c, "subscribed", n) THEN c \in subscribers[n]
  ELSE IF Answering(c, "unsubscribed", n) THEN c \notin subscribers[n]
  ELSE c \in subscribers[n] <=> Told(c, n)

(* A handler that exits has given up telling its client anything.           *)
GivenUp == {"exit", "join", "gone"}

(* The inductive form of AcknowledgedView.                                  *)
ViewInv ==
  \A c \in Clients : (once[c] = "unused" /\ handler[c] \notin GivenUp)
                      => \A n \in Names : Announced(c, n)

(* What one more message means to what its client was told about n.         *)
LEMMA ToldFacts ==
  ASSUME TypeOK, NEW c \in Clients, NEW n \in Names, NEW m \in Message,
         log'[c] = Append(log[c], m)
  PROVE  Told(c, n)' <=> \/ Says(m, "subscribed", n)
                         \/ ~Says(m, "unsubscribed", n) /\ Told(c, n)
<1> DEFINE s == log[c]
           l == Len(log[c])
<1>1. /\ s \in Seq(Message) /\ l \in Nat /\ DOMAIN s = 1..l
      /\ DOMAIN log'[c] = 1..(l + 1) /\ Len(log'[c]) = l + 1
      /\ \A i \in 1..l : log'[c][i] = s[i]
      /\ log'[c][l + 1] = m
  <2>1. s \in Seq(Message)
    BY DEF TypeOK, QueueTypeOK
  <2>2. QED
    BY <2>1, AppendFacts
<1>2. ~(Says(m, "subscribed", n) /\ Says(m, "unsubscribed", n))
  BY DEF Says
<1>3. Told(c, n) <=> \E i \in 1..l : /\ Says(s[i], "subscribed", n)
                                     /\ \A j \in i + 1 .. l : ~Says(s[j], "unsubscribed", n)
  BY <1>1 DEF Told
<1>4. Told(c, n)' <=> \E i \in 1..(l + 1) :
                        /\ Says(log'[c][i], "subscribed", n)
                        /\ \A j \in i + 1 .. l + 1 : ~Says(log'[c][j], "unsubscribed", n)
  BY <1>1 DEF Told, Says
<1> HIDE DEF s, l
<1>5. CASE Says(m, "subscribed", n)
  BY <1>1, <1>4, <1>5
<1>6. CASE Says(m, "unsubscribed", n)
  BY <1>1, <1>2, <1>4, <1>6
<1>7. ASSUME ~Says(m, "subscribed", n), ~Says(m, "unsubscribed", n), Told(c, n) PROVE Told(c, n)'
  BY <1>1, <1>3, <1>4, <1>7
<1>8. ASSUME ~Says(m, "subscribed", n), ~Says(m, "unsubscribed", n), Told(c, n)' PROVE Told(c, n)
  BY <1>1, <1>3, <1>4, <1>8
<1>9. QED
  BY <1>5, <1>6, <1>7, <1>8

(* Nothing but a reply of its own handler changes what a client was told.   *)
LEMMA ToldStays ==
  ASSUME TypeOK, Locals, [Next]_vars, NEW d \in Clients, NEW n \in Names,
         ~(ReplyEnqueue(d) /\ handler[d] = "enqueue")
  PROVE  Told(d, n)' <=> Told(d, n)
<1>1. ASSUME log'[d] = log[d] PROVE Told(d, n)' <=> Told(d, n)
  BY <1>1 DEF Told
<1>2. ASSUME NEW m \in Message, log'[d] = Append(log[d], m), IsEvent(m)
      PROVE  Told(d, n)' <=> Told(d, n)
  BY <1>2, ToldFacts DEF Says, IsEvent
<1>3. ASSUME NEW p \in Publishers, publisher[p] = "enqueue"
      PROVE  IsEvent(Event(topic[p], p, number[p]))
  BY <1>3 DEF IsEvent, Event
<1>4. ASSUME NEW c \in Clients, NEW m \in Message, log' = [log EXCEPT ![c] = Append(@, m)]
      PROVE  log'[d] = IF c = d THEN Append(log[d], m) ELSE log[d]
  BY <1>4 DEF TypeOK, QueueTypeOK
<1>5. QED
  BY <1>1, <1>2, <1>3, <1>4, LogGrows

(* Nothing but Commit, Unsubscribe and a removal moves a client in or out   *)
(* of a channel.                                                            *)
LEMMA MembershipStays ==
  ASSUME TypeOK, Locals, [Next]_vars, NEW d \in Clients, NEW n \in Names,
         once'[d] = "unused", ~Commit(d), ~Unsubscribe(d)
  PROVE  d \in subscribers'[n] <=> d \in subscribers[n]
<1>1. subscribers \in [Names -> SUBSET Clients] /\ once \in [Clients -> {"unused", "running", "finished"}]
  BY DEF TypeOK, HubTypeOK
<1>2. ASSUME NEW c \in Clients, RemoveEnter(c) PROVE d \in subscribers'[n] <=> d \in subscribers[n]
  <2>1. c # d
    BY <1>1, <1>2 DEF RemoveEnter
  <2>2. QED
    BY <1>1, <1>2, <2>1 DEF RemoveEnter, Forget
<1>3. ASSUME NEW c \in Clients, c # d, Commit(c)
      PROVE  d \in subscribers'[n] <=> d \in subscribers[n]
  BY <1>1, <1>3 DEF Commit
<1>4. ASSUME NEW c \in Clients, c # d, Unsubscribe(c)
      PROVE  d \in subscribers'[n] <=> d \in subscribers[n]
  BY <1>1, <1>4 DEF Unsubscribe, LeaveChannel
<1>5. QED
  BY <1>2, <1>3, <1>4, SubscribersFrame

(* Every step keeps the channels in line with the acknowledgements.         *)
LEMMA ViewStep ==
  ASSUME TypeOK, Locals, Replies, ViewInv, [Next]_vars
  PROVE  ViewInv'
<1> SUFFICES ASSUME NEW d \in Clients, NEW n \in Names,
                    once'[d] = "unused", handler'[d] \notin GivenUp
             PROVE  Announced(d, n)'
  BY DEF ViewInv, GivenUp
<1>1. once[d] = "unused"
  BY OnceFrame DEF RemoveEnter, RemoveFinish, TypeOK, HubTypeOK
<1>2. /\ handler \in [Clients -> Places]
      /\ work \in [Clients -> Request \cup Message]
      /\ subscribers \in [Names -> SUBSET Clients]
      /\ handler[d] \in {"lookup", "authorize", "commit", "unsubscribe"}
           => Requested(d) \in Names
  BY MessageFacts DEF TypeOK, HubTypeOK, ConnectionTypeOK, Locals, Requested
<1>3. Announced(d, n) \/ handler[d] \in GivenUp
  BY <1>1 DEF ViewInv
<1>4. ASSUME NEW k \in {"subscribed", "unsubscribed"}
      PROVE  ~Says(Error, k, n)
  BY DEF Error, Says
<1>5. ~(Says(work[d], "subscribed", n) /\ Says(work[d], "unsubscribed", n))
  BY DEF Says
\* A step that neither moves d in or out of n nor tells it anything.
<1>6. ASSUME Announced(d, n), ~Commit(d), ~Unsubscribe(d),
             ~(ReplyEnqueue(d) /\ handler[d] = "enqueue"),
             \A k \in {"subscribed", "unsubscribed"} : Answering(d, k, n)' <=> Answering(d, k, n)
      PROVE  Announced(d, n)'
  <2>1. d \in subscribers'[n] <=> d \in subscribers[n]
    BY <1>6, MembershipStays
  <2>2. Told(d, n)' <=> Told(d, n)
    BY <1>6, ToldStays
  <2>3. QED
    BY <1>6, <2>1, <2>2 DEF Announced
<1>7. CASE work'[d] = work[d] /\ handler'[d] = handler[d]
  <2>1. ~Commit(d) /\ ~Unsubscribe(d) /\ ~(ReplyEnqueue(d) /\ handler[d] = "enqueue")
    BY <1>2, <1>7 DEF Commit, Unsubscribe, ReplyEnqueue, Refuse, Goto
  <2>2. ASSUME NEW k \in {"subscribed", "unsubscribed"}
        PROVE  Answering(d, k, n)' <=> Answering(d, k, n)
    BY <1>7 DEF Answering
  <2>3. QED
    BY <1>3, <1>6, <1>7, <2>1, <2>2
<1>8. ASSUME NEW c \in Clients, Connect(c) \/ Read(c) \/ HandlerStep(c) \/ StreamWrites(c), c # d
      PROVE  work'[d] = work[d] /\ handler'[d] = handler[d]
  BY <1>2, <1>8 DEF HandlerStep, Connect, Read, ReadFails, NextChannel, Lookup, Authorize,
     Commit, Unsubscribe, ReplyCheck, ReplyEnqueue, StreamSelect, StreamWrites,
     StreamWriteFails, Leave, Join, Refuse, Goto, reqVars
<1>9. CASE Commit(d)
  <2>1. handler[d] = "commit" /\ ~(ReplyEnqueue(d) /\ handler[d] = "enqueue")
    BY <1>9 DEF Commit
  <2>2. Told(d, n)' <=> Told(d, n)
    BY <2>1, ToldStays
  <2>3. d \in subscribers[n] <=> Told(d, n)
    BY <1>3, <2>1 DEF Announced, Answering, GivenUp
  <2>4. CASE work'[d] = Error
    <3>1. subscribers' = subscribers
      BY <1>2, <1>4, <1>9, <2>4 DEF Commit, Ack, Error
    <3>2. QED
      BY <1>4, <2>2, <2>3, <2>4, <3>1 DEF Announced, Answering, Says, Ack, Error
  <2>5. CASE /\ work'[d] = Ack("subscribed", work[d].channel) /\ handler'[d] = "reply"
             /\ subscribers' = [subscribers EXCEPT ![Requested(d)] = @ \cup {d}]
    <3>1. CASE Requested(d) = n
      BY <1>2, <2>5, <3>1 DEF Announced, Answering, Says, Ack, Requested
    <3>2. CASE Requested(d) # n
      BY <1>2, <2>2, <2>3, <2>5, <3>2 DEF Announced, Answering, Says, Ack, Requested
    <3>3. QED
      BY <3>1, <3>2
  <2>6. QED
    BY <1>2, <1>9, <2>4, <2>5 DEF Commit, Refuse, Goto
<1>10. CASE Unsubscribe(d)
  <2>1. /\ handler[d] = "unsubscribe" /\ ~(ReplyEnqueue(d) /\ handler[d] = "enqueue")
        /\ work'[d] = Ack("unsubscribed", work[d].channel) /\ handler'[d] = "reply"
        /\ subscribers' = [subscribers EXCEPT ![Requested(d)] = @ \ {d}]
    BY <1>2, <1>10 DEF Unsubscribe, LeaveChannel, Goto
  <2>2. Told(d, n)' <=> Told(d, n)
    BY <2>1, ToldStays
  <2>3. d \in subscribers[n] <=> Told(d, n)
    BY <1>3, <2>1 DEF Announced, Answering, GivenUp
  <2>4. CASE Requested(d) = n
    BY <1>2, <2>1, <2>4 DEF Announced, Answering, Says, Ack, Requested
  <2>5. CASE Requested(d) # n
    BY <1>2, <2>1, <2>2, <2>3, <2>5 DEF Announced, Answering, Says, Ack, Requested
  <2>6. QED
    BY <2>4, <2>5
<1>11. CASE ReplyEnqueue(d)
  <2>1. /\ handler[d] = "enqueue" /\ handler'[d] \in {"read", "next"}
        /\ log' = [log EXCEPT ![d] = Append(@, work[d])]
        /\ work[d] \in Message
        /\ subscribers' = subscribers
    BY <1>2, <1>11 DEF ReplyEnqueue, Accept, Goto, Locals, GivenUp, hubVars, mapVars
  <2>2. log'[d] = Append(log[d], work[d])
    BY <2>1 DEF TypeOK, QueueTypeOK
  <2>3. Told(d, n)' <=> \/ Says(work[d], "subscribed", n)
                        \/ ~Says(work[d], "unsubscribed", n) /\ Told(d, n)
    BY <2>1, <2>2, ToldFacts
  <2>4. Announced(d, n)
    BY <1>3, <2>1 DEF GivenUp
  <2>5. d \in subscribers[n] <=> \/ Says(work[d], "subscribed", n)
                                 \/ ~Says(work[d], "unsubscribed", n) /\ Told(d, n)
    BY <1>5, <2>1, <2>4 DEF Announced, Answering
  <2>6. QED
    BY <1>4, <2>1, <2>3, <2>5 DEF Announced, Answering
\* The other steps of the handler: an acknowledgement is neither made nor sent.
<1>12. ASSUME Connect(d) \/ Read(d) \/ ReadFails(d) \/ NextChannel(d)
       PROVE  /\ ~Commit(d) /\ ~Unsubscribe(d) /\ ~ReplyEnqueue(d) /\ handler[d] \notin GivenUp
              /\ \A k \in {"subscribed", "unsubscribed"} :
                   ~Answering(d, k, n)' /\ ~Answering(d, k, n)
  BY <1>2, <1>4, <1>12 DEF Connect, Read, ReadFails, NextChannel, Commit, Unsubscribe,
     ReplyEnqueue, Goto, GivenUp, Answering, Says, Ack, Error
<1>13. ASSUME Lookup(d) \/ Authorize(d)
       PROVE  /\ ~Commit(d) /\ ~Unsubscribe(d) /\ ~ReplyEnqueue(d) /\ handler[d] \notin GivenUp
              /\ \A k \in {"subscribed", "unsubscribed"} :
                   ~Answering(d, k, n)' /\ ~Answering(d, k, n)
  BY <1>2, <1>4, <1>13 DEF Lookup, Authorize, Refuse, Commit, Unsubscribe,
     ReplyEnqueue, Goto, GivenUp, Answering, Says, Ack, Error
<1>14. ASSUME ReplyCheck(d)
       PROVE  /\ ~Commit(d) /\ ~Unsubscribe(d) /\ ~ReplyEnqueue(d) /\ handler[d] \notin GivenUp
              /\ \A k \in {"subscribed", "unsubscribed"} :
                   Answering(d, k, n)' <=> Answering(d, k, n)
  BY <1>2, <1>14 DEF ReplyCheck, Commit, Unsubscribe, ReplyEnqueue, Goto, GivenUp, Answering,
     reqVars
<1>15. ASSUME StreamSelect(d) \/ StreamWriteFails(d) \/ StreamWrites(d)
       PROVE  /\ ~Commit(d) /\ ~Unsubscribe(d) /\ ~ReplyEnqueue(d) /\ handler[d] \notin GivenUp
              /\ \A k \in {"subscribed", "unsubscribed"} :
                   ~Answering(d, k, n)' /\ ~Answering(d, k, n)
  BY <1>2, <1>15 DEF StreamSelect, StreamWriteFails, StreamWrites, Commit, Unsubscribe,
     ReplyEnqueue, Goto, GivenUp, Answering
<1>16. CASE Leave(d) \/ Join(d)
  BY <1>2, <1>16 DEF Leave, Join, Goto, GivenUp
<1>17. QED
  BY <1>3, <1>6, <1>7, <1>8, <1>9, <1>10, <1>11, <1>12, <1>13, <1>14, <1>15, <1>16, WorkFrame
  DEF HandlerStep

(* Between two requests a client that nobody removes is in exactly the      *)
(* channels it was told it is in, for any number of clients and channels.   *)
THEOREM AcknowledgementsAreTrue == Spec => []AcknowledgedView
<1>1. Init => Replies /\ ViewInv
  BY HubAssumption DEF Init, Replies, ViewInv, Announced, Answering, Told
<1>2. IInv /\ Replies /\ ViewInv /\ [Next]_vars => Replies' /\ ViewInv'
  BY RepliesStep, ViewStep DEF IInv
<1>3. ViewInv => AcknowledgedView
  BY DEF ViewInv, AcknowledgedView, Announced, Answering, GivenUp
<1>4. QED
  BY <1>1, <1>2, <1>3, Inductive, PTL DEF Spec
=============================================================================
