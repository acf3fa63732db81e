------------------------ MODULE NotificationsProofs -------------------------
(***************************************************************************)
(* Proofs about Notifications, for any number of connections, any devices  *)
(* and any number of events.                                               *)
(***************************************************************************)
EXTENDS Notifications, PipelineProofs

-----------------------------------------------------------------------------
(* Definitions the proofs use.                                             *)

\* A channel the broker knows, or is about to know, belongs to a handler that
\* has not returned, and is registered once.
ChannelInv ==
  /\ \A c \in closed : conn[c] = "gone"
  /\ \A c \in topics : conn[c] \notin {"none", "gone"} /\ subsciberCh # <<c>>
  /\ \A c \in Conn : subsciberCh = <<c>> => conn[c] \notin {"none", "gone"}
  /\ \A c \in Conn : unsubscribeCh = <<c>> => conn[c] = "waiting"
  /\ sending # <<>> => Head(sending).to \in topics

\* Copies of events are numbered in the order SSEConsumer.Execute disposes of
\* them, two for each event.
Ticket(m, d) == 2 * m - (IF d = Origin[m] THEN 1 ELSE 0)

\* The number of copies disposed of so far.
Issued == 2 * Len(processed) + copies

\* A copy of event m for device d that has been sent.
Sent(m, d) ==
  /\ d \in {Origin[m], AnotherDevice(Origin[m])}
  /\ Ticket(m, d) <= Issued

\* The events whose copy has reached connection c.
Held(c) ==
  {m \in Message : rx[c] = <<m>> \/ \E i \in 1 .. Len(got[c]) : got[c][i] = m}

\* Only the processor function that runs has disposed of copies.
CopiesInv ==
  \A w \in Worker : worker[w].job = <<>> => copies = 0

\* What has reached a connection was sent, and reached no other one of the
\* device.
HeldInv ==
  /\ \A c \in Conn : \A m \in Held(c) : Sent(m, DeviceOf[c])
  /\ \A c, d \in Conn :
       DeviceOf[c] = DeviceOf[d] /\ c # d => Held(c) \cap Held(d) = {}

\* The copy the broker is delivering is newer than those its device has.
SendingInv ==
  sending # <<>> =>
    LET s == Head(sending)
    IN  /\ Sent(s.event, DeviceOf[s.to])
        /\ \A c \in Conn : DeviceOf[c] = DeviceOf[s.to] => \A m \in Held(c) : m < s.event

\* The copy in messagesCh is newer still.
MessagesInv ==
  messagesCh # <<>> =>
    LET msg == Head(messagesCh)
    IN  /\ Sent(msg.event, msg.device)
        /\ \A c \in Conn : DeviceOf[c] = msg.device => \A m \in Held(c) : m < msg.event
        /\ sending # <<>> /\ DeviceOf[Head(sending).to] = msg.device
             => Head(sending).event < msg.event

\* The event in a connection's channel is newer than those it was shown.
ShownInv ==
  /\ InOrder
  /\ \A c \in Conn : \A m \in Message :
       rx[c] = <<m>> => \A i \in 1 .. Len(got[c]) : got[c][i] < m

CopyInv == CopiesInv /\ HeldInv /\ SendingInv /\ MessagesInv /\ ShownInv

-----------------------------------------------------------------------------
(* The server runs the pipeline.                                           *)

\* A step of the server is a step of the pipeline or leaves it alone.
LEMMA PipeStep == [Next]_vars => [PipeNext]_pipeVars
<1> SUFFICES ASSUME [Next]_vars PROVE [PipeNext]_pipeVars
  OBVIOUS
<1>1. ASSUME NEW c \in Conn, Handler(c) PROVE UNCHANGED pipeVars
  BY <1>1 DEF Handler, Subscribe, Disconnect, CtxDone, Receive, Tick, HandleDemand, Unsubscribe
<1>2. CASE Syncer
  BY <1>2 DEF Syncer, TakeForward, Forward, PipeNext
<1>3. ASSUME NEW w \in Worker, Consumer(w) PROVE PipeNext \/ UNCHANGED pipeVars
  BY <1>3 DEF Consumer, PipelineStep, SendMessage, ExecuteReturns, PipeNext
<1>4. CASE Broker
  BY <1>4 DEF Broker, AddTopic, RemoveTopic, TakeMessage, Deliver
<1>5. CASE PipelineStep(Produce) \/ PipelineStep(Dispatch) \/ PipelineStep(EnqueueMsg)
             \/ PipelineStep(ReadFails)
  BY <1>5 DEF PipelineStep, PipeNext
<1>6. CASE UNCHANGED vars
  BY <1>6 DEF vars
<1> QED
  BY <1>1, <1>2, <1>3, <1>4, <1>5, <1>6 DEF Next, Server

-----------------------------------------------------------------------------
(* Type correctness.                                                       *)

\* The devices a copy can be for.
LEMMA ReceiversType ==
  ASSUME NEW m \in Message, NEW k \in 1 .. 2
  PROVE  /\ Receivers(m)[k] \in Device
         /\ Receivers(m)[k] = IF k = 1 THEN Origin[m] ELSE AnotherDevice(Origin[m])
<1>1. k = 1 \/ k = 2
  OBVIOUS
<1>2. Receivers(m)[1] = Origin[m] /\ Receivers(m)[2] = AnotherDevice(Origin[m])
  BY DEF Receivers
<1>3. Origin[m] \in Device /\ AnotherDevice(Origin[m]) \in Device
  BY DEF Device, AnotherDevice
<1> QED
  BY <1>1, <1>2, <1>3

\* The types hold at first.
LEMMA NotifyTypeInit == Init => NotifyTypeOK
BY DEF Init, NotifyTypeOK

\* The steps of the pipeline leave the rest of the server alone.
LEMMA PipelineStepsTouchNothing ==
  ASSUME \/ PipelineStep(Produce) \/ PipelineStep(Dispatch)
         \/ PipelineStep(EnqueueMsg) \/ PipelineStep(ReadFails)
         \/ \E w \in Worker : PipelineStep(TakeWork(w))
  PROVE  UNCHANGED <<conn, cancelled, got, closed, subsciberCh, unsubscribeCh, topics, sending,
                     demandChan, forwarder, rx, messagesCh, copies>>
BY DEF PipelineStep, handlerVars, brokerVars, demandVars

\* Every step of the server keeps the types.
LEMMA NotifyTypeStep == PipeTypeOK /\ NotifyTypeOK /\ [Next]_vars => NotifyTypeOK'
<1> SUFFICES ASSUME PipeTypeOK, NotifyTypeOK, [Next]_vars PROVE NotifyTypeOK'
  OBVIOUS
<1>1. ASSUME NEW c \in Conn, Subscribe(c) PROVE NotifyTypeOK'
  BY <1>1 DEF NotifyTypeOK, Subscribe, demandVars
<1>2. ASSUME NEW c \in Conn, Disconnect(c) \/ CtxDone(c) \/ Tick(c) PROVE NotifyTypeOK'
  BY <1>2 DEF NotifyTypeOK, Disconnect, CtxDone, Tick, brokerVars, demandVars
<1>3. ASSUME NEW c \in Conn, Receive(c) PROVE NotifyTypeOK'
  <2>1. PICK m \in Message : rx[c] = <<m>>
    BY <1>3 DEF NotifyTypeOK, Receive
  <2>2. got' \in [Conn -> Seq(Message)]
    <3>1. Head(rx[c]) = m /\ got[c] \in Seq(Message)
      BY <2>1 DEF NotifyTypeOK
    <3>2. Append(got[c], m) \in Seq(Message)
      BY <3>1
    <3> QED
      BY <1>3, <3>1, <3>2 DEF NotifyTypeOK, Receive
  <2>3. rx' \in [Conn -> {<<>>} \cup {<<n>> : n \in Message}]
    BY <1>3 DEF NotifyTypeOK, Receive
  <2> QED
    BY <1>3, <2>2, <2>3 DEF NotifyTypeOK, Receive, brokerVars, demandVars
<1>4. ASSUME NEW c \in Conn, HandleDemand(c) PROVE NotifyTypeOK'
  BY <1>4 DEF NotifyTypeOK, HandleDemand, brokerVars
<1>5. ASSUME NEW c \in Conn, Unsubscribe(c) PROVE NotifyTypeOK'
  BY <1>5 DEF NotifyTypeOK, Unsubscribe, demandVars
<1>6. CASE Syncer
  BY <1>6 DEF NotifyTypeOK, Syncer, TakeForward, Forward, handlerVars, brokerVars
<1>7. ASSUME NEW w \in Worker, SendMessage(w) PROVE NotifyTypeOK'
  <2>1. PICK m \in Message : worker[w].job = <<m>>
    BY <1>7 DEF SendMessage, PipeTypeOK, Job
  <2>2. copies' \in 0 .. 2 /\ copies + 1 \in 1 .. 2
    BY <1>7 DEF NotifyTypeOK, SendMessage
  <2>3. PICK msg \in [event : Message, device : Device] :
          msg = [event |-> m, device |-> Receivers(m)[copies + 1]]
    BY <2>2, ReceiversType
  <2>4. messagesCh' \in {<<>>} \cup {<<x>> : x \in [event : Message, device : Device]}
    BY <1>7, <2>1, <2>3 DEF NotifyTypeOK, SendMessage
  <2> QED
    BY <1>7, <2>2, <2>4 DEF NotifyTypeOK, SendMessage, handlerVars, brokerVars, demandVars
<1>8. ASSUME NEW w \in Worker, ExecuteReturns(w) PROVE NotifyTypeOK'
  BY <1>8 DEF NotifyTypeOK, ExecuteReturns, handlerVars, brokerVars, demandVars
<1>9. CASE AddTopic
  BY <1>9 DEF NotifyTypeOK, AddTopic, handlerVars, demandVars
<1>10. CASE RemoveTopic
  BY <1>10 DEF NotifyTypeOK, RemoveTopic, demandVars
<1>11. CASE TakeMessage
  <2>1. PICK msg \in [event : Message, device : Device] : msg = Head(messagesCh)
    BY <1>11 DEF NotifyTypeOK, TakeMessage
  <2>2. sending' \in {<<>>} \cup {<<d>> : d \in [to : Conn, event : Message]}
    BY <1>11, <2>1 DEF NotifyTypeOK, TakeMessage, FindTopicByName
  <2> QED
    BY <1>11, <2>2 DEF NotifyTypeOK, TakeMessage, handlerVars, demandVars
<1>12. CASE Deliver
  <2>1. PICK d \in [to : Conn, event : Message] : sending = <<d>>
    BY <1>12 DEF NotifyTypeOK, Deliver
  <2>2. rx' \in [Conn -> {<<>>} \cup {<<n>> : n \in Message}]
    <3>1. rx' = rx \/ rx' = [rx EXCEPT ![d.to] = <<d.event>>]
      BY <1>12, <2>1 DEF Deliver
    <3>2. d.to \in Conn /\ d.event \in Message
      OBVIOUS
    <3>3. CASE rx' = rx
      BY <3>3 DEF NotifyTypeOK
    <3>4. CASE rx' = [rx EXCEPT ![d.to] = <<d.event>>]
      BY <3>2, <3>4 DEF NotifyTypeOK
    <3> QED
      BY <3>1, <3>3, <3>4
  <2> QED
    BY <1>12, <2>2 DEF NotifyTypeOK, Deliver, handlerVars, demandVars
<1>13. CASE UNCHANGED <<conn, cancelled, got, closed, subsciberCh, unsubscribeCh, topics,
                        sending, demandChan, forwarder, rx, messagesCh, copies>>
  BY <1>13 DEF NotifyTypeOK
<1>14. UNCHANGED vars =>
         UNCHANGED <<conn, cancelled, got, closed, subsciberCh, unsubscribeCh, topics,
                     sending, demandChan, forwarder, rx, messagesCh, copies>>
  BY DEF vars, handlerVars, brokerVars, demandVars
<1> QED
  BY <1>1, <1>2, <1>3, <1>4, <1>5, <1>6, <1>7, <1>8, <1>9, <1>10, <1>11, <1>12, <1>13, <1>14,
     PipelineStepsTouchNothing DEF Next, Handler, Server, Consumer, Broker

-----------------------------------------------------------------------------
(* Channels.                                                               *)

\* At first no channel is open.
LEMMA ChannelInit == Init => ChannelInv
BY DEF Init, ChannelInv

\* A handler registers its channel once and waits for the answer after it has
\* asked for its removal; the broker forgets a channel when it closes it.
LEMMA ChannelStep == NotifyTypeOK /\ ChannelInv /\ [Next]_vars => ChannelInv'
<1> SUFFICES ASSUME NotifyTypeOK, ChannelInv, [Next]_vars PROVE ChannelInv'
  OBVIOUS
<1>1. ASSUME NEW c \in Conn, Subscribe(c) PROVE ChannelInv'
  BY <1>1 DEF NotifyTypeOK, ChannelInv, Subscribe
<1>2. ASSUME NEW c \in Conn, CtxDone(c) \/ Tick(c) \/ HandleDemand(c) PROVE ChannelInv'
  BY <1>2 DEF NotifyTypeOK, ChannelInv, CtxDone, Tick, HandleDemand, brokerVars
<1>3. ASSUME NEW c \in Conn, Unsubscribe(c) PROVE ChannelInv'
  BY <1>3 DEF NotifyTypeOK, ChannelInv, Unsubscribe
<1>4. CASE AddTopic
  <2>1. PICK c \in Conn : subsciberCh = <<c>> /\ Head(subsciberCh) = c
    BY <1>4 DEF NotifyTypeOK, AddTopic
  <2> QED
    BY <1>4, <2>1 DEF NotifyTypeOK, ChannelInv, AddTopic, handlerVars
<1>5. CASE RemoveTopic
  <2>1. PICK c \in Conn : unsubscribeCh = <<c>> /\ Head(unsubscribeCh) = c
    BY <1>5 DEF NotifyTypeOK, RemoveTopic
  <2> QED
    BY <1>5, <2>1 DEF NotifyTypeOK, ChannelInv, RemoveTopic
<1>6. CASE TakeMessage
  <2>1. sending' # <<>> => Head(sending').to \in topics
    BY <1>6 DEF TakeMessage, FindTopicByName
  <2> QED
    BY <1>6, <2>1 DEF ChannelInv, TakeMessage, handlerVars
<1>7. CASE Deliver
  BY <1>7 DEF ChannelInv, Deliver, handlerVars
<1>8. CASE UNCHANGED <<conn, closed, subsciberCh, unsubscribeCh, topics, sending>>
  BY <1>8 DEF ChannelInv
<1>9. ASSUME \/ \E c \in Conn : Disconnect(c) \/ Receive(c)
             \/ Syncer
             \/ \E w \in Worker : SendMessage(w) \/ ExecuteReturns(w)
             \/ UNCHANGED vars
      PROVE  UNCHANGED <<conn, closed, subsciberCh, unsubscribeCh, topics, sending>>
  BY <1>9 DEF Disconnect, Receive, Syncer, TakeForward, Forward, SendMessage, ExecuteReturns, vars,
         handlerVars, brokerVars
<1> QED
  BY <1>1, <1>2, <1>3, <1>4, <1>5, <1>6, <1>7, <1>8, <1>9, PipelineStepsTouchNothing
     DEF Next, Handler, Server, Consumer, Broker

-----------------------------------------------------------------------------
(* Copies of events.                                                       *)

\* What the broker's buffers hold.
LEMMA BufferTypes ==
  ASSUME NotifyTypeOK
  PROVE  /\ sending # <<>> => \E s \in [to : Conn, event : Message] :
                                sending = <<s>> /\ Head(sending) = s
         /\ messagesCh # <<>> => \E msg \in [event : Message, device : Device] :
                                   messagesCh = <<msg>> /\ Head(messagesCh) = msg
<1>1. \A x : Head(<<x>>) = x
  OBVIOUS
<1>2. /\ sending \in {<<>>} \cup {<<d>> : d \in [to : Conn, event : Message]}
      /\ messagesCh \in {<<>>} \cup {<<m>> : m \in [event : Message, device : Device]}
  BY DEF NotifyTypeOK
<1> QED
  BY <1>1, <1>2, Zenon

\* Of two copies for a device, the one with the lower number is of the older
\* event.
LEMMA TicketOrder ==
  ASSUME NEW m \in Message, NEW n \in Message, NEW d, Ticket(m, d) < Ticket(n, d)
  PROVE  m < n
<1>1. m \in Int /\ n \in Int
  BY PipelineAssumption DEF Message
<1>2. Ticket(m, d) \in {2 * m - 1, 2 * m} /\ Ticket(n, d) \in {2 * n - 1, 2 * n}
  BY <1>1 DEF Ticket
<1>3. m = n => Ticket(m, d) = Ticket(n, d)
  OBVIOUS
<1> QED
  BY <1>1, <1>2, <1>3

\* The number of copies.
LEMMA IssuedType ==
  ASSUME PipeTypeOK, NotifyTypeOK
  PROVE  Issued \in Nat /\ Len(processed) \in Nat /\ copies \in 0 .. 2
BY DEF PipeTypeOK, NotifyTypeOK, Issued

\* What was sent stays sent.
LEMMA SentGrows ==
  ASSUME PipeTypeOK, NotifyTypeOK, PipeTypeOK', NotifyTypeOK', Issued <= Issued',
         NEW m \in Message, NEW d, Sent(m, d)
  PROVE  Sent(m, d)'
<1>1. Issued \in Int /\ Issued' \in Int
  <2>1. Issued \in Int
    BY IssuedType
  <2>2. copies' \in 0 .. 2 /\ processed' \in Seq(Message)
    BY DEF PipeTypeOK, NotifyTypeOK
  <2> QED
    BY <2>1, <2>2 DEF Issued
<1>2. Ticket(m, d) \in Int
  <2>1. m \in Int
    BY PipelineAssumption DEF Message
  <2> QED
    BY <2>1 DEF Ticket
<1> QED
  BY <1>1, <1>2 DEF Sent

\* At first no copy has been made.
LEMMA CopyInit == Init => CopyInv
<1> SUFFICES ASSUME Init PROVE CopyInv
  OBVIOUS
<1>1. \A c \in Conn : Held(c) = {}
  BY DEF Init, Held
<1>2. CopiesInv
  BY DEF Init, CopiesInv
<1>3. HeldInv /\ SendingInv /\ MessagesInv
  BY <1>1 DEF Init, HeldInv, SendingInv, MessagesInv
<1>4. ShownInv
  BY DEF Init, ShownInv, InOrder
<1> QED
  BY <1>2, <1>3, <1>4 DEF CopyInv

\* Steps that bring no copy to a connection.
LEMMA HeldStays ==
  ASSUME PipeTypeOK, NotifyTypeOK, PipeTypeOK', NotifyTypeOK', CopyInv, Issued <= Issued',
         \A c \in Conn : Held(c)' = Held(c)
  PROVE  HeldInv'
<1>1. ASSUME NEW c \in Conn, NEW m \in Held(c) PROVE Sent(m, DeviceOf[c])'
  <2>1. m \in Message /\ Sent(m, DeviceOf[c])
    BY DEF CopyInv, HeldInv, Held
  <2> QED
    BY <2>1, SentGrows
<1> QED
  BY <1>1 DEF CopyInv, HeldInv

\* Steps that leave the broker's delivery alone as well.
LEMMA SendingStays ==
  ASSUME PipeTypeOK, NotifyTypeOK, PipeTypeOK', NotifyTypeOK', CopyInv, Issued <= Issued',
         \A c \in Conn : Held(c)' = Held(c), sending' = sending
  PROVE  SendingInv'
<1> SUFFICES ASSUME sending # <<>> PROVE SendingInv'
  BY DEF SendingInv
<1>1. PICK s \in [to : Conn, event : Message] : sending = <<s>> /\ Head(sending) = s
  BY BufferTypes
<1>2. Sent(s.event, DeviceOf[s.to])'
  <2>1. s.event \in Message /\ Sent(s.event, DeviceOf[s.to])
    BY <1>1 DEF CopyInv, SendingInv
  <2> QED
    BY <2>1, SentGrows
<1>3. \A c \in Conn : DeviceOf[c] = DeviceOf[s.to] => \A m \in Held(c) : m < s.event
  BY <1>1 DEF CopyInv, SendingInv
<1> QED
  BY <1>1, <1>2, <1>3 DEF SendingInv

\* And the message that waits for the broker.
LEMMA QuietStep ==
  ASSUME PipeTypeOK, NotifyTypeOK, PipeTypeOK', NotifyTypeOK', CopyInv, Issued <= Issued',
         \A c \in Conn : Held(c)' = Held(c), sending' = sending, messagesCh' = messagesCh
  PROVE  HeldInv' /\ SendingInv' /\ MessagesInv'
<1>1. MessagesInv'
  <2> SUFFICES ASSUME messagesCh # <<>> PROVE MessagesInv'
    BY DEF MessagesInv
  <2>1. PICK msg \in [event : Message, device : Device] :
          messagesCh = <<msg>> /\ Head(messagesCh) = msg
    BY BufferTypes
  <2>2. Sent(msg.event, msg.device)'
    BY <2>1, SentGrows DEF CopyInv, MessagesInv
  <2>3. \A c \in Conn : DeviceOf[c] = msg.device => \A m \in Held(c) : m < msg.event
    BY <2>1 DEF CopyInv, MessagesInv
  <2>4. sending # <<>> /\ DeviceOf[Head(sending).to] = msg.device
          => Head(sending).event < msg.event
    BY <2>1 DEF CopyInv, MessagesInv
  <2> QED
    BY <2>1, <2>2, <2>3, <2>4 DEF MessagesInv
<1> QED
  BY <1>1, HeldStays, SendingStays

\* A step that touches no connection's channel and writes no response.
LEMMA SameHeld ==
  ASSUME UNCHANGED <<rx, got>>, CopyInv
  PROVE  ShownInv' /\ \A c \in Conn : Held(c)' = Held(c)
<1>1. ShownInv'
  BY DEF CopyInv, ShownInv, InOrder
<1>2. \A c \in Conn : Held(c)' = Held(c)
  BY DEF Held
<1> QED
  BY <1>1, <1>2

\* The handler writes an event to the response.
LEMMA ReceiveStep ==
  ASSUME NotifyTypeOK, CopyInv, NEW c \in Conn, Receive(c)
  PROVE  ShownInv' /\ \A d \in Conn : Held(d)' = Held(d)
<1>1. PICK m \in Message : rx[c] = <<m>> /\ Head(rx[c]) = m
  BY DEF Receive, NotifyTypeOK
<1>2. /\ got'[c] = Append(got[c], m) /\ rx'[c] = <<>>
      /\ \A d \in Conn \ {c} : got'[d] = got[d] /\ rx'[d] = rx[d]
  BY <1>1 DEF Receive, NotifyTypeOK
<1>3. got[c] \in Seq(Message)
  BY DEF NotifyTypeOK
<1>4. /\ Len(Append(got[c], m)) = Len(got[c]) + 1 /\ Len(got[c]) \in Nat
      /\ \A i \in 1 .. Len(got[c]) : Append(got[c], m)[i] = got[c][i]
      /\ Append(got[c], m)[Len(got[c]) + 1] = m
  BY <1>3
<1>5. ASSUME NEW d \in Conn PROVE Held(d)' = Held(d)
  <2>1. CASE d # c
    BY <1>2, <2>1 DEF Held
  <2>2. \A n \in Message : (\E i \in 1 .. Len(got'[c]) : got'[c][i] = n)
          <=> n = m \/ \E i \in 1 .. Len(got[c]) : got[c][i] = n
    BY <1>2, <1>4
  <2>3. CASE d = c
    <3>1. \A n \in Message : rx[c] = <<n>> <=> n = m
      BY <1>1
    <3>2. \A n \in Message : rx'[c] # <<n>>
      BY <1>2
    <3> QED
      BY <2>2, <2>3, <3>1, <3>2 DEF Held
  <2> QED
    BY <2>1, <2>3
<1>6. ShownInv'
  <2>1. \A i \in 1 .. Len(got[c]) : got[c][i] < m
    BY <1>1 DEF CopyInv, ShownInv
  <2>2. \A i, j \in 1 .. Len(got[c]) : i < j => got[c][i] < got[c][j]
    BY DEF CopyInv, ShownInv, InOrder
  <2>3. \A i, j \in 1 .. Len(got'[c]) : i < j => got'[c][i] < got'[c][j]
    BY <1>2, <1>4, <2>1, <2>2
  <2>4. InOrder'
    BY <1>2, <2>3 DEF CopyInv, ShownInv, InOrder
  <2>5. \A n \in Message : rx'[c] # <<n>>
    BY <1>2
  <2> QED
    BY <1>2, <2>4, <2>5 DEF CopyInv, ShownInv
<1> QED
  BY <1>5, <1>6

\* The consumer sends a copy, the newest for its device.
LEMMA SendStep ==
  ASSUME PipeTypeOK, NotifyTypeOK, PipeTypeOK', NotifyTypeOK', NothingLostOrReordered, CopyInv,
         NEW w, Worker = {w}, SendMessage(w)
  PROVE  CopyInv'
<1>1. PICK m \in Message : worker[w].job = <<m>> /\ Head(worker[w].job) = m
  <2>1. worker[w].job # <<>> /\ worker[w].job \in Job
    BY DEF SendMessage, PipeTypeOK
  <2> QED
    BY <2>1 DEF Job
<1>2. Issued' = Issued + 1 /\ copies \in 0 .. 1 /\ copies + 1 \in 1 .. 2
  <2>1. copies' = copies + 1 /\ copies < 2 /\ copies \in 0 .. 2 /\ processed' = processed
    BY DEF SendMessage, NotifyTypeOK, pipeVars
  <2>2. Len(processed) \in Nat
    BY IssuedType
  <2> QED
    BY <2>1, <2>2 DEF Issued
<1>3. Issued \in Nat
  BY IssuedType
<1>4. ShownInv' /\ \A c \in Conn : Held(c)' = Held(c)
  BY SameHeld DEF SendMessage, handlerVars
<1>5. CopiesInv'
  BY <1>1 DEF CopiesInv, SendMessage, pipeVars
<1>6. sending' = sending
  BY DEF SendMessage, brokerVars
<1>7. Issued <= Issued'
  BY <1>2, <1>3
<1>8. CASE messagesCh' = messagesCh
  <2>1. HeldInv' /\ SendingInv' /\ MessagesInv'
    BY <1>4, <1>6, <1>7, <1>8, QuietStep
  <2> QED
    BY <1>4, <1>5, <2>1 DEF CopyInv
<1>9. CASE messagesCh = <<>> /\ messagesCh' = <<[event |-> m, device |-> Receivers(m)[copies + 1]]>>
  <2>0. PICK d : d = Receivers(m)[copies + 1]
    OBVIOUS
  <2>1. d \in {Origin[m], AnotherDevice(Origin[m])} /\ Ticket(m, d) = Issued + 1
    <3>1. m = Len(processed) + 1 /\ Len(processed) \in Nat
      BY <1>1, RunsNext, IssuedType
    <3>2. AnotherDevice(Origin[m]) # Origin[m]
      BY DEF AnotherDevice
    <3>3. CASE copies = 0
      <4>1. d = Origin[m]
        BY <1>2, <2>0, <3>3, ReceiversType
      <4> QED
        BY <3>1, <3>3, <4>1 DEF Ticket, Issued
    <3>4. CASE copies = 1
      <4>1. d = AnotherDevice(Origin[m])
        BY <1>2, <2>0, <3>4, ReceiversType
      <4> QED
        BY <3>1, <3>2, <3>4, <4>1 DEF Ticket, Issued
    <3> QED
      BY <1>2, <3>3, <3>4
  <2>2. ASSUME NEW n \in Message, Sent(n, d) PROVE n < m
    <3>1. Ticket(n, d) <= Issued /\ Ticket(n, d) \in Int
      <4>1. n \in Int
        BY PipelineAssumption DEF Message
      <4> QED
        BY <2>2, <4>1 DEF Sent, Ticket
    <3>2. Ticket(n, d) < Ticket(m, d)
      BY <1>3, <2>1, <3>1
    <3> QED
      BY <3>2, TicketOrder
  <2>3. Sent(m, d)'
    BY <1>2, <2>1, <1>3 DEF Sent
  <2>4. \A c \in Conn : Held(c) \subseteq Message /\ \A n \in Held(c) : Sent(n, DeviceOf[c])
    BY DEF CopyInv, HeldInv, Held
  <2>5. ASSUME sending # <<>>, DeviceOf[Head(sending).to] = d
        PROVE  Head(sending).event < m
    <3>1. PICK s \in [to : Conn, event : Message] : sending = <<s>> /\ Head(sending) = s
      BY <2>5, BufferTypes
    <3>2. Sent(s.event, d)
      BY <2>5, <3>1 DEF CopyInv, SendingInv
    <3> QED
      BY <2>2, <3>1, <3>2
  <2>6. MessagesInv'
    <3>1. messagesCh' = <<[event |-> m, device |-> d]>>
      BY <1>9, <2>0
    <3>2. Head(messagesCh').event = m /\ Head(messagesCh').device = d
      BY <3>1
    <3>3. \A c \in Conn : DeviceOf[c] = d => \A n \in Held(c) : n < m
      BY <2>2, <2>4
    <3> QED
      BY <1>4, <1>6, <2>3, <2>5, <3>2, <3>3 DEF MessagesInv
  <2>7. HeldInv' /\ SendingInv'
    BY <1>3, <1>4, <1>6, <1>7, HeldStays, SendingStays
  <2> QED
    BY <1>4, <1>5, <2>6, <2>7 DEF CopyInv
<1> QED
  BY <1>1, <1>8, <1>9 DEF SendMessage

\* The processor function returns after both copies, or at once if there is no
\* payload.
LEMMA ReturnStep ==
  ASSUME PipeTypeOK, NotifyTypeOK, PipeTypeOK', NotifyTypeOK', CopyInv,
         NEW w, Worker = {w}, ExecuteReturns(w)
  PROVE  CopyInv'
<1>1. Issued' = Issued
  <2>1. copies' = 0 /\ processed' = processed \o worker[w].job
    BY DEF ExecuteReturns, Processed
  <2>2. Len(processed) \in Nat /\ processed \in Seq(Message)
    BY DEF PipeTypeOK
  <2>3. CASE worker[w].job = <<>>
    <3>1. copies = 0
      BY <2>3 DEF CopyInv, CopiesInv
    <3>2. Len(processed') = Len(processed)
      BY <2>1, <2>2, <2>3
    <3> QED
      BY <2>1, <3>1, <3>2 DEF Issued
  <2>4. CASE worker[w].job # <<>>
    <3>1. PICK m \in Message : worker[w].job = <<m>>
      <4>1. worker[w].job \in Job
        BY DEF PipeTypeOK
      <4> QED
        BY <2>4, <4>1 DEF Job
    <3>2. Len(processed') = Len(processed) + 1
      BY <2>1, <2>2, <3>1
    <3>3. copies = 2
      BY <2>4 DEF ExecuteReturns
    <3> QED
      BY <2>1, <2>2, <3>2, <3>3 DEF Issued
  <2> QED
    BY <2>3, <2>4
<1>2. Issued <= Issued'
  BY <1>1, IssuedType
<1>3. ShownInv' /\ \A c \in Conn : Held(c)' = Held(c)
  BY SameHeld DEF ExecuteReturns, handlerVars
<1>4. HeldInv' /\ SendingInv' /\ MessagesInv'
  BY <1>2, <1>3, QuietStep DEF ExecuteReturns, brokerVars
<1>5. CopiesInv'
  BY DEF CopiesInv, ExecuteReturns
<1> QED
  BY <1>3, <1>4, <1>5 DEF CopyInv

\* The broker takes the message, for a channel of its device.
LEMMA TakeStep ==
  ASSUME PipeTypeOK, NotifyTypeOK, PipeTypeOK', NotifyTypeOK', CopyInv, TakeMessage
  PROVE  CopyInv'
<1>1. Issued' = Issued /\ UNCHANGED <<worker, copies>>
  BY DEF TakeMessage, Issued, pipeVars
<1>2. Issued <= Issued'
  BY <1>1, IssuedType
<1>3. ShownInv' /\ \A c \in Conn : Held(c)' = Held(c)
  BY SameHeld DEF TakeMessage, handlerVars
<1>4. HeldInv'
  BY <1>2, <1>3, HeldStays
<1>5. CopiesInv'
  BY <1>1 DEF CopyInv, CopiesInv
<1>6. MessagesInv'
  BY DEF MessagesInv, TakeMessage
<1>7. SendingInv'
  <2> SUFFICES ASSUME sending' # <<>> PROVE SendingInv'
    BY DEF SendingInv
  <2>1. PICK msg \in [event : Message, device : Device] :
          messagesCh = <<msg>> /\ Head(messagesCh) = msg
    <3>1. messagesCh # <<>>
      BY DEF TakeMessage
    <3> QED
      BY <3>1, BufferTypes
  <2>2. PICK c \in Conn :
          /\ DeviceOf[c] = msg.device
          /\ Head(sending').to = c /\ Head(sending').event = msg.event
    <3>1. sending = <<>> /\ topics \subseteq Conn
      BY DEF TakeMessage, NotifyTypeOK
    <3>2. PICK c \in topics :
            DeviceOf[c] = msg.device /\ sending' = <<[to |-> c, event |-> msg.event]>>
      BY <2>1, <3>1 DEF TakeMessage, FindTopicByName
    <3> QED
      BY <3>1, <3>2
  <2>3. Sent(msg.event, DeviceOf[c])'
    <3>1. Sent(msg.event, msg.device)
      BY <2>1 DEF CopyInv, MessagesInv
    <3> QED
      BY <1>2, <2>2, <3>1, SentGrows
  <2>4. \A d \in Conn : DeviceOf[d] = DeviceOf[c] => \A m \in Held(d) : m < msg.event
    BY <2>1, <2>2 DEF CopyInv, MessagesInv
  <2> QED
    BY <1>3, <2>2, <2>3, <2>4 DEF SendingInv
<1> QED
  BY <1>3, <1>4, <1>5, <1>6, <1>7 DEF CopyInv

\* The broker puts a copy in a connection's channel, or gives up.
LEMMA DeliverStep ==
  ASSUME PipeTypeOK, NotifyTypeOK, PipeTypeOK', NotifyTypeOK', CopyInv, Deliver
  PROVE  CopyInv'
<1>1. Issued' = Issued /\ UNCHANGED <<worker, copies, got, messagesCh>> /\ sending' = <<>>
  BY DEF Deliver, Issued, pipeVars, handlerVars
<1>2. Issued <= Issued'
  BY <1>1, IssuedType
<1>3. PICK s \in [to : Conn, event : Message] : sending = <<s>> /\ Head(sending) = s
  <2>1. sending # <<>>
    BY DEF Deliver
  <2> QED
    BY <2>1, BufferTypes
<1>4. /\ Sent(s.event, DeviceOf[s.to])
      /\ \A c \in Conn : DeviceOf[c] = DeviceOf[s.to] => \A m \in Held(c) : m < s.event
  BY <1>3 DEF CopyInv, SendingInv
<1>5. CopiesInv' /\ SendingInv'
  BY <1>1 DEF CopyInv, CopiesInv, SendingInv
<1>6. SUFFICES HeldInv' /\ MessagesInv' /\ ShownInv'
  BY <1>5 DEF CopyInv
<1>7. ASSUME messagesCh # <<>>
      PROVE  /\ Sent(Head(messagesCh).event, Head(messagesCh).device)'
             /\ Head(messagesCh).event \in Message
             /\ \A c \in Conn : DeviceOf[c] = Head(messagesCh).device =>
                  \A m \in Held(c) : m < Head(messagesCh).event
             /\ DeviceOf[s.to] = Head(messagesCh).device => s.event < Head(messagesCh).event
  <2>1. PICK msg \in [event : Message, device : Device] :
          messagesCh = <<msg>> /\ Head(messagesCh) = msg
    BY <1>7, BufferTypes
  <2>2. Sent(msg.event, msg.device)'
    <3>1. Sent(msg.event, msg.device)
      BY <2>1 DEF CopyInv, MessagesInv
    <3> QED
      BY <1>2, <3>1, SentGrows
  <2>3. messagesCh' = <<msg>>
    BY <1>1, <2>1
  <2> QED
    BY <1>3, <2>1, <2>2, <2>3 DEF CopyInv, MessagesInv
<1>8. CASE rx' = rx
  <2>1. ShownInv' /\ \A c \in Conn : Held(c)' = Held(c)
    BY <1>1, <1>8, SameHeld
  <2>2. HeldInv'
    BY <1>2, <2>1, HeldStays
  <2>3. MessagesInv'
    BY <1>1, <1>7, <2>1 DEF MessagesInv
  <2> QED
    BY <2>1, <2>2, <2>3
<1>9. CASE rx[s.to] = <<>> /\ rx' = [rx EXCEPT ![s.to] = <<s.event>>]
  <2>1. rx'[s.to] = <<s.event>> /\ \A c \in Conn \ {s.to} : rx'[c] = rx[c]
    BY <1>9 DEF NotifyTypeOK
  <2>2. Held(s.to)' = Held(s.to) \cup {s.event}
    <3>1. \A m \in Message : (rx'[s.to] = <<m>> <=> m = s.event) /\ rx[s.to] # <<m>>
      BY <1>9, <2>1
    <3>2. s.event \in Message /\ got' = got
      BY <1>1
    <3> QED
      BY <3>1, <3>2 DEF Held
  <2>3. \A c \in Conn \ {s.to} : Held(c)' = Held(c)
    BY <1>1, <2>1 DEF Held
  <2>4. HeldInv'
    <3>1. ASSUME NEW c \in Conn, NEW m \in Held(c)' PROVE Sent(m, DeviceOf[c])'
      <4>1. m \in Held(c) => m \in Message /\ Sent(m, DeviceOf[c])
        BY DEF CopyInv, HeldInv, Held
      <4>2. m \in Message /\ Sent(m, DeviceOf[c])
        BY <1>4, <2>2, <2>3, <4>1
      <4> QED
        BY <1>2, <4>2, SentGrows
    <3>2. ASSUME NEW c \in Conn, DeviceOf[c] = DeviceOf[s.to]
          PROVE  s.event \notin Held(c)
      BY <1>4, <3>2, PipelineAssumption DEF Message
    <3>3. ASSUME NEW c \in Conn, NEW d \in Conn, DeviceOf[c] = DeviceOf[d], c # d
          PROVE  Held(c)' \cap Held(d)' = {}
      <4>1. Held(c) \cap Held(d) = {}
        BY <3>3 DEF CopyInv, HeldInv
      <4> QED
        BY <2>2, <2>3, <3>2, <3>3, <4>1
    <3> QED
      BY <3>1, <3>3 DEF HeldInv
  <2>5. MessagesInv'
    BY <1>1, <1>7, <2>2, <2>3 DEF MessagesInv
  <2>6. ShownInv'
    <3>1. InOrder'
      BY <1>1 DEF CopyInv, ShownInv, InOrder
    <3>2. ASSUME NEW i \in 1 .. Len(got[s.to]) PROVE got[s.to][i] < s.event
      <4>1. got[s.to][i] \in Message
        <5>1. got[s.to] \in Seq(Message)
          BY DEF NotifyTypeOK
        <5> QED
          BY <5>1
      <4>2. got[s.to][i] \in Held(s.to)
        BY <4>1 DEF Held
      <4> QED
        BY <1>4, <4>2
    <3>3. ASSUME NEW c \in Conn, NEW m \in Message, rx'[c] = <<m>>,
                 NEW i \in 1 .. Len(got[c])
          PROVE  got[c][i] < m
      <4>1. CASE c = s.to
        <5>1. m = s.event
          BY <2>1, <3>3, <4>1
        <5> QED
          BY <3>2, <4>1, <5>1
      <4>2. CASE c # s.to
        BY <2>1, <3>3, <4>2 DEF CopyInv, ShownInv
      <4> QED
        BY <4>1, <4>2
    <3> QED
      BY <1>1, <3>1, <3>3 DEF ShownInv
  <2> QED
    BY <2>4, <2>5, <2>6
<1> QED
  BY <1>3, <1>8, <1>9 DEF Deliver

\* Every step keeps the order of the copies.
LEMMA CopyStep ==
  ASSUME PipeTypeOK, NotifyTypeOK, PipeTypeOK', NotifyTypeOK', IdleInv, NothingLostOrReordered,
         CopyInv, [Next]_vars
  PROVE  CopyInv'
<1>1. PICK w \in Worker : Worker = {w}
  BY NotificationsAssumption
<1>2. ASSUME UNCHANGED <<rx, got, sending, messagesCh, copies, processed>>, CopiesInv'
      PROVE  CopyInv'
  <2>1. Issued <= Issued'
    BY <1>2, IssuedType DEF Issued
  <2>2. ShownInv' /\ \A c \in Conn : Held(c)' = Held(c)
    BY <1>2, SameHeld
  <2>3. HeldInv' /\ SendingInv' /\ MessagesInv'
    BY <1>2, <2>1, <2>2, QuietStep
  <2> QED
    BY <1>2, <2>2, <2>3 DEF CopyInv
<1>3. ASSUME UNCHANGED <<rx, got, sending, messagesCh, copies, processed, worker>>
      PROVE  CopyInv'
  BY <1>2, <1>3 DEF CopyInv, CopiesInv
<1>4. ASSUME NEW c \in Conn, Handler(c), ~Receive(c)
      PROVE  UNCHANGED <<rx, got, sending, messagesCh, copies, processed, worker>>
  BY <1>4 DEF Handler, Subscribe, Disconnect, CtxDone, Tick, HandleDemand, Unsubscribe,
       pipeVars, brokerVars
<1>5. ASSUME NEW c \in Conn, Receive(c) PROVE CopyInv'
  <2>1. ShownInv' /\ \A d \in Conn : Held(d)' = Held(d)
    BY <1>5, ReceiveStep
  <2>2. UNCHANGED <<sending, messagesCh, copies, processed, worker>>
    BY <1>5 DEF Receive, brokerVars, pipeVars
  <2>3. Issued <= Issued'
    BY <2>2, IssuedType DEF Issued
  <2>4. HeldInv' /\ SendingInv' /\ MessagesInv'
    BY <2>1, <2>2, <2>3, QuietStep
  <2> QED
    BY <2>1, <2>2, <2>4 DEF CopyInv, CopiesInv
<1>6. ASSUME PipelineStep(TakeWork(w)) PROVE CopyInv'
  <2>1. worker[w].at # "run" /\ processed' = processed
    BY <1>6 DEF PipelineStep, TakeWork, ReturnBench, TakeJob
  <2>2. copies = 0
    BY <2>1 DEF IdleInv, CopyInv, CopiesInv
  <2>3. UNCHANGED <<rx, got, sending, messagesCh, copies>>
    BY <1>6 DEF PipelineStep, handlerVars, brokerVars
  <2> QED
    BY <1>2, <2>1, <2>2, <2>3 DEF CopiesInv
<1>7. ASSUME \/ Syncer \/ AddTopic \/ RemoveTopic
             \/ PipelineStep(Produce) \/ PipelineStep(Dispatch)
             \/ PipelineStep(EnqueueMsg) \/ PipelineStep(ReadFails)
             \/ UNCHANGED vars
      PROVE  UNCHANGED <<rx, got, sending, messagesCh, copies, processed, worker>>
  <2>1. CASE Syncer \/ AddTopic \/ RemoveTopic \/ UNCHANGED vars
    BY <2>1 DEF Syncer, TakeForward, Forward, Demand, AddTopic, RemoveTopic, vars, pipeVars,
         poolVars, handlerVars, brokerVars
  <2>2. ASSUME Produce \/ Dispatch \/ EnqueueMsg \/ ReadFails PROVE UNCHANGED <<processed, worker>>
    BY <2>2 DEF Produce, TakeDemand, ReadMsg, SendResults, Dispatch, ReceiveJob, TakeBench,
         HandOver, EnqueueMsg, ReadFails, poolVars
  <2> QED
    BY <1>7, <2>1, <2>2 DEF PipelineStep, handlerVars, brokerVars
<1>8. CASE \E c \in Conn : Handler(c)
  BY <1>3, <1>4, <1>5, <1>8
<1>9. CASE Consumer(w)
  BY <1>1, <1>6, <1>9, SendStep, ReturnStep DEF Consumer
<1>10. CASE Broker
  BY <1>3, <1>7, <1>10, TakeStep, DeliverStep DEF Broker
<1> QED
  BY <1>1, <1>3, <1>7, <1>8, <1>9, <1>10 DEF Next, Server

-----------------------------------------------------------------------------
(* Theorems.                                                               *)

\* The notification server implements the pipeline: whatever the handlers and
\* the broker do, Produce, Dispatch and the worker behave as Pipeline says, so
\* all that is proved of every pipeline is true of this one.
THEOREM ServerRunsPipeline == NotifySpec => PipeSpec
<1>1. Init => PipeInit
  BY DEF Init
<1> QED
  BY <1>1, PipeStep, PTL DEF NotifySpec, PipeSpec

\* Everything in the server keeps its type.
THEOREM NotifyTypeCorrect == NotifySpec => []NotifyTypeOK
BY NotifyTypeInit, NotifyTypeStep, PipeTypeCorrect, ServerRunsPipeline, PTL DEF NotifySpec

\* A channel that SSEBroker has closed is never sent on, closed again or
\* registered, however connections come and go.
THEOREM ClosedStaysForgotten == NotifySpec => []ClosedIsForgotten
<1>1. NotifyTypeOK /\ ChannelInv => ClosedIsForgotten
  <2> SUFFICES ASSUME NotifyTypeOK, ChannelInv, NEW c \in closed
               PROVE  /\ conn[c] = "gone" /\ c \notin topics
                      /\ subsciberCh # <<c>> /\ unsubscribeCh # <<c>>
                      /\ sending # <<>> => Head(sending).to # c
    BY DEF ClosedIsForgotten
  <2>1. c \in Conn /\ conn[c] = "gone"
    BY DEF NotifyTypeOK, ChannelInv
  <2> QED
    BY <2>1 DEF ChannelInv
<1> QED
  BY <1>1, ChannelInit, ChannelStep, NotifyTypeCorrect, PTL DEF NotifySpec

\* The server passes its one worker the messages in the order of the list.
LEMMA ServerInOrderOfList == NotifySpec => []NothingLostOrReordered
<1>1. PICK w \in Worker : Worker = {w}
  BY NotificationsAssumption
<1>2. PipeSpec => []NothingLostOrReordered
  BY <1>1, InOrderOfList
<1> QED
  BY <1>2, ServerRunsPipeline, PTL

\* No goroutine of the pipeline keeps a job it has passed on.
LEMMA ServerIdle == NotifySpec => []IdleInv
<1>1. PipeSpec => []IdleInv
  BY IdleInit, IdleStep, PipeTypeCorrect, PTL DEF PipeSpec
<1> QED
  BY <1>1, ServerRunsPipeline, PTL

\* The copies of events keep their order on the way to a connection.
LEMMA CopiesInOrder == NotifySpec => []CopyInv
<1>1. PipeTypeOK /\ NotifyTypeOK /\ PipeTypeOK' /\ NotifyTypeOK' /\ IdleInv
        /\ NothingLostOrReordered /\ CopyInv /\ [Next]_vars => CopyInv'
  BY CopyStep
<1>2. NotifySpec => []PipeTypeOK
  BY ServerRunsPipeline, PipeTypeCorrect, PTL
<1> QED
  BY <1>1, <1>2, CopyInit, NotifyTypeCorrect, ServerIdle, ServerInOrderOfList, PTL DEF NotifySpec

\* A connection is shown events in the order of the Redis list, none twice,
\* whatever the timeouts of SendMessage and of the broker drop.
THEOREM ShownInOrder == NotifySpec => []InOrder
<1>1. CopyInv => InOrder
  BY DEF CopyInv, ShownInv
<1> QED
  BY <1>1, CopiesInOrder, PTL

\* An event is shown on at most one connection of a device, and only to the
\* devices SSEConsumer addresses.
THEOREM ShownOncePerDevice == NotifySpec => []OncePerDevice
<1>1. CopyInv => OncePerDevice
  <2> HAVE CopyInv
  <2> USE DEF OncePerDevice
  <2> TAKE m \in Message
  <2> DEFINE shownOn == {c \in Conn : \E i \in 1 .. Len(got[c]) : got[c][i] = m}
  <2>1. \A c \in shownOn : c \in Conn /\ m \in Held(c)
    BY DEF Held
  <2> HIDE DEF shownOn
  <2>2. \A c \in shownOn : DeviceOf[c] \in {Origin[m], AnotherDevice(Origin[m])}
    BY <2>1 DEF CopyInv, HeldInv, Sent
  <2>3. \A c, d \in shownOn : DeviceOf[c] = DeviceOf[d] => c = d
    BY <2>1 DEF CopyInv, HeldInv
  <2> QED
    BY <2>2, <2>3 DEF shownOn
<1> QED
  BY <1>1, CopiesInOrder, PTL

\* What a handler that is blocked on a channel is blocked on.
Blocked(c) == conn[c] \in {"demand", "leaving"} \/ unsubscribeCh = <<c>>

\* The other goroutines of the server that can move: the two of
\* FileUpdateSyncBroker, those of the pipeline, and the broker.
ForwarderCanMove == (forwarder = 0 /\ demandChan = 1) \/ (forwarder = 1 /\ demand = 0)

BrokerCanMove == sending # <<>> \/ subsciberCh # <<>> \/ unsubscribeCh # <<>> \/ messagesCh # <<>>

ServerCanMove ==
  \/ ForwarderCanMove \/ ProducerCanMove \/ DispatcherCanMove
  \/ \E w \in Worker : WorkerCanMove(w)
  \/ BrokerCanMove

\* A handler that is blocked can go on, or some goroutine of the server can.
NoClosedCircle ==
  (\E c \in Conn : Blocked(c)) =>
    \/ \E c \in Conn : conn[c] = "demand" /\ demandChan = 0
    \/ \E c \in Conn : conn[c] = "leaving" /\ unsubscribeCh = <<>>
    \/ ServerCanMove

\* The circle of goroutines, from a handler that demands over the forwarder,
\* the pipeline and the broker back to the handler, never closes.  The guards
\* are written out, as the prover does not know ENABLED; NoStandstill says the
\* same with it.
THEOREM CircleNeverCloses == NotifySpec => []NoClosedCircle
<1>1. PipeTypeOK /\ NotifyTypeOK /\ NoPipeStandstill => NoClosedCircle
  <2> SUFFICES ASSUME PipeTypeOK, NotifyTypeOK, NoPipeStandstill,
                      NEW c \in Conn, Blocked(c), ~ServerCanMove
               PROVE  \/ conn[c] = "demand" /\ demandChan = 0
                      \/ conn[c] = "leaving" /\ unsubscribeCh = <<>>
    BY DEF NoClosedCircle
  <2>1. unsubscribeCh = <<>>
    BY DEF ServerCanMove, BrokerCanMove
  <2>2. demand # 1
    BY DEF NoPipeStandstill, ServerCanMove
  <2>3. demandChan = 1 => demand = 1
    BY DEF ServerCanMove, ForwarderCanMove, NotifyTypeOK, PipeTypeOK
  <2> QED
    BY <2>1, <2>2, <2>3 DEF Blocked, NotifyTypeOK
<1> QED
  BY <1>1, NotifyTypeCorrect, PipeTypeCorrect, PipelineNeverStuck, ServerRunsPipeline, PTL
=============================================================================
