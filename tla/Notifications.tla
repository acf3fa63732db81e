--------------------------- MODULE Notifications ----------------------------
(***************************************************************************)
(* How the API server tells the devices of a user about settled versions:  *)
(* connections of EstablishConnection demand events from the user's Redis  *)
(* list, the pipeline hands them to SSEConsumer, and SSEBroker passes a    *)
(* copy to a connection of either device.                                  *)
(*                                                                         *)
(* The goroutines wait for one another in a circle: a handler that         *)
(* demands waits for the forwarder, it for the producer, the dispatcher,   *)
(* the worker, the broker, and the broker for the handler.                 *)
(*                                                                         *)
(* One user; an event is the number of its message in Pipeline.            *)
(***************************************************************************)
EXTENDS Pipeline

CONSTANTS
  Conn,       \* requests to /subscribe/devices, each with a channel of its own
  DeviceOf,   \* device of a connection (the topic, as there is one user)
  Origin      \* device that uploaded the version an event is about

\* The server's pool has one worker.
ASSUME NotificationsAssumption ==
  /\ \E w \in Worker : Worker = {w}
  /\ DeviceOf \in [Conn -> STRING]
  /\ Origin \in [Message -> STRING]

VARIABLES
  conn,         \* per connection: where its handler is
  cancelled,    \* connections whose request context is done
  rx,           \* per connection: its channel, capacity 1
  closed,       \* connections whose channel is closed
  got,          \* per connection: events written to the response
  subsciberCh, unsubscribeCh, messagesCh,  \* channels of the broker, capacity 1
  topics,       \* connections the broker knows
  sending,      \* the delivery the broker is blocked on, if any
  copies,       \* copies of the event the consumer has disposed of
  demandChan,   \* channel of FileUpdateSyncBroker, capacity 1
  forwarder     \* demands its goroutine has taken and not passed on

handlerVars == <<conn, cancelled, got>>
brokerVars == <<closed, subsciberCh, unsubscribeCh, topics, sending>>
demandVars == <<demandChan, forwarder>>
vars == <<pipeVars, handlerVars, brokerVars, demandVars, rx, messagesCh, copies>>

\* The devices a message can be for.
Device == {"1", "2"} \cup {Origin[m] : m \in Message}

NotifyTypeOK ==
  /\ conn \in [Conn -> {"none", "select", "demand", "leaving", "waiting", "gone"}]
  /\ cancelled \subseteq Conn /\ closed \subseteq Conn /\ topics \subseteq Conn
  /\ rx \in [Conn -> {<<>>} \cup {<<m>> : m \in Message}]
  /\ got \in [Conn -> Seq(Message)]
  /\ subsciberCh \in {<<>>} \cup {<<c>> : c \in Conn}
  /\ unsubscribeCh \in {<<>>} \cup {<<c>> : c \in Conn}
  /\ messagesCh \in {<<>>} \cup {<<m>> : m \in [event : Message, device : Device]}
  /\ sending \in {<<>>} \cup {<<d>> : d \in [to : Conn, event : Message]}
  /\ copies \in 0 .. 2
  /\ demandChan \in {0, 1} /\ forwarder \in {0, 1}

Init ==
  /\ PipeInit
  /\ conn = [c \in Conn |-> "none"]
  /\ cancelled = {}
  /\ rx = [c \in Conn |-> <<>>]
  /\ closed = {}
  /\ got = [c \in Conn |-> <<>>]
  /\ subsciberCh = <<>> /\ unsubscribeCh = <<>> /\ messagesCh = <<>>
  /\ topics = {}
  /\ sending = <<>>
  /\ copies = 0
  /\ demandChan = 0 /\ forwarder = 0

-----------------------------------------------------------------------------
(* EstablishConnection.                                                    *)

Subscribe(c) ==
  /\ conn[c] = "none"
  /\ subsciberCh = <<>>
  /\ subsciberCh' = <<c>>
  /\ conn' = [conn EXCEPT ![c] = "select"]
  /\ UNCHANGED <<pipeVars, demandVars, cancelled, got, rx, closed, unsubscribeCh,
                 topics, sending, messagesCh, copies>>

\* The client goes away.
Disconnect(c) ==
  /\ conn[c] \notin {"none", "gone"}
  /\ c \notin cancelled
  /\ cancelled' = cancelled \cup {c}
  /\ UNCHANGED <<pipeVars, brokerVars, demandVars, conn, got, rx, messagesCh, copies>>

\* The three cases of the handler's select.
CtxDone(c) ==
  /\ conn[c] = "select"
  /\ c \in cancelled
  /\ conn' = [conn EXCEPT ![c] = "leaving"]
  /\ UNCHANGED <<pipeVars, brokerVars, demandVars, cancelled, got, rx, messagesCh, copies>>

Receive(c) ==
  /\ conn[c] = "select"
  /\ rx[c] # <<>>
  /\ got' = [got EXCEPT ![c] = Append(@, Head(rx[c]))]
  /\ rx' = [rx EXCEPT ![c] = <<>>]
  /\ UNCHANGED <<pipeVars, brokerVars, demandVars, conn, cancelled, messagesCh, copies>>

Tick(c) ==
  /\ conn[c] = "select"
  /\ conn' = [conn EXCEPT ![c] = "demand"]
  /\ UNCHANGED <<pipeVars, brokerVars, demandVars, cancelled, got, rx, messagesCh, copies>>

\* Mutant of HandleDemand: the channel has no bound.
HandleDemandUnbounded(c) ==
  /\ conn[c] = "demand"
  /\ demandChan' = demandChan + 1
  /\ conn' = [conn EXCEPT ![c] = "select"]
  /\ UNCHANGED <<pipeVars, brokerVars, forwarder, cancelled, got, rx, messagesCh, copies>>

HandleDemand(c) ==
  /\ conn[c] = "demand"
  /\ demandChan = 0
  /\ demandChan' = 1
  /\ conn' = [conn EXCEPT ![c] = "select"]
  /\ UNCHANGED <<pipeVars, brokerVars, forwarder, cancelled, got, rx, messagesCh, copies>>

\* The deferred call; the handler then waits for the broker's answer.
Unsubscribe(c) ==
  /\ conn[c] = "leaving"
  /\ unsubscribeCh = <<>>
  /\ unsubscribeCh' = <<c>>
  /\ conn' = [conn EXCEPT ![c] = "waiting"]
  /\ UNCHANGED <<pipeVars, demandVars, cancelled, got, rx, closed, subsciberCh,
                 topics, sending, messagesCh, copies>>

-----------------------------------------------------------------------------
(* FileUpdateSyncBroker: demands go to the producer.                       *)

TakeForward ==
  /\ forwarder = 0 /\ demandChan = 1
  /\ forwarder' = 1 /\ demandChan' = 0
  /\ UNCHANGED <<pipeVars, handlerVars, brokerVars, rx, messagesCh, copies>>

Forward ==
  /\ forwarder = 1
  /\ forwarder' = 0
  /\ Demand
  /\ UNCHANGED <<handlerVars, brokerVars, demandChan, rx, messagesCh, copies>>

-----------------------------------------------------------------------------
(* SSEConsumer.Execute: two messages for an event.                         *)

\* Mutant of AnotherDevice: the test is the wrong way round.
SameDevice(d) == IF d = "2" THEN "2" ELSE "1"

AnotherDevice(d) == IF d = "2" THEN "1" ELSE "2"

Receivers(m) == <<Origin[m], AnotherDevice(Origin[m])>>

\* SendMessage, or its timeout of nine seconds.
SendMessage(w) ==
  /\ worker[w].at = "run" /\ worker[w].job # <<>> /\ copies < 2
  /\ copies' = copies + 1
  /\ LET m == Head(worker[w].job)
     IN  \/ /\ messagesCh = <<>>
            /\ messagesCh' = <<[event |-> m, device |-> Receivers(m)[copies + 1]]>>
         \/ /\ messagesCh # <<>>
            /\ UNCHANGED messagesCh
  /\ UNCHANGED <<pipeVars, handlerVars, brokerVars, demandVars, rx>>

ExecuteReturns(w) ==
  /\ worker[w].job = <<>> \/ copies = 2
  /\ Processed(w)
  /\ copies' = 0
  /\ UNCHANGED <<handlerVars, brokerVars, demandVars, rx, messagesCh>>

-----------------------------------------------------------------------------
(* SSEBroker.Start: the cases of its select, while it is not sending.      *)

AddTopic ==
  /\ sending = <<>> /\ subsciberCh # <<>>
  /\ topics' = topics \cup {Head(subsciberCh)}
  /\ subsciberCh' = <<>>
  /\ UNCHANGED <<pipeVars, handlerVars, demandVars, rx, closed, unsubscribeCh,
                 sending, messagesCh, copies>>

\* Mutant of RemoveTopic: the topic is not deleted.
RemoveNothing ==
  /\ sending = <<>> /\ unsubscribeCh # <<>>
  /\ LET c == Head(unsubscribeCh)
     IN  /\ conn' = [conn EXCEPT ![c] = IF c \in topics THEN "gone" ELSE @]
         /\ closed' = closed \cup ({c} \cap topics)
  /\ unsubscribeCh' = <<>>
  /\ UNCHANGED <<pipeVars, demandVars, cancelled, got, rx, subsciberCh, topics,
                 sending, messagesCh, copies>>

\* Mutant of RemoveTopic: the handler gets no answer.
RemoveSilently ==
  /\ sending = <<>> /\ unsubscribeCh # <<>>
  /\ topics' = topics \ {Head(unsubscribeCh)}
  /\ closed' = closed \cup ({Head(unsubscribeCh)} \cap topics)
  /\ unsubscribeCh' = <<>>
  /\ UNCHANGED <<pipeVars, handlerVars, demandVars, rx, subsciberCh, sending,
                 messagesCh, copies>>

\* The handler is at the other end of Done as soon as it has unsubscribed, so
\* the answer is given at once.  A channel the broker does not know gets none.
RemoveTopic ==
  /\ sending = <<>> /\ unsubscribeCh # <<>>
  /\ LET c == Head(unsubscribeCh)
     IN  \/ /\ c \in topics
            /\ conn' = [conn EXCEPT ![c] = "gone"]
            /\ topics' = topics \ {c}
            /\ closed' = closed \cup {c}
         \/ /\ c \notin topics
            /\ UNCHANGED <<conn, topics, closed>>
  /\ unsubscribeCh' = <<>>
  /\ UNCHANGED <<pipeVars, demandVars, cancelled, got, rx, subsciberCh, sending,
                 messagesCh, copies>>

\* Mutant of FindTopicByName: any device of the user will do.
FindAnyTopic(device) == topics

\* findTopicByName iterates over a map: any channel of the device.
FindTopicByName(device) == {c \in topics : DeviceOf[c] = device}

TakeMessage ==
  /\ sending = <<>> /\ messagesCh # <<>>
  /\ LET msg == Head(messagesCh)
     IN  \/ /\ FindTopicByName(msg.device) = {}
            /\ UNCHANGED sending
         \/ \E c \in FindTopicByName(msg.device) :
              sending' = <<[to |-> c, event |-> msg.event]>>
  /\ messagesCh' = <<>>
  /\ UNCHANGED <<pipeVars, handlerVars, demandVars, rx, closed, subsciberCh,
                 unsubscribeCh, topics, copies>>

\* Mutant of Deliver: there is no timeout.
DeliverOrBlock ==
  /\ sending # <<>>
  /\ rx[Head(sending).to] = <<>>
  /\ rx' = [rx EXCEPT ![Head(sending).to] = <<Head(sending).event>>]
  /\ sending' = <<>>
  /\ UNCHANGED <<pipeVars, handlerVars, demandVars, closed, subsciberCh,
                 unsubscribeCh, topics, messagesCh, copies>>

\* The inner select: the channel takes the message, or ten seconds pass.
Deliver ==
  /\ sending # <<>>
  /\ LET d == Head(sending)
     IN  \/ /\ rx[d.to] = <<>>
            /\ rx' = [rx EXCEPT ![d.to] = <<d.event>>]
         \/ /\ rx[d.to] # <<>>
            /\ UNCHANGED rx
  /\ sending' = <<>>
  /\ UNCHANGED <<pipeVars, handlerVars, demandVars, closed, subsciberCh,
                 unsubscribeCh, topics, messagesCh, copies>>

-----------------------------------------------------------------------------

Handler(c) ==
  \/ Subscribe(c) \/ Disconnect(c)
  \/ CtxDone(c) \/ Receive(c) \/ Tick(c)
  \/ HandleDemand(c) \/ Unsubscribe(c)

Syncer == TakeForward \/ Forward

\* The steps of Pipeline that neither the forwarder nor the consumer replace.
PipelineStep(A) ==
  A /\ UNCHANGED <<handlerVars, brokerVars, demandVars, rx, messagesCh, copies>>

Consumer(w) == PipelineStep(TakeWork(w)) \/ SendMessage(w) \/ ExecuteReturns(w)

Broker == AddTopic \/ RemoveTopic \/ TakeMessage \/ Deliver

Server ==
  \/ Syncer
  \/ PipelineStep(Produce)
  \/ PipelineStep(Dispatch)
  \/ \E w \in Worker : Consumer(w)
  \/ Broker

Next ==
  \/ \E c \in Conn : Handler(c)
  \/ Server
  \/ PipelineStep(EnqueueMsg)
  \/ PipelineStep(ReadFails)

NotifySpec == Init /\ [][Next]_vars

\* Goroutines that can run do.  A select chooses at random among the cases that
\* are ready, and senders blocked on a channel are served in order, so a case
\* or a sender that is ready again and again is served.
FairNotifySpec ==
  /\ NotifySpec
  /\ WF_vars(Syncer)
  /\ WF_vars(PipelineStep(Produce))
  /\ WF_vars(PipelineStep(Dispatch))
  /\ \A w \in Worker : WF_vars(Consumer(w))
  /\ WF_vars(Broker) /\ SF_vars(RemoveTopic)
  /\ \A c \in Conn : /\ SF_vars(CtxDone(c))
                     /\ SF_vars(HandleDemand(c))
                     /\ SF_vars(Unsubscribe(c))

-----------------------------------------------------------------------------
(* Properties.                                                             *)

\* The broker never sends on a channel it has closed, nor closes one twice,
\* which would end the server: once a handler has its answer, nothing in the
\* server refers to its channel.
ClosedIsForgotten ==
  \A c \in closed :
    /\ conn[c] = "gone"
    /\ c \notin topics
    /\ subsciberCh # <<c>> /\ unsubscribeCh # <<c>>
    /\ sending # <<>> => Head(sending).to # c

\* A connection is shown events in the order of the Redis list and none twice,
\* though any of them may be dropped by a timeout on the way.
InOrder ==
  \A c \in Conn : \A i, j \in 1 .. Len(got[c]) : i < j => got[c][i] < got[c][j]

\* An event is shown on at most one connection of a device, and only to the two
\* devices SSEConsumer addresses, also while connections of the device come
\* and go.
OncePerDevice ==
  \A m \in Message :
    LET shownOn == {c \in Conn : \E i \in 1 .. Len(got[c]) : got[c][i] = m}
    IN  /\ \A c \in shownOn : DeviceOf[c] \in {Origin[m], AnotherDevice(Origin[m])}
        /\ \A c, d \in shownOn : DeviceOf[c] = DeviceOf[d] => c = d

\* The circle of goroutines never closes: while a handler is blocked on a
\* channel, some goroutine of the server can move (the timeouts of SendMessage
\* and of the broker's send).  A handler whose Unsubscribe was dropped waits for
\* good, and is not meant.
NoStandstill ==
  (\E c \in Conn : conn[c] \in {"demand", "leaving"} \/ unsubscribeCh = <<c>>)
    => ENABLED (Server \/ \E c \in Conn : HandleDemand(c) \/ Unsubscribe(c))

\* A handler returns after its client is gone, if the broker knew its channel
\* when it unsubscribed, as long as no error of BLPOP has ended the producer.
HandlerReturns ==
  \A c \in Conn :
    /\ c \in cancelled /\ c \in topics
    /\ conn[c] \in {"select", "demand", "leaving"}
    ~> conn[c] = "gone"
=============================================================================
