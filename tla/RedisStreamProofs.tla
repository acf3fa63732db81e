-------------------------- MODULE RedisStreamProofs -------------------------
(***************************************************************************)
(* Proofs, for any messages and any number of consumers, of the safety     *)
(* properties of RedisStream.                                              *)
(***************************************************************************)
EXTENDS RedisStream, TLAPS

\* An XADD of the message has succeeded, or has been tried.
Sent(m) ==
  \/ m \in Single /\ call[m] = "added"
  \/ \E k \in 1 .. tried : m = Batch[k]

SentAfter(m) ==
  \/ m \in Single /\ call'[m] = "added"
  \/ \E k \in 1 .. tried' : m = Batch[k]

\* The stream holds no message twice, and what is not behind the last entry of
\* the group was not delivered.
StreamSound ==
  /\ \A i, j \in 1 .. Len(stream) : stream[i] = stream[j] => i = j
  /\ \A i \in 1 .. Len(stream) : Sent(stream[i])
  /\ \A m \in delivered : Sent(m)
  /\ \A i \in 1 .. Len(stream) :
       stream[i] \in delivered => group # Nil /\ i <= group

\* A message to be acknowledged is in the hands of one consumer, and was not
\* returned.
ReadersSound ==
  \A c \in Consumer :
    /\ reader[c].at = "ack" => reader[c].msg \in delivered
    /\ reader[c].at # "ack" => reader[c].msg = Nil
    /\ \A i \in 1 .. Len(returned) : returned[i] # reader[c].msg
    /\ \A d \in Consumer : reader[c].at = "ack" /\ reader[d].msg = reader[c].msg => d = c

\* While there is no group, there is no message that relies on it.
GroupFirst ==
  group = Nil =>
    /\ \A m \in Single \ interrupted : call[m] # "add"
    /\ \A i \in 1 .. Len(stream) : stream[i] \notin Single \ interrupted

StreamInv ==
  /\ StreamTypeOK
  /\ StreamSound
  /\ ReadersSound
  /\ GroupFirst
  /\ ReturnedOnce
  /\ NotSkipped

-----------------------------------------------------------------------------

\* The position of the group is a position or Nil, and Nil is no number.
LEMMA GroupType ==
  ASSUME StreamTypeOK
  PROVE  /\ group # Nil => group \in Nat /\ group <= Len(stream)
         /\ Len(stream) \in Nat /\ Len(stream) # Nil
BY StreamAssumption DEF StreamTypeOK

\* Creating the group, where there is none, puts it behind the last entry.
LEMMA CreateGroup ==
  ASSUME StreamInv, XGroupCreate, stream' = stream, delivered' = delivered,
         interrupted' = interrupted
  PROVE  /\ group' \in 0 .. Len(stream) /\ group' # Nil
         /\ group # Nil => group' = group
         /\ NotSkipped'
         /\ \A i \in 1 .. Len(stream) : stream[i] \in delivered => i <= group'
<1> USE DEF StreamInv
<1>1. CASE group = Nil
  <2>1. group' = Len(stream) /\ group' \in Nat /\ group' # Nil
    BY <1>1, GroupType DEF XGroupCreate
  <2>2. NotSkipped'
    BY <1>1, <2>1 DEF NotSkipped, GroupFirst
  <2> QED
    BY <1>1, <2>1, <2>2
<1>2. CASE group # Nil
  <2>1. group' = group /\ group \in Nat /\ group <= Len(stream)
    BY <1>2, GroupType DEF XGroupCreate
  <2>2. NotSkipped'
    BY <1>2, <2>1 DEF NotSkipped
  <2> QED
    BY <1>2, <2>1, <2>2 DEF StreamSound
<1> QED
  BY <1>1, <1>2

\* A message that is added was never there before.
LEMMA AddKeeps ==
  ASSUME StreamInv, NEW m \in Message, XAdd(m), ~Sent(m), SentAfter(m),
         \A x \in Message : Sent(x) => SentAfter(x),
         m \in Single \ interrupted => group # Nil,
         UNCHANGED <<group, delivered, interrupted>>
  PROVE  /\ stream' \in Seq(Message)
         /\ group' \in (0 .. Len(stream')) \cup {Nil}
         /\ StreamSound' /\ NotSkipped'
         /\ group = Nil =>
              \A i \in 1 .. Len(stream') : stream'[i] \notin Single \ interrupted
<1> USE DEF StreamInv
<1>1. /\ stream \in Seq(Message) /\ stream' \in Seq(Message)
      /\ Len(stream) \in Nat /\ Len(stream') = Len(stream) + 1
      /\ \A i \in 1 .. Len(stream) : stream'[i] = stream[i] /\ stream[i] \in Message
      /\ stream'[Len(stream) + 1] = m
  BY DEF XAdd, StreamTypeOK
<1>2. /\ m \notin delivered
      /\ \A i \in 1 .. Len(stream) : stream[i] # m
  BY DEF StreamSound
<1>3. \A i \in 1 .. Len(stream') : i \in 1 .. Len(stream) \/ i = Len(stream) + 1
  BY <1>1
<1>4. group' \in (0 .. Len(stream')) \cup {Nil}
  BY <1>1, GroupType DEF StreamTypeOK
<1>5. /\ \A i, j \in 1 .. Len(stream') : stream'[i] = stream'[j] => i = j
      /\ \A i \in 1 .. Len(stream') : SentAfter(stream'[i])
      /\ \A i \in 1 .. Len(stream') : stream'[i] \in delivered => group # Nil /\ i <= group
  <2>1. \A i, j \in 1 .. Len(stream') : stream'[i] = stream'[j] => i = j
    BY <1>1, <1>2, <1>3 DEF StreamSound
  <2>2. \A i \in 1 .. Len(stream') : SentAfter(stream'[i])
    BY <1>1, <1>3 DEF StreamSound
  <2>3. \A i \in 1 .. Len(stream') : stream'[i] \in delivered => group # Nil /\ i <= group
    BY <1>1, <1>2, <1>3 DEF StreamSound
  <2> QED
    BY <2>1, <2>2, <2>3
<1>6. \A x \in delivered' : SentAfter(x)
  BY DEF StreamSound, StreamTypeOK
<1>7. StreamSound'
  BY <1>5, <1>6 DEF StreamSound, Sent, SentAfter
<1>8. NotSkipped'
  <2> SUFFICES ASSUME group # Nil, NEW i \in 1 .. group, stream'[i] \in Single \ interrupted
               PROVE  stream'[i] \in delivered
    BY DEF NotSkipped
  <2>1. i \in 1 .. Len(stream)
    BY GroupType
  <2> QED
    BY <1>1, <2>1 DEF NotSkipped
<1> QED
  BY <1>1, <1>3, <1>4, <1>7, <1>8 DEF GroupFirst

\* Readers see nothing of a step of a producer.
LEMMA ReadersKeep ==
  ASSUME StreamInv, UNCHANGED <<reader, delivered, returned>>
  PROVE  ReadersSound' /\ ReturnedOnce'
BY DEF StreamInv, ReadersSound, ReturnedOnce

\* The steps of EnqueueMsg and EnqueueMsgs keep the invariant.
LEMMA ProducerStep ==
  ASSUME StreamInv, ProducerNext
  PROVE  StreamInv'
<1> USE DEF StreamInv
<1>1. ASSUME NEW m \in Single, EnqueueMsg(m)
      PROVE  StreamInv'
  <2>1. /\ XGroupCreate /\ call[m] = "group" /\ call' = [call EXCEPT ![m] = "add"]
        /\ UNCHANGED <<stream, pending, tried, reader, delivered, returned, interrupted, flushes>>
    BY <1>1 DEF EnqueueMsg
  <2>2. /\ group' \in 0 .. Len(stream) /\ group' # Nil /\ NotSkipped'
        /\ \A i \in 1 .. Len(stream) : stream[i] \in delivered => i <= group'
    BY <2>1, CreateGroup
  <2>3. StreamTypeOK'
    BY <2>1, <2>2 DEF StreamTypeOK
  <2>4. \A x : Sent(x) => SentAfter(x)
    BY <2>1 DEF Sent, SentAfter, StreamTypeOK
  <2>5. StreamSound'
    BY <2>1, <2>2, <2>4 DEF StreamSound, Sent, SentAfter
  <2>6. GroupFirst'
    BY <2>2 DEF GroupFirst
  <2> QED
    BY <2>1, <2>2, <2>3, <2>5, <2>6, ReadersKeep
<1>2. ASSUME NEW m \in Single, EnqueueMsgAdds(m)
      PROVE  StreamInv'
  <2>1. /\ XAdd(m) /\ call[m] = "add" /\ call' = [call EXCEPT ![m] = "added"]
        /\ UNCHANGED <<group, pending, tried, reader, delivered, returned, interrupted, flushes>>
    BY <1>2 DEF EnqueueMsgAdds
  <2>2. m \in Message /\ m \notin InBatch
    BY StreamAssumption DEF Message
  <2>3. ~Sent(m) /\ SentAfter(m) /\ \A x \in Message : Sent(x) => SentAfter(x)
    <3>1. \A k \in 1 .. tried : m # Batch[k]
      BY <2>2, StreamAssumption DEF InBatch, StreamTypeOK
    <3> QED
      BY <2>1, <3>1 DEF Sent, SentAfter, StreamTypeOK
  <2>4. m \in Single \ interrupted => group # Nil
    BY <2>1 DEF GroupFirst
  <2>5. /\ stream' \in Seq(Message)
        /\ group' \in (0 .. Len(stream')) \cup {Nil}
        /\ StreamSound' /\ NotSkipped'
        /\ group = Nil => \A i \in 1 .. Len(stream') : stream'[i] \notin Single \ interrupted
    BY <2>1, <2>2, <2>3, <2>4, AddKeeps
  <2>6. StreamTypeOK'
    BY <2>1, <2>5 DEF StreamTypeOK
  <2>7. GroupFirst'
    BY <2>1, <2>5 DEF GroupFirst, StreamTypeOK
  <2> QED
    BY <2>1, <2>5, <2>6, <2>7, ReadersKeep
<1>3. ASSUME NEW m \in Single, EnqueueMsgFails(m)
      PROVE  StreamInv'
  <2>1. /\ call[m] \in {"group", "add"} /\ call' = [call EXCEPT ![m] = "failed"]
        /\ UNCHANGED <<stream, group, pending, tried, reader, delivered, returned,
                       interrupted, flushes>>
    BY <1>3 DEF EnqueueMsgFails, redisVars
  <2>2. StreamTypeOK'
    BY <2>1 DEF StreamTypeOK
  <2>3. \A x : Sent(x) => SentAfter(x)
    BY <2>1 DEF Sent, SentAfter, StreamTypeOK
  <2>4. StreamSound' /\ NotSkipped'
    BY <2>1, <2>3 DEF StreamSound, NotSkipped, Sent, SentAfter
  <2>5. GroupFirst'
    BY <2>1 DEF GroupFirst, StreamTypeOK
  <2> QED
    BY <2>1, <2>2, <2>4, <2>5, ReadersKeep
<1>4. CASE EnqueueMsgs
  <2> DEFINE m == Batch[tried + 1]
  <2>1. /\ tried \in Nat /\ tried < Len(Batch) /\ tried' = tried + 1
        /\ XAdd(m) \/ UNCHANGED stream
        /\ UNCHANGED <<group, pending, call, reader, delivered, returned, interrupted, flushes>>
    BY <1>4 DEF EnqueueMsgs, StreamTypeOK
  <2>2. m \in InBatch /\ m \in Message /\ m \notin Single
    <3>1. tried + 1 \in 1 .. Len(Batch)
      BY <2>1, StreamAssumption
    <3> QED
      BY <3>1, StreamAssumption DEF InBatch, Message
  <2>3. tried' \in 0 .. Len(Batch)
    BY <2>1, StreamAssumption
  <2>4. \A x : Sent(x) => SentAfter(x)
    BY <2>1 DEF Sent, SentAfter
  <2>5. ~Sent(m) /\ SentAfter(m)
    <3>1. \A k \in 1 .. tried : Batch[k] # Batch[tried + 1]
      BY <2>1, StreamAssumption
    <3>2. tried + 1 \in 1 .. tried'
      BY <2>1
    <3> QED
      BY <2>2, <3>1, <3>2 DEF Sent, SentAfter
  <2> HIDE DEF m
  <2>6. CASE UNCHANGED stream
    <3>1. StreamSound' /\ NotSkipped' /\ GroupFirst'
      BY <2>1, <2>4, <2>6 DEF StreamSound, NotSkipped, GroupFirst, Sent, SentAfter
    <3>2. StreamTypeOK'
      BY <2>1, <2>3, <2>6 DEF StreamTypeOK
    <3> QED
      BY <2>1, <3>1, <3>2, ReadersKeep
  <2>7. CASE XAdd(m)
    <3>1. /\ stream' \in Seq(Message)
          /\ group' \in (0 .. Len(stream')) \cup {Nil}
          /\ StreamSound' /\ NotSkipped'
          /\ group = Nil => \A i \in 1 .. Len(stream') : stream'[i] \notin Single \ interrupted
      BY <2>1, <2>2, <2>4, <2>5, <2>7, AddKeeps
    <3>2. StreamTypeOK' /\ GroupFirst'
      BY <2>1, <2>3, <3>1 DEF StreamTypeOK, GroupFirst
    <3> QED
      BY <2>1, <3>1, <3>2, ReadersKeep
  <2> QED
    BY <2>1, <2>6, <2>7
<1> QED
  BY <1>1, <1>2, <1>3, <1>4 DEF ProducerNext

\* The steps of a ReadMsg keep the invariant.
LEMMA ReaderStep ==
  ASSUME StreamInv, NEW c \in Consumer, ReadStep(c) \/ ReadMsgFails(c)
  PROVE  StreamInv'
<1> USE DEF StreamInv
<1>1. /\ reader \in [Consumer -> Reading] /\ AtStart \in Reading
      /\ \A d \in Consumer : reader[d] \in Reading
  BY DEF StreamTypeOK, Reading, AtStart
<1>2. UNCHANGED <<call, tried, interrupted, flushes>> /\ stream' = stream
  BY DEF ReadStep, ReadMsg, XReadGroup, XAck, ReadMsgFails, producerVars, redisVars
<1>3. \A x : Sent(x) => SentAfter(x)
  BY <1>2 DEF Sent, SentAfter
<1>4. CASE ReadMsg(c)
  <2>1. /\ XGroupCreate /\ reader[c].at = "group"
        /\ reader' = [reader EXCEPT ![c].at = "read"]
        /\ UNCHANGED <<pending, delivered, returned>>
    BY <1>4 DEF ReadMsg
  <2>2. /\ group' \in 0 .. Len(stream) /\ group' # Nil /\ NotSkipped'
        /\ \A i \in 1 .. Len(stream) : stream[i] \in delivered => i <= group'
    BY <1>2, <2>1, CreateGroup
  <2>3. /\ reader' \in [Consumer -> Reading]
        /\ reader'[c].at = "read" /\ reader'[c].msg = reader[c].msg
        /\ \A d \in Consumer : d # c => reader'[d] = reader[d]
    BY <1>1, <2>1 DEF Reading
  <2>4. StreamTypeOK'
    BY <1>2, <2>1, <2>2, <2>3 DEF StreamTypeOK
  <2>5. StreamSound' /\ GroupFirst'
    BY <1>2, <1>3, <2>1, <2>2 DEF StreamSound, GroupFirst, Sent, SentAfter
  <2>6. ReadersSound' /\ ReturnedOnce'
    BY <2>1, <2>3 DEF ReadersSound, ReturnedOnce
  <2> QED
    BY <2>2, <2>4, <2>5, <2>6
<1>5. CASE XReadGroup(c)
  <2> DEFINE m == stream[group + 1]
  <2>1. /\ reader[c].at = "read" /\ group # Nil /\ group < Len(stream)
        /\ group' = group + 1
        /\ pending' = pending \cup {m} /\ delivered' = delivered \cup {m}
        /\ reader' = [reader EXCEPT ![c] = [at |-> "ack", msg |-> m]]
        /\ returned' = returned
    BY <1>5 DEF XReadGroup
  <2>2. /\ group \in Nat /\ group + 1 \in 1 .. Len(stream) /\ m \in Message
        /\ m \notin delivered /\ Sent(m) /\ m # Nil
    <3>1. group \in Nat /\ group + 1 \in 1 .. Len(stream)
      BY <2>1, GroupType
    <3>2. ~(group + 1 <= group)
      BY <3>1
    <3>3. m \in Message
      BY <3>1 DEF StreamTypeOK
    <3> QED
      BY <3>1, <3>2, <3>3, StreamAssumption DEF StreamSound
  <2>3. \A i \in 1 .. Len(stream) : stream[i] = m => i = group + 1
    BY <2>2 DEF StreamSound
  <2> HIDE DEF m
  <2>4. [at |-> "ack", msg |-> m] \in Reading
    BY <2>2 DEF Reading
  <2>5. /\ reader' \in [Consumer -> Reading]
        /\ reader'[c].at = "ack" /\ reader'[c].msg = m
        /\ \A d \in Consumer : d # c => reader'[d] = reader[d]
    BY <1>1, <2>1, <2>4
  <2>6. returned \in Seq(delivered')
    BY <2>1 DEF StreamTypeOK
  <2>7. StreamTypeOK'
    BY <1>2, <2>1, <2>2, <2>5, <2>6 DEF StreamTypeOK
  <2>8. StreamSound'
    <3>1. \A x \in delivered' : SentAfter(x)
      BY <1>3, <2>1, <2>2 DEF StreamSound
    <3>2. \A i \in 1 .. Len(stream) : stream[i] \in delivered' => group' # Nil /\ i <= group'
      BY <2>1, <2>2, <2>3, StreamAssumption DEF StreamSound
    <3> QED
      BY <1>2, <1>3, <3>1, <3>2 DEF StreamSound, Sent, SentAfter
  <2>9. GroupFirst'
    BY <2>1, <2>2, StreamAssumption DEF GroupFirst
  <2>10. NotSkipped'
    <3> SUFFICES ASSUME NEW i \in 1 .. group', stream[i] \in Single \ interrupted
                 PROVE  stream[i] \in delivered'
      BY <1>2 DEF NotSkipped
    <3>1. i \in 1 .. group \/ i = group + 1
      BY <2>1, <2>2
    <3> QED
      BY <2>1, <3>1 DEF NotSkipped, m
  <2>11. ReturnedOnce'
    BY <2>1 DEF ReturnedOnce
  <2>12. ReadersSound'
    <3>1. \A i \in 1 .. Len(returned) : returned[i] \in delivered
      BY DEF StreamTypeOK
    <3>2. \A d \in Consumer : reader[d].msg # m
      BY <2>2 DEF ReadersSound
    <3> QED
      BY <2>1, <2>2, <2>5, <3>1, <3>2 DEF ReadersSound
  <2> QED
    BY <2>7, <2>8, <2>9, <2>10, <2>11, <2>12
<1>6. CASE XAck(c)
  <2> DEFINE m == reader[c].msg
  <2>1. /\ reader[c].at = "ack" /\ pending' = pending \ {m}
        /\ returned' = Append(returned, m)
        /\ reader' = [reader EXCEPT ![c] = AtStart]
        /\ UNCHANGED <<group, delivered>>
    BY <1>6 DEF XAck
  <2>2. m \in delivered /\ \A i \in 1 .. Len(returned) : returned[i] # m
    BY <2>1 DEF ReadersSound
  <2>3. \A d \in Consumer : d # c => reader[d].msg # m
    BY <2>1 DEF ReadersSound
  <2>4. m # Nil
    BY <2>2, StreamAssumption DEF StreamTypeOK
  <2> HIDE DEF m
  <2>5. /\ reader' \in [Consumer -> Reading]
        /\ reader'[c].at # "ack" /\ reader'[c].msg = Nil
        /\ \A d \in Consumer : d # c => reader'[d] = reader[d]
    BY <1>1, <2>1 DEF AtStart
  <2>6. /\ returned \in Seq(delivered) /\ returned' \in Seq(delivered)
        /\ Len(returned) \in Nat /\ Len(returned') = Len(returned) + 1
        /\ \A i \in 1 .. Len(returned) : returned'[i] = returned[i]
        /\ returned'[Len(returned) + 1] = m
    BY <2>1, <2>2 DEF StreamTypeOK
  <2>7. StreamTypeOK'
    BY <1>2, <2>1, <2>5, <2>6 DEF StreamTypeOK
  <2>8. StreamSound' /\ GroupFirst' /\ NotSkipped'
    BY <1>2, <1>3, <2>1 DEF StreamSound, GroupFirst, NotSkipped, Sent, SentAfter
  <2>9. \A i \in 1 .. Len(returned') : i \in 1 .. Len(returned) \/ i = Len(returned) + 1
    BY <2>6
  <2>10. ReturnedOnce'
    BY <2>2, <2>6, <2>9 DEF ReturnedOnce
  <2>11. ReadersSound'
    <3>1. \A i \in 1 .. Len(returned') : returned'[i] \in delivered
      BY <2>2, <2>6, <2>9
    <3>2. Nil \notin delivered
      BY StreamAssumption DEF StreamTypeOK
    <3>3. \A d \in Consumer, i \in 1 .. Len(returned') : returned'[i] # reader'[d].msg
      BY <2>3, <2>5, <2>6, <2>9, <3>1, <3>2 DEF ReadersSound
    <3> QED
      BY <2>1, <2>5, <3>2, <3>3 DEF ReadersSound
  <2> QED
    BY <2>7, <2>8, <2>10, <2>11
<1>7. CASE ReadMsgFails(c)
  <2>1. /\ reader' = [reader EXCEPT ![c] = AtStart]
        /\ UNCHANGED <<group, pending, delivered, returned>>
    BY <1>7 DEF ReadMsgFails, redisVars
  <2>2. /\ reader' \in [Consumer -> Reading]
        /\ reader'[c].at # "ack" /\ reader'[c].msg = Nil
        /\ \A d \in Consumer : d # c => reader'[d] = reader[d]
    BY <1>1, <2>1 DEF AtStart
  <2>3. StreamTypeOK'
    BY <1>2, <2>1, <2>2 DEF StreamTypeOK
  <2>4. StreamSound' /\ GroupFirst' /\ NotSkipped'
    BY <1>2, <1>3, <2>1 DEF StreamSound, GroupFirst, NotSkipped, Sent, SentAfter
  <2>5. Nil \notin delivered /\ \A i \in 1 .. Len(returned) : returned[i] \in delivered
    BY StreamAssumption DEF StreamTypeOK
  <2>6. ReturnedOnce'
    BY <2>1 DEF ReturnedOnce
  <2>7. \A i \in 1 .. Len(returned) : returned[i] # Nil
    BY <2>5
  <2>8. ASSUME NEW e \in Consumer
        PROVE  /\ reader'[e].at = "ack" => reader'[e].msg \in delivered
               /\ reader'[e].at # "ack" => reader'[e].msg = Nil
               /\ \A i \in 1 .. Len(returned) : returned[i] # reader'[e].msg
    BY <2>2, <2>7 DEF ReadersSound
  <2>9. ASSUME NEW e \in Consumer, NEW d \in Consumer,
               reader'[e].at = "ack", reader'[d].msg = reader'[e].msg
        PROVE  d = e
    BY <2>2, <2>5, <2>9 DEF ReadersSound
  <2>10. ReadersSound'
    BY <2>1, <2>8, <2>9 DEF ReadersSound
  <2> QED
    BY <2>3, <2>4, <2>6, <2>10
<1> QED
  BY <1>4, <1>5, <1>6, <1>7 DEF ReadStep

\* Flush keeps the invariant: nothing is left that relies on the group.
LEMMA FlushStep ==
  ASSUME StreamInv, Flush
  PROVE  StreamInv'
<1> USE DEF StreamInv
<1>1. /\ stream' = <<>> /\ group' = Nil /\ pending' = {}
      /\ interrupted' = interrupted \cup {m \in Single : call[m] = "add"}
      /\ UNCHANGED <<call, tried, reader, delivered, returned>>
  BY DEF Flush
<1>2. flushes' \in 0 .. MaxFlush
  BY StreamAssumption DEF Flush, StreamTypeOK
<1>3. StreamTypeOK'
  BY <1>1, <1>2 DEF StreamTypeOK
<1>4. StreamSound' /\ NotSkipped'
  BY <1>1 DEF StreamSound, NotSkipped, Sent
<1>5. GroupFirst'
  BY <1>1 DEF GroupFirst
<1> QED
  BY <1>1, <1>3, <1>4, <1>5, ReadersKeep

\* The invariant holds on the empty database, and every step keeps it.
LEMMA StreamInductive ==
  /\ StreamInit => StreamInv
  /\ StreamInv /\ [StreamNext]_vars => StreamInv'
<1>1. ASSUME StreamInit PROVE StreamInv
  <2>1. StreamTypeOK
    BY <1>1, StreamAssumption DEF StreamInit, StreamTypeOK, Reading, AtStart
  <2>2. StreamSound /\ GroupFirst /\ ReturnedOnce /\ NotSkipped
    BY <1>1 DEF StreamInit, StreamSound, GroupFirst, ReturnedOnce, NotSkipped
  <2>3. ReadersSound
    BY <1>1 DEF StreamInit, ReadersSound, AtStart
  <2> QED
    BY <2>1, <2>2, <2>3 DEF StreamInv
<1>2. ASSUME StreamInv, UNCHANGED vars PROVE StreamInv'
  BY <1>2 DEF vars, StreamInv, StreamTypeOK, StreamSound, ReadersSound, GroupFirst,
              ReturnedOnce, NotSkipped, Sent
<1> QED
  BY <1>1, <1>2, ProducerStep, ReaderStep, FlushStep DEF StreamNext

\* The invariant holds in every reachable state.
THEOREM StreamInvariance == StreamSpec => []StreamInv
BY StreamInductive, PTL DEF StreamSpec

\* The stream, its group, and what its producers and consumers hold keep their
\* types.
THEOREM StreamTypeCorrect == StreamSpec => []StreamTypeOK
<1>1. StreamInv => StreamTypeOK
  BY DEF StreamInv
<1> QED
  BY <1>1, StreamInvariance, PTL

\* Whatever consumers, failures and flushes do, ReadMsg returns a message at most
\* once.
THEOREM AtMostOnce == StreamSpec => []ReturnedOnce
<1>1. StreamInv => ReturnedOnce
  BY DEF StreamInv
<1> QED
  BY <1>1, StreamInvariance, PTL

\* The consumer group passes over no message of an undisturbed EnqueueMsg.
THEOREM NothingSkipped == StreamSpec => []NotSkipped
<1>1. StreamInv => NotSkipped
  BY DEF StreamInv
<1> QED
  BY <1>1, StreamInvariance, PTL

\* A message delivered to a consumer that did not return it is returned by no
\* later ReadMsg.
THEOREM NoSecondChance == StreamSpec => LostForGood
<1> DEFINE Kept == \A m \in Message : Lost(m) => Lost(m)'
<1>1. StreamInv /\ [StreamNext]_vars => Kept
  <2> SUFFICES ASSUME StreamInv, [StreamNext]_vars, NEW m \in Message, Lost(m)
               PROVE  Lost(m)'
    OBVIOUS
  <2> USE DEF Lost
  <2>1. StreamTypeOK /\ m # Nil
    BY StreamAssumption DEF StreamInv
  <2>2. CASE UNCHANGED <<reader, delivered, returned>>
    BY <2>2
  <2>3. ASSUME NEW c \in Consumer, ReadMsg(c) PROVE Lost(m)'
    <3>1. \A d \in Consumer : reader'[d].msg = reader[d].msg
      BY <2>1, <2>3 DEF ReadMsg, StreamTypeOK, Reading
    <3> QED
      BY <2>3, <3>1 DEF ReadMsg
  <2>4. ASSUME NEW c \in Consumer, XReadGroup(c) PROVE Lost(m)'
    <3>1. stream[group + 1] \notin delivered
      <4>1. group \in Nat /\ group + 1 \in 1 .. Len(stream) /\ ~(group + 1 <= group)
        BY <2>1, <2>4, GroupType DEF XReadGroup
      <4> QED
        BY <4>1 DEF StreamInv, StreamSound
    <3>2. /\ returned' = returned /\ m \in delivered'
          /\ reader' = [reader EXCEPT ![c] = [at |-> "ack", msg |-> stream[group + 1]]]
      BY <2>4 DEF XReadGroup
    <3>3. \A d \in Consumer : reader'[d].msg # m
      BY <2>1, <3>1, <3>2 DEF StreamTypeOK
    <3> QED
      BY <3>2, <3>3
  <2>5. ASSUME NEW c \in Consumer, XAck(c) \/ ReadMsgFails(c) PROVE Lost(m)'
    <3>1. /\ returned' \in {returned, Append(returned, reader[c].msg)}
          /\ delivered' = delivered
          /\ reader' = [reader EXCEPT ![c] = AtStart]
      BY <2>5 DEF XAck, ReadMsgFails
    <3>2. \A d \in Consumer : reader'[d].msg # m
      BY <2>1, <3>1 DEF AtStart, StreamTypeOK
    <3>3. \A i \in 1 .. Len(returned') : returned'[i] # m
      <4>1. CASE returned' = returned
        BY <4>1
      <4>2. CASE returned' = Append(returned, reader[c].msg)
        <5>1. reader[c].msg # m /\ returned \in Seq(delivered)
          BY <2>1 DEF StreamTypeOK
        <5>2. /\ Len(returned) \in Nat /\ Len(returned') = Len(returned) + 1
              /\ \A i \in 1 .. Len(returned) : returned'[i] = returned[i]
              /\ returned'[Len(returned) + 1] = reader[c].msg
          BY <4>2, <5>1
        <5>3. \A i \in 1 .. Len(returned') : i \in 1 .. Len(returned) \/ i = Len(returned) + 1
          BY <5>2
        <5> QED
          BY <5>1, <5>2, <5>3
      <4> QED
        BY <3>1, <4>1, <4>2
    <3> QED
      BY <3>1, <3>2, <3>3
  <2>6. ASSUME ProducerNext \/ Flush PROVE UNCHANGED <<reader, delivered, returned>>
    BY <2>6 DEF ProducerNext, EnqueueMsg, EnqueueMsgAdds, EnqueueMsgFails, EnqueueMsgs, Flush
  <2> QED
    BY <2>2, <2>3, <2>4, <2>5, <2>6 DEF StreamNext, ReadStep, vars
<1>2. StreamInv /\ [StreamNext]_vars => [Kept]_vars
  BY <1>1
<1> QED
  BY <1>2, StreamInvariance, PTL DEF StreamSpec, LostForGood
=============================================================================
