----------------------------- MODULE RedisStream ----------------------------
(***************************************************************************)
(* The queue on a Redis stream, one partition of it: producers that send   *)
(* single messages (EnqueueMsg) or a batch (EnqueueMsgs), consumers of one *)
(* consumer group (ReadMsg), and Flush.  Each Redis command is a step; a   *)
(* method is a sequence of them, and can stop between any two.             *)
(***************************************************************************)
EXTENDS Naturals, Sequences

CONSTANTS
  Single,    \* messages sent with EnqueueMsg
  Batch,     \* the messages of a call of EnqueueMsgs, in order
  Consumer,  \* callers of ReadMsg
  Nil,       \* no group, no message
  MaxFlush   \* bound: calls of Flush

VARIABLES
  stream,      \* entries, in the order of their ids
  group,       \* last entry delivered to the group, Nil if there is no group
  pending,     \* messages delivered and not acknowledged
  call,        \* per single message: where its EnqueueMsg is
  tried,       \* messages of the batch that EnqueueMsgs has tried to add
  reader,      \* per consumer: the next command of its ReadMsg, and its message
  delivered,   \* messages XREADGROUP has returned
  returned,    \* messages ReadMsg has returned, in order
  interrupted, \* single messages with a Flush between their two commands
  flushes      \* calls of Flush

vars == <<stream, group, pending, call, tried, reader, delivered, returned,
          interrupted, flushes>>
redisVars == <<stream, group, pending>>
producerVars == <<call, tried, interrupted, flushes>>

InBatch == {Batch[i] : i \in 1 .. Len(Batch)}
Message == Single \cup InBatch

ASSUME StreamAssumption ==
  /\ Batch \in Seq(InBatch)
  /\ \A i, j \in 1 .. Len(Batch) : Batch[i] = Batch[j] => i = j
  /\ Single \cap InBatch = {}
  /\ Nil \notin Message /\ Nil \notin Nat
  /\ MaxFlush \in Nat

Reading == [at : {"group", "read", "ack"}, msg : Message \cup {Nil}]
AtStart == [at |-> "group", msg |-> Nil]

StreamTypeOK ==
  /\ stream \in Seq(Message)
  /\ group \in (0 .. Len(stream)) \cup {Nil}
  /\ pending \subseteq delivered
  /\ call \in [Single -> {"group", "add", "added", "failed"}]
  /\ tried \in 0 .. Len(Batch)
  /\ reader \in [Consumer -> Reading]
  /\ delivered \subseteq Message
  /\ returned \in Seq(delivered)
  /\ interrupted \subseteq Single
  /\ flushes \in 0 .. MaxFlush

StreamInit ==
  /\ stream = <<>>
  /\ group = Nil
  /\ pending = {}
  /\ call = [m \in Single |-> "group"]
  /\ tried = 0
  /\ reader = [c \in Consumer |-> AtStart]
  /\ delivered = {}
  /\ returned = <<>>
  /\ interrupted = {}
  /\ flushes = 0

-----------------------------------------------------------------------------
(* Redis.                                                                  *)

\* Mutant of XGroupCreate: BUSYGROUP is an error like any other.
XGroupCreateOnce == group = Nil /\ group' = Len(stream)

\* XGROUP CREATE ... $ MKSTREAM: a new group starts behind the last entry.  The
\* BUSYGROUP error of a group that exists is ignored.
XGroupCreate == group' = IF group = Nil THEN Len(stream) ELSE group

XAdd(m) == stream' = Append(stream, m)

-----------------------------------------------------------------------------
(* Producers.                                                              *)

\* Mutant of EnqueueMsg: as in EnqueueMsgs, no group is created.
EnqueueBare(m) ==
  /\ call[m] = "group"
  /\ call' = [call EXCEPT ![m] = "add"]
  /\ UNCHANGED <<redisVars, tried, reader, delivered, returned, interrupted, flushes>>

EnqueueMsg(m) ==
  /\ call[m] = "group"
  /\ XGroupCreate
  /\ call' = [call EXCEPT ![m] = "add"]
  /\ UNCHANGED <<stream, pending, tried, reader, delivered, returned, interrupted,
                 flushes>>

EnqueueMsgAdds(m) ==
  /\ call[m] = "add"
  /\ XAdd(m)
  /\ call' = [call EXCEPT ![m] = "added"]
  /\ UNCHANGED <<group, pending, tried, reader, delivered, returned, interrupted,
                 flushes>>

\* A command of EnqueueMsg fails, and it returns the error.
EnqueueMsgFails(m) ==
  /\ call[m] \in {"group", "add"}
  /\ call' = [call EXCEPT ![m] = "failed"]
  /\ UNCHANGED <<redisVars, tried, reader, delivered, returned, interrupted, flushes>>

\* EnqueueMsgs goes on behind a message it could not add, which it reports in a
\* PartialError.  It creates no group.
EnqueueMsgs ==
  /\ tried < Len(Batch)
  /\ tried' = tried + 1
  /\ XAdd(Batch[tried + 1]) \/ UNCHANGED stream
  /\ UNCHANGED <<group, pending, call, reader, delivered, returned, interrupted,
                 flushes>>

-----------------------------------------------------------------------------
(* Consumers.                                                              *)

ReadMsg(c) ==
  /\ reader[c].at = "group"
  /\ XGroupCreate
  /\ reader' = [reader EXCEPT ![c].at = "read"]
  /\ UNCHANGED <<stream, pending, delivered, returned, producerVars>>

\* Mutant of XReadGroup: what the group has read is not recorded.
XReadForAll(c) ==
  /\ reader[c].at = "read"
  /\ group # Nil /\ group < Len(stream)
  /\ LET m == stream[group + 1]
     IN  /\ pending' = pending \cup {m}
         /\ delivered' = delivered \cup {m}
         /\ reader' = [reader EXCEPT ![c] = [at |-> "ack", msg |-> m]]
  /\ UNCHANGED <<stream, group, returned, producerVars>>

\* XREADGROUP with ">" and COUNT 1: an entry never delivered to the group.
XReadGroup(c) ==
  /\ reader[c].at = "read"
  /\ group # Nil /\ group < Len(stream)
  /\ LET m == stream[group + 1]
     IN  /\ group' = group + 1
         /\ pending' = pending \cup {m}
         /\ delivered' = delivered \cup {m}
         /\ reader' = [reader EXCEPT ![c] = [at |-> "ack", msg |-> m]]
  /\ UNCHANGED <<stream, returned, producerVars>>

\* XACK, which is no error if the group has gone, and then ReadMsg returns.
XAck(c) ==
  /\ reader[c].at = "ack"
  /\ pending' = pending \ {reader[c].msg}
  /\ returned' = Append(returned, reader[c].msg)
  /\ reader' = [reader EXCEPT ![c] = AtStart]
  /\ UNCHANGED <<stream, group, delivered, producerVars>>

\* ReadMsg returns without a message: nothing came before the timeout, or a
\* command failed; or the process stops.  A message it was to acknowledge stays
\* pending.
ReadMsgFails(c) ==
  /\ reader[c].at # "group"
  /\ reader' = [reader EXCEPT ![c] = AtStart]
  /\ UNCHANGED <<redisVars, delivered, returned, producerVars>>

-----------------------------------------------------------------------------

\* Mutant of Flush: the entries are trimmed away, and the group stays.
FlushTrims ==
  /\ flushes < MaxFlush
  /\ flushes' = flushes + 1
  /\ stream' = <<>>
  /\ pending' = {}
  /\ interrupted' = interrupted \cup {m \in Single : call[m] = "add"}
  /\ UNCHANGED <<group, call, tried, reader, delivered, returned>>

\* FLUSHDB: the stream goes, and its group with it.
Flush ==
  /\ flushes < MaxFlush
  /\ flushes' = flushes + 1
  /\ stream' = <<>>
  /\ group' = Nil
  /\ pending' = {}
  /\ interrupted' = interrupted \cup {m \in Single : call[m] = "add"}
  /\ UNCHANGED <<call, tried, reader, delivered, returned>>

ProducerNext ==
  \/ \E m \in Single : EnqueueMsg(m) \/ EnqueueMsgAdds(m) \/ EnqueueMsgFails(m)
  \/ EnqueueMsgs

ReadStep(c) == ReadMsg(c) \/ XReadGroup(c) \/ XAck(c)

StreamNext ==
  \/ ProducerNext
  \/ \E c \in Consumer : ReadStep(c) \/ ReadMsgFails(c)
  \/ Flush

StreamSpec == StreamInit /\ [][StreamNext]_vars

\* Some consumer calls ReadMsg again and again, every call returns, and when there
\* are messages not every call fails before it has read one.
FairStreamSpec ==
  /\ StreamSpec
  /\ \E c \in Consumer : /\ WF_vars(ReadMsg(c))
                         /\ SF_vars(XReadGroup(c))
                         /\ WF_vars(XAck(c) \/ ReadMsgFails(c))

-----------------------------------------------------------------------------
(* Properties.                                                             *)

\* No message is returned twice, to the same or to different consumers, whatever
\* fails (XACK comes before the return, and what is pending is not read again).
ReturnedOnce ==
  \A i, j \in 1 .. Len(returned) : returned[i] = returned[j] => i = j

\* The group has not passed over a message sent with EnqueueMsg: what lies before
\* its last entry was delivered (the group is created before the entry is added,
\* by every call).  It does pass over messages of EnqueueMsgs, which creates no
\* group, and of an EnqueueMsg that a Flush came in between of.
NotSkipped ==
  group # Nil =>
    \A i \in 1 .. group :
      stream[i] \in Single \ interrupted => stream[i] \in delivered

\* A message that a consumer was given and did not return.
Lost(m) ==
  /\ m \in delivered
  /\ \A i \in 1 .. Len(returned) : returned[i] # m
  /\ \A c \in Consumer : reader[c].msg # m

\* Such a message is never returned: it stays pending, and ReadMsg asks for new
\* entries only.
LostForGood == [][\A m \in Message : Lost(m) => Lost(m)']_vars

\* A message added by an EnqueueMsg that no Flush came in between of is delivered
\* to a consumer in the end, or flushed.
AddedIsDelivered ==
  \A m \in Single :
    call[m] = "added" /\ m \notin interrupted ~>
      m \in delivered \/ \A i \in 1 .. Len(stream) : stream[i] # m
=============================================================================
