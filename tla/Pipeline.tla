------------------------------ MODULE Pipeline ------------------------------
(***************************************************************************)
(* The demand-driven pipeline that takes messages from a Redis list to a   *)
(* processor function: Demand, Produce, Dispatch and a worker pool.  The   *)
(* worker process runs one for the end-of-upload messages                  *)
(* (MetadataSupervisor), the API server one for the notifications          *)
(* (FileUpdateSyncBroker).                                                 *)
(*                                                                         *)
(* Every goroutine is a sequential process.  A channel of capacity n is a  *)
(* sequence of length at most n, and a goroutine blocked on a channel has  *)
(* no enabled step.  Messages are numbered in the order they are pushed.   *)
(* The contexts of both callers are context.Background(), never done, so   *)
(* the branches on ctx.Done() are not part of the model.                   *)
(***************************************************************************)
EXTENDS Integers, Sequences, FiniteSets

CONSTANTS
  Worker,     \* workers of the pool
  ReadErrors, \* whether BLPOP may return an error
  MaxSent     \* bound: messages pushed

ASSUME PipelineAssumption ==
  /\ IsFiniteSet(Worker)
  /\ Worker # {}
  /\ ReadErrors \in BOOLEAN
  /\ MaxSent \in Nat

VARIABLES
  sent,       \* number of messages pushed so far
  queue,      \* the Redis list
  demand,     \* channel of demands, capacity 1
  producer,   \* the goroutine of Produce, and the payloads it has read
  results,    \* its result channel, capacity 1
  dispatcher, \* the goroutine of Dispatch, its job and the bench it got
  pool,       \* channel of benches, capacity the number of workers
  bench,      \* per worker: its job channel, capacity 1
  worker,     \* per worker: its goroutine, and the job it runs
  processed   \* messages the processor function was given, in order

poolVars == <<dispatcher, pool, bench, worker>>
pipeVars == <<sent, queue, demand, producer, results, dispatcher, pool, bench,
              worker, processed>>

Message == 1 .. MaxSent

\* What one demand brings: one payload, or none when the list is empty.  A
\* receive from the closed result channel yields a job without payloads too.
Job == {<<>>} \cup {<<m>> : m \in Message}

PipeTypeOK ==
  /\ sent \in 0 .. MaxSent
  /\ queue \in Seq(Message)
  /\ demand \in {0, 1}
  /\ producer \in [at : {"demand", "read", "send", "dead"}, job : Job]
  /\ results \in {<<>>} \cup {<<j>> : j \in Job}
  /\ dispatcher \in [at : {"receive", "pool", "bench"}, job : Job, to : Worker]
  /\ pool \in Seq(Worker)
  /\ bench \in [Worker -> {<<>>} \cup {<<j>> : j \in Job}]
  /\ worker \in [Worker -> [at : {"return", "wait", "run"}, job : Job]]
  /\ processed \in Seq(Message)

\* The field "to" of an idle dispatcher means nothing.
PipeInit ==
  /\ sent = 0
  /\ queue = <<>>
  /\ demand = 0
  /\ producer = [at |-> "demand", job |-> <<>>]
  /\ results = <<>>
  /\ dispatcher = [at |-> "receive", job |-> <<>>, to |-> CHOOSE w \in Worker : TRUE]
  /\ pool = <<>>
  /\ bench = [w \in Worker |-> <<>>]
  /\ worker = [w \in Worker |-> [at |-> "return", job |-> <<>>]]
  /\ processed = <<>>

\* RPUSH by another process.
EnqueueMsg ==
  /\ sent < MaxSent
  /\ sent' = sent + 1
  /\ queue' = Append(queue, sent + 1)
  /\ UNCHANGED <<demand, producer, results, poolVars, processed>>

\* The ticker goroutine puts a demand for one message in the channel.
Demand ==
  /\ demand = 0
  /\ demand' = 1
  /\ UNCHANGED <<sent, queue, producer, results, poolVars, processed>>

-----------------------------------------------------------------------------
(* The producer.                                                           *)

TakeDemand ==
  /\ producer.at = "demand"
  /\ demand = 1
  /\ demand' = 0
  /\ producer' = [at |-> "read", job |-> <<>>]
  /\ UNCHANGED <<sent, queue, results, poolVars, processed>>

\* Mutant of ReadMsg: everything on the list is read at once.
ReadAll ==
  /\ producer.at = "read"
  /\ producer' = [at |-> "send", job |-> queue]
  /\ queue' = <<>>
  /\ UNCHANGED <<sent, demand, results, poolVars, processed>>

\* BLPOP: the head of the list, or nothing if it stays empty until the timeout.
ReadMsg ==
  /\ producer.at = "read"
  /\ \/ /\ queue # <<>>
        /\ producer' = [at |-> "send", job |-> <<Head(queue)>>]
        /\ queue' = Tail(queue)
     \/ /\ queue = <<>>
        /\ producer' = [at |-> "send", job |-> <<>>]
        /\ queue' = queue
  /\ UNCHANGED <<sent, demand, results, poolVars, processed>>

\* BLPOP fails: the goroutine returns and closes the result channel.  Redis may
\* have popped the head of the list before the reply was lost: that message stays
\* with the ended goroutine, and nobody will process it.
ReadFails ==
  /\ ReadErrors
  /\ producer.at = "read"
  /\ \/ /\ producer' = [at |-> "dead", job |-> <<>>]
        /\ queue' = queue
     \/ /\ queue # <<>>
        /\ producer' = [at |-> "dead", job |-> <<Head(queue)>>]
        /\ queue' = Tail(queue)
  /\ UNCHANGED <<sent, demand, results, poolVars, processed>>

\* Mutant of SendResults: a full channel is skipped.
SendOrDrop ==
  /\ producer.at = "send"
  /\ results' = IF results = <<>> THEN <<producer.job>> ELSE results
  /\ producer' = [at |-> "demand", job |-> <<>>]
  /\ UNCHANGED <<sent, queue, demand, poolVars, processed>>

\* Mutant of SendResults: the channel has no bound.
SendUnbounded ==
  /\ producer.at = "send"
  /\ results' = Append(results, producer.job)
  /\ producer' = [at |-> "demand", job |-> <<>>]
  /\ UNCHANGED <<sent, queue, demand, poolVars, processed>>

SendResults ==
  /\ producer.at = "send"
  /\ results = <<>>
  /\ results' = <<producer.job>>
  /\ producer' = [at |-> "demand", job |-> <<>>]
  /\ UNCHANGED <<sent, queue, demand, poolVars, processed>>

Produce == TakeDemand \/ ReadMsg \/ SendResults

-----------------------------------------------------------------------------
(* The dispatcher.                                                         *)

\* Receiving from the closed and drained channel does not block: the job is nil.
ReceiveJob ==
  /\ dispatcher.at = "receive"
  /\ \/ /\ results # <<>>
        /\ dispatcher' = [at |-> "pool", job |-> Head(results), to |-> dispatcher.to]
        /\ results' = <<>>
     \/ /\ results = <<>> /\ producer.at = "dead"
        /\ dispatcher' = [at |-> "pool", job |-> <<>>, to |-> dispatcher.to]
        /\ results' = results
  /\ UNCHANGED <<sent, queue, demand, producer, pool, bench, worker, processed>>

TakeBench ==
  /\ dispatcher.at = "pool"
  /\ pool # <<>>
  /\ dispatcher' = [at |-> "bench", job |-> dispatcher.job, to |-> Head(pool)]
  /\ pool' = Tail(pool)
  /\ UNCHANGED <<sent, queue, demand, producer, results, bench, worker, processed>>

HandOver ==
  /\ dispatcher.at = "bench"
  /\ bench[dispatcher.to] = <<>>
  /\ bench' = [bench EXCEPT ![dispatcher.to] = <<dispatcher.job>>]
  /\ dispatcher' = [at |-> "receive", job |-> <<>>, to |-> dispatcher.to]
  /\ UNCHANGED <<sent, queue, demand, producer, results, pool, worker, processed>>

Dispatch == ReceiveJob \/ TakeBench \/ HandOver

-----------------------------------------------------------------------------
(* A worker of the pool.                                                   *)

ReturnBench(w) ==
  /\ worker[w].at = "return"
  /\ Len(pool) < Cardinality(Worker)
  /\ pool' = Append(pool, w)
  /\ worker' = [worker EXCEPT ![w] = [at |-> "wait", job |-> <<>>]]
  /\ UNCHANGED <<sent, queue, demand, producer, results, dispatcher, bench, processed>>

\* Mutant of TakeJob: the bench is put back before the job is run.
TakeJobAndReturn(w) ==
  /\ worker[w].at = "wait"
  /\ bench[w] # <<>>
  /\ pool' = Append(pool, w)
  /\ worker' = [worker EXCEPT ![w] = [at |-> "run", job |-> Head(bench[w])]]
  /\ bench' = [bench EXCEPT ![w] = <<>>]
  /\ UNCHANGED <<sent, queue, demand, producer, results, dispatcher, processed>>

TakeJob(w) ==
  /\ worker[w].at = "wait"
  /\ bench[w] # <<>>
  /\ worker' = [worker EXCEPT ![w] = [at |-> "run", job |-> Head(bench[w])]]
  /\ bench' = [bench EXCEPT ![w] = <<>>]
  /\ UNCHANGED <<sent, queue, demand, producer, results, dispatcher, pool, processed>>

\* Mutant of Processed: the bench is not put back.
ProcessedAndWait(w) ==
  /\ worker[w].at = "run"
  /\ worker' = [worker EXCEPT ![w] = [at |-> "wait", job |-> <<>>]]
  /\ processed' = processed \o worker[w].job
  /\ UNCHANGED <<sent, queue, demand, producer, results, dispatcher, pool, bench>>

\* The processor function returns.  Its result is not captured.
Processed(w) ==
  /\ worker[w].at = "run"
  /\ worker' = [worker EXCEPT ![w] = [at |-> "return", job |-> <<>>]]
  /\ processed' = processed \o worker[w].job
  /\ UNCHANGED <<sent, queue, demand, producer, results, dispatcher, pool, bench>>

TakeWork(w) == ReturnBench(w) \/ TakeJob(w)

-----------------------------------------------------------------------------

PipeNext ==
  \/ EnqueueMsg
  \/ Demand
  \/ Produce
  \/ ReadFails
  \/ Dispatch
  \/ \E w \in Worker : TakeWork(w) \/ Processed(w)

PipeSpec == PipeInit /\ [][PipeNext]_pipeVars

\* The ticker ticks, goroutines that can run do, and processor calls return.
FairPipeSpec ==
  /\ PipeSpec
  /\ WF_pipeVars(Demand)
  /\ WF_pipeVars(Produce)
  /\ WF_pipeVars(Dispatch)
  /\ \A w \in Worker : WF_pipeVars(TakeWork(w)) /\ WF_pipeVars(Processed(w))

-----------------------------------------------------------------------------
(* Properties.                                                             *)

\* A channel's payloads, flattened.
Payloads(jobs) == IF jobs = <<>> THEN <<>> ELSE Head(jobs)

\* With a single worker, which is what both callers use: messages popped and
\* not yet processed, oldest first.  The last may be the one BLPOP popped for a
\* producer that its error has ended.
InFlight ==
  LET w == CHOOSE w \in Worker : TRUE
  IN  worker[w].job \o Payloads(bench[w]) \o dispatcher.job \o Payloads(results)
        \o producer.job

\* A pool of one processes every message once and in the order pushed: what is
\* processed, in flight and queued is exactly what was sent (Produce, Dispatch
\* and Worker.Start pass a job on before they take another).  An error of BLPOP
\* can cost one message, the one it popped, and that is the newest in flight.
NothingLostOrReordered ==
  processed \o InFlight \o queue = [n \in 1 .. sent |-> n]

\* A crash of the process loses at most four messages: one per goroutine that
\* can hold one, and one in the result channel.
FewInFlight == Len(InFlight) <= 4

\* A process with a pool of one takes its messages from the list as WorkQueue
\* says, four at a time at most: a job moves from one goroutine to the next, and
\* the worker takes the oldest when it is done with the one before.
Popped ==
  LET w == CHOOSE w \in Worker : TRUE
  IN  Payloads(bench[w]) \o dispatcher.job \o Payloads(results) \o producer.job

Work == INSTANCE WorkQueue
          WITH Capacity <- 4, list <- queue, held <- Popped,
               running <- worker[CHOOSE w \in Worker : TRUE].job

WorkSpec == Work!Spec

\* The channel operations inside the pool never block: when the dispatcher has
\* taken a bench out of the pool its channel is empty ("after each iteration,
\* the buffered Q becomes empty"), and a worker putting its bench back finds
\* room.
PoolNeverBlocks ==
  /\ dispatcher.at = "bench" => bench[dispatcher.to] = <<>>
  /\ \A w \in Worker : worker[w].at = "return" => Len(pool) < Cardinality(Worker)

IsProcessed(n) == \E i \in 1 .. Len(processed) : processed[i] = n

\* A message that was pushed is processed in the end, unless an error of BLPOP
\* has ended the producer (every goroutine comes back to its receive; the log
\* line of Produce says "ignoring" of such an error, and then it returns).
SentUnlessDead ==
  \A n \in Message : (sent >= n) ~> (IsProcessed(n) \/ producer.at = "dead")
=============================================================================
