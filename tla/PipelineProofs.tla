--------------------------- MODULE PipelineProofs ---------------------------
(***************************************************************************)
(* Proofs about Pipeline for a pool of any size.                           *)
(***************************************************************************)
EXTENDS Pipeline, FiniteSetTheorems, SequenceTheorems, TLAPS

\* A channel without repetitions.
Distinct(s) == \A i, j \in 1 .. Len(s) : s[i] = s[j] => i = j

\* A bench is in the channel of the pool, or with the dispatcher, once at most,
\* and then it is empty and its worker waits.
Benched(w) == worker[w].at = "wait" /\ bench[w] = <<>>

PoolInv ==
  /\ \A i \in 1 .. Len(pool) : Benched(pool[i])
  /\ Distinct(pool)
  /\ dispatcher.at = "bench" =>
       /\ Benched(dispatcher.to)
       /\ \A i \in 1 .. Len(pool) : pool[i] # dispatcher.to
  /\ \A w \in Worker : worker[w].at # "wait" => bench[w] = <<>>

InPool(w) == \E i \in 1 .. Len(pool) : pool[i] = w

\* And no bench is mislaid: if its worker waits for a job, the dispatcher has
\* the bench or can get it.
KeptInv ==
  \A w \in Worker :
    Benched(w) => InPool(w) \/ (dispatcher.at = "bench" /\ dispatcher.to = w)

-----------------------------------------------------------------------------
(* Types.                                                                  *)

\* A job, and the payloads of one, are sequences of messages.
LEMMA JobTypes ==
  /\ <<>> \in Job
  /\ \A m \in Message : <<m>> \in Job
  /\ \A j \in Job : j \in Seq(Message)
<1>1. \A m \in Message : <<m>> \in Seq(Message)
  OBVIOUS
<1>2. <<>> \in Seq(Message)
  OBVIOUS
<1> QED
  BY <1>1, <1>2, Zenon DEF Job

\* What is left of a channel after a receive.
LEMMA SeqTail ==
  ASSUME NEW S, NEW s \in Seq(S), s # <<>>
  PROVE  /\ Tail(s) \in Seq(S)
         /\ Len(s) \in Nat
         /\ Len(Tail(s)) = Len(s) - 1
         /\ Head(s) = s[1] /\ 1 \in 1 .. Len(s)
         /\ \A i \in 1 .. Len(Tail(s)) : Tail(s)[i] = s[i + 1] /\ i + 1 \in 1 .. Len(s)
OBVIOUS

\* The number given to the next message is one a message may have.
LEMMA NextMessage ==
  ASSUME NEW n \in 0 .. MaxSent, n < MaxSent
  PROVE  n + 1 \in Message /\ n + 1 \in 0 .. MaxSent
<1>1. MaxSent \in Nat
  BY PipelineAssumption, Zenon
<1> QED
  BY <1>1 DEF Message

\* The pipeline starts well typed.
LEMMA PipeTypeInit == PipeInit => PipeTypeOK
<1> SUFFICES ASSUME PipeInit PROVE PipeTypeOK
  OBVIOUS
<1>1. (CHOOSE w \in Worker : TRUE) \in Worker
  BY PipelineAssumption
<1> QED
  BY <1>1, JobTypes, PipelineAssumption DEF PipeInit, PipeTypeOK

\* Every step of a goroutine keeps the types and the channel capacities.
LEMMA PipeTypeStep == PipeTypeOK /\ [PipeNext]_pipeVars => PipeTypeOK'
<1> SUFFICES ASSUME PipeTypeOK, [PipeNext]_pipeVars PROVE PipeTypeOK'
  OBVIOUS
<1> USE JobTypes, PipelineAssumption DEF PipeTypeOK, poolVars
<1>1. CASE UNCHANGED pipeVars
  BY <1>1 DEF pipeVars
<1>2. CASE EnqueueMsg
  <2>1. sent + 1 \in Message /\ sent + 1 \in 0 .. MaxSent
    BY <1>2, NextMessage, Zenon DEF EnqueueMsg, PipeTypeOK
  <2>2. Append(queue, sent + 1) \in Seq(Message)
    BY <2>1
  <2> QED
    BY <1>2, <2>1, <2>2 DEF EnqueueMsg
<1>3. CASE Demand
  BY <1>3 DEF Demand
<1>4. CASE TakeDemand
  BY <1>4 DEF TakeDemand
<1>5. CASE ReadMsg
  <2>1. producer'.job \in Job /\ producer' = [at |-> "send", job |-> producer'.job]
    <3>1. CASE queue # <<>>
      <4>1. Head(queue) \in Message
        BY <3>1
      <4> QED
        BY <1>5, <3>1, <4>1 DEF ReadMsg
    <3>2. CASE queue = <<>>
      BY <1>5, <3>2 DEF ReadMsg
    <3> QED
      BY <3>1, <3>2
  <2>2. queue' \in Seq(Message)
    <3>1. queue' = queue \/ (queue # <<>> /\ queue' = Tail(queue))
      BY <1>5 DEF ReadMsg
    <3>2. queue \in Seq(Message)
      OBVIOUS
    <3>3. queue # <<>> => Tail(queue) \in Seq(Message)
      BY <3>2, SeqTail, Zenon
    <3> QED
      BY <3>1, <3>2, <3>3, Zenon
  <2>3. producer' \in [at : {"demand", "read", "send", "dead"}, job : Job]
    BY <2>1
  <2> QED
    BY <1>5, <2>2, <2>3 DEF ReadMsg
<1>6. CASE ReadFails
  <2>1. CASE queue' = queue /\ producer' = [at |-> "dead", job |-> <<>>]
    BY <1>6, <2>1 DEF ReadFails
  <2>2. CASE /\ queue # <<>> /\ queue' = Tail(queue)
             /\ producer' = [at |-> "dead", job |-> <<Head(queue)>>]
    <3>1. Head(queue) \in Message /\ Tail(queue) \in Seq(Message)
      BY <2>2
    <3>2. producer' \in [at : {"demand", "read", "send", "dead"}, job : Job]
      BY <2>2, <3>1
    <3> QED
      BY <1>6, <2>2, <3>1, <3>2 DEF ReadFails
  <2> QED
    BY <1>6, <2>1, <2>2 DEF ReadFails
<1>7. CASE SendResults
  BY <1>7 DEF SendResults
<1>8. CASE ReceiveJob
  BY <1>8 DEF ReceiveJob
<1>9. CASE TakeBench
  <2>1. Head(pool) \in Worker /\ Tail(pool) \in Seq(Worker)
    BY <1>9 DEF TakeBench
  <2> QED
    BY <1>9, <2>1 DEF TakeBench
<1>10. CASE HandOver
  BY <1>10 DEF HandOver
<1>11. ASSUME NEW w \in Worker, ReturnBench(w)
       PROVE  PipeTypeOK'
  BY <1>11 DEF ReturnBench
<1>12. ASSUME NEW w \in Worker, TakeJob(w)
       PROVE  PipeTypeOK'
  <2>1. Head(bench[w]) \in Job
    BY <1>12 DEF TakeJob
  <2> QED
    BY <1>12, <2>1 DEF TakeJob
<1>13. ASSUME NEW w \in Worker, Processed(w)
       PROVE  PipeTypeOK'
  <2>1. processed \o worker[w].job \in Seq(Message)
    OBVIOUS
  <2> QED
    BY <1>13, <2>1 DEF Processed
<1> QED
  BY <1>1, <1>2, <1>3, <1>4, <1>5, <1>6, <1>7, <1>8, <1>9, <1>10, <1>11,
     <1>12, <1>13, Zenon DEF PipeNext, Produce, Dispatch, TakeWork

-----------------------------------------------------------------------------
(* The pool.                                                               *)

\* A channel without repetitions that misses a worker is not full.
LEMMA Room ==
  ASSUME NEW s \in Seq(Worker), NEW w \in Worker, Distinct(s),
         \A i \in 1 .. Len(s) : s[i] # w
  PROVE  Len(s) < Cardinality(Worker)
<1> DEFINE T == Worker \ {w}
<1>1. /\ IsFiniteSet(T)
      /\ Cardinality(T) = Cardinality(Worker) - 1
  BY FS_RemoveElement, PipelineAssumption
<1>2. Len(s) \in Nat /\ s \in [1 .. Len(s) -> T]
  OBVIOUS
<1>3. s \in Injection(1 .. Len(s), T)
  BY <1>2 DEF Injection, IsInjective, Distinct
<1>4. Cardinality(1 .. Len(s)) <= Cardinality(T)
  BY <1>1, <1>3, FS_Injection
<1>5. Cardinality(1 .. Len(s)) = Len(s)
  <2>1. 1 \in Int /\ Len(s) \in Int
    BY <1>2
  <2>2. Cardinality(1 .. Len(s)) = IF 1 > Len(s) THEN 0 ELSE Len(s) - 1 + 1
    BY <2>1, FS_Interval, Zenon
  <2> QED
    BY <1>2, <2>2
<1> QED
  BY <1>1, <1>2, <1>4, <1>5, FS_CardinalityType, PipelineAssumption

\* What is taken from a channel without repetitions is not there any more.
LEMMA DistinctTail ==
  ASSUME NEW S, NEW s \in Seq(S), s # <<>>, Distinct(s)
  PROVE  Distinct(Tail(s)) /\ \A i \in 1 .. Len(Tail(s)) : Tail(s)[i] # Head(s)
BY SeqTail DEF Distinct

\* What is put in and was not there is not repeated.
LEMMA DistinctAppend ==
  ASSUME NEW S, NEW s \in Seq(S), NEW w \in S, Distinct(s),
         \A i \in 1 .. Len(s) : s[i] # w
  PROVE  Distinct(Append(s, w))
BY DEF Distinct

\* At first every worker has its bench to put back.
LEMMA PoolInit == PipeInit => PoolInv
BY DEF PipeInit, PoolInv, Distinct

\* A bench is in one place at a time, whatever goroutine moves.
LEMMA PoolStep == PipeTypeOK /\ PoolInv /\ [PipeNext]_pipeVars => PoolInv'
<1> SUFFICES ASSUME PipeTypeOK, PoolInv, [PipeNext]_pipeVars PROVE PoolInv'
  OBVIOUS
<1> USE DEF PipeTypeOK, PoolInv, Benched
<1>1. CASE UNCHANGED poolVars
  BY <1>1 DEF poolVars
<1>2. CASE ReceiveJob
  BY <1>2 DEF ReceiveJob
<1>3. CASE TakeBench
  <2>1. /\ pool # <<>> /\ pool' = Tail(pool)
        /\ dispatcher'.to = Head(pool)
        /\ worker' = worker /\ bench' = bench
    BY <1>3 DEF TakeBench
  <2>2. Distinct(pool') /\ \A i \in 1 .. Len(pool') : pool'[i] # dispatcher'.to
    BY <2>1, DistinctTail
  <2>3. \A i \in 1 .. Len(pool') : Benched(pool'[i])
    BY <2>1, SeqTail
  <2>4. Benched(dispatcher'.to)
    BY <2>1, SeqTail
  <2> QED
    BY <2>1, <2>2, <2>3, <2>4
<1>4. CASE HandOver
  <2>1. \A i \in 1 .. Len(pool) : pool[i] \in Worker /\ pool[i] # dispatcher.to
    BY <1>4 DEF HandOver
  <2> QED
    BY <1>4, <2>1 DEF HandOver
<1>5. ASSUME NEW w \in Worker, ReturnBench(w)
      PROVE  PoolInv'
  <2>1. /\ Len(pool') = Len(pool) + 1
        /\ \A i \in 1 .. Len(pool) : pool'[i] = pool[i] /\ pool[i] \in Worker
        /\ pool'[Len(pool) + 1] = w
        /\ Len(pool) \in Nat
    BY <1>5 DEF ReturnBench
  <2>2. bench[w] = <<>> /\ worker'[w].at = "wait" /\ bench' = bench
    BY <1>5 DEF ReturnBench
  <2>3. \A v \in Worker : v # w => worker'[v] = worker[v]
    BY <1>5 DEF ReturnBench
  <2>4. \A i \in 1 .. Len(pool) : pool[i] # w
    BY <1>5 DEF ReturnBench
  <2>5. \A i \in 1 .. Len(pool') : i \in 1 .. Len(pool) \/ i = Len(pool) + 1
    BY <2>1
  <2>6. dispatcher' = dispatcher /\ (dispatcher.at = "bench" => dispatcher.to # w)
    BY <1>5 DEF ReturnBench
  <2>7. \A i \in 1 .. Len(pool') : Benched(pool[i])'
    BY <2>1, <2>2, <2>3, <2>4, <2>5
  <2>8. Distinct(pool')
    BY <1>5, <2>4, DistinctAppend DEF ReturnBench
  <2>9. dispatcher'.at = "bench" =>
          /\ Benched(dispatcher.to)'
          /\ \A i \in 1 .. Len(pool') : pool'[i] # dispatcher'.to
    <3> SUFFICES ASSUME dispatcher'.at = "bench"
                 PROVE  /\ Benched(dispatcher.to)'
                        /\ \A i \in 1 .. Len(pool') : pool'[i] # dispatcher'.to
      OBVIOUS
    <3>1. /\ dispatcher.to # w /\ dispatcher.to \in Worker /\ dispatcher' = dispatcher
          /\ Benched(dispatcher.to)
          /\ \A i \in 1 .. Len(pool) : pool[i] # dispatcher.to
      BY <2>6
    <3>2. Benched(dispatcher.to)'
      BY <2>2, <2>3, <3>1
    <3>3. \A i \in 1 .. Len(pool') : pool'[i] # dispatcher.to
      BY <2>1, <2>5, <3>1
    <3> QED
      BY <3>1, <3>2, <3>3
  <2> QED
    BY <2>2, <2>3, <2>7, <2>8, <2>9
<1>6. ASSUME NEW w \in Worker, TakeJob(w)
      PROVE  PoolInv'
  <2>1. \A i \in 1 .. Len(pool) : pool[i] \in Worker /\ pool[i] # w
    BY <1>6 DEF TakeJob
  <2>2. dispatcher.at = "bench" => dispatcher.to # w
    BY <1>6 DEF TakeJob
  <2> QED
    BY <1>6, <2>1, <2>2 DEF TakeJob
<1>7. ASSUME NEW w \in Worker, Processed(w)
      PROVE  PoolInv'
  <2>1. \A i \in 1 .. Len(pool) : pool[i] \in Worker /\ pool[i] # w
    BY <1>7 DEF Processed
  <2>2. dispatcher.at = "bench" => dispatcher.to # w
    BY <1>7 DEF Processed
  <2> QED
    BY <1>7, <2>1, <2>2 DEF Processed
<1>8. \/ UNCHANGED poolVars
      \/ ReceiveJob \/ TakeBench \/ HandOver
      \/ \E w \in Worker : ReturnBench(w) \/ TakeJob(w) \/ Processed(w)
  BY DEF PipeNext, pipeVars, poolVars, EnqueueMsg, Demand, Produce, TakeDemand,
         ReadMsg, ReadFails, SendResults, Dispatch, TakeWork
<1> QED
  BY <1>1, <1>2, <1>3, <1>4, <1>5, <1>6, <1>7, <1>8

-----------------------------------------------------------------------------
(* The goroutines do not wait for one another in a circle.                 *)

\* At first nothing has been sent.
LEMMA KeptInit == PipeInit => KeptInv
BY DEF PipeInit, KeptInv, Benched

\* A bench goes from its worker to the pool, the dispatcher and back.
LEMMA KeptStep == PipeTypeOK /\ PoolInv /\ KeptInv /\ [PipeNext]_pipeVars => KeptInv'
<1> SUFFICES ASSUME PipeTypeOK, PoolInv, KeptInv, [PipeNext]_pipeVars,
                    NEW w \in Worker, Benched(w)'
             PROVE  InPool(w)' \/ (dispatcher'.at = "bench" /\ dispatcher'.to = w)
  BY DEF KeptInv
<1>1. CASE UNCHANGED poolVars \/ ReceiveJob
  BY <1>1 DEF poolVars, ReceiveJob, KeptInv, Benched, InPool
<1>2. CASE TakeBench
  <2>1. Benched(w) /\ dispatcher'.at = "bench" /\ dispatcher'.to = Head(pool)
          /\ pool # <<>> /\ pool' = Tail(pool)
    BY <1>2 DEF TakeBench, Benched
  <2>2. PICK i \in 1 .. Len(pool) : pool[i] = w
    BY <1>2, <2>1 DEF KeptInv, InPool, TakeBench
  <2>3. pool \in Seq(Worker)
    BY DEF PipeTypeOK
  <2>4. CASE i = 1
    BY <2>1, <2>2, <2>3, <2>4, SeqTail
  <2>5. CASE i # 1
    <3>1. i - 1 \in 1 .. Len(pool') /\ pool'[i - 1] = pool[i]
      BY <2>1, <2>3, <2>5, SeqTail
    <3> QED
      BY <2>2, <3>1 DEF InPool
  <2> QED
    BY <2>4, <2>5
<1>3. CASE HandOver
  <2>1. Benched(w) /\ w # dispatcher.to /\ pool' = pool
    BY <1>3 DEF HandOver, Benched, PipeTypeOK
  <2> QED
    BY <2>1 DEF KeptInv, InPool
<1>4. ASSUME NEW v \in Worker, ReturnBench(v)
      PROVE  InPool(w)' \/ (dispatcher'.at = "bench" /\ dispatcher'.to = w)
  <2>1. /\ pool' = Append(pool, v) /\ dispatcher' = dispatcher /\ bench' = bench
        /\ v # w => worker'[w] = worker[w]
    BY <1>4 DEF ReturnBench, PipeTypeOK
  <2>2. pool \in Seq(Worker)
    BY DEF PipeTypeOK
  <2>3. /\ Len(pool') = Len(pool) + 1 /\ Len(pool) \in Nat /\ pool'[Len(pool) + 1] = v
        /\ \A i \in 1 .. Len(pool) : pool'[i] = pool[i]
    BY <2>1, <2>2
  <2>4. CASE w = v
    BY <2>3, <2>4 DEF InPool
  <2>5. CASE w # v
    <3>1. Benched(w)
      BY <2>1, <2>5 DEF Benched
    <3>2. InPool(w) => InPool(w)'
      BY <2>3 DEF InPool
    <3> QED
      BY <2>1, <3>1, <3>2 DEF KeptInv
  <2> QED
    BY <2>4, <2>5
<1>5. ASSUME NEW v \in Worker, TakeJob(v) \/ Processed(v)
      PROVE  InPool(w)' \/ (dispatcher'.at = "bench" /\ dispatcher'.to = w)
  <2>1. worker'[v].at # "wait" /\ pool' = pool /\ dispatcher' = dispatcher
    BY <1>5 DEF TakeJob, Processed, PipeTypeOK
  <2>2. v # w
    BY <2>1 DEF Benched
  <2>3. Benched(w)
    BY <1>5, <2>2 DEF TakeJob, Processed, PipeTypeOK, Benched
  <2> QED
    BY <2>1, <2>3 DEF KeptInv, InPool
<1>6. \/ UNCHANGED poolVars
      \/ ReceiveJob \/ TakeBench \/ HandOver
      \/ \E v \in Worker : ReturnBench(v) \/ TakeJob(v) \/ Processed(v)
  BY DEF PipeNext, pipeVars, poolVars, EnqueueMsg, Demand, Produce, TakeDemand,
         ReadMsg, ReadFails, SendResults, Dispatch, TakeWork
<1> QED
  BY <1>1, <1>2, <1>3, <1>4, <1>5, <1>6

\* What Produce, Dispatch, TakeWork and Processed wait for.
ProducerCanMove ==
  \/ producer.at = "demand" /\ demand = 1
  \/ producer.at = "read"
  \/ producer.at = "send" /\ results = <<>>

DispatcherCanMove ==
  \/ dispatcher.at = "receive" /\ (results # <<>> \/ producer.at = "dead")
  \/ dispatcher.at = "pool" /\ pool # <<>>
  \/ dispatcher.at = "bench" /\ bench[dispatcher.to] = <<>>

WorkerCanMove(w) ==
  \/ worker[w].at = "return" /\ Len(pool) < Cardinality(Worker)
  \/ worker[w].at = "wait" /\ bench[w] # <<>>
  \/ worker[w].at = "run"

\* A demand waiting in the channel is never the end of it: some goroutine of
\* the pipeline can move.
NoPipeStandstill ==
  demand = 1 => ProducerCanMove \/ DispatcherCanMove \/ \E w \in Worker : WorkerCanMove(w)

\* Where one of the three goroutines can go on there is no standstill.
LEMMA CanMove ==
  ASSUME PipeTypeOK, PoolInv, KeptInv
  PROVE  NoPipeStandstill
<1> SUFFICES ASSUME demand = 1, ~ProducerCanMove, ~DispatcherCanMove
             PROVE  \E w \in Worker : WorkerCanMove(w)
  BY DEF NoPipeStandstill
<1>1. producer.at = "dead" \/ results # <<>>
  BY DEF ProducerCanMove, PipeTypeOK
<1>2. dispatcher.at = "pool" /\ pool = <<>>
  BY <1>1 DEF DispatcherCanMove, PipeTypeOK, PoolInv, Benched
<1>3. PICK w \in Worker : TRUE
  BY PipelineAssumption
<1>4. CASE worker[w].at = "return"
  <2>1. \A i \in 1 .. Len(pool) : pool[i] # w
    BY <1>2
  <2>2. pool \in Seq(Worker) /\ Distinct(pool)
    BY DEF PipeTypeOK, PoolInv
  <2> QED
    BY <1>4, <2>1, <2>2, Room DEF WorkerCanMove
<1>5. CASE worker[w].at = "wait"
  <2>1. ~InPool(w)
    BY <1>2 DEF InPool
  <2>2. ~Benched(w)
    BY <1>2, <2>1 DEF KeptInv
  <2> QED
    BY <1>5, <2>2 DEF Benched, WorkerCanMove
<1> QED
  BY <1>4, <1>5 DEF WorkerCanMove, PipeTypeOK

-----------------------------------------------------------------------------
(* Order in a pool of one.                                                 *)

\* A goroutine that is not holding a job has none.  A producer that has ended
\* may have one.
IdleInv ==
  /\ producer.at \in {"demand", "read"} => producer.job = <<>>
  /\ dispatcher.at = "receive" => dispatcher.job = <<>>
  /\ \A w \in Worker : worker[w].at # "run" => worker[w].job = <<>>

\* Payloads in the places between processed and queue, in that order.
Flow(p, a, b, c, d, e, q) == p \o (a \o b \o c \o d \o e) \o q

FlowType(p, a, b, c, d, e, q) ==
  /\ p \in Seq(Message) /\ a \in Seq(Message) /\ b \in Seq(Message) /\ c \in Seq(Message)
  /\ d \in Seq(Message) /\ e \in Seq(Message) /\ q \in Seq(Message)

\* Channels one after the other.
Cat(s, t) == s \o t

\* Laws of concatenation.
LEMMA CatLaws ==
  ASSUME NEW S
  PROVE  /\ <<>> \in Seq(S)
         /\ \A x \in Seq(S) : Cat(x, <<>>) = x /\ Cat(<<>>, x) = x
         /\ \A x, y \in Seq(S) : Cat(x, y) \in Seq(S)
         /\ \A x, y, z \in Seq(S) : Cat(Cat(x, y), z) = Cat(x, Cat(y, z))
<1>1. <<>> \in Seq(S)
  OBVIOUS
<1>2. ASSUME NEW x \in Seq(S)
      PROVE  Cat(x, <<>>) = x /\ Cat(<<>>, x) = x
  BY ConcatEmptySeq DEF Cat
<1>3. ASSUME NEW x \in Seq(S), NEW y \in Seq(S)
      PROVE  Cat(x, y) \in Seq(S)
  BY DEF Cat
<1>4. ASSUME NEW x \in Seq(S), NEW y \in Seq(S), NEW z \in Seq(S)
      PROVE  Cat(Cat(x, y), z) = Cat(x, Cat(y, z))
  BY DEF Cat
<1> QED
  BY <1>1, <1>2, <1>3, <1>4

\* The flow, as it is when the places are put one after the other.
LEMMA FlowIsCat ==
  ASSUME NEW p, NEW a, NEW b, NEW c, NEW d, NEW e, NEW q
  PROVE  Flow(p, a, b, c, d, e, q) = Cat(Cat(p, Cat(Cat(Cat(Cat(a, b), c), d), e)), q)
BY DEF Flow, Cat

\* A job that goes on to the next place, which is empty, stays where it is in
\* the flow: five lemmas, from the processor back to the producer.

\* A job was processed.
LEMMA FlowProcessed ==
  ASSUME NEW p, NEW a, NEW b, NEW c, NEW d, NEW e, NEW q,
         FlowType(p, a, b, c, d, e, q)
  PROVE  Flow(p \o a, <<>>, b, c, d, e, q) = Flow(p, a, b, c, d, e, q)
<1>1. Cat(Cat(Cat(Cat(a, b), c), d), e) = Cat(a, Cat(Cat(Cat(b, c), d), e))
  <2>1. Cat(Cat(a, b), c) = Cat(a, Cat(b, c))
    BY CatLaws DEF FlowType
  <2>2. Cat(Cat(a, Cat(b, c)), d) = Cat(a, Cat(Cat(b, c), d))
    BY CatLaws DEF FlowType
  <2>3. Cat(Cat(a, Cat(Cat(b, c), d)), e) = Cat(a, Cat(Cat(Cat(b, c), d), e))
    <3>1. PICK u : u = Cat(Cat(b, c), d)
      BY Zenon
    <3>2. u \in Seq(Message)
      BY <3>1, CatLaws DEF FlowType
    <3>3. Cat(Cat(a, u), e) = Cat(a, Cat(u, e))
      BY <3>2, CatLaws DEF FlowType
    <3> QED
      BY <3>1, <3>3, Zenon
  <2> QED
    BY <2>1, <2>2, <2>3
<1>2. Cat(Cat(Cat(Cat(<<>>, b), c), d), e) = Cat(Cat(Cat(b, c), d), e)
  BY CatLaws DEF FlowType
<1>3. Cat(p, Cat(a, Cat(Cat(Cat(b, c), d), e))) = Cat(Cat(p, a), Cat(Cat(Cat(b, c), d), e))
  <2>1. PICK x \in Seq(Message) : x = Cat(Cat(Cat(b, c), d), e)
    BY CatLaws DEF FlowType
  <2>2. Cat(p, Cat(a, x)) = Cat(Cat(p, a), x)
    BY CatLaws DEF FlowType
  <2> QED
    BY <2>1, <2>2
<1>4. p \o a = Cat(p, a)
  BY DEF Cat
<1> QED
  BY <1>1, <1>2, <1>3, <1>4, FlowIsCat

\* The worker took it from its bench.
LEMMA FlowTaken ==
  ASSUME NEW p, NEW a, NEW b, NEW c, NEW d, NEW e, NEW q,
         FlowType(p, a, b, c, d, e, q)
  PROVE  Flow(p, b, <<>>, c, d, e, q) = Flow(p, <<>>, b, c, d, e, q)
BY CatLaws, FlowIsCat DEF FlowType

\* The dispatcher put it on the bench.
LEMMA FlowHandedOver ==
  ASSUME NEW p, NEW a, NEW b, NEW c, NEW d, NEW e, NEW q,
         FlowType(p, a, b, c, d, e, q)
  PROVE  Flow(p, a, c, <<>>, d, e, q) = Flow(p, a, <<>>, c, d, e, q)
BY CatLaws, FlowIsCat DEF FlowType

\* The dispatcher received it.
LEMMA FlowReceived ==
  ASSUME NEW p, NEW a, NEW b, NEW c, NEW d, NEW e, NEW q,
         FlowType(p, a, b, c, d, e, q)
  PROVE  Flow(p, a, b, d, <<>>, e, q) = Flow(p, a, b, <<>>, d, e, q)
BY CatLaws, FlowIsCat DEF FlowType

\* The producer sent it.
LEMMA FlowSent ==
  ASSUME NEW p, NEW a, NEW b, NEW c, NEW d, NEW e, NEW q,
         FlowType(p, a, b, c, d, e, q)
  PROVE  Flow(p, a, b, c, e, <<>>, q) = Flow(p, a, b, c, <<>>, e, q)
<1>1. PICK x \in Seq(Message) : x = Cat(Cat(a, b), c)
  BY CatLaws DEF FlowType
<1>2. Cat(Cat(x, e), <<>>) = Cat(x, e) /\ Cat(Cat(x, <<>>), e) = Cat(x, e)
  BY CatLaws DEF FlowType
<1> QED
  BY <1>1, <1>2, FlowIsCat

\* What BLPOP takes from the head of the list comes right before the list.
LEMMA FlowPop ==
  ASSUME NEW p, NEW a, NEW b, NEW c, NEW d, NEW q,
         FlowType(p, a, b, c, d, <<>>, q), q # <<>>
  PROVE  Flow(p, a, b, c, d, <<Head(q)>>, Tail(q)) = Flow(p, a, b, c, d, <<>>, q)
<1>1. PICK h \in Seq(Message), t \in Seq(Message) :
        h = <<Head(q)>> /\ t = Tail(q) /\ q = Cat(h, t)
  <2>1. Head(q) \in Message /\ Tail(q) \in Seq(Message)
    BY HeadTailProperties DEF FlowType
  <2>2. q = Cat(<<Head(q)>>, Tail(q))
    BY DEF Cat, FlowType
  <2>3. <<Head(q)>> \in Seq(Message)
    BY <2>1
  <2> QED
    BY <2>1, <2>2, <2>3, Zenon
<1>2. PICK x \in Seq(Message) : x = Cat(Cat(Cat(a, b), c), d)
  BY CatLaws, Zenon DEF FlowType
<1>3. Cat(Cat(p, Cat(x, h)), t) = Cat(Cat(p, x), Cat(h, t))
  BY CatLaws DEF FlowType
<1>4. Cat(p, Cat(x, <<>>)) = Cat(p, x)
  BY CatLaws DEF FlowType
<1> QED
  BY <1>1, <1>2, <1>3, <1>4, FlowIsCat

\* A message that is pushed comes after all others.
LEMMA FlowPush ==
  ASSUME NEW p, NEW a, NEW b, NEW c, NEW d, NEW e, NEW q,
         FlowType(p, a, b, c, d, e, q), NEW n \in Nat, n + 1 \in Message,
         Flow(p, a, b, c, d, e, q) = [i \in 1 .. n |-> i]
  PROVE  Flow(p, a, b, c, d, e, Append(q, n + 1)) = [i \in 1 .. n + 1 |-> i]
<1>1. PICK x \in Seq(Message) : x = Cat(p, Cat(Cat(Cat(Cat(a, b), c), d), e))
  BY CatLaws, Zenon DEF FlowType
<1>2. Cat(x, q) \in Seq(Message) /\ Cat(x, q) = [i \in 1 .. n |-> i]
  BY <1>1, CatLaws, FlowIsCat DEF FlowType
<1>3. PICK y \in Seq(Message) : y = <<n + 1>>
  <2>1. <<n + 1>> \in Seq(Message)
    OBVIOUS
  <2> QED
    BY <2>1, Zenon
<1>4. \A s \in Seq(Message) : Append(s, n + 1) = Cat(s, y)
  BY <1>3, AppendIsConcat DEF Cat
<1>5. Cat(x, Append(q, n + 1)) = Append(Cat(x, q), n + 1)
  <2>1. Append(q, n + 1) = Cat(q, y) /\ Append(Cat(x, q), n + 1) = Cat(Cat(x, q), y)
    BY <1>2, <1>4, Zenon DEF FlowType
  <2>2. Cat(Cat(x, q), y) = Cat(x, Cat(q, y))
    BY CatLaws DEF FlowType
  <2> QED
    BY <2>1, <2>2, Zenon
<1>6. Append([i \in 1 .. n |-> i], n + 1) = [i \in 1 .. n + 1 |-> i]
  OBVIOUS
<1> QED
  BY <1>1, <1>2, <1>5, <1>6, FlowIsCat, Zenon

\* Of a flow that is complete, the first after those processed is the next.
LEMMA FlowFirst ==
  ASSUME NEW p, NEW m, NEW b, NEW c, NEW d, NEW e, NEW q,
         FlowType(p, <<m>>, b, c, d, e, q),
         NEW n \in Nat, Flow(p, <<m>>, b, c, d, e, q) = [i \in 1 .. n |-> i]
  PROVE  m = Len(p) + 1
<1> DEFINE ab == <<m>> \o b
           ac == ab \o c
           ad == ac \o d
           ae == ad \o e
<1>1. /\ p \in Seq(Message) /\ q \in Seq(Message)
      /\ b \in Seq(Message) /\ c \in Seq(Message) /\ d \in Seq(Message) /\ e \in Seq(Message)
  BY Zenon DEF FlowType
<1>2. ab \in Seq(Message) /\ Len(ab) > 0 /\ ab[1] = m
  <2>1. <<m>> \in Seq(Message)
    BY Zenon DEF FlowType
  <2> QED
    BY <1>1, <2>1
<1> HIDE DEF ab
<1>3. ac \in Seq(Message) /\ Len(ac) > 0 /\ ac[1] = m
  BY <1>1, <1>2
<1> HIDE DEF ac
<1>4. ad \in Seq(Message) /\ Len(ad) > 0 /\ ad[1] = m
  BY <1>1, <1>3
<1> HIDE DEF ad
<1>5. ae \in Seq(Message) /\ Len(ae) > 0 /\ ae[1] = m
  BY <1>1, <1>4
<1>6. Flow(p, <<m>>, b, c, d, e, q) = (p \o ae) \o q
  BY DEF Flow, ab, ac, ad
<1> HIDE DEF ae
<1> DEFINE s == (p \o ae) \o q
<1>7. Len(p) + 1 \in 1 .. Len(s) /\ s[Len(p) + 1] = m
  <2> DEFINE r == p \o ae
  <2>1. r \in Seq(Message) /\ Len(p) + 1 \in 1 .. Len(r) /\ r[Len(p) + 1] = m
    BY <1>1, <1>5
  <2> HIDE DEF r
  <2>2. Len(r \o q) = Len(r) + Len(q) /\ (r \o q)[Len(p) + 1] = r[Len(p) + 1]
    BY <1>1, <2>1
  <2>3. s = r \o q /\ Len(q) \in Nat /\ Len(r) \in Nat
    BY <1>1, <2>1 DEF r
  <2> QED
    BY <2>1, <2>2, <2>3
<1>8. s = [i \in 1 .. n |-> i]
  BY <1>6, Zenon
<1> HIDE DEF s
<1>9. Len(s) = n /\ \A i \in 1 .. Len(s) : s[i] = i
  BY <1>8
<1> QED
  BY <1>7, <1>9

\* At first no goroutine has a job.
LEMMA IdleInit == PipeInit => IdleInv
BY DEF PipeInit, IdleInv

\* A goroutine gives up its job when it passes it on.
LEMMA IdleStep == PipeTypeOK /\ IdleInv /\ [PipeNext]_pipeVars => IdleInv'
<1> SUFFICES ASSUME PipeTypeOK, IdleInv, [PipeNext]_pipeVars PROVE IdleInv'
  OBVIOUS
<1>1. producer'.at \in {"demand", "read"} => producer'.job = <<>>
  <2>1. CASE TakeDemand \/ ReadMsg \/ SendResults \/ ReadFails
    BY <2>1 DEF TakeDemand, ReadMsg, SendResults, ReadFails
  <2>2. CASE producer' = producer
    BY <2>2 DEF IdleInv
  <2> QED
    BY <2>1, <2>2 DEF PipeNext, pipeVars, EnqueueMsg, Demand, Produce, Dispatch, ReceiveJob,
         TakeBench, HandOver, TakeWork, ReturnBench, TakeJob, Processed
<1>2. dispatcher'.at = "receive" => dispatcher'.job = <<>>
  <2>1. CASE Dispatch
    <3>1. CASE ReceiveJob
      BY <3>1 DEF ReceiveJob
    <3>2. CASE TakeBench
      BY <3>2 DEF TakeBench
    <3>3. CASE HandOver
      BY <3>3 DEF HandOver
    <3> QED
      BY <2>1, <3>1, <3>2, <3>3 DEF Dispatch
  <2>2. CASE dispatcher' = dispatcher
    BY <2>2 DEF IdleInv
  <2> QED
    BY <2>1, <2>2 DEF PipeNext, pipeVars, poolVars, EnqueueMsg, Demand, Produce, TakeDemand,
         ReadMsg, SendResults, ReadFails, TakeWork, ReturnBench, TakeJob, Processed
<1>3. ASSUME NEW w \in Worker, worker'[w].at # "run"
      PROVE  worker'[w].job = <<>>
  <2>1. ASSUME NEW v \in Worker, ReturnBench(v) \/ TakeJob(v) \/ Processed(v)
        PROVE  worker'[w].job = <<>>
    <3>1. w # v => worker'[w] = worker[w]
      BY <2>1 DEF PipeTypeOK, ReturnBench, TakeJob, Processed
    <3>2. worker'[v].at = "run" \/ worker'[v].job = <<>>
      BY <2>1 DEF PipeTypeOK, ReturnBench, TakeJob, Processed
    <3> QED
      BY <1>3, <3>1, <3>2 DEF IdleInv
  <2>2. CASE worker' = worker
    BY <1>3, <2>2 DEF IdleInv
  <2> QED
    BY <2>1, <2>2 DEF PipeNext, pipeVars, poolVars, EnqueueMsg, Demand, Produce, TakeDemand,
         ReadMsg, SendResults, ReadFails, Dispatch, ReceiveJob, TakeBench, HandOver, TakeWork
<1> QED
  BY <1>1, <1>2, <1>3 DEF IdleInv

\* The producer, which has no message, gets the head of the list.
Pops ==
  /\ producer.job = <<>> /\ queue # <<>>
  /\ producer'.job = <<Head(queue)>> /\ queue' = Tail(queue)
  /\ UNCHANGED <<sent, results, dispatcher, bench, worker, processed>>

\* The producer, which has no message, gets none.
GetsNone ==
  /\ producer.job = <<>> /\ producer'.job = <<>> /\ queue' = queue
  /\ UNCHANGED <<sent, results, dispatcher, bench, worker, processed>>

\* What the steps of the producer before it sends come to.
LEMMA ProducerReads ==
  ASSUME IdleInv, TakeDemand \/ ReadMsg \/ ReadFails
  PROVE  Pops \/ GetsNone
<1>1. producer.job = <<>>
  BY DEF IdleInv, TakeDemand, ReadMsg, ReadFails
<1>2. UNCHANGED <<sent, results, dispatcher, bench, worker, processed>>
  BY DEF TakeDemand, ReadMsg, ReadFails, poolVars
<1>3. \/ producer'.job = <<>> /\ queue' = queue
      \/ queue # <<>> /\ producer'.job = <<Head(queue)>> /\ queue' = Tail(queue)
  BY DEF TakeDemand, ReadMsg, ReadFails
<1> QED
  BY <1>1, <1>2, <1>3, Zenon DEF Pops, GetsNone

\* In a pool of one, with worker w.
OneWorkerFlow(w) ==
  Flow(processed, worker[w].job, Payloads(bench[w]), dispatcher.job, Payloads(results),
       producer.job, queue)

\* The property is about that flow.
LEMMA FlowIsInFlight ==
  ASSUME NEW w, Worker = {w}
  PROVE  NothingLostOrReordered <=> OneWorkerFlow(w) = [n \in 1 .. sent |-> n]
<1>1. (CHOOSE v \in Worker : TRUE) = w
  OBVIOUS
<1> QED
  BY <1>1, Zenon DEF NothingLostOrReordered, InFlight, OneWorkerFlow, Flow

\* The contents of a channel of jobs is a sequence of messages.
LEMMA PayloadsType ==
  /\ Payloads(<<>>) = <<>>
  /\ \A j \in Job : Payloads(<<j>>) = j
  /\ \A ch \in {<<>>} \cup {<<j>> : j \in Job} : Payloads(ch) \in Seq(Message)
<1>1. Payloads(<<>>) = <<>>
  BY DEF Payloads
<1>2. \A j \in Job : Payloads(<<j>>) = j
  BY DEF Payloads
<1> QED
  BY <1>1, <1>2, JobTypes

\* What is on its way through a pool of one is a sequence of messages.
LEMMA OneWorkerFlowType ==
  ASSUME NEW w, Worker = {w}, PipeTypeOK
  PROVE  FlowType(processed, worker[w].job, Payloads(bench[w]), dispatcher.job,
                  Payloads(results), producer.job, queue)
<1>1. bench[w] \in {<<>>} \cup {<<j>> : j \in Job} /\ results \in {<<>>} \cup {<<j>> : j \in Job}
  BY DEF PipeTypeOK
<1>2. worker[w].job \in Job /\ dispatcher.job \in Job /\ producer.job \in Job
  BY DEF PipeTypeOK
<1>3. processed \in Seq(Message) /\ queue \in Seq(Message)
  BY DEF PipeTypeOK
<1> QED
  BY <1>1, <1>2, <1>3, PayloadsType, JobTypes, Zenon DEF FlowType

\* The message a worker runs is the next after those processed.
LEMMA RunsNext ==
  ASSUME NEW w, Worker = {w}, PipeTypeOK, NothingLostOrReordered,
         NEW m \in Message, worker[w].job = <<m>>
  PROVE  m = Len(processed) + 1
<1>1. Flow(processed, <<m>>, Payloads(bench[w]), dispatcher.job, Payloads(results),
           producer.job, queue) = [n \in 1 .. sent |-> n]
  BY FlowIsInFlight DEF OneWorkerFlow
<1>2. FlowType(processed, <<m>>, Payloads(bench[w]), dispatcher.job, Payloads(results),
               producer.job, queue)
  BY OneWorkerFlowType
<1>3. sent \in Nat
  BY PipelineAssumption DEF PipeTypeOK
<1> QED
  BY <1>1, <1>2, <1>3, FlowFirst

\* No step of a pool of one loses, repeats or reorders a message.
LEMMA OrderStep ==
  ASSUME NEW w, Worker = {w}, PipeTypeOK, IdleInv, NothingLostOrReordered,
         [PipeNext]_pipeVars
  PROVE  NothingLostOrReordered'
<1>1. PICK p, a, b, c, d, e, q :
        /\ FlowType(p, a, b, c, d, e, q)
        /\ p = processed /\ a = worker[w].job /\ b = Payloads(bench[w])
        /\ c = dispatcher.job /\ d = Payloads(results) /\ e = producer.job /\ q = queue
  BY OneWorkerFlowType, Zenon
<1>0. FlowType(p, a, b, c, d, e, q)
  BY <1>1, Zenon
<1>2. Flow(p, a, b, c, d, e, q) = [n \in 1 .. sent |-> n]
  BY <1>1, FlowIsInFlight DEF OneWorkerFlow
<1>3. SUFFICES OneWorkerFlow(w)' = [n \in 1 .. sent' |-> n]
  <2>1. (CHOOSE v \in Worker : TRUE) = w
    OBVIOUS
  <2> QED
    BY <2>1, Zenon DEF NothingLostOrReordered, InFlight, OneWorkerFlow, Flow
<1>4. CASE EnqueueMsg
  <2>1. sent \in Nat /\ sent + 1 \in Message
    BY <1>4, NextMessage, PipelineAssumption DEF EnqueueMsg, PipeTypeOK
  <2>2. Flow(p, a, b, c, d, e, Append(q, sent + 1)) = [n \in 1 .. sent + 1 |-> n]
    BY <1>0, <1>2, <2>1, FlowPush
  <2> QED
    BY <1>1, <1>4, <2>2 DEF EnqueueMsg, OneWorkerFlow, poolVars
<1>5. CASE Pops
  <2>1. e = <<>> /\ q # <<>>
    BY <1>1, <1>5 DEF Pops
  <2>2. Flow(p, a, b, c, d, <<Head(q)>>, Tail(q)) = Flow(p, a, b, c, d, <<>>, q)
    <3>1. FlowType(p, a, b, c, d, <<>>, q)
      BY <1>0, <2>1, Zenon
    <3> QED
      BY <2>1, <3>1, FlowPop
  <2>3. /\ producer'.job = <<Head(q)>> /\ queue' = Tail(q)
        /\ UNCHANGED <<sent, results, dispatcher, bench, worker, processed>>
    BY <1>1, <1>5, Zenon DEF Pops
  <2> QED
    BY <1>1, <1>2, <2>1, <2>2, <2>3 DEF OneWorkerFlow
<1>6. CASE SendResults
  <2>1. d = <<>> /\ Payloads(results') = e /\ producer'.job = <<>>
    BY <1>1, <1>6, PayloadsType DEF SendResults, PipeTypeOK
  <2>2. Flow(p, a, b, c, e, <<>>, q) = Flow(p, a, b, c, <<>>, e, q)
    BY <1>0, FlowSent
  <2> QED
    BY <1>1, <1>2, <1>6, <2>1, <2>2 DEF SendResults, OneWorkerFlow, poolVars
<1>7. CASE ReceiveJob
  <2>1. c = <<>> /\ Payloads(results') = <<>> /\ dispatcher'.job = d
    BY <1>1, <1>7, PayloadsType DEF ReceiveJob, IdleInv, PipeTypeOK, Payloads
  <2>2. Flow(p, a, b, d, <<>>, e, q) = Flow(p, a, b, <<>>, d, e, q)
    BY <1>0, FlowReceived
  <2> QED
    BY <1>1, <1>2, <1>7, <2>1, <2>2 DEF ReceiveJob, OneWorkerFlow
<1>8. CASE TakeBench
  BY <1>1, <1>2, <1>8 DEF TakeBench, OneWorkerFlow
<1>9. CASE HandOver
  <2>1. dispatcher.to = w /\ dispatcher.job \in Job
    BY DEF PipeTypeOK
  <2>2. b = <<>> /\ Payloads(bench'[w]) = c /\ dispatcher'.job = <<>>
    BY <1>1, <1>9, <2>1, PayloadsType DEF HandOver, PipeTypeOK
  <2>3. Flow(p, a, c, <<>>, d, e, q) = Flow(p, a, <<>>, c, d, e, q)
    BY <1>0, FlowHandedOver
  <2> QED
    BY <1>1, <1>2, <1>9, <2>2, <2>3 DEF HandOver, OneWorkerFlow
<1>10. CASE TakeJob(w)
  <2>1. a = <<>>
    BY <1>1, <1>10 DEF TakeJob, IdleInv
  <2>2. worker'[w].job = b /\ Payloads(bench'[w]) = <<>>
    <3>1. bench'[w] = <<>> /\ bench[w] # <<>> /\ worker'[w].job = Head(bench[w])
      BY <1>10 DEF TakeJob, PipeTypeOK
    <3> QED
      BY <1>1, <3>1 DEF Payloads
  <2>3. Flow(p, b, <<>>, c, d, e, q) = Flow(p, <<>>, b, c, d, e, q)
    BY <1>0, FlowTaken
  <2> QED
    BY <1>1, <1>2, <1>10, <2>1, <2>2, <2>3 DEF TakeJob, OneWorkerFlow
<1>11. CASE Processed(w)
  <2>1. worker'[w].job = <<>> /\ processed' = p \o a
    BY <1>1, <1>11 DEF Processed, PipeTypeOK
  <2>2. Flow(p \o a, <<>>, b, c, d, e, q) = Flow(p, a, b, c, d, e, q)
    BY <1>0, FlowProcessed
  <2> QED
    BY <1>1, <1>2, <1>11, <2>1, <2>2 DEF Processed, OneWorkerFlow
<1>12. CASE ReturnBench(w)
  <2>1. worker'[w].job = <<>> /\ a = <<>>
    BY <1>1, <1>12 DEF ReturnBench, PipeTypeOK, IdleInv
  <2> QED
    BY <1>1, <1>2, <1>12, <2>1 DEF ReturnBench, OneWorkerFlow
<1>13. CASE GetsNone
  BY <1>1, <1>2, <1>13 DEF GetsNone, OneWorkerFlow
<1>14. CASE Demand \/ UNCHANGED pipeVars
  BY <1>1, <1>2, <1>14, Zenon DEF Demand, OneWorkerFlow, poolVars, pipeVars
<1>15. TakeDemand \/ ReadMsg \/ ReadFails => Pops \/ GetsNone
  BY ProducerReads
<1> QED
  BY <1>4, <1>5, <1>6, <1>7, <1>8, <1>9, <1>10, <1>11, <1>12, <1>13, <1>14, <1>15
     DEF PipeNext, Produce, Dispatch, TakeWork

-----------------------------------------------------------------------------
(* What a pool of one holds, as a WorkQueue.                               *)

\* Each place has one payload at most, and the worker and its bench have one
\* between them.
OneOrNone(a, b, c, d, e) ==
  /\ Len(a) <= 1 /\ Len(b) <= 1 /\ Len(c) <= 1 /\ Len(d) <= 1 /\ Len(e) <= 1
  /\ a = <<>> \/ b = <<>>

\* No place of a pool of one has more.
LEMMA OneJobEach ==
  ASSUME NEW w, Worker = {w}, PipeTypeOK, PoolInv, IdleInv
  PROVE  OneOrNone(worker[w].job, Payloads(bench[w]), dispatcher.job, Payloads(results),
                   producer.job)
<1>1. \A j \in Job : j \in Seq(Message) /\ Len(j) <= 1
  <2>1. Len(<<>>) <= 1 /\ \A m \in Message : Len(<<m>>) <= 1
    OBVIOUS
  <2> QED
    BY <2>1, JobTypes, Zenon DEF Job
<1>2. \A ch \in {<<>>} \cup {<<j>> : j \in Job} : Len(Payloads(ch)) <= 1
  <2>1. <<>> \in Job
    BY JobTypes, Zenon
  <2> QED
    BY <1>1, <2>1, PayloadsType, Zenon
<1>3. worker[w].job \in Job /\ dispatcher.job \in Job /\ producer.job \in Job
  BY DEF PipeTypeOK
<1>4. /\ bench[w] \in {<<>>} \cup {<<j>> : j \in Job}
      /\ results \in {<<>>} \cup {<<j>> : j \in Job}
  BY DEF PipeTypeOK
<1>5. worker[w].job = <<>> \/ Payloads(bench[w]) = <<>>
  BY PayloadsType DEF PoolInv, IdleInv
<1> QED
  BY <1>1, <1>2, <1>3, <1>4, <1>5, Zenon DEF OneOrNone

\* The messages that wait, oldest first.
Line(b, c, d, e) == b \o c \o d \o e

LineType(b, c, d, e) ==
  b \in Seq(Message) /\ c \in Seq(Message) /\ d \in Seq(Message) /\ e \in Seq(Message)

\* The line, place by place.
LEMMA LineIsCat ==
  ASSUME NEW b, NEW c, NEW d, NEW e
  PROVE  Line(b, c, d, e) = Cat(Cat(Cat(b, c), d), e)
BY DEF Line, Cat

\* A job that goes on to the next place, which is empty, keeps its place in line.
LEMMA LineMoves ==
  ASSUME NEW b, NEW c, NEW d, NEW e, LineType(b, c, d, e)
  PROVE  /\ Line(c, <<>>, d, e) = Line(<<>>, c, d, e)
         /\ Line(b, d, <<>>, e) = Line(b, <<>>, d, e)
         /\ Line(b, c, e, <<>>) = Line(b, c, <<>>, e)
<1>1. Cat(c, <<>>) = c /\ Cat(<<>>, c) = c
  BY CatLaws DEF LineType
<1>2. Cat(b, <<>>) = b /\ Cat(Cat(b, d), <<>>) = Cat(b, d)
  BY CatLaws DEF LineType
<1>3. /\ Cat(Cat(b, c), <<>>) = Cat(b, c)
      /\ Cat(Cat(Cat(b, c), e), <<>>) = Cat(Cat(b, c), e)
  BY CatLaws DEF LineType
<1> QED
  BY <1>1, <1>2, <1>3, LineIsCat

\* What BLPOP brings is the last in line.
LEMMA LineGrows ==
  ASSUME NEW b, NEW c, NEW d, NEW m \in Message, LineType(b, c, d, <<>>)
  PROVE  /\ Line(b, c, d, <<m>>) = Append(Line(b, c, d, <<>>), m)
         /\ Len(Line(b, c, d, <<>>)) = Len(b) + Len(c) + Len(d)
<1>1. PICK x \in Seq(Message) : x = Cat(Cat(b, c), d)
  BY CatLaws DEF LineType
<1>2. Cat(x, <<>>) = x
  BY CatLaws
<1>3. Cat(x, <<m>>) = Append(x, m)
  BY AppendIsConcat DEF Cat
<1>4. Len(Cat(Cat(b, c), d)) = Len(b) + Len(c) + Len(d)
  BY DEF Cat, LineType
<1> QED
  BY <1>1, <1>2, <1>3, <1>4, LineIsCat

\* The job on the bench is the first in line.
LEMMA LineFirst ==
  ASSUME NEW c, NEW d, NEW e, NEW m \in Message, LineType(<<>>, c, d, e)
  PROVE  /\ Line(<<m>>, c, d, e) # <<>>
         /\ Head(Line(<<m>>, c, d, e)) = m
         /\ Tail(Line(<<m>>, c, d, e)) = Line(<<>>, c, d, e)
<1>1. PICK x \in Seq(Message) : x = Cat(Cat(c, d), e)
  BY CatLaws DEF LineType
<1>2. Line(<<>>, c, d, e) = x
  BY <1>1, CatLaws, LineIsCat DEF LineType
<1>3. PICK y \in Seq(Message) : y = <<m>>
  <2>1. <<m>> \in Seq(Message)
    OBVIOUS
  <2> QED
    BY <2>1, Zenon
<1>4. Cat(Cat(Cat(y, c), d), e) = Cat(y, x)
  <2>1. Cat(Cat(y, c), d) = Cat(y, Cat(c, d))
    BY CatLaws DEF LineType
  <2>2. Cat(Cat(y, Cat(c, d)), e) = Cat(y, Cat(Cat(c, d), e))
    BY CatLaws DEF LineType
  <2> QED
    BY <1>1, <2>1, <2>2
<1>5. <<m>> \o x # <<>> /\ Head(<<m>> \o x) = m /\ Tail(<<m>> \o x) = x
  OBVIOUS
<1> QED
  BY <1>2, <1>3, <1>4, <1>5, LineIsCat, Zenon DEF Cat

\* A step of the pipeline is one of WorkQueue or does not show there.
LEMMA WorkStep ==
  ASSUME NEW w, Worker = {w}, PipeTypeOK, PoolInv, IdleInv, [PipeNext]_pipeVars
  PROVE  [Work!Next]_(Work!vars)
<1>1. PICK a, b, c, d, e, q :
        /\ a \in Seq(Message) /\ LineType(b, c, d, e) /\ OneOrNone(a, b, c, d, e)
        /\ a = worker[w].job /\ b = Payloads(bench[w]) /\ c = dispatcher.job
        /\ d = Payloads(results) /\ e = producer.job /\ q = queue /\ q \in Seq(Message)
  BY OneWorkerFlowType, OneJobEach, Zenon DEF FlowType, LineType
<1>0. /\ a = worker[w].job /\ b = Payloads(bench[w]) /\ c = dispatcher.job
      /\ d = Payloads(results) /\ e = producer.job
  BY <1>1, Zenon
<1>2. (CHOOSE v \in Worker : TRUE) = w
  OBVIOUS
<1>3. Popped = Line(b, c, d, e)
  BY <1>0, <1>2, Zenon DEF Popped, Line
<1>4. Popped' = Line(Payloads(bench'[w]), dispatcher'.job, Payloads(results'), producer'.job)
  BY <1>2, Zenon DEF Popped, Line, Payloads
<1>5. LineType(b, c, d, e)
  BY <1>1, Zenon
<1>6. ASSUME Popped' = Popped, worker'[w].job = a, queue' = queue
      PROVE  UNCHANGED Work!vars
  BY <1>0, <1>2, <1>6 DEF Work!vars
<1>7. CASE EnqueueMsg
  <2>1. sent + 1 \in Message
    BY <1>7, NextMessage DEF EnqueueMsg, PipeTypeOK
  <2>2. Popped' = Popped /\ worker' = worker
    BY <1>0, <1>3, <1>4, <1>7 DEF EnqueueMsg, poolVars
  <2>3. Work!Push(sent + 1)
    BY <1>7, <2>2 DEF EnqueueMsg, Work!Push
  <2> QED
    BY <2>1, <2>3 DEF Work!Next
<1>8. CASE Pops
  <2>1. e = <<>> /\ queue # <<>>
    BY <1>0, <1>8, Zenon DEF Pops
  <2>2. /\ worker' = worker /\ bench' = bench /\ dispatcher' = dispatcher
        /\ results' = results
    BY <1>8 DEF Pops
  <2>3. PICK m \in Message : m = Head(queue)
    BY <1>1, <2>1
  <2>4. producer'.job = <<m>> /\ queue' = Tail(queue)
    BY <1>8, <2>3, Zenon DEF Pops
  <2>5. LineType(b, c, d, <<>>)
    BY <1>5, <2>1
  <2>6. Popped' = Append(Popped, m) /\ Len(Popped) = Len(b) + Len(c) + Len(d)
    <3>1. Popped = Line(b, c, d, <<>>)
      BY <1>3, <2>1, Zenon
    <3>2. Popped' = Line(b, c, d, <<m>>)
      BY <1>0, <1>4, <2>2, <2>4, Zenon
    <3> QED
      BY <2>5, <3>1, <3>2, LineGrows
  <2>7. Len(Popped) + Len(a) < 4
    <3>1. OneOrNone(a, b, c, d, e) /\ a \in Seq(Message) /\ b \in Seq(Message)
      BY <1>1, <1>5, Zenon DEF LineType
    <3>2. Len(c) \in Nat /\ Len(d) \in Nat
      BY <1>5 DEF LineType
    <3> QED
      BY <2>6, <3>1, <3>2 DEF OneOrNone
  <2>8. Work!Pop
    BY <1>0, <1>2, <2>1, <2>2, <2>3, <2>4, <2>6, <2>7, Zenon DEF Work!Pop
  <2> QED
    BY <2>8 DEF Work!Next
<1>9. CASE SendResults
  <2>1. d = <<>> /\ Payloads(results') = e /\ producer'.job = <<>>
    BY <1>0, <1>9, PayloadsType DEF SendResults, PipeTypeOK
  <2>2. worker' = worker /\ queue' = queue /\ bench' = bench /\ dispatcher' = dispatcher
    BY <1>9 DEF SendResults, poolVars
  <2>3. Line(b, c, e, <<>>) = Line(b, c, <<>>, e)
    BY <1>5, LineMoves
  <2>4. Popped' = Popped
    BY <1>0, <1>3, <1>4, <2>1, <2>2, <2>3, Zenon
  <2> QED
    BY <1>0, <1>6, <2>2, <2>4, Zenon
<1>10. CASE ReceiveJob
  <2>1. c = <<>> /\ Payloads(results') = <<>> /\ dispatcher'.job = d
    BY <1>0, <1>10, PayloadsType DEF ReceiveJob, IdleInv, PipeTypeOK, Payloads
  <2>2. worker' = worker /\ queue' = queue /\ bench' = bench /\ producer' = producer
    BY <1>10 DEF ReceiveJob
  <2>3. Line(b, d, <<>>, e) = Line(b, <<>>, d, e)
    BY <1>5, LineMoves
  <2>4. Popped' = Popped
    BY <1>0, <1>3, <1>4, <2>1, <2>2, <2>3, Zenon
  <2> QED
    BY <1>0, <1>6, <2>2, <2>4, Zenon
<1>11. CASE TakeBench
  BY <1>0, <1>3, <1>4, <1>6, <1>11, Zenon DEF TakeBench
<1>12. CASE HandOver
  <2>1. dispatcher.to = w /\ dispatcher.job \in Job
    BY DEF PipeTypeOK
  <2>2. b = <<>> /\ Payloads(bench'[w]) = c /\ dispatcher'.job = <<>>
    BY <1>0, <1>12, <2>1, PayloadsType DEF HandOver, PipeTypeOK
  <2>3. worker' = worker /\ queue' = queue /\ results' = results /\ producer' = producer
    BY <1>12 DEF HandOver
  <2>4. Line(c, <<>>, d, e) = Line(<<>>, c, d, e)
    BY <1>5, LineMoves
  <2>5. Popped' = Popped
    BY <1>0, <1>3, <1>4, <2>2, <2>3, <2>4, Zenon
  <2> QED
    BY <1>0, <1>6, <2>3, <2>5, Zenon
<1>13. CASE TakeJob(w)
  <2>1. a = <<>>
    BY <1>0, <1>13 DEF TakeJob, IdleInv
  <2>2. worker'[w].job = b /\ Payloads(bench'[w]) = <<>> /\ b \in Job
    <3>1. bench'[w] = <<>> /\ bench[w] # <<>> /\ worker'[w].job = Head(bench[w])
      BY <1>13 DEF TakeJob, PipeTypeOK
    <3>2. \E j \in Job : bench[w] = <<j>>
      BY <3>1 DEF PipeTypeOK
    <3> QED
      BY <1>0, <3>1, <3>2, PayloadsType
  <2>3. Popped' = Line(<<>>, c, d, e) /\ queue' = queue
    BY <1>0, <1>4, <1>13, <2>2 DEF TakeJob
  <2>4. CASE b = <<>>
    BY <1>3, <1>6, <2>1, <2>2, <2>3, <2>4
  <2>5. ASSUME NEW m \in Message, b = <<m>> PROVE Work!Start
    <3>1. LineType(<<>>, c, d, e)
      BY <1>5, CatLaws DEF LineType
    <3>2. Popped # <<>> /\ Head(Popped) = m /\ Popped' = Tail(Popped)
      BY <1>3, <2>3, <2>5, <3>1, LineFirst
    <3> QED
      BY <1>0, <1>2, <2>1, <2>2, <2>3, <2>5, <3>2, Zenon DEF Work!Start
  <2> QED
    BY <2>2, <2>4, <2>5 DEF Job, Work!Next
<1>14. CASE Processed(w)
  <2>1. worker'[w].job = <<>>
    BY <1>14 DEF Processed, PipeTypeOK
  <2>2. Popped' = Popped /\ queue' = queue
    BY <1>0, <1>3, <1>4, <1>14 DEF Processed
  <2>3. Work!Finish
    BY <1>2, <2>1, <2>2 DEF Work!Finish
  <2> QED
    BY <2>3 DEF Work!Next
<1>15. CASE ReturnBench(w)
  <2>1. worker'[w].job = <<>> /\ a = <<>>
    BY <1>0, <1>15 DEF ReturnBench, PipeTypeOK, IdleInv
  <2> QED
    BY <1>0, <1>3, <1>4, <1>6, <1>15, <2>1 DEF ReturnBench
<1>16. CASE GetsNone
  <2>1. Popped' = Popped
    BY <1>0, <1>3, <1>4, <1>16 DEF GetsNone
  <2> QED
    BY <1>0, <1>6, <1>16, <2>1 DEF GetsNone
<1>17. CASE Demand \/ UNCHANGED pipeVars
  BY <1>0, <1>3, <1>4, <1>6, <1>17 DEF Demand, poolVars, pipeVars
<1>18. TakeDemand \/ ReadMsg \/ ReadFails => Pops \/ GetsNone
  BY ProducerReads
<1> QED
  BY <1>7, <1>8, <1>9, <1>10, <1>11, <1>12, <1>13, <1>14, <1>15, <1>16, <1>17, <1>18
     DEF PipeNext, Produce, Dispatch, TakeWork

-----------------------------------------------------------------------------
(* Messages in a pool of any size.                                         *)

\* Where a message can be: with a goroutine or in a channel, of which each worker
\* has one.
DonePlace == <<"done", "shared">>
HandPlace == <<"dispatcher", "shared">>
SendPlace == <<"results", "shared">>
ReadPlace == <<"producer", "shared">>
ListPlace == <<"list", "shared">>
RunPlace(w) == <<"worker", w>>
BenchPlace(w) == <<"bench", w>>

SharedPlace == {DonePlace, HandPlace, SendPlace, ReadPlace, ListPlace}

Place ==
  SharedPlace \cup {RunPlace(w) : w \in Worker} \cup {BenchPlace(w) : w \in Worker}

Of(s) == {s[i] : i \in 1 .. Len(s)}

\* The messages of every place, given the payloads that are there.
Spots(done, run, onBench, inHand, sending, read, list) ==
  [p \in Place |->
     CASE p[1] = "done"       -> Of(done)
       [] p[1] = "worker"     -> Of(run[p[2]])
       [] p[1] = "bench"      -> Of(onBench[p[2]])
       [] p[1] = "dispatcher" -> Of(inHand)
       [] p[1] = "results"    -> Of(sending)
       [] p[1] = "producer"   -> Of(read)
       [] p[1] = "list"       -> Of(list)]

Jobs == [w \in Worker |-> worker[w].job]
OnBench == [w \in Worker |-> Payloads(bench[w])]

Where ==
  Spots(processed, Jobs, OnBench, dispatcher.job, Payloads(results), producer.job, queue)

\* Each element of S is in one place, and nothing else is.
Spread(at, S) ==
  /\ \A n \in S : \E p \in Place : n \in at[p]
  /\ \A p \in Place : at[p] \subseteq S
  /\ \A p, q \in Place : p # q => at[p] \cap at[q] = {}

\* Each message sent is in one place, once: it is processed, or on its way, or
\* on the list.  (Outside of list and processed a place holds one at most.)
EachInOnePlace ==
  /\ Spread(Where, 1 .. sent)
  /\ Distinct(queue)
  /\ Distinct(processed)

\* What is where.
IsAt(at, dn, wk, bn, ds, rs, pr, ls) ==
  /\ at[DonePlace] = Of(dn)
  /\ at[HandPlace] = Of(ds)
  /\ at[SendPlace] = Of(rs)
  /\ at[ReadPlace] = Of(pr)
  /\ at[ListPlace] = Of(ls)
  /\ \A w \in Worker : at[RunPlace(w)] = Of(wk[w]) /\ at[BenchPlace(w)] = Of(bn[w])

\* The places, one by one.
LEMMA Places ==
  /\ DonePlace \in Place /\ HandPlace \in Place /\ SendPlace \in Place
  /\ ReadPlace \in Place /\ ListPlace \in Place
  /\ \A w \in Worker : RunPlace(w) \in Place /\ BenchPlace(w) \in Place
  /\ \A p \in Place :
       \/ p = DonePlace \/ p = HandPlace \/ p = SendPlace \/ p = ReadPlace \/ p = ListPlace
       \/ \E w \in Worker : p = RunPlace(w) \/ p = BenchPlace(w)
BY Zenon DEF Place, SharedPlace

\* Two that follow one another are not the same.
LEMMA PlacesDiffer ==
  /\ ListPlace # ReadPlace /\ ReadPlace # SendPlace /\ SendPlace # HandPlace
  /\ \A w \in Worker : /\ HandPlace # BenchPlace(w) /\ BenchPlace(w) # RunPlace(w)
                       /\ RunPlace(w) # DonePlace
BY DEF ListPlace, ReadPlace, SendPlace, HandPlace, DonePlace, BenchPlace, RunPlace

\* The definition of Spots, case by case.
LEMMA SpotsAre ==
  ASSUME NEW dn, NEW wk, NEW bn, NEW ds, NEW rs, NEW pr, NEW ls
  PROVE  IsAt(Spots(dn, wk, bn, ds, rs, pr, ls), dn, wk, bn, ds, rs, pr, ls)
<1> DEFINE at == Spots(dn, wk, bn, ds, rs, pr, ls)
<1>1. at[DonePlace] = Of(dn)
  BY Places DEF Spots, DonePlace
<1>2. at[HandPlace] = Of(ds)
  BY Places DEF Spots, HandPlace
<1>3. at[SendPlace] = Of(rs)
  BY Places DEF Spots, SendPlace
<1>4. at[ReadPlace] = Of(pr)
  BY Places DEF Spots, ReadPlace
<1>5. at[ListPlace] = Of(ls)
  BY Places DEF Spots, ListPlace
<1>6. ASSUME NEW w \in Worker
      PROVE  at[RunPlace(w)] = Of(wk[w]) /\ at[BenchPlace(w)] = Of(bn[w])
  <2>1. at[RunPlace(w)] = Of(wk[w])
    BY Places DEF Spots, RunPlace
  <2>2. at[BenchPlace(w)] = Of(bn[w])
    BY Places DEF Spots, BenchPlace
  <2> QED
    BY <2>1, <2>2
<1> HIDE DEF at
<1>7. IsAt(at, dn, wk, bn, ds, rs, pr, ls)
  BY <1>1, <1>2, <1>3, <1>4, <1>5, <1>6 DEF IsAt
<1> QED
  BY <1>7 DEF at

\* Something that goes from one place to another is still in one place.
LEMMA MovedSpread ==
  ASSUME NEW at, NEW to, NEW S, Spread(at, S),
         NEW x \in Place, NEW y \in Place, x # y, NEW J, J \subseteq at[x],
         to[x] = at[x] \ J, to[y] = at[y] \cup J,
         \A p \in Place : p # x /\ p # y => to[p] = at[p]
  PROVE  Spread(to, S)
<1>1. ASSUME NEW n \in S PROVE \E p \in Place : n \in to[p]
  <2>1. PICK p \in Place : n \in at[p]
    BY DEF Spread
  <2>2. CASE p = x /\ n \in J
    BY <2>1, <2>2
  <2>3. CASE p = x /\ n \notin J
    BY <2>1, <2>3
  <2>4. CASE p = y
    BY <2>1, <2>4
  <2>5. CASE p # x /\ p # y
    BY <2>1, <2>5
  <2> QED
    BY <2>2, <2>3, <2>4, <2>5
<1>2. ASSUME NEW p \in Place PROVE to[p] \subseteq S
  BY DEF Spread
<1>3. ASSUME NEW p \in Place, NEW q \in Place, p # q PROVE to[p] \cap to[q] = {}
  <2>1. \A r \in Place : r # x => at[r] \cap at[x] = {}
    BY DEF Spread
  <2>2. at[p] \cap at[q] = {}
    BY <1>3 DEF Spread
  <2>3. CASE p = y \/ q = y
    BY <1>3, <2>1, <2>2, <2>3
  <2>4. CASE p # y /\ q # y
    BY <1>3, <2>1, <2>2, <2>4
  <2> QED
    BY <2>3, <2>4
<1> QED
  BY <1>1, <1>2, <1>3 DEF Spread

\* at and to differ in the places x and y only: those in J left x for y.
Moved(at, to, x, y, J) ==
  /\ x \in Place /\ y \in Place /\ x # y
  /\ J \subseteq at[x] /\ to[x] = at[x] \ J /\ to[y] = at[y] \cup J
  /\ \A p \in Place : p # x /\ p # y => to[p] = at[p]

\* The lemma above, in one word.
LEMMA JobMoved ==
  ASSUME NEW at, NEW to, NEW S, NEW x, NEW y, NEW J, Spread(at, S), Moved(at, to, x, y, J)
  PROVE  Spread(to, S)
BY MovedSpread DEF Moved

\* The messages of a sequence.
LEMMA OfFew == Of(<<>>) = {} /\ \A m : Of(<<m>>) = {m}
BY DEF Of

\* And of longer ones.
LEMMA OfLaws ==
  /\ \A s, t \in Seq(Message) : Of(s \o t) = Of(s) \cup Of(t)
  /\ \A s \in Seq(Message), m \in Message : Of(Append(s, m)) = Of(s) \cup {m}
<1>1. ASSUME NEW s \in Seq(Message), NEW t \in Seq(Message)
      PROVE  Of(s \o t) = Of(s) \cup Of(t)
  <2>1. Len(s \o t) = Len(s) + Len(t) /\ Len(s) \in Nat /\ Len(t) \in Nat
    OBVIOUS
  <2>2. ASSUME NEW i \in 1 .. Len(s \o t)
        PROVE  (s \o t)[i] \in Of(s) \cup Of(t)
    <3>1. CASE i <= Len(s)
      BY <2>1, <3>1 DEF Of
    <3>2. CASE i > Len(s)
      <4>1. i - Len(s) \in 1 .. Len(t)
        BY <2>1, <3>2
      <4>2. (s \o t)[i] = t[i - Len(s)]
        BY <2>1, <3>2
      <4> QED
        BY <4>1, <4>2 DEF Of
    <3> QED
      BY <2>1, <3>1, <3>2
  <2>3. ASSUME NEW i \in 1 .. Len(s) PROVE s[i] \in Of(s \o t)
    <3>1. i \in 1 .. Len(s \o t) /\ (s \o t)[i] = s[i]
      BY <2>1
    <3> QED
      BY <3>1 DEF Of
  <2>4. ASSUME NEW i \in 1 .. Len(t) PROVE t[i] \in Of(s \o t)
    <3>1. i + Len(s) \in 1 .. Len(s \o t)
      BY <2>1
    <3>2. (s \o t)[i + Len(s)] = t[i]
      BY <2>1, <3>1
    <3> QED
      BY <3>1, <3>2 DEF Of
  <2>5. Of(s \o t) \subseteq Of(s) \cup Of(t)
    BY <2>2 DEF Of
  <2>6. Of(s) \subseteq Of(s \o t)
    BY <2>3 DEF Of
  <2>7. Of(t) \subseteq Of(s \o t)
    BY <2>4 DEF Of
  <2> QED
    BY <2>5, <2>6, <2>7, Zenon
<1>2. ASSUME NEW s \in Seq(Message), NEW m \in Message
      PROVE  Of(Append(s, m)) = Of(s) \cup {m}
  <2>1. <<m>> \in Seq(Message) /\ Append(s, m) = s \o <<m>>
    BY AppendIsConcat
  <2>2. Of(s \o <<m>>) = Of(s) \cup Of(<<m>>) /\ Of(<<m>>) = {m}
    BY <1>1, <2>1, OfFew, Zenon
  <2> QED
    BY <2>1, <2>2, Zenon
<1> QED
  BY <1>1, <1>2

\* What is left of a list without repetitions when its head is taken.
LEMMA OfTail ==
  ASSUME NEW s \in Seq(Message), s # <<>>, Distinct(s)
  PROVE  Head(s) \in Of(s) /\ Of(Tail(s)) = Of(s) \ {Head(s)} /\ Distinct(Tail(s))
<1>1. /\ Len(s) \in Nat /\ Len(Tail(s)) = Len(s) - 1
      /\ Head(s) = s[1] /\ 1 \in 1 .. Len(s)
      /\ \A i \in 1 .. Len(Tail(s)) : Tail(s)[i] = s[i + 1] /\ i + 1 \in 1 .. Len(s)
  BY SeqTail
<1>2. ASSUME NEW i \in 1 .. Len(Tail(s)) PROVE Tail(s)[i] \in Of(s) \ {Head(s)}
  <2>1. i + 1 # 1
    BY <1>1
  <2> QED
    BY <1>1, <2>1 DEF Of, Distinct
<1>3. ASSUME NEW i \in 1 .. Len(s), s[i] # Head(s) PROVE s[i] \in Of(Tail(s))
  <2>1. i # 1
    BY <1>1, <1>3
  <2>2. i - 1 \in 1 .. Len(Tail(s)) /\ (i - 1) + 1 = i
    BY <1>1, <2>1
  <2>3. Tail(s)[i - 1] = s[i]
    BY <1>1, <2>2
  <2> QED
    BY <2>2, <2>3 DEF Of
<1>4. Head(s) \in Of(s)
  BY <1>1 DEF Of
<1>5. Of(Tail(s)) \subseteq Of(s) \ {Head(s)}
  BY <1>2 DEF Of
<1>6. Of(s) \ {Head(s)} \subseteq Of(Tail(s))
  BY <1>3 DEF Of
<1> QED
  BY <1>4, <1>5, <1>6, DistinctTail

\* The jobs of the pool, one for each worker, where only that of w differs.
OnlyAt(w, f, g) == \A v \in Worker : v # w => g[v] = f[v]

\* A job that goes on to the next place, as in the flow of a pool of one.

\* The producer sent it,
LEMMA SpotsSent ==
  ASSUME NEW dn, NEW wk, NEW bn, NEW ds, NEW pr, NEW ls, NEW S,
         Spread(Spots(dn, wk, bn, ds, <<>>, pr, ls), S)
  PROVE  Spread(Spots(dn, wk, bn, ds, pr, <<>>, ls), S)
<1> DEFINE at == Spots(dn, wk, bn, ds, <<>>, pr, ls)
           to == Spots(dn, wk, bn, ds, pr, <<>>, ls)
           x == ReadPlace
           y == SendPlace
<1>1. IsAt(at, dn, wk, bn, ds, <<>>, pr, ls) /\ IsAt(to, dn, wk, bn, ds, pr, <<>>, ls)
  BY SpotsAre
<1>2. x \in Place /\ y \in Place /\ x # y
  BY Places, PlacesDiffer, Zenon
<1>3. Spread(at, S)
  OBVIOUS
<1> HIDE DEF at, to
<1>4. ASSUME NEW p \in Place, p # x, p # y PROVE to[p] = at[p]
  <2>1. CASE p = DonePlace \/ p = HandPlace \/ p = SendPlace \/ p = ReadPlace \/ p = ListPlace
    BY <1>1, <1>4, <2>1 DEF IsAt
  <2>2. ASSUME NEW v \in Worker, p = RunPlace(v) PROVE to[p] = at[p]
    BY <1>1, <1>4, <2>2 DEF IsAt
  <2>3. ASSUME NEW v \in Worker, p = BenchPlace(v) PROVE to[p] = at[p]
    BY <1>1, <1>4, <2>3 DEF IsAt
  <2> QED
    BY <2>1, <2>2, <2>3, Places
<1>5. to[x] = {} /\ to[y] = at[y] \cup at[x]
  BY <1>1, OfFew DEF IsAt
<1> HIDE DEF x, y
<1>6. PICK J : J = at[x]
  BY Zenon
<1>7. Moved(at, to, x, y, J)
  BY <1>2, <1>4, <1>5, <1>6 DEF Moved
<1>8. Spread(to, S)
  BY <1>3, <1>7, JobMoved
<1> QED
  BY <1>8 DEF to

\* the dispatcher received it,
LEMMA SpotsReceived ==
  ASSUME NEW dn, NEW wk, NEW bn, NEW rs, NEW pr, NEW ls, NEW S,
         Spread(Spots(dn, wk, bn, <<>>, rs, pr, ls), S)
  PROVE  Spread(Spots(dn, wk, bn, rs, <<>>, pr, ls), S)
<1> DEFINE at == Spots(dn, wk, bn, <<>>, rs, pr, ls)
           to == Spots(dn, wk, bn, rs, <<>>, pr, ls)
           x == SendPlace
           y == HandPlace
<1>1. IsAt(at, dn, wk, bn, <<>>, rs, pr, ls) /\ IsAt(to, dn, wk, bn, rs, <<>>, pr, ls)
  BY SpotsAre
<1>2. x \in Place /\ y \in Place /\ x # y
  BY Places, PlacesDiffer, Zenon
<1>3. Spread(at, S)
  OBVIOUS
<1> HIDE DEF at, to
<1>4. ASSUME NEW p \in Place, p # x, p # y PROVE to[p] = at[p]
  <2>1. CASE p = DonePlace \/ p = HandPlace \/ p = SendPlace \/ p = ReadPlace \/ p = ListPlace
    BY <1>1, <1>4, <2>1 DEF IsAt
  <2>2. ASSUME NEW v \in Worker, p = RunPlace(v) PROVE to[p] = at[p]
    BY <1>1, <1>4, <2>2 DEF IsAt
  <2>3. ASSUME NEW v \in Worker, p = BenchPlace(v) PROVE to[p] = at[p]
    BY <1>1, <1>4, <2>3 DEF IsAt
  <2> QED
    BY <2>1, <2>2, <2>3, Places
<1>5. to[x] = {} /\ to[y] = at[y] \cup at[x]
  BY <1>1, OfFew DEF IsAt
<1> HIDE DEF x, y
<1>6. PICK J : J = at[x]
  BY Zenon
<1>7. Moved(at, to, x, y, J)
  BY <1>2, <1>4, <1>5, <1>6 DEF Moved
<1>8. Spread(to, S)
  BY <1>3, <1>7, JobMoved
<1> QED
  BY <1>8 DEF to

\* put it on the bench of w,
LEMMA SpotsHandedOver ==
  ASSUME NEW dn, NEW wk, NEW bn, NEW ds, NEW rs, NEW pr, NEW ls, NEW S,
         Spread(Spots(dn, wk, bn, ds, rs, pr, ls), S),
         NEW w \in Worker, NEW bn2, bn[w] = <<>>, bn2[w] = ds, OnlyAt(w, bn, bn2)
  PROVE  Spread(Spots(dn, wk, bn2, <<>>, rs, pr, ls), S)
<1> DEFINE at == Spots(dn, wk, bn, ds, rs, pr, ls)
           to == Spots(dn, wk, bn2, <<>>, rs, pr, ls)
           x == HandPlace
           y == BenchPlace(w)
<1>1. IsAt(at, dn, wk, bn, ds, rs, pr, ls) /\ IsAt(to, dn, wk, bn2, <<>>, rs, pr, ls)
  BY SpotsAre
<1>2. x \in Place /\ y \in Place /\ x # y
  BY Places, PlacesDiffer, Zenon
<1>3. Spread(at, S)
  OBVIOUS
<1> HIDE DEF at, to
<1>4. ASSUME NEW p \in Place, p # x, p # y PROVE to[p] = at[p]
  <2>1. CASE p = DonePlace \/ p = HandPlace \/ p = SendPlace \/ p = ReadPlace \/ p = ListPlace
    BY <1>1, <1>4, <2>1 DEF IsAt
  <2>2. ASSUME NEW v \in Worker, p = RunPlace(v) PROVE to[p] = at[p]
    BY <1>1, <1>4, <2>2 DEF IsAt, OnlyAt
  <2>3. ASSUME NEW v \in Worker, p = BenchPlace(v) PROVE to[p] = at[p]
    BY <1>1, <1>4, <2>3 DEF IsAt, OnlyAt
  <2> QED
    BY <2>1, <2>2, <2>3, Places
<1>5. to[x] = {} /\ to[y] = at[y] \cup at[x]
  BY <1>1, OfFew DEF IsAt
<1> HIDE DEF x, y
<1>6. PICK J : J = at[x]
  BY Zenon
<1>7. Moved(at, to, x, y, J)
  BY <1>2, <1>4, <1>5, <1>6, Zenon DEF Moved
<1>8. Spread(to, S)
  BY <1>3, <1>7, JobMoved
<1> QED
  BY <1>8 DEF to

\* the worker took it,
LEMMA SpotsTaken ==
  ASSUME NEW dn, NEW wk, NEW bn, NEW ds, NEW rs, NEW pr, NEW ls, NEW S,
         Spread(Spots(dn, wk, bn, ds, rs, pr, ls), S),
         NEW w \in Worker, NEW wk2, wk[w] = <<>>, wk2[w] = bn[w], OnlyAt(w, wk, wk2),
         NEW bn2, bn2[w] = <<>>, OnlyAt(w, bn, bn2)
  PROVE  Spread(Spots(dn, wk2, bn2, ds, rs, pr, ls), S)
<1> DEFINE at == Spots(dn, wk, bn, ds, rs, pr, ls)
           to == Spots(dn, wk2, bn2, ds, rs, pr, ls)
           x == BenchPlace(w)
           y == RunPlace(w)
<1>1. IsAt(at, dn, wk, bn, ds, rs, pr, ls) /\ IsAt(to, dn, wk2, bn2, ds, rs, pr, ls)
  BY SpotsAre
<1>2. x \in Place /\ y \in Place /\ x # y
  BY Places, PlacesDiffer, Zenon
<1>3. Spread(at, S)
  BY Zenon
<1> HIDE DEF at, to
<1>4. ASSUME NEW p \in Place, p # x, p # y PROVE to[p] = at[p]
  <2>1. CASE p = DonePlace \/ p = HandPlace \/ p = SendPlace \/ p = ReadPlace \/ p = ListPlace
    BY <1>1, <1>4, <2>1 DEF IsAt
  <2>2. ASSUME NEW v \in Worker, p = RunPlace(v) PROVE to[p] = at[p]
    BY <1>1, <1>4, <2>2 DEF IsAt, OnlyAt
  <2>3. ASSUME NEW v \in Worker, p = BenchPlace(v) PROVE to[p] = at[p]
    BY <1>1, <1>4, <2>3 DEF IsAt, OnlyAt
  <2> QED
    BY <2>1, <2>2, <2>3, Places
<1>5. to[x] = {} /\ to[y] = at[y] \cup at[x]
  BY <1>1, OfFew DEF IsAt
<1> HIDE DEF x, y
<1>6. PICK J : J = at[x]
  BY Zenon
<1>7. Moved(at, to, x, y, J)
  BY <1>2, <1>4, <1>5, <1>6, Zenon DEF Moved
<1>8. Spread(to, S)
  BY <1>3, <1>7, JobMoved
<1> QED
  BY <1>8 DEF to

\* and it is processed.
LEMMA SpotsProcessed ==
  ASSUME NEW dn \in Seq(Message), NEW wk, NEW bn, NEW ds, NEW rs, NEW pr, NEW ls, NEW S,
         Spread(Spots(dn, wk, bn, ds, rs, pr, ls), S),
         NEW w \in Worker, wk[w] \in Seq(Message),
         NEW wk2, wk2[w] = <<>>, OnlyAt(w, wk, wk2)
  PROVE  Spread(Spots(dn \o wk[w], wk2, bn, ds, rs, pr, ls), S)
<1> DEFINE at == Spots(dn, wk, bn, ds, rs, pr, ls)
           to == Spots(dn \o wk[w], wk2, bn, ds, rs, pr, ls)
           x == RunPlace(w)
           y == DonePlace
<1>1. IsAt(at, dn, wk, bn, ds, rs, pr, ls) /\ IsAt(to, dn \o wk[w], wk2, bn, ds, rs, pr, ls)
  BY SpotsAre
<1>2. x \in Place /\ y \in Place /\ x # y
  BY Places, PlacesDiffer, Zenon
<1>3. Spread(at, S)
  OBVIOUS
<1> HIDE DEF at, to
<1>4. ASSUME NEW p \in Place, p # x, p # y PROVE to[p] = at[p]
  <2>1. CASE p = DonePlace \/ p = HandPlace \/ p = SendPlace \/ p = ReadPlace \/ p = ListPlace
    BY <1>1, <1>4, <2>1 DEF IsAt
  <2>2. ASSUME NEW v \in Worker, p = RunPlace(v) PROVE to[p] = at[p]
    BY <1>1, <1>4, <2>2 DEF IsAt, OnlyAt
  <2>3. ASSUME NEW v \in Worker, p = BenchPlace(v) PROVE to[p] = at[p]
    BY <1>1, <1>4, <2>3 DEF IsAt, OnlyAt
  <2> QED
    BY <2>1, <2>2, <2>3, Places
<1>5. to[x] = {} /\ to[y] = at[y] \cup at[x]
  <2>1. at[x] = Of(wk[w]) /\ to[x] = Of(<<>>) /\ at[y] = Of(dn) /\ to[y] = Of(dn \o wk[w])
    BY <1>1 DEF IsAt
  <2>2. Of(<<>>) = {}
    BY OfFew
  <2>3. Of(dn \o wk[w]) = Of(dn) \cup Of(wk[w])
    BY OfLaws
  <2> QED
    BY <2>1, <2>2, <2>3, Zenon
<1> HIDE DEF x, y
<1>6. PICK J : J = at[x]
  BY Zenon
<1>7. Moved(at, to, x, y, J)
  BY <1>2, <1>4, <1>5, <1>6 DEF Moved
<1>8. Spread(to, S)
  BY <1>3, <1>7, JobMoved
<1> QED
  BY <1>8 DEF to

\* BLPOP takes it from the list to the producer.
LEMMA SpotsPop ==
  ASSUME NEW dn, NEW wk, NEW bn, NEW ds, NEW rs, NEW ls \in Seq(Message), NEW S,
         Spread(Spots(dn, wk, bn, ds, rs, <<>>, ls), S), ls # <<>>, Distinct(ls)
  PROVE  Spread(Spots(dn, wk, bn, ds, rs, <<Head(ls)>>, Tail(ls)), S)
<1> DEFINE at == Spots(dn, wk, bn, ds, rs, <<>>, ls)
           to == Spots(dn, wk, bn, ds, rs, <<Head(ls)>>, Tail(ls))
           x == ListPlace
           y == ReadPlace
<1>1. IsAt(at, dn, wk, bn, ds, rs, <<>>, ls) /\ IsAt(to, dn, wk, bn, ds, rs, <<Head(ls)>>, Tail(ls))
  BY SpotsAre
<1>2. x \in Place /\ y \in Place /\ x # y
  BY Places, PlacesDiffer, Zenon
<1>3. Spread(at, S)
  OBVIOUS
<1> HIDE DEF at, to
<1>4. ASSUME NEW p \in Place, p # x, p # y PROVE to[p] = at[p]
  <2>1. CASE p = DonePlace \/ p = HandPlace \/ p = SendPlace \/ p = ReadPlace \/ p = ListPlace
    BY <1>1, <1>4, <2>1 DEF IsAt
  <2>2. ASSUME NEW v \in Worker, p = RunPlace(v) PROVE to[p] = at[p]
    BY <1>1, <1>4, <2>2 DEF IsAt
  <2>3. ASSUME NEW v \in Worker, p = BenchPlace(v) PROVE to[p] = at[p]
    BY <1>1, <1>4, <2>3 DEF IsAt
  <2> QED
    BY <2>1, <2>2, <2>3, Places
<1>5. /\ Head(ls) \in at[x] /\ to[x] = at[x] \ {Head(ls)}
      /\ to[y] = at[y] \cup {Head(ls)}
  <2>1. at[x] = Of(ls) /\ to[x] = Of(Tail(ls)) /\ at[y] = Of(<<>>) /\ to[y] = Of(<<Head(ls)>>)
    BY <1>1 DEF IsAt
  <2>2. Head(ls) \in Of(ls) /\ Of(Tail(ls)) = Of(ls) \ {Head(ls)}
    BY OfTail
  <2>3. Of(<<>>) = {} /\ Of(<<Head(ls)>>) = {Head(ls)}
    BY OfFew
  <2> QED
    BY <2>1, <2>2, <2>3, Zenon
<1> HIDE DEF x, y
<1>6. PICK J : J = {Head(ls)}
  BY Zenon
<1>7. Moved(at, to, x, y, J)
  BY <1>2, <1>4, <1>5, <1>6 DEF Moved
<1>8. Spread(to, S)
  BY <1>3, <1>7, JobMoved
<1> QED
  BY <1>8 DEF to

\* RPUSH puts it at the end of the list.
LEMMA SpotsPush ==
  ASSUME NEW dn, NEW wk, NEW bn, NEW ds, NEW rs, NEW pr, NEW ls \in Seq(Message), NEW S,
         Spread(Spots(dn, wk, bn, ds, rs, pr, ls), S), NEW m \in Message, m \notin S
  PROVE  Spread(Spots(dn, wk, bn, ds, rs, pr, Append(ls, m)), S \cup {m})
<1> DEFINE at == Spots(dn, wk, bn, ds, rs, pr, ls)
           to == Spots(dn, wk, bn, ds, rs, pr, Append(ls, m))
           x == ListPlace
<1>0. IsAt(at, dn, wk, bn, ds, rs, pr, ls) /\ IsAt(to, dn, wk, bn, ds, rs, pr, Append(ls, m))
  BY SpotsAre
<1>3. x \in Place
  BY Places
<1>4. Spread(at, S)
  OBVIOUS
<1> HIDE DEF at, to
<1>1. to[x] = at[x] \cup {m}
  BY <1>0, OfLaws DEF IsAt
<1>2. ASSUME NEW p \in Place, p # x PROVE to[p] = at[p]
  <2>1. CASE p = DonePlace \/ p = HandPlace \/ p = SendPlace \/ p = ReadPlace \/ p = ListPlace
    BY <1>0, <1>2, <2>1 DEF IsAt
  <2>2. ASSUME NEW v \in Worker, p = RunPlace(v) PROVE to[p] = at[p]
    BY <1>0, <1>2, <2>2 DEF IsAt
  <2>3. ASSUME NEW v \in Worker, p = BenchPlace(v) PROVE to[p] = at[p]
    BY <1>0, <1>2, <2>3 DEF IsAt
  <2> QED
    BY <2>1, <2>2, <2>3, Places
<1> HIDE DEF x
<1>5. ASSUME NEW n \in S \cup {m} PROVE \E p \in Place : n \in to[p]
  BY <1>1, <1>2, <1>3, <1>4 DEF Spread
<1>6. ASSUME NEW p \in Place PROVE to[p] \subseteq S \cup {m}
  BY <1>1, <1>2, <1>4 DEF Spread
<1>7. ASSUME NEW p \in Place, NEW q \in Place, p # q PROVE to[p] \cap to[q] = {}
  <2>1. at[p] \cap at[q] = {} /\ m \notin at[p] /\ m \notin at[q]
    BY <1>4, <1>7, Zenon DEF Spread
  <2> QED
    BY <1>1, <1>2, <1>7, <2>1
<1>8. Spread(to, S \cup {m})
  BY <1>5, <1>6, <1>7 DEF Spread
<1> QED
  BY <1>8 DEF to

\* Every step takes a message from one place to another, or leaves all where
\* they are.
LEMMA EachStep ==
  ASSUME PipeTypeOK, IdleInv, EachInOnePlace, [PipeNext]_pipeVars
  PROVE  EachInOnePlace'
<1>1. PICK dn, wk, bn, ds, rs, pr, ls :
        /\ dn = processed /\ wk = Jobs /\ bn = OnBench /\ ds = dispatcher.job
        /\ rs = Payloads(results) /\ pr = producer.job /\ ls = queue
  BY Zenon
<1> dn \in Seq(Message) /\ ls \in Seq(Message)
  BY <1>1 DEF PipeTypeOK
<1>2. Spread(Spots(dn, wk, bn, ds, rs, pr, ls), 1 .. sent) /\ Distinct(ls) /\ Distinct(dn)
  BY <1>1 DEF EachInOnePlace, Where
<1>3. \A w \in Worker : wk[w] = worker[w].job /\ bn[w] = Payloads(bench[w])
  BY <1>1 DEF Jobs, OnBench
<1>4. Where' = Spots(processed', Jobs', OnBench', dispatcher'.job, Payloads(results'),
                     producer'.job, queue')
  BY DEF Where, Payloads
<1>5. /\ worker' = worker => Jobs' = wk
      /\ bench' = bench => OnBench' = bn
  BY <1>1 DEF Jobs, OnBench, Payloads
<1>6. CASE EnqueueMsg
  <2>1. sent \in Nat /\ sent + 1 \in Message
    BY <1>6, NextMessage, PipelineAssumption DEF EnqueueMsg, PipeTypeOK
  <2>2. sent + 1 \notin 1 .. sent /\ 1 .. sent + 1 = (1 .. sent) \cup {sent + 1}
    BY <2>1
  <2>3. Spread(Spots(dn, wk, bn, ds, rs, pr, Append(ls, sent + 1)), 1 .. sent + 1)
    <3>1. PICK S, m : S = 1 .. sent /\ m = sent + 1
      BY Zenon
    <3> m \in Message
      BY <2>1, <3>1
    <3>2. Spread(Spots(dn, wk, bn, ds, rs, pr, ls), S) /\ m \notin S
      BY <1>2, <2>2, <3>1, Zenon
    <3>3. Spread(Spots(dn, wk, bn, ds, rs, pr, Append(ls, m)), S \cup {m})
      BY <3>2, SpotsPush
    <3> QED
      BY <2>2, <3>1, <3>3, Zenon
  <2>4. Distinct(Append(ls, sent + 1))
    <3>1. IsAt(Spots(dn, wk, bn, ds, rs, pr, ls), dn, wk, bn, ds, rs, pr, ls)
      BY SpotsAre
    <3>2. Of(ls) \subseteq 1 .. sent
      BY <1>2, <3>1, Places, Zenon DEF IsAt, Spread
    <3>3. \A i \in 1 .. Len(ls) : ls[i] # sent + 1
      BY <2>2, <3>2 DEF Of
    <3> QED
      BY <1>2, <2>1, <3>3, DistinctAppend
  <2>5. /\ sent' = sent + 1 /\ queue' = Append(ls, sent + 1) /\ worker' = worker
        /\ bench' = bench /\ dispatcher' = dispatcher /\ results' = results
        /\ producer' = producer /\ processed' = processed
    BY <1>1, <1>6 DEF EnqueueMsg, poolVars
  <2> QED
    BY <1>1, <1>2, <1>4, <1>5, <2>3, <2>4, <2>5, Zenon DEF EachInOnePlace
<1>7. ASSUME sent' = sent, Spread(Where', 1 .. sent), Distinct(queue'), Distinct(processed')
      PROVE  EachInOnePlace'
  BY <1>7 DEF EachInOnePlace
<1>8. CASE Pops
  <2>1. /\ sent' = sent /\ processed' = dn /\ worker' = worker /\ bench' = bench
        /\ dispatcher' = dispatcher /\ results' = results
    BY <1>1, <1>8 DEF Pops
  <2>2. pr = <<>>
    BY <1>1, <1>8, Zenon DEF Pops
  <2>3. producer'.job = <<Head(ls)>> /\ queue' = Tail(ls) /\ ls # <<>>
    BY <1>1, <1>8, Zenon DEF Pops
  <2>4. Spread(Spots(dn, wk, bn, ds, rs, <<Head(ls)>>, Tail(ls)), 1 .. sent)
    BY <1>2, <2>2, <2>3, SpotsPop
  <2>5. Distinct(Tail(ls))
    BY <1>2, <2>3, DistinctTail
  <2> QED
    BY <1>1, <1>2, <1>4, <1>5, <1>7, <2>1, <2>3, <2>4, <2>5, Zenon
<1>9. CASE SendResults
  <2>1. rs = <<>> /\ Payloads(results') = pr /\ producer'.job = <<>>
    <3>1. results = <<>> /\ results' = <<producer.job>> /\ producer'.job = <<>>
      BY <1>9 DEF SendResults
    <3>2. producer.job \in Job
      BY DEF PipeTypeOK
    <3> QED
      BY <1>1, <3>1, <3>2, PayloadsType
  <2>2. /\ sent' = sent /\ processed' = processed /\ worker' = worker /\ bench' = bench
        /\ dispatcher' = dispatcher /\ queue' = queue
    BY <1>9 DEF SendResults, poolVars
  <2>3. Spread(Spots(dn, wk, bn, ds, pr, <<>>, ls), 1 .. sent)
    BY <1>2, <2>1, SpotsSent
  <2> QED
    BY <1>1, <1>2, <1>4, <1>5, <1>7, <2>1, <2>2, <2>3, Zenon
<1>10. CASE ReceiveJob
  <2>1. ds = <<>> /\ Payloads(results') = <<>> /\ dispatcher'.job = rs
    <3>1. ds = <<>> /\ results' = <<>>
      BY <1>1, <1>10 DEF ReceiveJob, IdleInv
    <3>2. dispatcher'.job = IF results = <<>> THEN <<>> ELSE Head(results)
      BY <1>10 DEF ReceiveJob
    <3> QED
      BY <1>1, <3>1, <3>2 DEF Payloads
  <2>2. /\ sent' = sent /\ processed' = processed /\ worker' = worker /\ bench' = bench
        /\ producer' = producer /\ queue' = queue
    BY <1>10 DEF ReceiveJob
  <2>3. Spread(Spots(dn, wk, bn, rs, <<>>, pr, ls), 1 .. sent)
    BY <1>2, <2>1, SpotsReceived
  <2> QED
    BY <1>1, <1>2, <1>4, <1>5, <1>7, <2>1, <2>2, <2>3, Zenon
<1>11. CASE TakeBench
  <2>1. /\ sent' = sent /\ processed' = processed /\ worker' = worker /\ bench' = bench
        /\ producer' = producer /\ queue' = queue /\ results' = results
        /\ dispatcher'.job = dispatcher.job
    BY <1>11 DEF TakeBench
  <2> QED
    BY <1>1, <1>2, <1>4, <1>5, <1>7, <2>1, Zenon
<1>12. CASE HandOver
  <2>1. PICK w \in Worker : w = dispatcher.to
    BY DEF PipeTypeOK
  <2>2. dispatcher'.job = <<>>
    BY <1>12 DEF HandOver
  <2>3. /\ sent' = sent /\ processed' = processed /\ worker' = worker
        /\ producer' = producer /\ queue' = queue /\ results' = results
    BY <1>12 DEF HandOver
  <2>4. PICK bn2 : bn2 = OnBench'
    OBVIOUS
  <2>5. bn[w] = <<>> /\ bn2[w] = ds /\ OnlyAt(w, bn, bn2)
    <3>1. bench[w] = <<>> /\ bench'[w] = <<dispatcher.job>> /\ dispatcher.job \in Job
      BY <1>12, <2>1 DEF HandOver, PipeTypeOK
    <3>2. \A v \in Worker : v # w => bench'[v] = bench[v]
      BY <1>12, <2>1 DEF HandOver, PipeTypeOK
    <3>3. \A v \in Worker : bn2[v] = Payloads(bench'[v])
      BY <2>4 DEF OnBench, Payloads
    <3> QED
      BY <1>1, <1>3, <3>1, <3>2, <3>3, PayloadsType, Zenon DEF OnlyAt
  <2>6. Spread(Spots(dn, wk, bn2, <<>>, rs, pr, ls), 1 .. sent)
    BY <1>2, <2>5, SpotsHandedOver
  <2> QED
    BY <1>1, <1>2, <1>4, <1>5, <1>7, <2>2, <2>3, <2>4, <2>6, Zenon
<1>13. ASSUME NEW w \in Worker, TakeJob(w) PROVE EachInOnePlace'
  <2>1. PICK wk2, bn2 : wk2 = Jobs' /\ bn2 = OnBench'
    OBVIOUS
  <2>2. /\ sent' = sent /\ processed' = processed /\ dispatcher' = dispatcher
        /\ producer' = producer /\ queue' = queue /\ results' = results
    BY <1>13 DEF TakeJob
  <2>3. \A v \in Worker : wk2[v] = worker'[v].job /\ bn2[v] = Payloads(bench'[v])
    BY <2>1 DEF Jobs, OnBench, Payloads
  <2>4. wk[w] = <<>> /\ wk2[w] = bn[w] /\ OnlyAt(w, wk, wk2)
    <3>1. worker[w].job = <<>>
      BY <1>13 DEF TakeJob, IdleInv
    <3>2. worker'[w].job = Payloads(bench[w])
      BY <1>13 DEF TakeJob, PipeTypeOK, Payloads
    <3>3. \A v \in Worker : v # w => worker'[v] = worker[v]
      BY <1>13 DEF TakeJob, PipeTypeOK
    <3> QED
      BY <1>3, <2>3, <3>1, <3>2, <3>3 DEF OnlyAt
  <2>5. bn2[w] = <<>> /\ OnlyAt(w, bn, bn2)
    <3>1. bench'[w] = <<>> /\ \A v \in Worker : v # w => bench'[v] = bench[v]
      BY <1>13 DEF TakeJob, PipeTypeOK
    <3> QED
      BY <1>3, <2>3, <3>1, PayloadsType DEF OnlyAt
  <2>6. Spread(Spots(dn, wk2, bn2, ds, rs, pr, ls), 1 .. sent)
    BY <1>2, <2>4, <2>5, SpotsTaken
  <2> QED
    BY <1>1, <1>2, <1>4, <1>7, <2>1, <2>2, <2>6, Zenon
<1>14. ASSUME NEW w \in Worker, Processed(w) PROVE EachInOnePlace'
  <2>1. PICK wk2 : wk2 = Jobs'
    OBVIOUS
  <2>2. /\ sent' = sent /\ bench' = bench /\ dispatcher' = dispatcher
        /\ producer' = producer /\ queue' = queue /\ results' = results
        /\ processed' = dn \o wk[w]
    BY <1>1, <1>3, <1>14, Zenon DEF Processed
  <2>3. wk2[w] = <<>> /\ OnlyAt(w, wk, wk2)
    <3>1. worker'[w].job = <<>> /\ \A v \in Worker : v # w => worker'[v] = worker[v]
      BY <1>14 DEF Processed, PipeTypeOK
    <3>2. \A v \in Worker : wk2[v] = worker'[v].job
      BY <2>1 DEF Jobs
    <3> QED
      BY <1>3, <3>1, <3>2 DEF OnlyAt
  <2>4. wk[w] \in Job
    BY <1>3 DEF PipeTypeOK
  <2>5. Spread(Spots(dn \o wk[w], wk2, bn, ds, rs, pr, ls), 1 .. sent)
    BY <1>2, <2>3, <2>4, JobTypes, SpotsProcessed
  <2>6. Distinct(dn \o wk[w])
    <3>1. CASE wk[w] = <<>>
      <4>1. dn \o wk[w] = dn
        BY <3>1
      <4> QED
        BY <1>2, <4>1
    <3>2. ASSUME NEW m \in Message, wk[w] = <<m>> PROVE Distinct(dn \o wk[w])
      <4>1. IsAt(Spots(dn, wk, bn, ds, rs, pr, ls), dn, wk, bn, ds, rs, pr, ls)
        BY SpotsAre
      <4>2. Of(dn) \cap Of(wk[w]) = {}
        BY <1>2, <4>1, Places, PlacesDiffer, Zenon DEF IsAt, Spread
      <4>3. m \in Of(wk[w])
        BY <3>2, OfFew
      <4>4. \A i \in 1 .. Len(dn) : dn[i] # m
        BY <4>2, <4>3 DEF Of
      <4>5. Distinct(Append(dn, m))
        BY <1>2, <4>4, DistinctAppend
      <4>6. dn \o wk[w] = Append(dn, m)
        BY <3>2, AppendIsConcat
      <4> QED
        BY <4>5, <4>6
    <3> QED
      BY <2>4, <3>1, <3>2 DEF Job
  <2> QED
    BY <1>1, <1>2, <1>4, <1>5, <1>7, <2>1, <2>2, <2>5, <2>6, Zenon
<1>15. ASSUME NEW w \in Worker, ReturnBench(w) PROVE EachInOnePlace'
  <2>1. /\ sent' = sent /\ bench' = bench /\ dispatcher' = dispatcher /\ results' = results
        /\ producer' = producer /\ queue' = queue /\ processed' = processed
    BY <1>15 DEF ReturnBench
  <2>2. \A v \in Worker : worker'[v].job = worker[v].job
    <3>1. worker[w].job = <<>> /\ worker'[w].job = <<>>
      BY <1>15 DEF ReturnBench, PipeTypeOK, IdleInv
    <3>2. \A v \in Worker : v # w => worker'[v] = worker[v]
      BY <1>15 DEF ReturnBench, PipeTypeOK
    <3> QED
      BY <3>1, <3>2
  <2>3. Jobs' = wk
    BY <1>1, <2>2 DEF Jobs
  <2> QED
    BY <1>1, <1>2, <1>4, <1>5, <1>7, <2>1, <2>3, Zenon
<1>16. CASE GetsNone
  <2>1. producer'.job = pr
    BY <1>1, <1>16, Zenon DEF GetsNone
  <2>2. /\ sent' = sent /\ bench' = bench /\ dispatcher' = dispatcher /\ results' = results
        /\ worker' = worker /\ queue' = queue /\ processed' = processed
    BY <1>16 DEF GetsNone
  <2> QED
    BY <1>1, <1>2, <1>4, <1>5, <1>7, <2>1, <2>2, Zenon
<1>17. CASE Demand \/ UNCHANGED pipeVars
  <2>1. /\ sent' = sent /\ bench' = bench /\ dispatcher' = dispatcher /\ results' = results
        /\ worker' = worker /\ queue' = queue /\ processed' = processed /\ producer' = producer
    BY <1>17 DEF Demand, poolVars, pipeVars
  <2> QED
    BY <1>1, <1>2, <1>4, <1>5, <1>7, <2>1, Zenon
<1>18. TakeDemand \/ ReadMsg \/ ReadFails => Pops \/ GetsNone
  BY ProducerReads
<1> QED
  BY <1>6, <1>8, <1>9, <1>10, <1>11, <1>12, <1>13, <1>14, <1>15, <1>16, <1>17, <1>18
     DEF PipeNext, Produce, Dispatch, TakeWork

\* At first there is no message anywhere.
LEMMA EachInit == PipeInit => EachInOnePlace
<1> SUFFICES ASSUME PipeInit PROVE EachInOnePlace
  OBVIOUS
<1>1. IsAt(Where, processed, Jobs, OnBench, dispatcher.job, Payloads(results),
           producer.job, queue)
  BY SpotsAre DEF Where
<1>2. /\ processed = <<>> /\ dispatcher.job = <<>> /\ Payloads(results) = <<>>
      /\ producer.job = <<>> /\ queue = <<>>
      /\ \A w \in Worker : Jobs[w] = <<>> /\ OnBench[w] = <<>>
  BY DEF PipeInit, Jobs, OnBench, Payloads
<1>3. ASSUME NEW p \in Place PROVE Where[p] = {}
  <2>1. CASE p = DonePlace \/ p = HandPlace \/ p = SendPlace \/ p = ReadPlace \/ p = ListPlace
    BY <1>1, <1>2, <2>1, OfFew DEF IsAt
  <2>2. ASSUME NEW w \in Worker, p = RunPlace(w) \/ p = BenchPlace(w) PROVE Where[p] = {}
    BY <1>1, <1>2, <2>2, OfFew DEF IsAt
  <2> QED
    BY <2>1, <2>2, Places
<1>4. 1 .. sent = {}
  BY DEF PipeInit
<1>5. Spread(Where, 1 .. sent)
  BY <1>3, <1>4 DEF Spread
<1>6. Distinct(queue) /\ Distinct(processed)
  BY DEF PipeInit, Distinct
<1> QED
  BY <1>5, <1>6 DEF EachInOnePlace

-----------------------------------------------------------------------------
(* Theorems.                                                               *)

\* Everything in the pipeline keeps its type, whatever the number of workers
\* and whether or not BLPOP fails.
THEOREM PipeTypeCorrect == PipeSpec => []PipeTypeOK
BY PipeTypeInit, PipeTypeStep, PTL DEF PipeSpec

\* Neither Dispatch nor Worker.Start ever blocks on a channel inside a pool of
\* any size.
THEOREM PoolIsNeverBlocked == PipeSpec => []PoolNeverBlocks
<1>1. PipeTypeOK /\ PoolInv => PoolNeverBlocks
  <2> SUFFICES ASSUME PipeTypeOK, PoolInv PROVE PoolNeverBlocks
    OBVIOUS
  <2>1. dispatcher.at = "bench" => bench[dispatcher.to] = <<>>
    BY DEF PoolInv, Benched
  <2>2. ASSUME NEW w \in Worker, worker[w].at = "return"
        PROVE  Len(pool) < Cardinality(Worker)
    <3>1. \A i \in 1 .. Len(pool) : pool[i] # w
      BY <2>2 DEF PoolInv, Benched
    <3> QED
      BY <3>1, Room, Zenon DEF PipeTypeOK, PoolInv
  <2> QED
    BY <2>1, <2>2 DEF PoolNeverBlocks
<1> QED
  BY <1>1, PipeTypeCorrect, PoolInit, PoolStep, PTL DEF PipeSpec

\* A pool of one, which is what MetadataSupervisor and FileUpdateSyncBroker
\* make, processes every message once, in the order of the Redis list.
THEOREM InOrderOfList ==
  ASSUME NEW w, Worker = {w}
  PROVE  PipeSpec => []NothingLostOrReordered
<1>1. PipeInit => NothingLostOrReordered
  <2> SUFFICES ASSUME PipeInit PROVE NothingLostOrReordered
    OBVIOUS
  <2>1. (CHOOSE v \in Worker : TRUE) = w
    OBVIOUS
  <2>2. /\ worker[w].job = <<>> /\ Payloads(bench[w]) = <<>> /\ dispatcher.job = <<>>
        /\ Payloads(results) = <<>> /\ producer.job = <<>>
    BY DEF PipeInit, Payloads
  <2>3. processed = <<>> /\ queue = <<>> /\ sent = 0
    BY DEF PipeInit
  <2>4. InFlight = <<>>
    BY <2>1, <2>2 DEF InFlight
  <2> QED
    BY <2>3, <2>4 DEF NothingLostOrReordered
<1>2. PipeTypeOK /\ IdleInv /\ NothingLostOrReordered /\ [PipeNext]_pipeVars
      => NothingLostOrReordered'
  BY OrderStep
<1> QED
  BY <1>1, <1>2, PipeTypeInit, PipeTypeStep, IdleInit, IdleStep, PTL DEF PipeSpec

\* Four messages at most have left the list and are not processed, in a pool of
\* one: the worker and its channel never hold one each.
THEOREM FourInFlight ==
  ASSUME NEW w, Worker = {w}
  PROVE  PipeSpec => []FewInFlight
<1>1. PipeTypeOK /\ PoolInv /\ IdleInv => FewInFlight
  <2> SUFFICES ASSUME PipeTypeOK, PoolInv, IdleInv PROVE FewInFlight
    OBVIOUS
  <2>1. (CHOOSE v \in Worker : TRUE) = w
    OBVIOUS
  <2>2. PICK a \in Seq(Message), b \in Seq(Message), c \in Seq(Message),
             d \in Seq(Message), e \in Seq(Message) :
          /\ a = worker[w].job /\ b = Payloads(bench[w]) /\ c = dispatcher.job
          /\ d = Payloads(results) /\ e = producer.job
          /\ OneOrNone(a, b, c, d, e)
    BY OneWorkerFlowType, OneJobEach, Zenon DEF FlowType
  <2>3. Len(a \o b \o c \o d \o e) = Len(a) + Len(b) + Len(c) + Len(d) + Len(e)
    OBVIOUS
  <2>4. InFlight = a \o b \o c \o d \o e
    BY <2>1, <2>2, Zenon DEF InFlight
  <2>5. OneOrNone(a, b, c, d, e)
    BY <2>2, Zenon
  <2>6. Len(a) + Len(b) + Len(c) + Len(d) + Len(e) <= 4
    BY <2>5 DEF OneOrNone
  <2> QED
    BY <2>3, <2>4, <2>6 DEF FewInFlight
<1> QED
  BY <1>1, PipeTypeInit, PipeTypeStep, PoolInit, PoolStep, IdleInit, IdleStep, PTL DEF PipeSpec

\* A process with a pool of one implements WorkQueue: every step of a goroutine
\* is a step of it or is invisible in it.
THEOREM PipelineIsWorkQueue ==
  ASSUME NEW w, Worker = {w}
  PROVE  PipeSpec => WorkSpec
<1>1. PipeInit => Work!Init
  <2> SUFFICES ASSUME PipeInit PROVE Work!Init
    OBVIOUS
  <2>1. (CHOOSE v \in Worker : TRUE) = w
    OBVIOUS
  <2> QED
    BY <2>1 DEF PipeInit, Work!Init, Popped, Payloads
<1>2. PipeTypeOK /\ PoolInv /\ IdleInv /\ [PipeNext]_pipeVars => [Work!Next]_(Work!vars)
  BY WorkStep
<1> QED
  BY <1>1, <1>2, PipeTypeInit, PipeTypeStep, PoolInit, PoolStep, IdleInit, IdleStep, PTL
     DEF PipeSpec, WorkSpec, Work!Spec

\* In a pool of any size, no message is lost, repeated or held twice: each one
\* that was sent is on the list, with one goroutine, in one channel or processed,
\* also after an error of BLPOP.
THEOREM NoneLostInAnyPool == PipeSpec => []EachInOnePlace
BY EachInit, EachStep, PipeTypeInit, PipeTypeStep, IdleInit, IdleStep, PTL DEF PipeSpec

\* The pipeline never comes to a standstill with a demand to serve, for any
\* number of workers, also after an error of BLPOP: Dispatch and the workers
\* never wait for one another.
THEOREM PipelineNeverStuck == PipeSpec => []NoPipeStandstill
<1>1. PipeTypeOK /\ PoolInv /\ KeptInv => NoPipeStandstill
  BY CanMove
<1> QED
  BY <1>1, PipeTypeCorrect, PoolInit, PoolStep, KeptInit, KeptStep, PTL DEF PipeSpec
=============================================================================
