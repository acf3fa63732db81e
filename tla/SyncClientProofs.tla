-------------------------- MODULE SyncClientProofs --------------------------
(***************************************************************************)
(* Proofs that the versions evolve as VersionHistory says when the client  *)
(* is the one of SyncClient, that what ExecuteEach merges is then whole,   *)
(* and that it never changes a settled version: for any number of          *)
(* versions, chunks and workers, and with all the faults.                  *)
(***************************************************************************)
EXTENDS SyncClient, ReconcilerProofs

\* The versions a list of messages reports the end of, and that each is
\* reported once.
Ids(msgs) == {msgs[i].id : i \in 1 .. Len(msgs)}

Distinct(msgs) ==
  \A i, j \in 1 .. Len(msgs) : msgs[i].id = msgs[j].id => i = j

Running(w) == IF exec[w].at = "idle" THEN {} ELSE {exec[w].id}

\* The report of a version is in one place: a request, the list, the channels of
\* a worker process, or its ExecuteEach.
OneReport ==
  /\ Distinct(queue)
  /\ \A w \in Worker : Distinct(held[w])
  /\ \A f \in eof_calls :
       f \notin Ids(queue) /\ \A w \in Worker : f \notin Ids(held[w]) \cup Running(w)
  /\ \A f \in Ids(queue) : \A w \in Worker : f \notin Ids(held[w]) \cup Running(w)
  /\ \A w \in Worker : \A f \in Ids(held[w]) : \A v \in Worker :
       f \notin Running(v) /\ (v # w => f \notin Ids(held[v]))
  /\ \A w, v \in Worker : v # w => \A f \in Running(w) : f \notin Running(v)

\* The end of version f was reported and has not been acted on.
Waiting(f) ==
  \/ f \in eof_calls \cup Ids(queue)
  \/ \E w \in Worker : f \in Ids(held[w]) \/ (f \in Running(w) /\ exec[w].at # "notify")

\* Only what was sent is anywhere, and what waits is not settled.
ReportsSent ==
  /\ \A f \in File : Waiting(f) => f \in eof_sent /\ upload_status[f] = "uploading"
  /\ \A f \in File : Settled(f) => f \in eof_sent

\* A version the client may make another one from.
Offered(p) == current_flag[p] /\ upload_status[p] = "completed"

\* A version is the only one made from its predecessor, which stays as the client
\* found it until the version is settled, and then is retired.
OneLine ==
  \A f \in File : prev_id[f] # Nil =>
    /\ \A g \in File : prev_id[g] = prev_id[f] => g = f
    /\ IF Settled(f) THEN end_date[prev_id[f]] ELSE Offered(prev_id[f])

SyncInv == IndInv /\ OneReport /\ ReportsSent /\ OneLine

-----------------------------------------------------------------------------
(* Lists of messages.                                                      *)

\* RPUSH adds one report.
LEMMA AppendIds ==
  ASSUME NEW msgs \in Seq(CacheMetadata), NEW msg \in CacheMetadata
  PROVE  /\ Ids(Append(msgs, msg)) = Ids(msgs) \cup {msg.id}
         /\ Distinct(msgs) /\ msg.id \notin Ids(msgs) => Distinct(Append(msgs, msg))
<1> DEFINE n == Len(msgs)
           after == Append(msgs, msg)
<1>1. /\ n \in Nat /\ Len(after) = n + 1 /\ after[n + 1] = msg
      /\ \A i \in 1 .. n : after[i] = msgs[i]
  OBVIOUS
<1>2. 1 .. Len(after) = (1 .. n) \cup {n + 1}
  BY <1>1
<1> HIDE DEF n, after
<1>3. Ids(after) = Ids(msgs) \cup {msg.id}
  BY <1>1, <1>2 DEF Ids, n
<1>4. ASSUME Distinct(msgs), msg.id \notin Ids(msgs)
      PROVE  Distinct(after)
  BY <1>1, <1>2, <1>4 DEF Ids, Distinct, n
<1> QED
  BY <1>3, <1>4 DEF after

\* BLPOP, or a receive, takes one report.
LEMMA TailIds ==
  ASSUME NEW msgs \in Seq(CacheMetadata), msgs # <<>>, Distinct(msgs)
  PROVE  /\ Head(msgs) \in CacheMetadata
         /\ Head(msgs).id \in Ids(msgs)
         /\ Ids(Tail(msgs)) = Ids(msgs) \ {Head(msgs).id}
         /\ Distinct(Tail(msgs))
<1> DEFINE n == Len(msgs)
           after == Tail(msgs)
<1>1. /\ n \in Nat /\ n >= 1 /\ Head(msgs) = msgs[1] /\ Len(after) = n - 1
      /\ \A i \in 1 .. n - 1 : after[i] = msgs[i + 1]
      /\ Head(msgs) \in CacheMetadata
  OBVIOUS
<1> HIDE DEF n, after
<1>2. Distinct(after)
  BY <1>1 DEF Distinct, n
<1>3. \A j \in 1 .. n : j # 1 => j - 1 \in 1 .. n - 1 /\ after[j - 1] = msgs[j]
  BY <1>1
<1>4. \A i \in 1 .. n - 1 : after[i].id \in Ids(msgs) /\ after[i].id # msgs[1].id
  BY <1>1 DEF Ids, Distinct, n
<1>5. Ids(after) = Ids(msgs) \ {msgs[1].id}
  BY <1>1, <1>3, <1>4 DEF Ids, n
<1>6. msgs[1].id \in Ids(msgs)
  BY <1>1 DEF Ids, n
<1> QED
  BY <1>1, <1>2, <1>5, <1>6 DEF after

-----------------------------------------------------------------------------
(* How reports move.                                                       *)

\* No report moves on; some may be lost or done with.
Stays ==
  /\ eof_calls' \subseteq eof_calls
  /\ queue' = queue
  /\ \A w \in Worker : held'[w] \in {held[w], <<>>}
  /\ \A w \in Worker :
       /\ Running(w)' \subseteq Running(w)
       /\ exec[w].at = "notify" => exec'[w].at \in {"notify", "idle"}

\* The end of version f is reported.
Reports(f) ==
  /\ upload_status[f] = "uploading"
  /\ ~IsPatch(f) => ChunkIds(SelectFiles(f)) = ExpectedChunks(f)
  /\ f \notin eof_sent /\ f \in eof_sent'
  /\ eof_calls' = eof_calls \cup {f}
  /\ queue' = queue /\ held' = held /\ exec' = exec

\* The report of f moves from the request to the list, from there to worker
\* process w, and there to ExecuteEach.
Pushed(f) ==
  /\ f \in eof_calls /\ eof_calls' = eof_calls \ {f}
  /\ Ids(queue') = Ids(queue) \cup {f}
  /\ Distinct(queue) /\ f \notin Ids(queue) => Distinct(queue')
  /\ held' = held /\ exec' = exec

Popped(f, w) ==
  /\ f \in Ids(queue) /\ Ids(queue') = Ids(queue) \ {f} /\ Distinct(queue')
  /\ Ids(held'[w]) = Ids(held[w]) \cup {f}
  /\ Distinct(held[w]) /\ f \notin Ids(held[w]) => Distinct(held'[w])
  /\ \A v \in Worker : v # w => held'[v] = held[v]
  /\ eof_calls' = eof_calls /\ exec' = exec

Started(f, w) ==
  /\ f \in Ids(held[w]) /\ Ids(held'[w]) = Ids(held[w]) \ {f} /\ Distinct(held'[w])
  /\ \A v \in Worker : v # w => held'[v] = held[v]
  /\ Running(w)' = {f}
  /\ \A v \in Worker : v # w => exec'[v] = exec[v]
  /\ eof_calls' = eof_calls /\ queue' = queue

ClientStep == SyncNext \/ SystemNext \/ FaultNext

\* A step of the client, the system or a fault is a step of Reconciler.
LEMMA SyncStep ==
  ASSUME [ClientStep]_clientVars
  PROVE  [Next]_vars
BY DEF ClientStep, clientVars, SyncNext, SystemNext, FaultNext, NewFile, NewVersion,
       PutChunk, Eof, Next, ClientNext

\* RPUSH moves a report from its request to the list.
LEMMA EnqueueMoves ==
  ASSUME TypeOK, NEW f \in File, EnqueueMsg(f)
  PROVE  Pushed(f)
<1> DEFINE msg == [id |-> f, prev |-> prev_id[f]]
<1>1. msg \in CacheMetadata /\ queue \in Seq(CacheMetadata) /\ msg.id = f
  BY DEF TypeOK, CacheMetadata
<1>2. queue' = Append(queue, msg)
  BY DEF EnqueueMsg
<1> HIDE DEF msg
<1>3. /\ Ids(queue') = Ids(queue) \cup {f}
      /\ Distinct(queue) /\ f \notin Ids(queue) => Distinct(queue')
  BY <1>1, <1>2, AppendIds
<1> QED
  BY <1>3 DEF EnqueueMsg, Pushed, Ids, Distinct, workerVars

\* BLPOP moves a report from the list to a worker process.
LEMMA ReadMoves ==
  ASSUME TypeOK, Distinct(queue), NEW w \in Worker, ReadMsg(w)
  PROVE  \E f \in File : Popped(f, w)
<1> DEFINE msg == Head(queue)
<1>1. queue \in Seq(CacheMetadata) /\ queue # <<>> /\ held[w] \in Seq(CacheMetadata)
  BY DEF TypeOK, ReadMsg
<1>2. /\ msg \in CacheMetadata /\ msg.id \in Ids(queue)
      /\ Ids(Tail(queue)) = Ids(queue) \ {msg.id} /\ Distinct(Tail(queue))
  BY <1>1, TailIds
<1>3. /\ queue' = Tail(queue) /\ held'[w] = Append(held[w], msg)
      /\ \A v \in Worker : v # w => held'[v] = held[v]
      /\ eof_calls' = eof_calls /\ exec' = exec
  BY DEF ReadMsg, TypeOK
<1> HIDE DEF msg
<1>4. /\ Ids(held'[w]) = Ids(held[w]) \cup {msg.id}
      /\ Distinct(held[w]) /\ msg.id \notin Ids(held[w]) => Distinct(held'[w])
  BY <1>1, <1>2, <1>3, AppendIds
<1>5. Ids(queue') = Ids(queue) \ {msg.id} /\ Distinct(queue')
  BY <1>2, <1>3
<1>6. Popped(msg.id, w)
  BY <1>2, <1>3, <1>4, <1>5 DEF Popped
<1> QED
  BY <1>2, <1>6 DEF CacheMetadata

\* The pool's worker takes the report of a version out of the channels.
LEMMA ExecuteMoves ==
  ASSUME TypeOK, NEW w \in Worker, Distinct(held[w]), Execute(w)
  PROVE  \E f \in File : Started(f, w)
<1> DEFINE msg == Head(held[w])
<1>1. held[w] \in Seq(CacheMetadata) /\ held[w] # <<>>
  BY DEF TypeOK, Execute
<1>2. /\ msg \in CacheMetadata /\ msg.id \in Ids(held[w])
      /\ Ids(Tail(held[w])) = Ids(held[w]) \ {msg.id} /\ Distinct(Tail(held[w]))
  BY <1>1, TailIds
<1>3. /\ held'[w] = Tail(held[w])
      /\ \A v \in Worker : v # w => held'[v] = held[v]
      /\ eof_calls' = eof_calls /\ queue' = queue
  BY DEF Execute, TypeOK
<1>4. /\ exec'[w].at # "idle" /\ exec'[w].id = msg.id
      /\ \A v \in Worker : v # w => exec'[v] = exec[v]
  BY ExecuteFields
<1> HIDE DEF msg
<1>5. Started(msg.id, w)
  BY <1>2, <1>3, <1>4 DEF Started, Running
<1> QED
  BY <1>2, <1>5 DEF CacheMetadata

\* The other steps of a worker process move no report.
LEMMA OthersStay ==
  ASSUME TypeOK, ExecutionSound, NEW w \in Worker,
         \/ SelectPair(w) \/ CreateBatch(w) \/ Update(w) \/ Notify(w)
         \/ CreateBatchFails(w) \/ ExecuteFails(w) \/ Crash(w)
  PROVE  Stays
<1>1. held \in [Worker -> Seq(CacheMetadata)] /\ exec \in [Worker -> Execution]
  BY DEF TypeOK
<1>2. eof_calls' = eof_calls /\ queue' = queue
  BY DEF SelectPair, CreateBatch, Update, Notify, CreateBatchFails, ExecuteFails, Crash
<1>3. \A v \in Worker : held'[v] \in {held[v], <<>>}
  BY <1>1 DEF SelectPair, CreateBatch, Update, Notify, CreateBatchFails, ExecuteFails, Crash
<1> DEFINE Goes(v) == /\ Running(v)' \subseteq Running(v)
                      /\ exec[v].at = "notify" => exec'[v].at \in {"notify", "idle"}
<1>4. ASSUME Abandon(w)
      PROVE  \A v \in Worker : Goes(v)
  BY <1>1, <1>4 DEF Abandon, Running, Idle
<1>5. ASSUME NEW at, NEW filler, NEW st, Proceed(w, at, filler, st),
             exec[w].at \notin {"idle", "notify"}
      PROVE  \A v \in Worker : Goes(v)
  BY <1>5, ProceedFields DEF Running
<1>6. \/ Abandon(w)
      \/ exec[w].at \notin {"idle", "notify"} /\ \E at, filler, st : Proceed(w, at, filler, st)
  BY DEF SelectPair, CreateBatch, Update, Notify, CreateBatchFails, ExecuteFails, Crash
<1>7. \A v \in Worker : Goes(v)
  BY <1>4, <1>5, <1>6
<1> QED
  BY <1>2, <1>3, <1>7 DEF Stays

\* A report is made, or moves one place on, or is lost.
LEMMA ReportMoves ==
  ASSUME TypeOK, ExecutionSound, OneReport, [ClientStep]_clientVars
  PROVE  \/ Stays
         \/ \E f \in File : Reports(f) \/ Pushed(f)
         \/ \E f \in File, w \in Worker : Popped(f, w) \/ Started(f, w)
<1>1. ASSUME eof_calls' \subseteq eof_calls, queue' = queue, held' = held, exec' = exec
      PROVE  Stays
  BY <1>1 DEF Stays, Running
<1>2. CASE UNCHANGED clientVars
  BY <1>1, <1>2 DEF clientVars, vars
<1>3. ASSUME NEW f \in File, Eof(f)
      PROVE  Reports(f)
  BY <1>3 DEF Eof, MarkUploadComplete, Reports, workerVars
<1>4. CASE SyncNext
  <2>1. ASSUME ~\E f \in File : Eof(f)
        PROVE  Stays
    BY <1>1, <1>4, <2>1
       DEF SyncNext, NewFile, NewVersion, PutChunk, PrepareFileForUpload,
           UpdateFileMetadata, UpsertChunk, workerVars
  <2> QED
    BY <1>3, <2>1
<1>5. ASSUME NEW f \in File, EnqueueFails(f)
      PROVE  Stays
  BY <1>1, <1>5 DEF EnqueueFails, workerVars
<1>6. CASE SystemNext
  <2>1. ASSUME NEW w \in Worker, WorkerStep(w)
        PROVE  Stays \/ \E f \in File : Popped(f, w) \/ Started(f, w)
    BY <2>1, ReadMoves, ExecuteMoves, OthersStay DEF WorkerStep, OneReport
  <2> QED
    BY <1>6, <2>1, EnqueueMoves DEF SystemNext
<1>7. CASE FaultNext
  BY <1>5, <1>7, OthersStay DEF FaultNext, Fault
<1> QED
  BY <1>2, <1>4, <1>6, <1>7 DEF ClientStep

\* The report of a version stays in one place.
LEMMA OneReportStep ==
  ASSUME TypeOK, ExecutionSound, OneReport, ReportsSent, [ClientStep]_clientVars
  PROVE  OneReport'
<1>1. CASE Stays
  <2>1. \A w \in Worker : Distinct(held'[w]) /\ Ids(held'[w]) \subseteq Ids(held[w])
    BY <1>1 DEF Stays, OneReport, Distinct, Ids
  <2>2. Distinct(queue') /\ Ids(queue') = Ids(queue)
    BY <1>1 DEF Stays, OneReport
  <2> QED
    BY <1>1, <2>1, <2>2 DEF Stays, OneReport
<1>2. ASSUME NEW f \in File, Reports(f)
      PROVE  OneReport'
  <2>1. /\ f \notin eof_calls \cup Ids(queue)
        /\ \A w \in Worker : f \notin Ids(held[w])
    BY <1>2 DEF Reports, ReportsSent, Waiting
  <2>2. ASSUME NEW w \in Worker
        PROVE  f \notin Running(w)
    <3>1. CASE exec[w].at = "notify"
      BY <1>2, <3>1 DEF Reports, ReportsSent, Running, ExecutionSound
    <3>2. CASE exec[w].at # "notify"
      BY <1>2, <3>2 DEF Reports, ReportsSent, Waiting
    <3> QED
      BY <3>1, <3>2
  <2>3. \A w \in Worker : Running(w)' = Running(w)
    BY <1>2 DEF Reports, Running
  <2> QED
    BY <1>2, <2>1, <2>2, <2>3 DEF Reports, OneReport
<1>3. ASSUME NEW f \in File, Pushed(f)
      PROVE  OneReport'
  <2>1. \A w \in Worker : Running(w)' = Running(w)
    BY <1>3 DEF Pushed, Running
  <2>2. f \notin Ids(queue) /\ \A w \in Worker : f \notin Ids(held[w]) \cup Running(w)
    BY <1>3 DEF Pushed, OneReport
  <2> QED
    BY <1>3, <2>1, <2>2 DEF Pushed, OneReport
<1>4. ASSUME NEW f \in File, NEW w \in Worker, Popped(f, w)
      PROVE  OneReport'
  <2>1. \A v \in Worker : Running(v)' = Running(v)
    BY <1>4 DEF Popped, Running
  <2>2. f \notin eof_calls /\ \A v \in Worker : f \notin Ids(held[v]) \cup Running(v)
    BY <1>4 DEF Popped, OneReport
  <2> QED
    BY <1>4, <2>1, <2>2 DEF Popped, OneReport
<1>5. ASSUME NEW f \in File, NEW w \in Worker, Started(f, w)
      PROVE  OneReport'
  <2>1. \A v \in Worker : v # w => Running(v)' = Running(v)
    BY <1>5 DEF Started, Running
  <2>2. /\ f \notin eof_calls \cup Ids(queue)
        /\ \A v \in Worker : f \notin Running(v) /\ (v # w => f \notin Ids(held[v]))
    BY <1>5 DEF Started, OneReport
  <2> QED
    BY <1>5, <2>1, <2>2 DEF Started, OneReport
<1> QED
  BY <1>1, <1>2, <1>3, <1>4, <1>5, ReportMoves

\* Nothing waits that did not wait before, or was reported in the step.
LEMMA WaitingMoves ==
  ASSUME TypeOK, ExecutionSound, OneReport, [ClientStep]_clientVars,
         NEW f \in File, Waiting(f)'
  PROVE  Waiting(f) \/ Reports(f)
<1>1. CASE Stays
  <2>1. \A w \in Worker : Ids(held'[w]) \subseteq Ids(held[w])
    BY <1>1 DEF Stays, Ids
  <2>2. ASSUME NEW w \in Worker, f \in Running(w)', exec'[w].at # "notify"
        PROVE  f \in Running(w) /\ exec[w].at # "notify"
    BY <1>1, <2>2 DEF Stays, Running
  <2>3. eof_calls' \subseteq eof_calls /\ Ids(queue') = Ids(queue)
    BY <1>1 DEF Stays
  <2> QED
    BY <2>1, <2>2, <2>3 DEF Waiting
<1>2. ASSUME NEW g \in File, Reports(g) \/ Pushed(g)
      PROVE  Waiting(f) \/ Reports(f)
  BY <1>2 DEF Reports, Pushed, Waiting, Running
<1>3. ASSUME NEW g \in File, NEW w \in Worker, Popped(g, w)
      PROVE  Waiting(f)
  BY <1>3 DEF Popped, Waiting, Running
<1>4. ASSUME NEW g \in File, NEW w \in Worker, Started(g, w)
      PROVE  Waiting(f)
  BY <1>4 DEF Started, Waiting, Running
<1> QED
  BY <1>1, <1>2, <1>3, <1>4, ReportMoves

-----------------------------------------------------------------------------
(* Rows.                                                                   *)

\* The client makes versions of current versions that have no successor.
LEMMA ClientRows ==
  ASSUME [ClientStep]_clientVars
  PROVE  \/ UNCHANGED metadataVars
         \/ \E f \in File, p \in FileOrNil, n \in ChunkCount :
              /\ CreateMetadataToken(f, p, n)
              /\ p # Nil => p \in File /\ Offered(p) /\ ~HasSuccessor(p)
         \/ \E w \in Worker : Update(w)
<1>1. CASE SyncNext
  <2>1. ASSUME NEW f \in File, NEW n \in ChunkCount, NewFile(f, n)
        PROVE  CreateMetadataToken(f, Nil, n)
    BY <2>1 DEF NewFile, PrepareFileForUpload
  <2>2. ASSUME NEW p \in File, NEW f \in File, NEW n \in ChunkCount, NewVersion(p, f, n)
        PROVE  CreateMetadataToken(f, p, n) /\ Offered(p) /\ ~HasSuccessor(p)
    BY <2>2 DEF NewVersion, UpdateFileMetadata, Offered
  <2>3. ASSUME NEW f \in File, Eof(f) \/ \E c \in ChunkId, b \in FileOrNil : PutChunk(f, c, b)
        PROVE  UNCHANGED metadataVars
    BY <2>3 DEF Eof, PutChunk, MarkUploadComplete, UpsertChunk
  <2> QED
    BY <1>1, <2>1, <2>2, <2>3 DEF SyncNext, FileOrNil
<1>2. CASE UNCHANGED clientVars
  BY <1>2 DEF clientVars, vars, metadataVars
<1>3. CASE SystemNext
  BY <1>3 DEF SystemNext, EnqueueMsg, WorkerStep, ReadMsg, Execute, SelectPair,
              CreateBatch, Notify
<1>4. CASE FaultNext
  BY <1>4 DEF FaultNext, Fault, EnqueueFails, CreateBatchFails, ExecuteFails, Crash
<1> QED
  BY <1>1, <1>2, <1>3, <1>4 DEF ClientStep

\* When Update runs, its version is not settled, its predecessor is current, and
\* nothing is made from the version.
LEMMA UpdateOnce ==
  ASSUME SyncInv, NEW w \in Worker, Update(w)
  PROVE  LET f == exec[w].id
             p == exec[w].prev
         IN  /\ f \in File /\ f \in eof_sent /\ upload_status[f] = "uploading"
             /\ Published(f, p, exec[w].status)
             /\ p # Nil => p \in File /\ Offered(p) /\ Settled(p)
             /\ \A g \in File : prev_id[g] # f
<1> DEFINE f == exec[w].id
           p == exec[w].prev
<1>1. f \in File /\ Published(f, p, exec[w].status)
  BY UpdatePublishes DEF SyncInv, IndInv
<1>2. Waiting(f)
  BY DEF Update, Waiting, Running
<1>3. f \in eof_sent /\ upload_status[f] = "uploading"
  BY <1>1, <1>2 DEF SyncInv, ReportsSent
<1>4. ~Settled(f) /\ ~current_flag[f] /\ ~end_date[f]
  BY <1>1, <1>3 DEF Settled, SyncInv, IndInv, RowsWellFormed
<1>5. p = prev_id[f] /\ p \in FileOrNil
  BY <1>1 DEF Published, SyncInv, IndInv, TypeOK
<1>6. p # Nil => p \in File /\ Offered(p)
  BY <1>1, <1>4, <1>5 DEF SyncInv, OneLine, FileOrNil
<1>7. p # Nil => Settled(p)
  BY <1>6 DEF Offered, Settled
<1>8. ASSUME NEW g \in File, prev_id[g] = f
      PROVE  FALSE
  BY <1>1, <1>4, <1>8, ConstantsAssumption DEF SyncInv, OneLine, Offered
<1> QED
  BY <1>1, <1>3, <1>6, <1>7, <1>8

\* After Update, the version it settled does not wait.
LEMMA UpdateDone ==
  ASSUME SyncInv, NEW w \in Worker, Update(w), OneReport', NEW f \in File, f = exec[w].id
  PROVE  ~Waiting(f)'
<1>1. exec'[w].at = "notify" /\ exec'[w].id = f /\ f \in Running(w)'
  <2>1. exec'[w].at = "notify" /\ exec'[w].id = f
    BY ProceedFields DEF Update, SyncInv, IndInv
  <2> QED
    BY <2>1 DEF Running
<1>2. /\ f \notin eof_calls' \cup Ids(queue')
      /\ \A v \in Worker : f \notin Ids(held'[v])
      /\ \A v \in Worker : v # w => f \notin Running(v)'
  BY <1>1 DEF OneReport
<1> QED
  BY <1>1, <1>2 DEF Waiting

\* Only reports that were sent are anywhere, and what waits is uploading.
LEMMA ReportsSentStep ==
  ASSUME SyncInv, OneReport', [ClientStep]_clientVars
  PROVE  ReportsSent'
<1> USE DEF SyncInv, IndInv
<1>1. eof_sent \subseteq eof_sent'
  BY DEF ClientStep, clientVars, SyncNext, SystemNext, FaultNext, NewFile, NewVersion,
         PutChunk, Eof
<1>2. ASSUME NEW f \in File, Waiting(f)'
      PROVE  f \in eof_sent' /\ upload_status[f] = "uploading"
  BY <1>1, <1>2, WaitingMoves DEF ReportsSent, Reports
<1>3. \A f \in File : Settled(f) => f \in eof_sent'
  BY <1>1 DEF ReportsSent
<1>4. CASE UNCHANGED metadataVars
  BY <1>2, <1>3, <1>4 DEF metadataVars, ReportsSent, Settled
<1>5. ASSUME NEW f \in File, NEW p \in FileOrNil, NEW n \in ChunkCount,
             CreateMetadataToken(f, p, n)
      PROVE  ReportsSent'
  <2>1. upload_status[f] = "absent" /\ upload_status'[f] = "uploading"
    BY <1>5 DEF CreateMetadataToken, Exists, TypeOK
  <2>2. \A g \in File : g # f => upload_status'[g] = upload_status[g]
    BY <1>5 DEF CreateMetadataToken, TypeOK
  <2> QED
    BY <1>2, <1>3, <2>1, <2>2 DEF ReportsSent, Settled
<1>6. ASSUME NEW w \in Worker, Update(w)
      PROVE  ReportsSent'
  <2>1. PICK f \in File, p \in FileOrNil :
               /\ f = exec[w].id /\ f \in eof_sent
               /\ Published(f, p, exec[w].status)
               /\ p # Nil => p \in File /\ Settled(p)
    BY <1>6, UpdateOnce DEF FileOrNil
  <2>2. ~Waiting(f)'
    BY <1>6, <2>1, UpdateDone
  <2>3. \A g \in File : g # f /\ g # p => upload_status'[g] = upload_status[g]
    BY <2>1 DEF Published
  <2>4. \A g \in File : Waiting(g)' => g # f /\ g # p
    BY <1>2, <2>1, <2>2, ConstantsAssumption DEF Settled
  <2>5. \A g \in File : Waiting(g)' => g \in eof_sent' /\ upload_status'[g] = "uploading"
    BY <1>2, <2>3, <2>4
  <2>6. \A g \in File : Settled(g)' => g \in eof_sent'
    BY <1>1, <1>3, <2>1, <2>3, ConstantsAssumption DEF Settled
  <2> QED
    BY <2>5, <2>6 DEF ReportsSent
<1> QED
  BY <1>4, <1>5, <1>6, ClientRows

\* Versions of a file stay in one line.
LEMMA OneLineStep ==
  ASSUME SyncInv, [ClientStep]_clientVars
  PROVE  OneLine'
<1> USE DEF SyncInv, IndInv
<1>1. CASE UNCHANGED metadataVars
  BY <1>1 DEF metadataVars, OneLine, Offered, Settled
<1>2. ASSUME NEW f \in File, NEW p \in FileOrNil, NEW n \in ChunkCount,
             CreateMetadataToken(f, p, n),
             p # Nil => p \in File /\ Offered(p) /\ ~HasSuccessor(p)
      PROVE  OneLine'
  <2>1. /\ ~Exists(f) /\ ~Settled(f)' /\ prev_id'[f] = p
        /\ \A g \in File : g # f => prev_id'[g] = prev_id[g] /\ (Settled(g)' <=> Settled(g))
        /\ \A g \in File : g # f => Offered(g)' = Offered(g)
        /\ ~Offered(f) /\ end_date' = end_date
    BY <1>2 DEF CreateMetadataToken, Settled, Offered, Exists, TypeOK
  <2>2. \A g \in File : p # Nil => prev_id[g] # p
    BY <1>2 DEF HasSuccessor
  <2>3. ASSUME NEW g \in File, prev_id'[g] # Nil, NEW h \in File, prev_id'[h] = prev_id'[g]
        PROVE  h = g
    BY <2>1, <2>2, <2>3 DEF OneLine
  <2>4. ASSUME NEW g \in File, NEW q \in FileOrNil, q = prev_id'[g], q # Nil
        PROVE  IF Settled(g)' THEN end_date'[q] ELSE Offered(q)'
    <3>1. CASE g = f
      <4>1. q = p /\ Offered(p) /\ p \in File /\ p # f
        BY <1>2, <2>1, <2>4, <3>1
      <4> QED
        BY <2>1, <3>1, <4>1
    <3>2. CASE g # f
      <4>1. q \in File /\ q = prev_id[g]
        BY <2>1, <2>4, <3>2 DEF FileOrNil
      <4>2. IF Settled(g) THEN end_date[q] ELSE Offered(q)
        BY <2>4, <4>1 DEF OneLine
      <4> QED
        BY <2>1, <3>2, <4>1, <4>2
    <3> QED
      BY <3>1, <3>2
  <2>5. prev_id' \in [File -> FileOrNil]
    BY <1>2 DEF CreateMetadataToken, TypeOK
  <2> QED
    BY <2>3, <2>4, <2>5 DEF OneLine
<1>3. ASSUME NEW w \in Worker, Update(w)
      PROVE  OneLine'
  <2>1. PICK f \in File, p \in FileOrNil :
               /\ Published(f, p, exec[w].status)
               /\ p # Nil => p \in File /\ Settled(p)
               /\ \A g \in File : prev_id[g] # f
    BY <1>3, UpdateOnce DEF FileOrNil
  <2>2. prev_id' = prev_id /\ p = prev_id[f] /\ Settled(f)'
    BY <2>1 DEF Published, Settled
  <2>3. \A g \in File : g # f => (Settled(g)' <=> Settled(g))
    BY <2>1, ConstantsAssumption DEF Published, Settled
  <2>4. p # Nil => end_date'[p]
    BY <2>1 DEF Published
  <2>5. \A g \in File : g # f /\ g # p => end_date'[g] = end_date[g] /\ Offered(g)' = Offered(g)
    BY <2>1 DEF Published, Offered, TypeOK
  <2>6. ASSUME NEW g \in File, prev_id[g] # Nil
        PROVE  /\ \A h \in File : prev_id[h] = prev_id[g] => h = g
               /\ IF Settled(g)' THEN end_date'[prev_id[g]] ELSE Offered(prev_id[g])'
    <3>1. prev_id[g] \in File /\ prev_id[g] # f
      BY <2>1, <2>6 DEF TypeOK, FileOrNil
    <3>2. /\ \A h \in File : prev_id[h] = prev_id[g] => h = g
          /\ IF Settled(g) THEN end_date[prev_id[g]] ELSE Offered(prev_id[g])
      BY <2>6 DEF OneLine
    <3>3. CASE g = f
      BY <2>2, <2>4, <2>6, <3>2, <3>3
    <3>4. CASE g # f
      <4>1. prev_id[g] # p
        BY <2>1, <2>2, <3>2, <3>4
      <4> QED
        BY <2>2, <2>3, <2>5, <3>1, <3>2, <3>4, <4>1
    <3> QED
      BY <3>3, <3>4
  <2> QED
    BY <2>2, <2>6 DEF OneLine
<1> QED
  BY <1>1, <1>2, <1>3, ClientRows

-----------------------------------------------------------------------------
(* The invariant.                                                          *)

\* Nothing was reported when the server starts.
LEMMA InitSyncInv == ClientInit => SyncInv
<1> SUFFICES ASSUME ClientInit PROVE SyncInv
  OBVIOUS
<1>1. IndInv
  BY InitIndInv DEF ClientInit
<1>2. /\ eof_calls = {} /\ Ids(queue) = {} /\ Distinct(queue)
      /\ \A w \in Worker : Ids(held[w]) = {} /\ Distinct(held[w]) /\ Running(w) = {}
  <2>1. eof_calls = {} /\ queue = <<>> /\ \A w \in Worker : held[w] = <<>> /\ exec[w] = Idle
    BY DEF ClientInit, Init
  <2>2. Ids(<<>>) = {} /\ Distinct(<<>>)
    BY DEF Ids, Distinct
  <2>3. \A w \in Worker : Running(w) = {}
    BY <2>1 DEF Running, Idle
  <2> QED
    BY <2>1, <2>2, <2>3
<1>3. \A f \in File : upload_status[f] = "absent" /\ prev_id[f] = Nil
  BY DEF ClientInit, Init
<1>4. OneReport
  BY <1>2 DEF OneReport
<1>5. ReportsSent
  BY <1>2, <1>3 DEF ReportsSent, Waiting, Settled
<1>6. OneLine
  BY <1>3 DEF OneLine
<1> QED
  BY <1>1, <1>4, <1>5, <1>6 DEF SyncInv

\* Every step keeps the invariant.
LEMMA StepSyncInv == SyncInv /\ [ClientStep]_clientVars => SyncInv'
<1> SUFFICES ASSUME SyncInv, [ClientStep]_clientVars PROVE SyncInv'
  OBVIOUS
<1>1. IndInv'
  BY SyncStep, StepIndInv DEF SyncInv
<1>2. OneReport'
  BY OneReportStep DEF SyncInv, IndInv
<1>3. ReportsSent'
  BY <1>2, ReportsSentStep
<1>4. OneLine'
  BY OneLineStep
<1> QED
  BY <1>1, <1>2, <1>3, <1>4 DEF SyncInv

\* The strengthened invariant holds with the client of SyncClient, whatever
\* EnqueueMsg, the worker processes and Update lose or fail.
THEOREM SyncInvariance == SyncSpec => []SyncInv
<1>1. SyncSpec => ClientInit /\ [][ClientStep]_clientVars
  BY DEF SyncSpec, ClientStep
<1> QED
  BY <1>1, InitSyncInv, StepSyncInv, PTL

\* With this client a current version is never superseded: Update settles a
\* version once, and in the transaction that retires its predecessor.
THEOREM OneCurrentVersion == SyncSpec => []CurrentIsLatest
<1>1. SyncInv => CurrentIsLatest
  <2> SUFFICES ASSUME SyncInv, NEW f \in File, NEW g \in File,
                      current_flag[f], prev_id[g] = f, Settled(g)
               PROVE  FALSE
    BY DEF CurrentIsLatest
  <2>1. end_date[f]
    BY ConstantsAssumption DEF SyncInv, OneLine
  <2> QED
    BY <2>1 DEF SyncInv, IndInv, RowsWellFormed
<1> QED
  BY <1>1, SyncInvariance, PTL

-----------------------------------------------------------------------------
(* The refinement.                                                         *)

\* The stage of every version is its row's, as one function.
StageOf == [f \in File |-> Stage(f)]

\* The stages a row goes through.
LEMMA Stages ==
  ASSUME SyncInv, NEW f \in File
  PROVE  /\ upload_status[f] = "absent" => Stage(f) = "none"
         /\ upload_status[f] = "uploading" => Stage(f) = "draft"
         /\ current_flag[f] => Stage(f) = "live"
         /\ end_date[f] => Stage(f) = "retired"
BY DEF Stage, SyncInv, IndInv, RowsWellFormed, Settled

\* Inserting a row is a draft, Update publishes it, and nothing else shows.
LEMMA HistoryStep ==
  ASSUME SyncInv, SyncInv', [ClientStep]_clientVars
  PROVE  [History!Next]_(History!vars)
<1> USE DEF SyncInv, IndInv
<1>1. CASE UNCHANGED metadataVars
  <2>1. StageOf' = StageOf /\ prev_id' = prev_id
    BY <1>1 DEF metadataVars, StageOf, Stage
  <2> QED
    BY <2>1 DEF History!vars, StageOf
<1>2. ASSUME NEW f \in File, NEW p \in FileOrNil, NEW n \in ChunkCount,
             CreateMetadataToken(f, p, n),
             p # Nil => p \in File /\ Offered(p) /\ ~HasSuccessor(p)
      PROVE  History!Draft(f, p)
  <2>1. upload_status[f] = "absent" /\ upload_status'[f] = "uploading"
    BY <1>2 DEF CreateMetadataToken, Exists, TypeOK
  <2>2. Stage(f) = "none" /\ Stage(f)' = "draft"
    <3>1. Stage(f) = "none"
      BY <2>1, Stages
    <3>2. ~current_flag'[f] /\ ~end_date'[f]
      BY <2>1 DEF RowsWellFormed, Settled
    <3> QED
      BY <2>1, <3>1, <3>2 DEF Stage
  <2>3. \A g \in File : g # f => Stage(g)' = Stage(g)
    BY <1>2 DEF CreateMetadataToken, Stage, TypeOK
  <2>4. p # Nil => Stage(p) = "live"
    BY <1>2, Stages DEF Offered
  <2>5. prev_id' = [prev_id EXCEPT ![f] = p]
    BY <1>2 DEF CreateMetadataToken
  <2>6. StageOf' = [StageOf EXCEPT ![f] = "draft"]
    BY <2>2, <2>3 DEF StageOf
  <2>7. StageOf[f] = "none" /\ (p # Nil => StageOf[p] = "live")
    BY <1>2, <2>2, <2>4 DEF StageOf
  <2> QED
    BY <2>5, <2>6, <2>7 DEF History!Draft, History!MayFollow, StageOf
<1>3. ASSUME NEW w \in Worker, Update(w)
      PROVE  \E f \in File : History!Publish(f)
  <2>1. PICK f \in File, p \in FileOrNil :
               /\ Published(f, p, exec[w].status)
               /\ upload_status[f] = "uploading"
               /\ p # Nil => p \in File /\ current_flag[p]
    BY <1>3, UpdateOnce DEF FileOrNil, Offered
  <2>2. p = prev_id[f] /\ p # f /\ prev_id' = prev_id
    BY <2>1 DEF Published
  <2>3. Stage(f) = "draft" /\ (p # Nil => Stage(p) = "live")
    BY <2>1, Stages
  <2>4. current_flag'[f] /\ ~end_date'[f] /\ upload_status'[f] # "absent"
    BY <2>1 DEF Published
  <2>5. p # Nil => end_date'[p] /\ ~current_flag'[p] /\ upload_status'[p] # "absent"
    BY <2>1 DEF Published
  <2>6. \A g \in File : g # f /\ g # p => Stage(g)' = Stage(g)
    BY <2>1 DEF Published, Stage, TypeOK
  <2>7. Stage(f)' = "live" /\ (p # Nil => Stage(p)' = "retired")
    <3>1. Stage(f)' = "live"
      BY <2>4 DEF Stage
    <3>2. ASSUME p # Nil PROVE Stage(p)' = "retired"
      BY <2>5, <3>2 DEF Stage
    <3> QED
      BY <3>1, <3>2
  <2>8. StageOf' = [g \in File |-> IF g = f THEN "live"
                                   ELSE IF g = prev_id[f] THEN "retired" ELSE StageOf[g]]
    BY <2>1, <2>2, <2>6, <2>7, ConstantsAssumption DEF StageOf
  <2>9. StageOf[f] = "draft" /\ (p # Nil => StageOf[p] = "live")
    BY <2>1, <2>3 DEF StageOf
  <2> QED
    BY <2>2, <2>8, <2>9 DEF History!Publish, History!MayFollow, StageOf
<1> QED
  BY <1>1, <1>2, <1>3, ClientRows DEF History!Next, FileOrNil

\* The reconciler with the client it was written for implements
\* VersionHistory: CreateMetadataToken drafts a version of a current one, and
\* Update publishes it and retires its predecessor.
THEOREM Refinement == SyncSpec => HistorySpec
<1>1. ClientInit => History!Init
  BY DEF ClientInit, Init, History!Init, Stage
<1>2. SyncSpec => ClientInit /\ [][ClientStep]_clientVars
  BY DEF SyncSpec, ClientStep
<1>3. SyncInv /\ SyncInv' /\ [ClientStep]_clientVars => [History!Next]_(History!vars)
  BY HistoryStep
<1> QED
  BY <1>1, <1>2, <1>3, SyncInvariance, PTL DEF HistorySpec, History!Spec

-----------------------------------------------------------------------------
(* One current version of each file.                                       *)

\* A way to say which file a version is of, by stages s and predecessors p.
Labels(s, p, file) ==
  \A f, g \in File : s[f] # "none" /\ s[g] # "none" =>
    /\ p[f] = g => file[f] = file[g]
    /\ p[f] = Nil /\ p[g] = Nil /\ f # g => file[f] # file[g]

\* The versions that have been published.
Public(s) == {f \in File : s[f] \in {"live", "retired"}}

\* The first version of a file with a published version is published too.
Founded(s, p, file) ==
  \A f \in Public(s) : \E g \in Public(s) : p[g] = Nil /\ file[g] = file[f]

\* A file has at most one live version.
OneLive(s, file) ==
  \A f, g \in File : s[f] = "live" /\ s[g] = "live" /\ file[f] = file[g] => f = g

\* Both, whichever way the versions are assigned to files.
FilesKept(s, p) ==
  \A file \in [File -> File] : Labels(s, p, file) => Founded(s, p, file) /\ OneLive(s, file)

\* Drafting a version keeps the live one of each file.
LEMMA DraftKeeps ==
  ASSUME NEW s \in [File -> History!Stage], NEW p \in [File -> FileOrNil],
         NEW s2, NEW p2, NEW v \in File, NEW q \in FileOrNil,
         s[v] = "none", s2 = [s EXCEPT ![v] = "draft"], p2 = [p EXCEPT ![v] = q],
         FilesKept(s, p)
  PROVE  FilesKept(s2, p2)
<1> SUFFICES ASSUME NEW file \in [File -> File], Labels(s2, p2, file)
             PROVE  Founded(s2, p2, file) /\ OneLive(s2, file)
  BY DEF FilesKept
<1>1. \A f \in File : f # v => s2[f] = s[f] /\ p2[f] = p[f]
  OBVIOUS
<1>2. s2[v] = "draft"
  OBVIOUS
<1>3. Labels(s, p, file)
  BY <1>1 DEF Labels
<1>4. Founded(s, p, file) /\ OneLive(s, file)
  BY <1>3 DEF FilesKept
<1>5. Public(s2) = Public(s) /\ v \notin Public(s)
  BY <1>1, <1>2 DEF Public
<1>6. Founded(s2, p2, file)
  BY <1>1, <1>4, <1>5 DEF Founded, Public
<1>7. OneLive(s2, file)
  BY <1>1, <1>2, <1>4 DEF OneLive
<1> QED
  BY <1>6, <1>7

\* Publishing a version puts it in the place of the live one of its file.
LEMMA PublishKeeps ==
  ASSUME NEW s \in [File -> History!Stage], NEW p \in [File -> FileOrNil],
         NEW s2, NEW v \in File, s[v] = "draft",
         p[v] = Nil \/ s[p[v]] = "live",
         s2 = [u \in File |-> IF u = v THEN "live" ELSE IF u = p[v] THEN "retired" ELSE s[u]],
         FilesKept(s, p)
  PROVE  FilesKept(s2, p)
<1> SUFFICES ASSUME NEW file \in [File -> File], Labels(s2, p, file)
             PROVE  Founded(s2, p, file) /\ OneLive(s2, file)
  BY DEF FilesKept
<1>1. p[v] = Nil \/ (p[v] \in File /\ p[v] # v)
  BY DEF FileOrNil
<1>2. \A u \in File : u # v /\ u # p[v] => s2[u] = s[u]
  OBVIOUS
<1>3. s2[v] = "live" /\ (p[v] # Nil => s2[p[v]] = "retired")
  BY <1>1
<1>4. \A u \in File : s[u] # "none" => s2[u] # "none"
  BY <1>1, <1>2, <1>3
<1>5. Labels(s, p, file)
  BY <1>4 DEF Labels
<1>6. Founded(s, p, file) /\ OneLive(s, file)
  BY <1>5 DEF FilesKept
<1>7. Public(s2) = Public(s) \cup {v} /\ v \notin Public(s)
  <2>1. v \in Public(s2) /\ v \notin Public(s)
    BY <1>3 DEF Public
  <2>2. p[v] # Nil => p[v] \in Public(s2) /\ p[v] \in Public(s)
    BY <1>1, <1>3 DEF Public
  <2>3. \A u \in File : u # v /\ u # p[v] => (u \in Public(s2) <=> u \in Public(s))
    BY <1>2 DEF Public
  <2>4. Public(s) \subseteq File /\ Public(s2) \subseteq File
    BY DEF Public
  <2> QED
    BY <1>1, <2>1, <2>2, <2>3, <2>4, ConstantsAssumption
<1>8. p[v] # Nil => p[v] \in Public(s) /\ file[v] = file[p[v]]
  <2> SUFFICES ASSUME p[v] # Nil PROVE p[v] \in Public(s) /\ file[v] = file[p[v]]
    OBVIOUS
  <2>1. s2[v] # "none" /\ s2[p[v]] # "none"
    BY <1>3
  <2> QED
    BY <1>1, <2>1 DEF Labels, Public
<1>9. Founded(s2, p, file)
  <2> SUFFICES ASSUME NEW f \in Public(s2)
               PROVE  \E g \in Public(s2) : p[g] = Nil /\ file[g] = file[f]
    BY DEF Founded
  <2>1. CASE f \in Public(s)
    BY <1>6, <1>7, <2>1 DEF Founded
  <2>2. CASE f = v /\ p[v] = Nil
    BY <1>7, <2>2
  <2>3. CASE f = v /\ p[v] # Nil
    BY <1>6, <1>7, <1>8, <2>3 DEF Founded
  <2> QED
    BY <1>7, <2>1, <2>2, <2>3
<1>10. ASSUME NEW u \in File, s2[u] = "live", file[u] = file[v], u # v
       PROVE  FALSE
  <2>1. s[u] = "live" /\ u # p[v]
    BY <1>2, <1>3, <1>10
  <2>2. CASE p[v] # Nil
    BY <1>1, <1>6, <1>8, <1>10, <2>1, <2>2 DEF OneLive
  <2>3. CASE p[v] = Nil
    <3>1. u \in Public(s)
      BY <2>1 DEF Public
    <3>2. PICK g \in Public(s) : p[g] = Nil /\ file[g] = file[u]
      BY <1>6, <3>1 DEF Founded
    <3>3. g # v /\ g \in File /\ s2[g] # "none" /\ s2[v] # "none"
      BY <1>3, <1>4, <1>7 DEF Public
    <3> QED
      BY <1>10, <2>3, <3>2, <3>3 DEF Labels
  <2> QED
    BY <2>2, <2>3
<1>11. OneLive(s2, file)
  <2> SUFFICES ASSUME NEW f \in File, NEW g \in File, s2[f] = "live", s2[g] = "live",
                      file[f] = file[g], f # g
               PROVE  FALSE
    BY DEF OneLive
  <2>1. f # v /\ g # v
    BY <1>10
  <2>2. s[f] = "live" /\ s[g] = "live"
    BY <1>2, <1>3, <2>1
  <2> QED
    BY <1>6, <2>2 DEF OneLive
<1> QED
  BY <1>9, <1>11

\* A step of the versions' history keeps the live version of each file.
LEMMA FilesStep ==
  ASSUME SyncInv, [History!Next]_(History!vars), FilesKept(StageOf, prev_id)
  PROVE  FilesKept(StageOf, prev_id)'
<1>1. StageOf \in [File -> History!Stage]
  <2>1. ASSUME NEW f \in File PROVE Stage(f) \in History!Stage
    <3>1. CASE upload_status[f] = "absent"
      BY <3>1, Stages DEF History!Stage
    <3>2. CASE upload_status[f] # "absent" /\ current_flag[f]
      BY <3>2, Stages DEF History!Stage
    <3>3. CASE upload_status[f] # "absent" /\ ~current_flag[f]
      BY <3>3 DEF History!Stage, Stage
    <3> QED
      BY <3>1, <3>2, <3>3
  <2> QED
    BY <2>1 DEF StageOf
<1>2. prev_id \in [File -> FileOrNil]
  BY DEF SyncInv, IndInv, TypeOK
<1>3. CASE UNCHANGED History!vars
  BY <1>3 DEF History!vars, StageOf
<1>4. ASSUME NEW v \in File, History!Publish(v) PROVE FilesKept(StageOf, prev_id)'
  <2>1. StageOf[v] = "draft" /\ (prev_id[v] = Nil \/ StageOf[prev_id[v]] = "live")
    BY <1>4 DEF History!Publish, History!MayFollow, StageOf
  <2>2. StageOf' = [u \in File |-> IF u = v THEN "live" ELSE IF u = prev_id[v] THEN "retired"
                                   ELSE StageOf[u]]
    BY <1>4 DEF History!Publish, StageOf
  <2>3. prev_id' = prev_id
    BY <1>4 DEF History!Publish
  <2>4. FilesKept(StageOf', prev_id)
    BY <1>1, <1>2, <2>1, <2>2, PublishKeeps
  <2> QED
    BY <2>3, <2>4
<1>5. ASSUME NEW v \in File, NEW q \in FileOrNil, History!Draft(v, q)
      PROVE  FilesKept(StageOf, prev_id)'
  <2>1. StageOf[v] = "none" /\ StageOf' = [StageOf EXCEPT ![v] = "draft"]
    BY <1>5 DEF History!Draft, StageOf
  <2>2. prev_id' = [prev_id EXCEPT ![v] = q]
    BY <1>5 DEF History!Draft
  <2>3. FilesKept(StageOf', prev_id')
    BY <1>1, <1>2, <2>1, <2>2, DraftKeeps
  <2> QED
    BY <2>3
<1> QED
  BY <1>3, <1>4, <1>5 DEF History!Next, FileOrNil

\* With this client a file has at most one current version, however many
\* versions, worker processes, lost messages and failed transactions there are.
THEOREM FilesHaveOneCurrent == SyncSpec => []OneCurrentPerFile
<1>1. ClientInit => FilesKept(StageOf, prev_id)
  BY DEF ClientInit, Init, StageOf, Stage, FilesKept, Founded, OneLive, Public
<1>2. SyncInv /\ SyncInv' /\ [ClientStep]_clientVars /\ FilesKept(StageOf, prev_id)
        => FilesKept(StageOf, prev_id)'
  BY HistoryStep, FilesStep
<1>3. SyncInv /\ FilesKept(StageOf, prev_id) => OneCurrentPerFile
  <2> SUFFICES ASSUME SyncInv, FilesKept(StageOf, prev_id), NEW file \in FileOf,
                      NEW f \in File, NEW g \in File,
                      current_flag[f], current_flag[g], file[f] = file[g]
               PROVE  f = g
    BY DEF OneCurrentPerFile
  <2>1. \A h \in File : StageOf[h] # "none" => Exists(h)
    BY Stages DEF StageOf, Exists
  <2>2. file \in [File -> File] /\ Labels(StageOf, prev_id, file)
    BY <2>1 DEF FileOf, Labels
  <2>3. StageOf[f] = "live" /\ StageOf[g] = "live"
    BY Stages DEF StageOf
  <2> QED
    BY <2>2, <2>3 DEF FilesKept, OneLive
<1>4. SyncSpec => ClientInit /\ [][ClientStep]_clientVars
  BY DEF SyncSpec, ClientStep
<1> QED
  BY <1>1, <1>2, <1>3, <1>4, SyncInvariance, PTL

-----------------------------------------------------------------------------
(* What ExecuteEach merges.                                                *)

\* Version f has a row for chunk c, or one for each of its chunks.
Has(f, c) == \E r \in user_files : r.file_id = f /\ r.chunk_id = c

Whole(f) == \A c \in ExpectedChunks(f) : Has(f, c)

\* A version has rows of its own chunks only, and one of each.
RowsExpected ==
  \A r \in user_files : Exists(r.file_id) /\ r.chunk_id \in ExpectedChunks(r.file_id)

OneRowEach ==
  \A r, s \in user_files : r.file_id = s.file_id /\ r.chunk_id = s.chunk_id => r = s

\* The rows are what version f lacks, copied from its predecessor.
Lacking(f, rows) ==
  /\ rows # {} => IsPatch(f)
  /\ \A r \in rows : /\ r.file_id = f /\ r.chunk_id \in ExpectedChunks(f)
                     /\ ~Has(f, r.chunk_id)
                     /\ CopyTo(prev_id[f], r) \in user_files
  /\ \A r, s \in rows : r.chunk_id = s.chunk_id => r = s

\* With the rows, version f is whole.
Completes(f, rows) ==
  \A c \in ExpectedChunks(f) : Has(f, c) \/ \E r \in rows : r.chunk_id = c

\* What a running ExecuteEach holds completes its version; before Update there
\* is nothing left to complete.
MergeSound(x) ==
  /\ x.at # "create" => x.filler = {}
  /\ x.at = "create" => Lacking(x.id, x.filler) /\ Completes(x.id, x.filler)
  /\ x.at = "update" /\ x.status = "completed" => Whole(x.id)

\* Only a patch is reported, or merged, before it is whole.
WholeWhenDone ==
  /\ \A f \in File : Waiting(f) /\ ~IsPatch(f) => Whole(f)
  /\ \A f \in File : upload_status[f] = "completed" => Whole(f)

MergeInv ==
  /\ SyncInv
  /\ RowsExpected
  /\ OneRowEach
  /\ ChunkOwnOrInherited
  /\ \A w \in Worker : MergeSound(exec[w])
  /\ WholeWhenDone

-----------------------------------------------------------------------------
(* What steps keep.                                                        *)

\* What a version is made from, and how many chunks it has, is written once.
LEMMA VersionPersists ==
  ASSUME SyncInv, [ClientStep]_clientVars, NEW f \in File, Exists(f)
  PROVE  /\ prev_id'[f] = prev_id[f]
         /\ ExpectedChunks(f)' = ExpectedChunks(f)
         /\ IsPatch(f)' <=> IsPatch(f)
         /\ Exists(f)'
<1> USE DEF SyncInv, IndInv
<1>1. Exists(f)' /\ prev_id'[f] = prev_id[f]
  BY SyncStep, RowsPersist
<1>2. ASSUME n_chunks' = n_chunks
      PROVE  ExpectedChunks(f)' = ExpectedChunks(f) /\ (IsPatch(f)' <=> IsPatch(f))
  BY <1>1, <1>2 DEF ExpectedChunks, IsPatch
<1>3. CASE UNCHANGED metadataVars
  BY <1>1, <1>2, <1>3 DEF metadataVars
<1>4. ASSUME NEW g \in File, NEW p \in FileOrNil, NEW n \in ChunkCount,
             CreateMetadataToken(g, p, n)
      PROVE  ExpectedChunks(f)' = ExpectedChunks(f) /\ (IsPatch(f)' <=> IsPatch(f))
  <2>1. g # f /\ (prev_id[f] # Nil => prev_id[f] \in File /\ prev_id[f] # g)
    BY <1>4 DEF CreateMetadataToken, PrevExists, TypeOK, FileOrNil
  <2>2. \A h \in File : h # g => n_chunks'[h] = n_chunks[h]
    BY <1>4 DEF CreateMetadataToken, TypeOK
  <2> QED
    BY <1>1, <2>1, <2>2 DEF ExpectedChunks, IsPatch
<1>5. ASSUME NEW w \in Worker, Update(w)
      PROVE  n_chunks' = n_chunks
  BY <1>5 DEF Update
<1> QED
  BY <1>1, <1>2, <1>3, <1>4, <1>5, ClientRows

\* Chunk rows come from uploads and merges, and are never deleted.
LEMMA RowsAdded ==
  ASSUME [ClientStep]_clientVars
  PROVE  /\ user_files \subseteq user_files'
         /\ \/ user_files' = user_files
            \/ \E f \in File, c \in ChunkId, b \in FileOrNil : PutChunk(f, c, b)
            \/ \E w \in Worker : CreateBatch(w)
<1>1. ASSUME NEW f \in File, NEW c \in ChunkId, NEW b \in FileOrNil, PutChunk(f, c, b)
      PROVE  user_files \subseteq user_files'
  BY <1>1 DEF PutChunk, UpsertChunk, CreateChunk
<1>2. ASSUME NEW w \in Worker, CreateBatch(w)
      PROVE  user_files \subseteq user_files'
  BY <1>2 DEF CreateBatch
<1>3. CASE SyncNext
  BY <1>1, <1>3 DEF SyncNext, NewFile, NewVersion, PrepareFileForUpload, UpdateFileMetadata,
                    Eof, MarkUploadComplete
<1>4. CASE SystemNext
  BY <1>2, <1>4 DEF SystemNext, EnqueueMsg, WorkerStep, ReadMsg, Execute, SelectPair, Update,
                    Notify
<1>5. CASE FaultNext
  BY <1>5 DEF FaultNext, Fault, EnqueueFails, CreateBatchFails, ExecuteFails, Crash
<1>6. CASE UNCHANGED clientVars
  BY <1>6 DEF clientVars, vars
<1> QED
  BY <1>3, <1>4, <1>5, <1>6 DEF ClientStep

\* A whole version stays whole.
LEMMA WholePersists ==
  ASSUME SyncInv, [ClientStep]_clientVars, NEW f \in File, Exists(f)
  PROVE  /\ \A c : Has(f, c) => Has(f, c)'
         /\ Whole(f) => Whole(f)'
<1>1. \A c : Has(f, c) => Has(f, c)'
  BY RowsAdded DEF Has
<1> QED
  BY <1>1, VersionPersists DEF Whole

\* The chunk ids of the rows of a version.
LEMMA HasIds ==
  ASSUME NEW f, NEW c
  PROVE  c \in ChunkIds(SelectFiles(f)) <=> Has(f, c)
BY DEF ChunkIds, SelectFiles, Has

-----------------------------------------------------------------------------
(* New chunk rows.                                                         *)

\* A row that is added belongs to a version that is not settled and lacked it.
Fresh(r) ==
  /\ r.file_id \in File /\ Exists(r.file_id) /\ ~Settled(r.file_id)
  /\ r.chunk_id \in ExpectedChunks(r.file_id) /\ ~Has(r.file_id, r.chunk_id)
  /\ \/ r.blob \in {r.file_id, Nil}
     \/ IsPatch(r.file_id) /\ CopyTo(prev_id[r.file_id], r) \in user_files

\* The row an upload adds.
LEMMA UploadedRow ==
  ASSUME MergeInv, NEW f \in File, NEW c \in ChunkId, NEW b \in FileOrNil, PutChunk(f, c, b)
  PROVE  /\ f \notin eof_sent
         /\ \E r \in UserFile : /\ user_files' = user_files \cup {r}
                                /\ r.file_id = f /\ Fresh(r)
<1> DEFINE r == [file_id |-> f, chunk_id |-> c, blob |-> b]
<1>1. /\ f \notin eof_sent /\ Exists(f) /\ b \in {f, Nil}
      /\ c \in ExpectedChunks(f) /\ c \notin ChunkIds(SelectFiles(f))
      /\ user_files' = user_files \cup {r}
  BY DEF PutChunk, UpsertChunk, CreateChunk, UpdateChunk
<1>2. ~Settled(f)
  BY <1>1 DEF MergeInv, SyncInv, ReportsSent
<1>3. ~Has(f, c)
  BY <1>1, HasIds
<1>4. r \in UserFile /\ r.file_id = f /\ r.chunk_id = c /\ r.blob = b
  BY DEF UserFile
<1> HIDE DEF r
<1>5. Fresh(r)
  BY <1>1, <1>2, <1>3, <1>4 DEF Fresh
<1> QED
  BY <1>1, <1>4, <1>5

\* The version of a running ExecuteEach.
LEMMA RunningVersion ==
  ASSUME SyncInv, NEW w \in Worker, exec[w].at \in {"select", "create", "update"}
  PROVE  LET f == exec[w].id
         IN  /\ f \in File /\ Exists(f) /\ ~Settled(f)
             /\ f \in eof_sent /\ Waiting(f)
             /\ exec[w].prev = prev_id[f]
             /\ \A v \in Worker : v # w /\ exec[v].at # "idle" => exec[v].id # f
<1> DEFINE f == exec[w].id
<1>1. f \in File /\ Exists(f) /\ exec[w].prev = prev_id[f]
  BY DEF SyncInv, IndInv, ExecutionSound
<1>2. f \in Running(w) /\ Waiting(f)
  BY DEF Running, Waiting
<1>3. f \in eof_sent /\ ~Settled(f)
  BY <1>1, <1>2 DEF SyncInv, ReportsSent, Settled
<1>4. ASSUME NEW v \in Worker, v # w, exec[v].at # "idle", exec[v].id = f
      PROVE  FALSE
  <2>1. f \in Running(v)
    BY <1>4 DEF Running
  <2> QED
    BY <1>2, <1>4, <2>1 DEF SyncInv, OneReport
<1> QED
  BY <1>1, <1>2, <1>3, <1>4

\* The rows a merge adds.
LEMMA MergedRows ==
  ASSUME MergeInv, NEW w \in Worker, CreateBatch(w)
  PROVE  /\ user_files' = user_files \cup exec[w].filler
         /\ \A r \in exec[w].filler : r.file_id = exec[w].id /\ Fresh(r)
         /\ \A r, s \in exec[w].filler : r.chunk_id = s.chunk_id => r = s
<1>1. exec[w].at = "create" /\ user_files' = user_files \cup exec[w].filler
  BY DEF CreateBatch
<1>2. exec[w].id \in File /\ Exists(exec[w].id) /\ ~Settled(exec[w].id)
  BY <1>1, RunningVersion DEF MergeInv
<1>3. Lacking(exec[w].id, exec[w].filler)
  BY <1>1 DEF MergeInv, MergeSound
<1>4. \A r \in exec[w].filler : r.file_id = exec[w].id /\ Fresh(r)
  BY <1>2, <1>3 DEF Lacking, Fresh
<1> QED
  BY <1>1, <1>3, <1>4 DEF Lacking

\* What can be said of every new row: it is fresh, it is not added twice, and it
\* is not for a version that another ExecuteEach is about to complete.
Grows ==
  /\ \A r \in user_files' : r \in user_files \/ Fresh(r)
  /\ \A r, s \in user_files' \ user_files : r.chunk_id = s.chunk_id => r = s
  /\ \A r \in user_files' \ user_files, v \in Worker :
       exec[v].at = "create" /\ exec'[v] = exec[v] => r.file_id # exec[v].id

\* Uploads and merges add such rows.
LEMMA NewRows ==
  ASSUME MergeInv, [ClientStep]_clientVars
  PROVE  Grows
<1>1. CASE user_files' = user_files
  BY <1>1 DEF Grows
<1>2. ASSUME NEW f \in File, NEW c \in ChunkId, NEW b \in FileOrNil, PutChunk(f, c, b)
      PROVE  Grows
  <2>1. PICK r \in UserFile : user_files' = user_files \cup {r} /\ r.file_id = f /\ Fresh(r)
    BY <1>2, UploadedRow
  <2>2. \A v \in Worker : exec[v].at = "create" => f # exec[v].id
    BY <1>2, UploadedRow, RunningVersion DEF MergeInv
  <2> QED
    BY <2>1, <2>2 DEF Grows
<1>3. ASSUME NEW w \in Worker, CreateBatch(w)
      PROVE  Grows
  <2>1. exec[w].at = "create" /\ exec'[w].at = "update"
    BY <1>3, ProceedFields DEF CreateBatch, MergeInv, SyncInv, IndInv
  <2>2. \A v \in Worker : exec[v].at = "create" /\ v # w => exec[w].id # exec[v].id
    BY <2>1, RunningVersion DEF MergeInv
  <2>3. \A v \in Worker : exec[v].at = "create" /\ exec'[v] = exec[v] => v # w
    BY <2>1
  <2> QED
    BY <1>3, <2>2, <2>3, MergedRows DEF Grows
<1> QED
  BY <1>1, <1>2, <1>3, RowsAdded

\* Every version keeps one row for each of its chunks, at most.
LEMMA RowsStep ==
  ASSUME MergeInv, [ClientStep]_clientVars
  PROVE  RowsExpected' /\ OneRowEach' /\ ChunkOwnOrInherited'
<1> USE DEF MergeInv
<1>1. Grows /\ user_files \subseteq user_files'
  BY NewRows, RowsAdded
<1>2. \A r \in user_files' : /\ r.file_id \in File /\ Exists(r.file_id)
                             /\ r.chunk_id \in ExpectedChunks(r.file_id)
  BY <1>1 DEF Grows, Fresh, RowsExpected, SyncInv, IndInv, TypeOK, UserFile
<1>3. ASSUME NEW r \in user_files'
      PROVE  /\ Exists(r.file_id)' /\ r.chunk_id \in ExpectedChunks(r.file_id)'
             /\ prev_id'[r.file_id] = prev_id[r.file_id]
             /\ IsPatch(r.file_id)' <=> IsPatch(r.file_id)
  BY <1>2, VersionPersists
<1>4. RowsExpected'
  BY <1>3 DEF RowsExpected
<1>5. OneRowEach'
  <2> SUFFICES ASSUME NEW r \in user_files', NEW s \in user_files',
                      r.file_id = s.file_id, r.chunk_id = s.chunk_id
               PROVE  r = s
    BY DEF OneRowEach
  <2>1. CASE r \in user_files /\ s \in user_files
    BY <2>1 DEF OneRowEach
  <2>2. CASE r \notin user_files /\ s \notin user_files
    BY <1>1, <2>2 DEF Grows
  <2>3. CASE r \in user_files /\ s \notin user_files
    BY <1>1, <2>3 DEF Grows, Fresh, Has
  <2>4. CASE r \notin user_files /\ s \in user_files
    BY <1>1, <2>4 DEF Grows, Fresh, Has
  <2> QED
    BY <2>1, <2>2, <2>3, <2>4
<1>6. ChunkOwnOrInherited'
  <2> SUFFICES ASSUME NEW r \in user_files'
               PROVE  \/ r.blob \in {r.file_id, Nil}
                      \/ /\ IsPatch(r.file_id)'
                         /\ CopyTo(prev_id'[r.file_id], r) \in user_files'
    BY DEF ChunkOwnOrInherited
  <2>1. \/ r.blob \in {r.file_id, Nil}
        \/ IsPatch(r.file_id) /\ CopyTo(prev_id[r.file_id], r) \in user_files
    BY <1>1 DEF Grows, Fresh, ChunkOwnOrInherited
  <2> QED
    BY <1>1, <1>3, <2>1
<1> QED
  BY <1>4, <1>5, <1>6

-----------------------------------------------------------------------------
(* The merge.                                                              *)

\* RestOfChunks of a version and its predecessor is what the version lacks, and
\* completes it.
LEMMA FillerCompletes ==
  ASSUME MergeInv, NEW w \in Worker, exec[w].at = "select",
         NEW prevFile \in BuildFilesInfoResponse(SelectFiles(exec[w].prev))
  PROVE  LET filler == FillerFor(exec[w].id, exec[w].prev, prevFile)
         IN  Lacking(exec[w].id, filler) /\ Completes(exec[w].id, filler)
<1> DEFINE f == exec[w].id
           p == exec[w].prev
           filler == FillerFor(f, p, prevFile)
<1>1. /\ f \in File /\ p \in File /\ p = prev_id[f] /\ p # Nil
      /\ Waiting(f) /\ ~Settled(f)
  <2>1. f \in File /\ p = prev_id[f] /\ Waiting(f) /\ ~Settled(f)
    BY RunningVersion DEF MergeInv
  <2>2. p # Nil
    BY DEF MergeInv, SyncInv, IndInv, ExecutionSound
  <2> HIDE DEF f, p
  <2>3. p \in File
    BY <2>1, <2>2 DEF MergeInv, SyncInv, IndInv, TypeOK, FileOrNil
  <2> QED
    BY <2>1, <2>2, <2>3
<1>2. Whole(p)
  BY <1>1 DEF MergeInv, SyncInv, OneLine, Offered, WholeWhenDone
<1>3. /\ prevFile \subseteq user_files
      /\ \A r \in prevFile : r.file_id = p
      /\ \A c : Has(p, c) => \E r \in prevFile : r.chunk_id = c
      /\ \A r, s \in prevFile : r.chunk_id = s.chunk_id => r = s
  <2>1. \A c : Has(p, c) => c \in ChunkIds(prevFile)
    BY HasIds DEF BuildFilesInfoResponse
  <2> QED
    BY <2>1 DEF BuildFilesInfoResponse, SelectFiles, ChunkIds
<1> HIDE DEF f, p
<1>4. CASE n_chunks[f] # n_chunks[p]
  <2>1. filler = {} /\ ~IsPatch(f)
    BY <1>1, <1>4 DEF FillerFor, IsPatch
  <2>2. Whole(f)
    BY <1>1, <2>1 DEF MergeInv, WholeWhenDone
  <2> QED
    BY <2>1, <2>2 DEF Lacking, Completes, Whole, f, p
<1>5. CASE n_chunks[f] = n_chunks[p]
  <2>1. IsPatch(f) /\ ExpectedChunks(f) = ExpectedChunks(p)
    BY <1>1, <1>5 DEF IsPatch, ExpectedChunks
  <2>2. filler = {CopyTo(f, r) : r \in {s \in prevFile : ~Has(f, s.chunk_id)}}
    BY <1>5, HasIds DEF FillerFor, RestOfChunks
  <2> HIDE DEF filler
  <2>3. ASSUME NEW r \in filler
        PROVE  \E s \in prevFile : /\ r = CopyTo(f, s) /\ r.file_id = f
                                   /\ r.chunk_id = s.chunk_id /\ ~Has(f, s.chunk_id)
                                   /\ CopyTo(p, r) = s
    <3>1. PICK s \in prevFile : r = CopyTo(f, s) /\ ~Has(f, s.chunk_id)
      BY <2>2
    <3>2. s \in UserFile /\ s.file_id = p
      BY <1>3 DEF MergeInv, SyncInv, IndInv, TypeOK
    <3>3. CopyTo(p, r) = s
      BY <3>1, <3>2 DEF CopyTo, UserFile
    <3> QED
      BY <3>1, <3>3 DEF CopyTo
  <2>4. \A r \in filler : /\ r.file_id = f /\ r.chunk_id \in ExpectedChunks(f)
                          /\ ~Has(f, r.chunk_id)
                          /\ CopyTo(prev_id[f], r) \in user_files
    BY <1>1, <1>3, <2>1, <2>3 DEF MergeInv, RowsExpected
  <2>5. ASSUME NEW r \in filler, NEW s \in filler, r.chunk_id = s.chunk_id PROVE r = s
    <3>1. PICK x \in prevFile : r = CopyTo(f, x) /\ r.chunk_id = x.chunk_id
      BY <2>3
    <3>2. PICK y \in prevFile : s = CopyTo(f, y) /\ s.chunk_id = y.chunk_id
      BY <2>3
    <3>3. x = y
      BY <1>3, <2>5, <3>1, <3>2
    <3> QED
      BY <3>1, <3>2, <3>3
  <2>6. ASSUME NEW c \in ExpectedChunks(f), ~Has(f, c)
        PROVE  \E r \in filler : r.chunk_id = c
    <3>1. PICK s \in prevFile : s.chunk_id = c
      BY <1>2, <1>3, <2>1 DEF Whole
    <3>2. CopyTo(f, s) \in filler /\ CopyTo(f, s).chunk_id = c
      BY <2>2, <2>6, <3>1 DEF CopyTo
    <3> QED
      BY <3>2
  <2>7. Lacking(f, filler)
    BY <2>1, <2>4, <2>5 DEF Lacking
  <2>8. Completes(f, filler)
    BY <2>6 DEF Completes
  <2> QED
    BY <2>7, <2>8 DEF filler, f, p
<1> QED
  BY <1>4, <1>5

\* What another worker process does leaves an ExecuteEach as it was.
LEMMA OthersMerge ==
  ASSUME MergeInv, [ClientStep]_clientVars, NEW v \in Worker, exec'[v] = exec[v]
  PROVE  MergeSound(exec[v])'
<1> DEFINE f == exec[v].id
<1> USE DEF MergeInv
<1>1. exec[v].at # "create" => exec[v].filler = {}
  BY DEF MergeSound
<1>2. ASSUME exec[v].at = "create", NEW g \in File, g = f, NEW rows, rows = exec[v].filler
      PROVE  Lacking(g, rows)' /\ Completes(g, rows)'
  <2>1. Exists(g) /\ Lacking(g, rows) /\ Completes(g, rows)
    BY <1>2, RunningVersion DEF MergeSound
  <2>2. \A c : Has(g, c)' <=> Has(g, c)
    <3>1. \A r \in user_files' : r.file_id = g => r \in user_files
      BY <1>2, NewRows DEF Grows
    <3> QED
      BY <3>1, RowsAdded DEF Has
  <2>3. Lacking(g, rows)'
    BY <2>1, <2>2, VersionPersists, RowsAdded DEF Lacking, CopyTo
  <2>4. Completes(g, rows)'
    BY <2>1, <2>2, VersionPersists DEF Completes
  <2> QED
    BY <2>3, <2>4
<1>3. ASSUME exec[v].at = "update", exec[v].status = "completed", NEW g \in File, g = f
      PROVE  Whole(g)'
  BY <1>3, RunningVersion, WholePersists DEF MergeSound
<1>4. exec[v].at \in {"create", "update"} => f \in File
  BY RunningVersion
<1> QED
  BY <1>1, <1>2, <1>3, <1>4 DEF MergeSound

\* Every ExecuteEach completes its version before Update.
LEMMA MergeSoundStep ==
  ASSUME MergeInv, [ClientStep]_clientVars
  PROVE  \A w \in Worker : MergeSound(exec[w])'
<1> USE DEF MergeInv
<1>0. TypeOK
  BY DEF SyncInv, IndInv
<1>E. exec \in [Worker -> Execution]
  BY <1>0 DEF TypeOK
<1>1. ASSUME NEW w \in Worker, exec'[w].filler = {}, exec'[w].at # "create",
             exec'[w].at = "update" /\ exec'[w].status = "completed" =>
               exec'[w].id \in File /\ Exists(exec'[w].id) /\ Whole(exec'[w].id)
      PROVE  MergeSound(exec[w])'
  <2>1. ASSUME NEW f \in File, f = exec'[w].id, exec'[w].at = "update",
               exec'[w].status = "completed"
        PROVE  Whole(f)'
    BY <1>1, <2>1, WholePersists
  <2> QED
    BY <1>1, <2>1 DEF MergeSound
<1>2. ASSUME NEW w \in Worker, Abandon(w)
      PROVE  MergeSound(exec[w])' /\ \A v \in Worker : v # w => exec'[v] = exec[v]
  BY <1>0, <1>1, <1>2 DEF Abandon, Idle, TypeOK
<1>3. ASSUME NEW w \in Worker, Execute(w)
      PROVE  MergeSound(exec[w])' /\ \A v \in Worker : v # w => exec'[v] = exec[v]
  <2>1. /\ exec'[w].filler = {} /\ exec'[w].at \in {"update", "select"}
        /\ exec'[w].at = "update" => Head(held[w]).prev = Nil
        /\ exec'[w].id = Head(held[w]).id
        /\ \A v \in Worker : v # w => exec'[v] = exec[v]
    BY <1>0, <1>3 DEF Execute, TypeOK
  <2>2. /\ Head(held[w]).id \in File /\ Exists(Head(held[w]).id)
        /\ Head(held[w]).prev = prev_id[Head(held[w]).id]
        /\ Head(held[w]).id \in Ids(held[w])
    <3>1. held[w] \in Seq(CacheMetadata) /\ held[w] # <<>> /\ AllSound(held[w])
          /\ Distinct(held[w])
      BY <1>0, <1>3 DEF Execute, TypeOK, SyncInv, IndInv, MessagesSound, OneReport
    <3> QED
      BY <3>1, SoundTail, TailIds DEF Sound, CacheMetadata
  <2>3. Head(held[w]).prev = Nil => Whole(Head(held[w]).id)
    BY <2>2 DEF Waiting, WholeWhenDone, IsPatch
  <2> QED
    BY <1>1, <2>1, <2>2, <2>3
<1>4. ASSUME NEW w \in Worker, SelectPair(w), ~Abandon(w)
      PROVE  MergeSound(exec[w])' /\ \A v \in Worker : v # w => exec'[v] = exec[v]
  <2>1. PICK prevFile \in BuildFilesInfoResponse(SelectFiles(exec[w].prev)) :
          LET filler == FillerFor(exec[w].id, exec[w].prev, prevFile)
          IN  Proceed(w, IF filler = {} THEN "update" ELSE "create", filler, "completed")
    BY <1>4 DEF SelectPair
  <2>2. PICK f \in File, rows \in {exec'[w].filler} :
               /\ f = exec[w].id /\ f = exec'[w].id /\ Exists(f)
               /\ rows = FillerFor(exec[w].id, exec[w].prev, prevFile)
               /\ exec'[w].at = IF rows = {} THEN "update" ELSE "create"
    <3>1. exec[w].at = "select"
      BY <1>4 DEF SelectPair
    <3>2. exec[w].id \in File /\ Exists(exec[w].id)
      BY <3>1, RunningVersion
    <3> DEFINE filler == FillerFor(exec[w].id, exec[w].prev, prevFile)
    <3>3. Proceed(w, IF filler = {} THEN "update" ELSE "create", filler, "completed")
      BY <2>1
    <3> HIDE DEF filler
    <3>4. PICK at : at = IF filler = {} THEN "update" ELSE "create"
      OBVIOUS
    <3>5. Proceed(w, at, filler, "completed")
      BY <3>3, <3>4
    <3>6. exec'[w].id = exec[w].id /\ exec'[w].filler = filler /\ exec'[w].at = at
      BY <1>E, <3>5 DEF Proceed
    <3> QED
      BY <3>2, <3>4, <3>6 DEF filler
  <2>3. Lacking(f, rows) /\ Completes(f, rows)
    BY <1>4, <2>2, FillerCompletes DEF SelectPair
  <2>4. ASSUME rows = {} PROVE MergeSound(exec[w])'
    <3>1. Whole(f)
      BY <2>3, <2>4 DEF Completes, Whole
    <3>2. exec'[w].filler = {} /\ exec'[w].at = "update" /\ exec'[w].id = f
      BY <2>2, <2>4
    <3> QED
      BY <1>1, <2>2, <3>1, <3>2
  <2>5. ASSUME rows # {} PROVE MergeSound(exec[w])'
    <3>1. UNCHANGED <<metadataVars, user_files>>
      BY <1>4 DEF SelectPair
    <3>2. \A c : Has(f, c)' <=> Has(f, c)
      BY <3>1 DEF Has
    <3>3. Lacking(f, rows)' /\ Completes(f, rows)'
      BY <2>2, <2>3, <3>1, <3>2, VersionPersists DEF Lacking, Completes, CopyTo
    <3>4. exec'[w].filler = rows /\ exec'[w].at = "create" /\ exec'[w].id = f
      BY <2>2, <2>5
    <3> QED
      BY <3>3, <3>4 DEF MergeSound
  <2> QED
    BY <1>0, <2>1, <2>4, <2>5, ProceedsOne
<1>5. ASSUME NEW w \in Worker, CreateBatch(w)
      PROVE  MergeSound(exec[w])' /\ \A v \in Worker : v # w => exec'[v] = exec[v]
  <2>0. exec[w].at = "create" /\ Proceed(w, "update", {}, "completed")
    BY <1>5 DEF CreateBatch
  <2>1. PICK f \in File : f = exec[w].id /\ f = exec'[w].id /\ Exists(f)
    BY <1>E, <2>0, RunningVersion DEF Proceed
  <2>2. /\ exec'[w].filler = {} /\ exec'[w].at = "update"
        /\ \A v \in Worker : v # w => exec'[v] = exec[v]
    BY <1>E, <2>0 DEF Proceed
  <2>3. Completes(f, exec[w].filler)
    BY <1>5, <2>1 DEF MergeSound, CreateBatch
  <2>4. \A r \in exec[w].filler : r \in user_files' /\ r.file_id = f
    BY <1>5, <2>1, MergedRows
  <2>5. \A c \in ExpectedChunks(f) : Has(f, c)'
    <3>1. \A r \in exec[w].filler : Has(f, r.chunk_id)'
      BY <2>4 DEF Has
    <3> QED
      BY <2>1, <2>3, <3>1, WholePersists DEF Completes
  <2>6. Whole(f)'
    BY <2>1, <2>5, VersionPersists DEF Whole
  <2> QED
    BY <2>1, <2>2, <2>6 DEF MergeSound
<1>6. ASSUME NEW w \in Worker, CreateBatchFails(w) \/ Update(w)
      PROVE  MergeSound(exec[w])' /\ \A v \in Worker : v # w => exec'[v] = exec[v]
  <2>1. /\ exec'[w].filler = {} /\ exec'[w].at \in {"update", "notify"}
        /\ exec'[w].at = "update" => exec'[w].status = "failed"
        /\ \A v \in Worker : v # w => exec'[v] = exec[v]
    <3>1. CASE CreateBatchFails(w)
      <4>1. Proceed(w, "update", {}, "failed")
        BY <3>1 DEF CreateBatchFails
      <4> QED
        BY <1>E, <4>1 DEF Proceed
    <3>2. CASE Update(w)
      <4>1. Proceed(w, "notify", {}, exec[w].status)
        BY <3>2 DEF Update
      <4> QED
        BY <1>E, <4>1 DEF Proceed
    <3> QED
      BY <1>6, <3>1, <3>2
  <2> QED
    BY <1>1, <2>1
<1>7. \/ exec' = exec
      \/ \E w \in Worker : Abandon(w)
      \/ \E w \in Worker : SelectPair(w) /\ ~Abandon(w)
      \/ \E w \in Worker : \/ Execute(w) \/ CreateBatch(w)
                           \/ CreateBatchFails(w) \/ Update(w)
  <2>1. CASE SyncNext \/ UNCHANGED clientVars
    BY <2>1 DEF SyncNext, NewFile, NewVersion, PutChunk, Eof, PrepareFileForUpload,
                UpdateFileMetadata, UpsertChunk, MarkUploadComplete, workerVars,
                clientVars, vars
  <2>2. CASE SystemNext \/ FaultNext
    BY <2>2 DEF SystemNext, FaultNext, Fault, EnqueueMsg, EnqueueFails, WorkerStep, ReadMsg,
                Notify, ExecuteFails, Crash, workerVars
  <2> QED
    BY <2>1, <2>2 DEF ClientStep
<1>8. ASSUME NEW w \in Worker, MergeSound(exec[w])',
             \A v \in Worker : v # w => exec'[v] = exec[v]
      PROVE  \A v \in Worker : MergeSound(exec[v])'
  BY <1>8, OthersMerge
<1>9. CASE exec' = exec
  BY <1>9, OthersMerge
<1> QED
  BY <1>2, <1>3, <1>4, <1>5, <1>6, <1>7, <1>8, <1>9

\* A version is whole when it is completed, and unless it is a patch when its end
\* is reported.
LEMMA WholeWhenDoneStep ==
  ASSUME MergeInv, [ClientStep]_clientVars
  PROVE  WholeWhenDone'
<1> USE DEF MergeInv
<1>1. ASSUME NEW f \in File, Waiting(f)', ~IsPatch(f)'
      PROVE  Whole(f)'
  <2>1. Waiting(f) \/ Reports(f)
    BY <1>1, WaitingMoves DEF SyncInv, IndInv
  <2>2. Exists(f)
    BY <2>1 DEF SyncInv, ReportsSent, Reports, Exists
  <2>3. ~IsPatch(f)
    BY <1>1, <2>2, VersionPersists
  <2>4. CASE Waiting(f)
    BY <2>2, <2>3, <2>4, WholePersists DEF WholeWhenDone
  <2>5. CASE Reports(f)
    <3>1. Whole(f)
      BY <2>3, <2>5, HasIds DEF Reports, Whole
    <3> QED
      BY <2>2, <3>1, WholePersists
  <2> QED
    BY <2>1, <2>4, <2>5
<1>2. ASSUME NEW f \in File, upload_status[f] = "completed"
      PROVE  Whole(f)'
  BY <1>2, WholePersists DEF WholeWhenDone, Exists
<1>3. ASSUME NEW f \in File, upload_status'[f] = "completed", upload_status[f] # "completed"
      PROVE  Whole(f)'
  <2>1. PICK w \in Worker : Update(w)
    <3>1. ~UNCHANGED metadataVars
      BY <1>3 DEF metadataVars
    <3>2. ASSUME NEW g \in File, NEW p \in FileOrNil, NEW n \in ChunkCount,
                 CreateMetadataToken(g, p, n)
          PROVE  FALSE
      BY <1>3, <3>2 DEF CreateMetadataToken, SyncInv, IndInv, TypeOK
    <3> QED
      BY <3>1, <3>2, ClientRows
  <2>2. /\ upload_status'[f] = upload_status[f] \/ f = exec[w].id \/ f = exec[w].prev
        /\ f = exec[w].prev => upload_status[f] = "completed"
        /\ f = exec[w].id => upload_status'[f] = exec[w].status
    <3>1. PICK g, p : /\ g = exec[w].id /\ p = exec[w].prev
                      /\ Published(g, p, exec[w].status) /\ (p # Nil => Offered(p))
      BY <2>1, UpdateOnce
    <3>2. upload_status'[f] = IF f = p \/ f = g THEN exec[w].status ELSE upload_status[f]
      BY <3>1 DEF Published
    <3>3. f = p => upload_status[f] = "completed"
      BY <3>1, ConstantsAssumption DEF Offered
    <3> QED
      BY <3>1, <3>2, <3>3
  <2>3. f = exec[w].id /\ exec[w].status = "completed"
    BY <1>3, <2>2
  <2>4. Whole(f) /\ Exists(f)
    BY <2>1, <2>3, RunningVersion DEF MergeSound, Update
  <2> QED
    BY <2>4, WholePersists
<1> QED
  BY <1>1, <1>2, <1>3 DEF WholeWhenDone

-----------------------------------------------------------------------------
(* The invariant, and what it shows.                                       *)

\* There are no rows when the server starts.
LEMMA InitMergeInv == ClientInit => MergeInv
<1> SUFFICES ASSUME ClientInit PROVE MergeInv
  OBVIOUS
<1>1. SyncInv
  BY InitSyncInv
<1>2. /\ user_files = {}
      /\ \A w \in Worker : exec[w] = Idle
      /\ \A f \in File : upload_status[f] = "absent"
  BY DEF ClientInit, Init
<1>3. RowsExpected /\ OneRowEach /\ ChunkOwnOrInherited
  BY <1>2 DEF RowsExpected, OneRowEach, ChunkOwnOrInherited
<1>4. \A w \in Worker : MergeSound(exec[w])
  <2>1. Idle.at = "idle" /\ Idle.filler = {}
    BY DEF Idle
  <2> QED
    BY <1>2, <2>1 DEF MergeSound
<1>5. WholeWhenDone
  BY <1>1, <1>2 DEF WholeWhenDone, SyncInv, ReportsSent
<1> QED
  BY <1>1, <1>3, <1>4, <1>5 DEF MergeInv

\* Every step keeps the invariant.
LEMMA StepMergeInv == MergeInv /\ [ClientStep]_clientVars => MergeInv'
<1> SUFFICES ASSUME MergeInv, [ClientStep]_clientVars PROVE MergeInv'
  OBVIOUS
<1>1. SyncInv'
  BY StepSyncInv DEF MergeInv
<1>2. (\A w \in Worker : MergeSound(exec[w]))'
  BY MergeSoundStep
<1> QED
  BY <1>1, <1>2, RowsStep, WholeWhenDoneStep DEF MergeInv

\* What a running ExecuteEach knows of the merge, and that a completed version
\* is whole, hold whatever is lost or fails.
THEOREM MergeInvariance == SyncSpec => []MergeInv
<1>1. SyncSpec => ClientInit /\ [][ClientStep]_clientVars
  BY DEF SyncSpec, ClientStep
<1> QED
  BY <1>1, InitMergeInv, StepMergeInv, PTL

\* A completed version in the listing has one row for each of its chunks, and no
\* other: an upload sent them all, or RestOfChunks and CreateBatch added what a
\* patch lacked.
THEOREM ListedIsWhole == SyncSpec => []CurrentIsWhole
<1>1. MergeInv => CurrentIsWhole
  <2> SUFFICES ASSUME MergeInv, NEW f \in File, upload_status[f] = "completed"
               PROVE  /\ ChunkIds(SelectFiles(f)) = ExpectedChunks(f)
                      /\ \A r, s \in SelectFiles(f) : r.chunk_id = s.chunk_id => r = s
    BY DEF CurrentIsWhole
  <2>1. \A c : Has(f, c) => c \in ExpectedChunks(f)
    BY DEF MergeInv, RowsExpected, Has
  <2>2. \A c \in ExpectedChunks(f) : Has(f, c)
    BY DEF MergeInv, WholeWhenDone, Whole
  <2>3. ChunkIds(SelectFiles(f)) = ExpectedChunks(f)
    BY <2>1, <2>2, HasIds
  <2>4. \A r, s \in SelectFiles(f) : r.chunk_id = s.chunk_id => r = s
    BY DEF MergeInv, OneRowEach, SelectFiles
  <2> QED
    BY <2>3, <2>4
<1> QED
  BY <1>1, MergeInvariance, PTL

\* A chunk row is the one that was uploaded to the version, or a copy of one of
\* its predecessor (FillerFor).
THEOREM OwnOrInherited == SyncSpec => []ChunkOwnOrInherited
<1>1. MergeInv => ChunkOwnOrInherited
  BY DEF MergeInv
<1> QED
  BY <1>1, MergeInvariance, PTL

\* Neither an upload nor CreateBatch adds a chunk row to a settled version.
THEOREM FrozenOnceSettled == SyncSpec => SettledIsFrozen
<1> DEFINE Frozen == \A f \in File : Settled(f) => SelectFiles(f)' = SelectFiles(f)
<1>1. MergeInv /\ [ClientStep]_clientVars => [Frozen]_clientVars
  <2> SUFFICES ASSUME MergeInv, [ClientStep]_clientVars, NEW f \in File, Settled(f)
               PROVE  SelectFiles(f)' = SelectFiles(f)
    OBVIOUS
  <2>1. \A r \in user_files' : r.file_id = f => r \in user_files
    BY NewRows DEF Grows, Fresh
  <2> QED
    BY <2>1, RowsAdded DEF SelectFiles
<1>2. SyncSpec => ClientInit /\ [][ClientStep]_clientVars
  BY DEF SyncSpec, ClientStep
<1> QED
  BY <1>1, <1>2, MergeInvariance, PTL DEF SettledIsFrozen
=============================================================================
