-------------------------- MODULE ReconcilerProofs --------------------------
(***************************************************************************)
(* Proofs, for any number of versions, chunks and workers, of the          *)
(* properties that Reconciler has for every client.                        *)
(***************************************************************************)
EXTENDS Reconciler, TLAPS

\* A version is made from another, existing version, or from none.
PrevExists ==
  \A f \in File :
    /\ ~Exists(f) => prev_id[f] = Nil
    /\ prev_id[f] # Nil => prev_id[f] # f /\ Exists(prev_id[f])

\* A message names a version and the predecessor recorded in its row.
Sound(msg) == Exists(msg.id) /\ msg.prev = prev_id[msg.id]

AllSound(msgs) == \A i \in 1 .. Len(msgs) : Sound(msgs[i])

MessagesSound ==
  /\ \A f \in eof_calls : Exists(f)
  /\ AllSound(queue)
  /\ \A w \in Worker : AllSound(held[w])

\* What a running ExecuteEach knows.
ExecutionSound ==
  \A w \in Worker :
    exec[w].at # "idle" =>
      /\ exec[w].id \in File
      /\ Exists(exec[w].id)
      /\ exec[w].prev = prev_id[exec[w].id]
      /\ exec[w].status \in {"failed", "completed"}
      /\ exec[w].at = "select" => exec[w].prev # Nil
      /\ exec[w].at = "notify" => Settled(exec[w].id)

FillerWasUploaded ==
  \A w \in Worker : \A r \in exec[w].filler :
    r.blob # Nil => <<r.blob, r.chunk_id>> \in blobs

IndInv ==
  /\ TypeOK
  /\ PrevExists
  /\ MessagesSound
  /\ ExecutionSound
  /\ RowsWellFormed
  /\ RetiredHasSuccessor
  /\ LineageVisible
  /\ NotifiedIsSettled
  /\ FillerWasUploaded
  /\ BlobWasUploaded

-----------------------------------------------------------------------------
(* Types.                                                                  *)

\* A copied chunk row is a chunk row.
LEMMA CopyType ==
  ASSUME NEW f \in FileOrNil, NEW r \in UserFile, f # Nil
  PROVE  CopyTo(f, r) \in UserFile
BY DEF CopyTo, UserFile, FileOrNil

\* The filler rows of a version are chunk rows.
LEMMA FillerType ==
  ASSUME NEW f \in File, NEW p, TypeOK,
         NEW prevFile \in BuildFilesInfoResponse(SelectFiles(p))
  PROVE  FillerFor(f, p, prevFile) \in SUBSET UserFile
<1>1. prevFile \subseteq UserFile
  BY DEF BuildFilesInfoResponse, SelectFiles, TypeOK
<1>2. RestOfChunks(SelectFiles(f), prevFile) \subseteq UserFile
  BY <1>1 DEF RestOfChunks
<1>3. \A r \in UserFile : CopyTo(f, r) \in UserFile
  BY DEF CopyTo, UserFile, FileOrNil
<1> QED
  BY <1>2, <1>3 DEF FillerFor

\* A worker that runs no ExecuteEach is well typed.
LEMMA IdleType == Idle \in Execution
BY DEF Idle, Execution, Step, FileOrNil, Status

\* Giving up an ExecuteEach keeps the types.
LEMMA AbandonType ==
  ASSUME NEW w \in Worker, TypeOK, Abandon(w)
  PROVE  exec' \in [Worker -> Execution]
BY IdleType DEF Abandon, TypeOK

\* Going on with an ExecuteEach keeps the types.
LEMMA ProceedType ==
  ASSUME NEW w \in Worker, TypeOK, NEW at \in Step,
         NEW filler \in SUBSET UserFile, NEW status \in Status,
         Proceed(w, at, filler, status)
  PROVE  exec' \in [Worker -> Execution]
BY DEF Proceed, TypeOK, Execution

\* The empty database and the empty queues are well typed.
LEMMA TypeInit == Init => TypeOK
BY IdleType DEF Init, TypeOK, Status, FileOrNil

\* Requests to the API server keep the types.
LEMMA ClientTypes == TypeOK /\ ClientNext => TypeOK'
<1> SUFFICES ASSUME TypeOK, ClientNext PROVE TypeOK'
  OBVIOUS
<1> USE DEF TypeOK, workerVars, metadataVars
<1>1. ASSUME NEW f \in File, NEW n \in ChunkCount, PrepareFileForUpload(f, n)
      PROVE  TypeOK'
  BY <1>1 DEF PrepareFileForUpload, CreateMetadataToken, Status, FileOrNil
<1>2. ASSUME NEW p \in File, NEW f \in File, NEW n \in ChunkCount,
             UpdateFileMetadata(p, f, n)
      PROVE  TypeOK'
  BY <1>2 DEF UpdateFileMetadata, CreateMetadataToken, Status, FileOrNil
<1>3. ASSUME NEW f \in File, NEW c \in ChunkId, NEW b \in FileOrNil,
             UpsertChunk(f, c, b)
      PROVE  TypeOK'
  <2>1. [file_id |-> f, chunk_id |-> c, blob |-> b] \in UserFile
    BY DEF UserFile
  <2> QED
    BY <1>3, <2>1 DEF UpsertChunk, CreateChunk, UpdateChunk
<1>4. ASSUME NEW f \in File, MarkUploadComplete(f)
      PROVE  TypeOK'
  BY <1>4 DEF MarkUploadComplete
<1>5. ASSUME NEW f \in File, EnqueueMsg(f)
      PROVE  TypeOK'
  <2>1. [id |-> f, prev |-> prev_id[f]] \in CacheMetadata
    BY DEF CacheMetadata
  <2>2. queue' \in Seq(CacheMetadata)
    BY <1>5, <2>1 DEF EnqueueMsg
  <2> QED
    BY <1>5, <2>2 DEF EnqueueMsg
<1> QED
  BY <1>1, <1>2, <1>3, <1>4, <1>5 DEF ClientNext

\* The steps of Produce and ExecuteEach keep the types.
LEMMA WorkerTypes ==
  ASSUME NEW w \in Worker, TypeOK, ExecutionSound, WorkerStep(w)
  PROVE  TypeOK'
<1> USE DEF TypeOK, workerVars, metadataVars
<1>1. CASE ReadMsg(w)
  <2>1. Head(queue) \in CacheMetadata /\ queue' \in Seq(CacheMetadata)
    BY <1>1 DEF ReadMsg
  <2>2. held' \in [Worker -> Seq(CacheMetadata)]
    BY <1>1, <2>1 DEF ReadMsg
  <2> QED
    BY <1>1, <2>1, <2>2 DEF ReadMsg
<1>2. CASE Execute(w)
  <2>1. Head(held[w]) \in CacheMetadata /\ Tail(held[w]) \in Seq(CacheMetadata)
    BY <1>2 DEF Execute
  <2>2. held' \in [Worker -> Seq(CacheMetadata)]
    BY <1>2, <2>1 DEF Execute
  <2>3. exec' \in [Worker -> Execution]
    BY <1>2, <2>1 DEF Execute, CacheMetadata, Execution, Step, Status, FileOrNil
  <2> QED
    BY <1>2, <2>2, <2>3 DEF Execute
<1>3. CASE SelectPair(w)
  <2>1. exec' \in [Worker -> Execution]
    <3>1. CASE Abandon(w)
      BY <3>1, AbandonType
    <3>2. ASSUME NEW prevFile \in BuildFilesInfoResponse(SelectFiles(exec[w].prev)),
                 NEW at \in {"update", "create"},
                 Proceed(w, at, FillerFor(exec[w].id, exec[w].prev, prevFile),
                         "completed")
          PROVE  exec' \in [Worker -> Execution]
      <4>1. exec[w].id \in File
        BY <1>3 DEF SelectPair, ExecutionSound
      <4>2. FillerFor(exec[w].id, exec[w].prev, prevFile) \in SUBSET UserFile
        BY <4>1, FillerType
      <4> QED
        BY <3>2, <4>2, ProceedType DEF Step, Status
    <3> QED
      BY <1>3, <3>1, <3>2 DEF SelectPair
  <2> QED
    BY <1>3, <2>1 DEF SelectPair
<1>4. CASE CreateBatch(w)
  <2>1. exec[w].filler \subseteq UserFile
    BY DEF Execution
  <2>2. exec' \in [Worker -> Execution]
    BY <1>4, ProceedType DEF CreateBatch, Step, Status
  <2> QED
    BY <1>4, <2>1, <2>2 DEF CreateBatch
<1>5. CASE Update(w)
  <2>1. exec[w].status \in Status
    BY DEF Execution
  <2>2. exec' \in [Worker -> Execution]
    BY <1>5, <2>1, ProceedType DEF Update, Step
  <2>3. upload_status' \in [File -> Status]
    BY <1>5, <2>1 DEF Update
  <2>4. current_flag' \in [File -> BOOLEAN] /\ end_date' \in [File -> BOOLEAN]
    BY <1>5 DEF Update
  <2> QED
    BY <1>5, <2>2, <2>3, <2>4 DEF Update
<1>6. CASE Notify(w)
  <2>1. exec[w].id \in File
    BY <1>6 DEF Notify, ExecutionSound
  <2> QED
    BY <1>6, <2>1, AbandonType DEF Notify
<1> QED
  BY <1>1, <1>2, <1>3, <1>4, <1>5, <1>6 DEF WorkerStep

\* Failures and crashes keep the types.
LEMMA FaultTypes == TypeOK /\ Fault => TypeOK'
<1> SUFFICES ASSUME TypeOK, Fault PROVE TypeOK'
  OBVIOUS
<1> USE DEF TypeOK, workerVars, metadataVars
<1>1. ASSUME NEW f \in File, EnqueueFails(f)
      PROVE  TypeOK'
  BY <1>1 DEF EnqueueFails
<1>2. ASSUME NEW w \in Worker, CreateBatchFails(w)
      PROVE  TypeOK'
  <2>1. exec' \in [Worker -> Execution]
    BY <1>2, ProceedType DEF CreateBatchFails, Step, Status
  <2> QED
    BY <1>2, <2>1 DEF CreateBatchFails
<1>3. ASSUME NEW w \in Worker, ExecuteFails(w)
      PROVE  TypeOK'
  BY <1>3, AbandonType DEF ExecuteFails
<1>4. ASSUME NEW w \in Worker, Crash(w)
      PROVE  TypeOK'
  <2>1. held' \in [Worker -> Seq(CacheMetadata)]
    BY <1>4 DEF Crash
  <2> QED
    BY <1>4, <2>1, AbandonType DEF Crash
<1> QED
  BY <1>1, <1>2, <1>3, <1>4 DEF Fault

-----------------------------------------------------------------------------
(* The rows of file_metadatas.                                             *)

\* Rows change in two ways only: a version is created, or Update runs.
LEMMA RowChanges ==
  ASSUME [Next]_vars
  PROVE  \/ UNCHANGED metadataVars
         \/ \E f \in File, p \in FileOrNil, n \in ChunkCount :
              /\ CreateMetadataToken(f, p, n)
              /\ p # Nil => p \in File /\ Exists(p)
         \/ \E w \in Worker : Update(w)
<1>1. CASE UNCHANGED vars
  BY <1>1 DEF vars, metadataVars
<1>2. CASE ClientNext
  <2>1. ASSUME NEW f \in File, NEW n \in ChunkCount, PrepareFileForUpload(f, n)
        PROVE  CreateMetadataToken(f, Nil, n)
    BY <2>1 DEF PrepareFileForUpload
  <2>2. ASSUME NEW p \in File, NEW f \in File, NEW n \in ChunkCount,
               UpdateFileMetadata(p, f, n)
        PROVE  CreateMetadataToken(f, p, n) /\ Exists(p)
    BY <2>2 DEF UpdateFileMetadata
  <2>3. ASSUME NEW f \in File, NEW c \in ChunkId, NEW b \in FileOrNil,
               UpsertChunk(f, c, b)
        PROVE  UNCHANGED metadataVars
    BY <2>3 DEF UpsertChunk, CreateChunk, UpdateChunk
  <2>4. ASSUME NEW f \in File, MarkUploadComplete(f) \/ EnqueueMsg(f)
        PROVE  UNCHANGED metadataVars
    BY <2>4 DEF MarkUploadComplete, EnqueueMsg
  <2> QED
    BY <1>2, <2>1, <2>2, <2>3, <2>4 DEF ClientNext, FileOrNil
<1>3. ASSUME NEW w \in Worker, WorkerStep(w), ~Update(w)
      PROVE  UNCHANGED metadataVars
  BY <1>3 DEF WorkerStep, ReadMsg, Execute, SelectPair, CreateBatch, Notify
<1>4. CASE Fault
  BY <1>4 DEF Fault, EnqueueFails, CreateBatchFails, ExecuteFails, Crash
<1> QED
  BY <1>1, <1>2, <1>3, <1>4 DEF Next

\* What Update does when its ExecuteEach is sound: version f is published.
Published(f, p, st) ==
  /\ p = prev_id[f]
  /\ p # f
  /\ st \in {"failed", "completed"}
  /\ prev_id' = prev_id
  /\ current_flag' = [g \in File |-> IF g = p THEN FALSE
                                     ELSE g = f \/ current_flag[g]]
  /\ end_date' = [g \in File |-> IF g = p THEN TRUE ELSE g # f /\ end_date[g]]
  /\ upload_status' = [g \in File |-> IF g = p \/ g = f THEN st
                                      ELSE upload_status[g]]

\* Update matches the row of the version, and that of its predecessor if it has one.
LEMMA UpdatePublishes ==
  ASSUME NEW w \in Worker, TypeOK, PrevExists, ExecutionSound, Update(w)
  PROVE  /\ exec[w].id \in File
         /\ Published(exec[w].id, exec[w].prev, exec[w].status)
<1>1. /\ exec[w].id \in File
      /\ exec[w].prev = prev_id[exec[w].id]
      /\ exec[w].status \in {"failed", "completed"}
  BY DEF Update, ExecutionSound
<1>2. exec[w].prev # exec[w].id
  BY <1>1, ConstantsAssumption DEF PrevExists
<1> QED
  BY <1>1, <1>2 DEF Update, NewRecord, OldRecord, Published

\* What a step may do to file_metadatas, for the lemmas below.
LEMMA RowSteps ==
  ASSUME TypeOK, PrevExists, ExecutionSound, [Next]_vars
  PROVE  \/ UNCHANGED metadataVars
         \/ \E f \in File, p \in FileOrNil, n \in ChunkCount :
              /\ CreateMetadataToken(f, p, n)
              /\ p # Nil => p \in File /\ Exists(p)
         \/ \E f \in File : \E p, st : Published(f, p, st)
BY RowChanges, UpdatePublishes

\* Rows are never deleted, keep their predecessor, and once settled stay so.
LEMMA RowsPersist ==
  ASSUME TypeOK, PrevExists, ExecutionSound, [Next]_vars
  PROVE  \A f \in File : /\ Exists(f) => Exists(f)' /\ prev_id'[f] = prev_id[f]
                         /\ Settled(f) => Settled(f)'
<1> USE DEF Exists, Settled
<1>1. CASE UNCHANGED metadataVars
  BY <1>1 DEF metadataVars
<1>2. ASSUME NEW f \in File, NEW p \in FileOrNil, NEW n \in ChunkCount,
             CreateMetadataToken(f, p, n)
      PROVE  \A g \in File : /\ Exists(g) => Exists(g)' /\ prev_id'[g] = prev_id[g]
                             /\ Settled(g) => Settled(g)'
  BY <1>2 DEF CreateMetadataToken, TypeOK
<1>3. ASSUME NEW f \in File, NEW p, NEW st, Published(f, p, st)
      PROVE  \A g \in File : /\ Exists(g) => Exists(g)' /\ prev_id'[g] = prev_id[g]
                             /\ Settled(g) => Settled(g)'
  BY <1>3 DEF Published
<1> QED
  BY <1>1, <1>2, <1>3, RowSteps

\* prev_id goes on naming an older row.
LEMMA PrevExistsStep ==
  ASSUME TypeOK, PrevExists, ExecutionSound, [Next]_vars
  PROVE  PrevExists'
<1>1. CASE UNCHANGED metadataVars
  BY <1>1 DEF metadataVars, Exists, PrevExists
<1>2. ASSUME NEW f \in File, NEW p \in FileOrNil, NEW n \in ChunkCount,
             CreateMetadataToken(f, p, n), p # Nil => p \in File /\ Exists(p)
      PROVE  PrevExists'
  BY <1>2 DEF CreateMetadataToken, Exists, PrevExists, TypeOK, FileOrNil
<1>3. ASSUME NEW f \in File, NEW p, NEW st, Published(f, p, st)
      PROVE  PrevExists'
  <2>1. \A g \in File : ~Exists(g)' => prev_id[g] = Nil
    BY <1>3 DEF Published, Exists, PrevExists
  <2>2. \A g \in File : prev_id[g] # Nil =>
                          prev_id[g] # g /\ prev_id[g] \in File /\ Exists(prev_id[g])
    BY DEF PrevExists, TypeOK, FileOrNil
  <2>3. \A g \in File : Exists(g) => Exists(g)'
    BY RowsPersist
  <2> QED
    BY <1>3, <2>1, <2>2, <2>3 DEF Published, PrevExists
<1> QED
  BY <1>1, <1>2, <1>3, RowSteps

\* Creating a row and Update keep the rows well formed.
LEMMA RowsWellFormedStep ==
  ASSUME TypeOK, PrevExists, ExecutionSound, RowsWellFormed, [Next]_vars
  PROVE  RowsWellFormed'
<1>1. CASE UNCHANGED metadataVars
  BY <1>1 DEF metadataVars, Settled, RowsWellFormed
<1>2. ASSUME NEW f \in File, NEW p \in FileOrNil, NEW n \in ChunkCount,
             CreateMetadataToken(f, p, n)
      PROVE  RowsWellFormed'
  BY <1>2 DEF CreateMetadataToken, Exists, Settled, RowsWellFormed, TypeOK
<1>3. ASSUME NEW f \in File, NEW p, NEW st, Published(f, p, st)
      PROVE  RowsWellFormed'
  <2> SUFFICES ASSUME NEW g \in File
               PROVE  /\ Settled(g)' <=> (current_flag'[g] \/ end_date'[g])
                      /\ ~(current_flag'[g] /\ end_date'[g])
    BY DEF RowsWellFormed
  <2>1. CASE g = p \/ g = f
    BY <1>3, <2>1 DEF Published, Settled
  <2>2. CASE g # p /\ g # f
    <3>1. /\ upload_status'[g] = upload_status[g]
          /\ current_flag'[g] <=> current_flag[g]
          /\ end_date'[g] <=> end_date[g]
      BY <1>3, <2>2 DEF Published
    <3> QED
      BY <3>1 DEF RowsWellFormed, Settled
  <2> QED
    BY <2>1, <2>2
<1> QED
  BY <1>1, <1>2, <1>3, RowSteps

\* Update retires only what its new row was made from.
LEMMA RetiredHasSuccessorStep ==
  ASSUME TypeOK, PrevExists, ExecutionSound, RetiredHasSuccessor, [Next]_vars
  PROVE  RetiredHasSuccessor'
<1> SUFFICES ASSUME NEW f \in File, end_date'[f]
             PROVE  \E g \in File : prev_id'[g] = f /\ Settled(g)'
  BY DEF RetiredHasSuccessor
<1>1. CASE end_date[f]
  <2>1. PICK g \in File : prev_id[g] = f /\ Settled(g)
    BY <1>1 DEF RetiredHasSuccessor
  <2>2. Exists(g)
    BY <2>1 DEF Exists, Settled
  <2> QED
    BY <2>1, <2>2, RowsPersist
<1>2. CASE ~end_date[f]
  <2>1. PICK g \in File : \E p, st : Published(g, p, st)
    BY <1>2, RowSteps DEF metadataVars, CreateMetadataToken
  <2>2. prev_id'[g] = f /\ Settled(g)'
    BY <1>2, <2>1 DEF Published, Settled
  <2> QED
    BY <2>2
<1> QED
  BY <1>1, <1>2

\* Update leaves a current version in every settled lineage.
LEMMA LineageVisibleStep ==
  ASSUME TypeOK, PrevExists, ExecutionSound, LineageVisible, [Next]_vars
  PROVE  LineageVisible'
<1> SUFFICES ASSUME NEW S \in SUBSET File, S # {},
                    \A f \in S : Settled(f)',
                    \A g \in File : Settled(g)' /\ prev_id'[g] \in S => g \in S
             PROVE  \E f \in S : current_flag'[f]
  BY DEF LineageVisible
<1>1. ASSUME \A f \in S : Settled(f) PROVE \E f \in S : current_flag[f]
  <2>1. \A g \in File : Settled(g) /\ prev_id[g] \in S => g \in S
    BY RowsPersist DEF Exists, Settled
  <2> QED
    BY <1>1, <2>1 DEF LineageVisible
<1>2. CASE UNCHANGED metadataVars
  BY <1>1, <1>2 DEF metadataVars, Settled
<1>3. ASSUME NEW f \in File, NEW p \in FileOrNil, NEW n \in ChunkCount,
             CreateMetadataToken(f, p, n)
      PROVE  \E g \in S : current_flag'[g]
  BY <1>1, <1>3 DEF CreateMetadataToken, Settled, TypeOK
<1>4. ASSUME NEW f \in File, NEW p, NEW st, Published(f, p, st)
      PROVE  \E g \in S : current_flag'[g]
  <2>1. CASE f \in S
    BY <1>4, <2>1 DEF Published
  <2>2. CASE f \notin S
    <3>1. p \notin S
      BY <1>4, <2>2 DEF Published, Settled
    <3>2. \A g \in S : upload_status'[g] = upload_status[g]
      BY <1>4, <2>2, <3>1 DEF Published
    <3>3. PICK g \in S : current_flag[g]
      BY <1>1, <3>2 DEF Settled
    <3> QED
      BY <1>4, <2>2, <3>1, <3>3 DEF Published
  <2> QED
    BY <2>1, <2>2
<1> QED
  BY <1>2, <1>3, <1>4, RowSteps

-----------------------------------------------------------------------------
(* Messages and executions.                                                *)

\* A message that is sound stays sound, on every queue.
LEMMA SoundPersists ==
  ASSUME TypeOK, PrevExists, ExecutionSound, [Next]_vars
  PROVE  /\ \A msg \in CacheMetadata : Sound(msg) => Sound(msg)'
         /\ \A msgs \in Seq(CacheMetadata) : AllSound(msgs) => AllSound(msgs)'
<1>1. \A msg \in CacheMetadata : Sound(msg) => Sound(msg)'
  BY RowsPersist DEF Sound, CacheMetadata
<1> QED
  BY <1>1 DEF AllSound

\* RPUSH of a sound message keeps a queue sound.
LEMMA SoundAppend ==
  ASSUME NEW msgs \in Seq(CacheMetadata), NEW msg \in CacheMetadata,
         AllSound(msgs), Sound(msg)
  PROVE  AllSound(Append(msgs, msg))
BY DEF AllSound

\* BLPOP returns a sound message and leaves a sound queue.
LEMMA SoundTail ==
  ASSUME NEW msgs \in Seq(CacheMetadata), AllSound(msgs), msgs # <<>>
  PROVE  /\ Head(msgs) \in CacheMetadata
         /\ Tail(msgs) \in Seq(CacheMetadata)
         /\ Sound(Head(msgs))
         /\ AllSound(Tail(msgs))
BY DEF AllSound

\* MarkUploadComplete, RPUSH and BLPOP keep all messages sound.
LEMMA MessagesSoundStep ==
  ASSUME TypeOK, PrevExists, MessagesSound, ExecutionSound, [Next]_vars
  PROVE  MessagesSound'
<1> DEFINE Old(msgs) == msgs \in Seq(CacheMetadata) /\ AllSound(msgs)
<1>1. Old(queue) /\ \A w \in Worker : Old(held[w])
  BY DEF TypeOK, MessagesSound
<1>2. \A f \in eof_calls' : f \in File /\ Exists(f)
  BY RowsPersist
     DEF Next, ClientNext, WorkerStep, Fault, vars, workerVars, TypeOK, MessagesSound,
         PrepareFileForUpload, UpdateFileMetadata, UpsertChunk, CreateChunk, UpdateChunk, MarkUploadComplete,
         EnqueueMsg, EnqueueFails, ReadMsg, Execute, SelectPair, CreateBatch, Update,
         Notify, CreateBatchFails, ExecuteFails, Crash, Exists
<1>3. Old(queue') /\ \A w \in Worker : Old(held'[w])
  <2>1. CASE UNCHANGED <<queue, held>>
    BY <1>1, <2>1
  <2>2. ASSUME NEW f \in File, EnqueueMsg(f)
        PROVE  Old(queue') /\ held' = held
    <3>1. /\ [id |-> f, prev |-> prev_id[f]] \in CacheMetadata
          /\ Sound([id |-> f, prev |-> prev_id[f]])
      BY <2>2 DEF EnqueueMsg, Sound, CacheMetadata, MessagesSound, TypeOK
    <3> QED
      BY <1>1, <2>2, <3>1, SoundAppend DEF EnqueueMsg, workerVars
  <2>3. ASSUME NEW w \in Worker, ReadMsg(w)
        PROVE  Old(queue') /\ \A v \in Worker : Old(held'[v])
    <3>1. /\ Head(queue) \in CacheMetadata /\ Sound(Head(queue))
          /\ Old(Tail(queue))
      BY <1>1, <2>3, SoundTail DEF ReadMsg
    <3>2. Old(Append(held[w], Head(queue)))
      BY <1>1, <3>1, SoundAppend
    <3>3. held' = [held EXCEPT ![w] = Append(held[w], Head(queue))]
      BY <2>3 DEF ReadMsg
    <3> QED
      BY <1>1, <2>3, <3>1, <3>2, <3>3 DEF ReadMsg, TypeOK
  <2>4. ASSUME NEW w \in Worker, Execute(w)
        PROVE  queue' = queue /\ \A v \in Worker : Old(held'[v])
    <3>1. Old(Tail(held[w]))
      BY <1>1, <2>4, SoundTail DEF Execute
    <3> QED
      BY <1>1, <2>4, <3>1 DEF Execute, TypeOK
  <2>5. ASSUME NEW w \in Worker, Crash(w)
        PROVE  queue' = queue /\ \A v \in Worker : Old(held'[v])
    <3>1. Old(<<>>)
      BY DEF AllSound
    <3> QED
      BY <1>1, <2>5, <3>1 DEF Crash, TypeOK
  <2>6. \/ UNCHANGED <<queue, held>>
        \/ \E f \in File : EnqueueMsg(f)
        \/ \E w \in Worker : ReadMsg(w) \/ Execute(w) \/ Crash(w)
    BY DEF Next, ClientNext, WorkerStep, Fault, vars, workerVars,
           PrepareFileForUpload, UpdateFileMetadata, UpsertChunk, CreateChunk, UpdateChunk,
           MarkUploadComplete, EnqueueFails, SelectPair, CreateBatch, Update,
           Notify, CreateBatchFails, ExecuteFails
  <2> QED
    BY <1>1, <2>1, <2>2, <2>3, <2>4, <2>5, <2>6
<1> QED
  BY <1>2, <1>3, SoundPersists, RowsPersist DEF MessagesSound

\* What Proceed leaves in the state of ExecuteEach.
LEMMA ProceedFields ==
  ASSUME TypeOK, NEW w \in Worker, NEW at, NEW filler, NEW st, Proceed(w, at, filler, st)
  PROVE  /\ exec'[w].at = at /\ exec'[w].status = st
         /\ exec'[w].id = exec[w].id /\ exec'[w].prev = exec[w].prev
         /\ \A v \in Worker : v # w => exec'[v] = exec[v]
BY DEF Proceed, TypeOK

\* ExecuteEach starts with the ids of the message it is given.
LEMMA ExecuteFields ==
  ASSUME TypeOK, NEW w \in Worker, Execute(w)
  PROVE  /\ exec'[w].at = IF Head(held[w]).prev = Nil THEN "update" ELSE "select"
         /\ exec'[w].id = Head(held[w]).id /\ exec'[w].prev = Head(held[w]).prev
         /\ exec'[w].status = "completed"
         /\ \A v \in Worker : v # w => exec'[v] = exec[v]
BY DEF Execute, TypeOK

\* Every ExecuteEach goes on working on a version and its predecessor.
LEMMA ExecutionSoundStep ==
  ASSUME TypeOK, PrevExists, MessagesSound, ExecutionSound, [Next]_vars
  PROVE  ExecutionSound'
<1> DEFINE Before(x) ==
             x.at # "idle" =>
               /\ x.id \in File
               /\ upload_status[x.id] # "absent"
               /\ x.prev = prev_id[x.id]
               /\ x.status \in {"failed", "completed"}
               /\ x.at = "select" => x.prev # Nil
               /\ x.at = "notify" => upload_status[x.id] \in {"failed", "completed"}
           After(x) ==
             x.at # "idle" =>
               /\ x.id \in File
               /\ upload_status'[x.id] # "absent"
               /\ x.prev = prev_id'[x.id]
               /\ x.status \in {"failed", "completed"}
               /\ x.at = "select" => x.prev # Nil
               /\ x.at = "notify" => upload_status'[x.id] \in {"failed", "completed"}
           AllAfter == \A v \in Worker : After(exec'[v])
<1>1. \A w \in Worker : Before(exec[w])
  BY DEF ExecutionSound, Exists, Settled
<1>2. \A x : Before(x) => After(x)
  BY RowsPersist DEF Exists, Settled
<1>3. \A w \in Worker : After(exec[w])
  BY <1>1, <1>2
<1>4. ASSUME NEW w \in Worker, After(exec'[w]),
             \A v \in Worker : v # w => exec'[v] = exec[v]
      PROVE  AllAfter
  BY <1>3, <1>4
<1> HIDE DEF After
<1>5. ASSUME NEW w \in Worker, Abandon(w)
      PROVE  AllAfter
  <2>1. exec'[w] = Idle /\ \A v \in Worker : v # w => exec'[v] = exec[v]
    BY <1>5 DEF Abandon, TypeOK
  <2>2. After(Idle)
    BY DEF Idle, After
  <2> QED
    BY <1>4, <2>1, <2>2
<1>6. ASSUME NEW w \in Worker, NEW at \in {"create", "update"}, NEW filler,
             NEW st \in {"failed", "completed"},
             exec[w].at # "idle", Proceed(w, at, filler, st)
      PROVE  AllAfter
  <2>1. /\ exec'[w].at = at /\ exec'[w].status = st
        /\ exec'[w].id = exec[w].id /\ exec'[w].prev = exec[w].prev
        /\ \A v \in Worker : v # w => exec'[v] = exec[v]
    BY <1>6, ProceedFields
  <2>2. /\ exec[w].id \in File
        /\ upload_status'[exec[w].id] # "absent"
        /\ exec[w].prev = prev_id'[exec[w].id]
    BY <1>3, <1>6 DEF After
  <2>3. at # "select" /\ at # "notify"
    BY <1>6
  <2>4. After(exec'[w])
    BY <1>6, <2>1, <2>2, <2>3 DEF After
  <2> QED
    BY <1>4, <2>1, <2>4
<1>7. ASSUME exec' = exec
      PROVE  AllAfter
  BY <1>3, <1>7
<1>8. ASSUME NEW w \in Worker, Execute(w)
      PROVE  AllAfter
  <2>1. Head(held[w]) \in CacheMetadata /\ Sound(Head(held[w]))
    BY <1>8, SoundTail DEF Execute, TypeOK, MessagesSound
  <2>2. /\ exec'[w].at = IF Head(held[w]).prev = Nil THEN "update" ELSE "select"
        /\ exec'[w].id = Head(held[w]).id /\ exec'[w].prev = Head(held[w]).prev
        /\ exec'[w].status = "completed"
        /\ \A v \in Worker : v # w => exec'[v] = exec[v]
    BY <1>8, ExecuteFields
  <2>3. Before(exec'[w])
    <3>1. /\ Head(held[w]).id \in File
          /\ upload_status[Head(held[w]).id] # "absent"
          /\ Head(held[w]).prev = prev_id[Head(held[w]).id]
      BY <2>1 DEF Sound, Exists, CacheMetadata
    <3> QED
      BY <2>2, <3>1
  <2>4. After(exec'[w])
    BY <1>2, <2>3
  <2> QED
    BY <1>4, <2>2, <2>4
<1>9. ASSUME NEW w \in Worker, Update(w)
      PROVE  AllAfter
  <2>1. /\ exec'[w].id = exec[w].id
        /\ exec'[w].prev = exec[w].prev
        /\ exec'[w].status = exec[w].status
        /\ exec'[w].at = "notify"
        /\ \A v \in Worker : v # w => exec'[v] = exec[v]
    BY <1>9 DEF Update, Proceed, TypeOK
  <2>2. /\ exec[w].id \in File
        /\ Published(exec[w].id, exec[w].prev, exec[w].status)
    BY <1>9, UpdatePublishes
  <2>3. After(exec'[w])
    BY <2>1, <2>2 DEF Published, After
  <2> QED
    BY <1>4, <2>1, <2>3
<1>10. ASSUME NEW w \in Worker, SelectPair(w)
       PROVE  AllAfter
  BY <1>5, <1>6, <1>10 DEF SelectPair
<1>11. ASSUME NEW w \in Worker, CreateBatch(w) \/ CreateBatchFails(w)
       PROVE  AllAfter
  BY <1>6, <1>11 DEF CreateBatch, CreateBatchFails
<1>12. ASSUME NEW w \in Worker, Notify(w) \/ ExecuteFails(w) \/ Crash(w)
       PROVE  AllAfter
  BY <1>5, <1>12 DEF Notify, ExecuteFails, Crash
<1>13. \/ exec' = exec
       \/ \E w \in Worker : \/ Execute(w) \/ SelectPair(w) \/ CreateBatch(w)
                            \/ Update(w) \/ Notify(w) \/ CreateBatchFails(w)
                            \/ ExecuteFails(w) \/ Crash(w)
  BY DEF Next, ClientNext, WorkerStep, Fault, vars, workerVars,
         PrepareFileForUpload, UpdateFileMetadata, UpsertChunk, CreateChunk, UpdateChunk,
         MarkUploadComplete, EnqueueMsg, EnqueueFails, ReadMsg
<1>14. AllAfter
  BY <1>7, <1>8, <1>9, <1>10, <1>11, <1>12, <1>13
<1> QED
  BY <1>14 DEF After, ExecutionSound, Exists, Settled

\* Notify runs after the transaction of Update.
LEMMA NotifiedIsSettledStep ==
  ASSUME TypeOK, PrevExists, ExecutionSound, NotifiedIsSettled, [Next]_vars
  PROVE  NotifiedIsSettled'
<1>1. \A f \in File : Settled(f) => Settled(f)'
  BY RowsPersist
<1>2. ASSUME NEW w \in Worker, Notify(w)
      PROVE  NotifiedIsSettled'
  BY <1>1, <1>2 DEF Notify, ExecutionSound, NotifiedIsSettled, TypeOK
<1>3. ASSUME notified' = notified
      PROVE  NotifiedIsSettled'
  BY <1>1, <1>3 DEF NotifiedIsSettled, TypeOK
<1>4. notified' = notified \/ \E w \in Worker : Notify(w)
  BY DEF Next, ClientNext, WorkerStep, Fault, vars,
         PrepareFileForUpload, UpdateFileMetadata, UpsertChunk, CreateChunk, UpdateChunk,
         MarkUploadComplete, EnqueueMsg, EnqueueFails, ReadMsg, Execute,
         SelectPair, CreateBatch, CreateBatchFails, Update, ExecuteFails, Crash
<1> QED
  BY <1>2, <1>3, <1>4

\* Blobs are only added.
LEMMA BlobsPersist ==
  ASSUME [Next]_vars
  PROVE  blobs \subseteq blobs'
BY DEF Next, ClientNext, WorkerStep, Fault, vars, Notify,
       PrepareFileForUpload, UpdateFileMetadata, UpsertChunk, CreateChunk, UpdateChunk,
       MarkUploadComplete, EnqueueMsg, EnqueueFails, ReadMsg, Execute,
       SelectPair, CreateBatch, CreateBatchFails, Update, ExecuteFails, Crash

\* The filler rows are copies of rows of the previous version, url and chunk id
\* included.
LEMMA FillerCopies ==
  ASSUME TypeOK, BlobWasUploaded,
         NEW f, NEW p,
         NEW prevFile \in BuildFilesInfoResponse(SelectFiles(p)),
         NEW r \in FillerFor(f, p, prevFile), r.blob # Nil
  PROVE  <<r.blob, r.chunk_id>> \in blobs
<1>1. prevFile \subseteq user_files
  BY DEF BuildFilesInfoResponse, SelectFiles
<1>2. PICK s \in user_files : r = CopyTo(f, s)
  BY <1>1 DEF FillerFor, RestOfChunks
<1>3. r.blob = s.blob /\ r.chunk_id = s.chunk_id
  BY <1>2 DEF CopyTo
<1> QED
  BY <1>3 DEF BlobWasUploaded

\* ExecuteEach going on touches one worker only.
LEMMA ProceedsOne ==
  ASSUME TypeOK, NEW w \in Worker, NEW at, NEW filler, NEW st,
         Proceed(w, at, filler, st)
  PROVE  /\ exec'[w].filler = filler
         /\ \A v \in Worker : v # w => exec'[v] = exec[v]
BY DEF Proceed, TypeOK

\* The filler rows in hand name uploaded chunks in the next state too.
LEMMA FillerWasUploadedStep ==
  ASSUME TypeOK, FillerWasUploaded, BlobWasUploaded, [Next]_vars
  PROVE  FillerWasUploaded'
<1> DEFINE Uploaded(x) ==
             \A r \in x.filler : r.blob # Nil => <<r.blob, r.chunk_id>> \in blobs
           UploadedAfter(x) ==
             \A r \in x.filler : r.blob # Nil => <<r.blob, r.chunk_id>> \in blobs'
<1>1. \A x : Uploaded(x) => UploadedAfter(x)
  BY BlobsPersist
<1>2. \A w \in Worker : Uploaded(exec[w])
  BY DEF FillerWasUploaded
<1>3. ASSUME NEW w \in Worker, exec'[w].filler = {},
             \A v \in Worker : v # w => exec'[v] = exec[v]
      PROVE  \A v \in Worker : Uploaded(exec'[v])
  BY <1>2, <1>3
<1>4. ASSUME NEW w \in Worker, SelectPair(w), ~Abandon(w)
      PROVE  \A v \in Worker : Uploaded(exec'[v])
  <2>1. PICK prevFile \in BuildFilesInfoResponse(SelectFiles(exec[w].prev)),
             at \in {"update", "create"} :
          Proceed(w, at, FillerFor(exec[w].id, exec[w].prev, prevFile), "completed")
    BY <1>4 DEF SelectPair
  <2>2. /\ exec'[w].filler = FillerFor(exec[w].id, exec[w].prev, prevFile)
        /\ \A v \in Worker : v # w => exec'[v] = exec[v]
    BY <2>1, ProceedsOne
  <2>3. Uploaded(exec'[w])
    BY <2>2, FillerCopies
  <2> QED
    BY <1>2, <2>2, <2>3
<1>5. ASSUME NEW w \in Worker, Abandon(w)
      PROVE  \A v \in Worker : Uploaded(exec'[v])
  BY <1>3, <1>5 DEF Abandon, Idle, TypeOK
<1>6. ASSUME NEW w \in Worker,
             Execute(w) \/ CreateBatch(w) \/ CreateBatchFails(w) \/ Update(w)
      PROVE  \A v \in Worker : Uploaded(exec'[v])
  <2>1. /\ exec'[w].filler = {}
        /\ \A v \in Worker : v # w => exec'[v] = exec[v]
    <3>1. CASE Execute(w)
      BY <3>1 DEF Execute, TypeOK
    <3>2. CASE CreateBatch(w) \/ CreateBatchFails(w) \/ Update(w)
      BY <3>2, ProceedsOne DEF CreateBatch, CreateBatchFails, Update
    <3> QED
      BY <1>6, <3>1, <3>2
  <2> QED
    BY <1>3, <2>1
<1>7. \/ exec' = exec
      \/ \E w \in Worker : Abandon(w)
      \/ \E w \in Worker : SelectPair(w) /\ ~Abandon(w)
      \/ \E w \in Worker : \/ Execute(w) \/ CreateBatch(w)
                           \/ CreateBatchFails(w) \/ Update(w)
  BY DEF Next, ClientNext, WorkerStep, Fault, vars, workerVars,
         PrepareFileForUpload, UpdateFileMetadata, UpsertChunk, CreateChunk, UpdateChunk,
         MarkUploadComplete, EnqueueMsg, EnqueueFails, ReadMsg,
         Notify, ExecuteFails, Crash
<1>8. \A v \in Worker : Uploaded(exec'[v])
  BY <1>2, <1>4, <1>5, <1>6, <1>7
<1>9. \A v \in Worker : UploadedAfter(exec'[v])
  BY <1>1, <1>8
<1> QED
  BY <1>9 DEF FillerWasUploaded

\* UpsertChunks and CreateBatch add rows whose url names an uploaded chunk.
LEMMA BlobWasUploadedStep ==
  ASSUME TypeOK, FillerWasUploaded, BlobWasUploaded, [Next]_vars
  PROVE  BlobWasUploaded'
<1> DEFINE Known(r) == r.blob # Nil => <<r.blob, r.chunk_id>> \in blobs'
<1>1. \A r \in user_files : Known(r)
  BY BlobsPersist DEF BlobWasUploaded
<1>2. ASSUME NEW f \in File, NEW c \in ChunkId, NEW b \in FileOrNil,
             UpsertChunk(f, c, b)
      PROVE  \A r \in user_files' : Known(r)
  <2> DEFINE new == [file_id |-> f, chunk_id |-> c, blob |-> b]
  <2>1. user_files' = user_files \cup {new}
    BY <1>2 DEF UpsertChunk, CreateChunk, UpdateChunk
  <2>2. b = Nil \/ <<b, c>> \in blobs'
    BY <1>2 DEF UpsertChunk, CreateChunk, UpdateChunk
  <2>3. Known(new)
    BY <2>2
  <2> QED
    BY <1>1, <2>1, <2>3
<1>3. ASSUME NEW w \in Worker, CreateBatch(w)
      PROVE  \A r \in user_files' : Known(r)
  <2>1. user_files' = user_files \cup exec[w].filler
    BY <1>3 DEF CreateBatch
  <2>2. \A r \in exec[w].filler : Known(r)
    BY BlobsPersist DEF FillerWasUploaded
  <2> QED
    BY <1>1, <2>1, <2>2
<1>4. \/ user_files' = user_files
      \/ \E f \in File, c \in ChunkId, b \in FileOrNil : UpsertChunk(f, c, b)
      \/ \E w \in Worker : CreateBatch(w)
  BY DEF Next, ClientNext, WorkerStep, Fault, vars, Notify,
         PrepareFileForUpload, UpdateFileMetadata,
         MarkUploadComplete, EnqueueMsg, EnqueueFails, ReadMsg, Execute,
         SelectPair, CreateBatchFails, Update, ExecuteFails, Crash
<1>5. \A r \in user_files' : Known(r)
  BY <1>1, <1>2, <1>3, <1>4
<1> QED
  BY <1>5 DEF BlobWasUploaded

-----------------------------------------------------------------------------
(* The theorems.                                                           *)

\* The inductive invariant holds before the first request.
LEMMA InitIndInv == Init => IndInv
<1> SUFFICES ASSUME Init PROVE IndInv
  OBVIOUS
<1>1. TypeOK
  BY TypeInit
<1>2. PrevExists /\ RowsWellFormed /\ RetiredHasSuccessor
  BY DEF Init, PrevExists, RowsWellFormed, RetiredHasSuccessor, Exists, Settled
<1>3. LineageVisible
  BY DEF Init, LineageVisible, Settled
<1>4. MessagesSound
  BY DEF Init, MessagesSound, AllSound
<1>5. ExecutionSound /\ FillerWasUploaded
  BY DEF Init, ExecutionSound, FillerWasUploaded, Idle
<1>6. NotifiedIsSettled /\ BlobWasUploaded
  BY DEF Init, NotifiedIsSettled, BlobWasUploaded
<1> QED
  BY <1>1, <1>2, <1>3, <1>4, <1>5, <1>6 DEF IndInv

\* Every step keeps the inductive invariant.
LEMMA StepIndInv == IndInv /\ [Next]_vars => IndInv'
<1> SUFFICES ASSUME IndInv, [Next]_vars PROVE IndInv'
  OBVIOUS
<1> USE DEF IndInv
<1>1. TypeOK'
  <2>1. CASE UNCHANGED vars
    BY <2>1 DEF vars, TypeOK
  <2> QED
    BY <2>1, ClientTypes, WorkerTypes, FaultTypes DEF Next
<1>2. PrevExists' /\ RowsWellFormed' /\ RetiredHasSuccessor'
  BY PrevExistsStep, RowsWellFormedStep, RetiredHasSuccessorStep
<1>3. LineageVisible'
  BY LineageVisibleStep
<1>4. MessagesSound' /\ ExecutionSound' /\ NotifiedIsSettled'
  BY MessagesSoundStep, ExecutionSoundStep, NotifiedIsSettledStep
<1>5. FillerWasUploaded' /\ BlobWasUploaded'
  BY FillerWasUploadedStep, BlobWasUploadedStep
<1> QED
  BY <1>1, <1>2, <1>3, <1>4, <1>5

\* The inductive invariant holds in every reachable state.
THEOREM Invariance == Spec => []IndInv
BY InitIndInv, StepIndInv, PTL DEF Spec

\* Rows, messages and the state of every ExecuteEach keep their types.
THEOREM TypeCorrect == Spec => []TypeOK
<1>1. IndInv => TypeOK
  BY DEF IndInv
<1> QED
  BY <1>1, Invariance, PTL

\* Whatever clients, worker processes and faults do, Update keeps every
\* settled version either current or ended, and never both.
THEOREM RowsStayWellFormed == Spec => []RowsWellFormed
<1>1. IndInv => RowsWellFormed
  BY DEF IndInv
<1> QED
  BY <1>1, Invariance, PTL

\* Update never retires a version that nothing replaces.
THEOREM RetiredIsReplaced == Spec => []RetiredHasSuccessor
<1>1. IndInv => RetiredHasSuccessor
  BY DEF IndInv
<1> QED
  BY <1>1, Invariance, PTL

\* Some version of every settled lineage stays in the listing.
THEOREM NothingVanishes == Spec => []LineageVisible
<1>1. IndInv => LineageVisible
  BY DEF IndInv
<1> QED
  BY <1>1, Invariance, PTL

\* Notify is only ever reached after the commit of Update.
THEOREM NotifiedAfterCommit == Spec => []NotifiedIsSettled
<1>1. IndInv => NotifiedIsSettled
  BY DEF IndInv
<1> QED
  BY <1>1, Invariance, PTL

\* However many versions a chunk row is copied along by CreateBatch, its url
\* names a chunk that was uploaded to the version in the url.
THEOREM BlobsWereUploaded == Spec => []BlobWasUploaded
<1>1. IndInv => BlobWasUploaded
  BY DEF IndInv
<1> QED
  BY <1>1, Invariance, PTL

\* Update takes a version out of the listing only together with putting one
\* made from it there.
THEOREM HandoverIsAtomic == Spec => AtomicHandover
<1> DEFINE Handover ==
             \A f \in File :
               current_flag[f] /\ ~current_flag'[f] =>
                 \E g \in File : /\ prev_id[g] = f
                                 /\ current_flag'[g]
                                 /\ upload_status'[g] = upload_status'[f]
<1>1. IndInv /\ [Next]_vars => Handover
  <2> SUFFICES ASSUME IndInv, [Next]_vars PROVE Handover
    OBVIOUS
  <2>1. CASE UNCHANGED metadataVars
    BY <2>1 DEF metadataVars
  <2>2. ASSUME NEW f \in File, NEW p, NEW n, CreateMetadataToken(f, p, n)
        PROVE  Handover
    BY <2>2 DEF CreateMetadataToken
  <2>3. ASSUME NEW f \in File, NEW p, NEW st, Published(f, p, st)
        PROVE  Handover
    BY <2>3 DEF Published
  <2> QED
    BY <2>1, <2>2, <2>3, RowSteps DEF IndInv
<1>2. IndInv /\ [Next]_vars => [Handover]_vars
  BY <1>1
<1> QED
  BY <1>2, Invariance, PTL DEF Spec, AtomicHandover

-----------------------------------------------------------------------------
(* A worker process and the list.                                          *)

\* The message that process w is working on.
InHand(w) ==
  IF exec[w].at = "idle" THEN <<>> ELSE <<[id |-> exec[w].id, prev |-> exec[w].prev]>>

\* The process, as Pipeline promises it to be for its pool of one.
Process(w) == INSTANCE WorkQueue
                WITH Message <- CacheMetadata, Capacity <- MaxHeld + 1,
                     list <- queue, held <- held[w], running <- InHand(w)

\* A statement of ExecuteEach other than its last keeps the message in hand.
LEMMA StillInHand ==
  ASSUME TypeOK, NEW w \in Worker, NEW v \in Worker, exec[v].at # "idle",
         NEW at, NEW filler, NEW st, at # "idle", Proceed(v, at, filler, st)
  PROVE  InHand(w)' = InHand(w)
<1>1. CASE w = v
  <2>1. exec'[v].at = at /\ exec'[v].id = exec[v].id /\ exec'[v].prev = exec[v].prev
    BY DEF Proceed, TypeOK
  <2> QED
    BY <1>1, <2>1 DEF InHand
<1>2. CASE w # v
  <2>1. exec'[w] = exec[w]
    BY <1>2 DEF Proceed, TypeOK
  <2> QED
    BY <2>1 DEF InHand
<1> QED
  BY <1>1, <1>2

\* The last one leaves nothing in hand.
LEMMA OutOfHand ==
  ASSUME TypeOK, NEW w \in Worker, NEW v \in Worker, Abandon(v)
  PROVE  InHand(w)' = IF w = v THEN <<>> ELSE InHand(w)
BY DEF Abandon, TypeOK, InHand, Idle

\* Requests push, processes pop, start, finish and die, and every other step is
\* invisible in the queue.
LEMMA ProcessStep ==
  ASSUME TypeOK, NEW w \in Worker, [Next]_vars
  PROVE  [Process(w)!Next]_(Process(w)!vars)
<1>1. CASE UNCHANGED <<queue, held, exec>>
  BY <1>1 DEF Process!vars, InHand
<1>2. ASSUME NEW f \in File, EnqueueMsg(f)
      PROVE  \E m \in CacheMetadata : Process(w)!Push(m)
  <2>1. [id |-> f, prev |-> prev_id[f]] \in CacheMetadata
    BY DEF CacheMetadata, TypeOK
  <2> QED
    BY <1>2, <2>1 DEF EnqueueMsg, workerVars, Process!Push, InHand
<1>3. ASSUME NEW v \in Worker, ReadMsg(v)
      PROVE  Process(w)!Pop \/ Process(w)!PopElsewhere
  <2>1. InHand(w)' = InHand(w)
    BY <1>3 DEF ReadMsg, InHand
  <2>2. CASE v = w
    <3>1. Len(InHand(w)) <= 1 /\ Len(InHand(w)) \in Nat
      BY DEF InHand
    <3>2. Len(held[w]) < MaxHeld /\ Len(held[w]) \in Nat
      BY <1>3, <2>2 DEF ReadMsg, TypeOK
    <3>3. Len(held[w]) + Len(InHand(w)) < MaxHeld + 1
      BY <3>1, <3>2, ConstantsAssumption
    <3>4. held'[w] = Append(held[w], Head(queue))
      BY <1>3, <2>2 DEF ReadMsg, TypeOK
    <3> QED
      BY <1>3, <2>1, <3>3, <3>4 DEF ReadMsg, Process!Pop
  <2>3. CASE v # w
    <3>1. held'[w] = held[w]
      BY <1>3, <2>3 DEF ReadMsg, TypeOK
    <3> QED
      BY <1>3, <2>1, <3>1 DEF ReadMsg, Process!PopElsewhere
  <2> QED
    BY <2>2, <2>3
<1>4. ASSUME NEW v \in Worker, Execute(v)
      PROVE  Process(w)!Start \/ UNCHANGED Process(w)!vars
  <2>1. CASE v = w
    <3>1. Head(held[w]) \in CacheMetadata
      BY <1>4, <2>1 DEF Execute, TypeOK
    <3>2. /\ exec'[w].at # "idle"
          /\ exec'[w].id = Head(held[w]).id /\ exec'[w].prev = Head(held[w]).prev
      BY <1>4, <2>1 DEF Execute, TypeOK
    <3>3. InHand(w) = <<>> /\ InHand(w)' = <<Head(held[w])>>
      BY <1>4, <2>1, <3>1, <3>2 DEF Execute, InHand, CacheMetadata
    <3>4. held[w] # <<>> /\ held'[w] = Tail(held[w]) /\ queue' = queue
      BY <1>4, <2>1 DEF Execute, TypeOK
    <3> QED
      BY <3>3, <3>4 DEF Process!Start
  <2>2. CASE v # w
    BY <1>4, <2>2 DEF Execute, TypeOK, InHand, Process!vars
  <2> QED
    BY <2>1, <2>2
<1>5. ASSUME NEW v \in Worker, UNCHANGED <<queue, held>>, Abandon(v)
      PROVE  Process(w)!Finish \/ UNCHANGED Process(w)!vars
  BY <1>5, OutOfHand DEF Process!Finish, Process!vars
<1>6. ASSUME NEW v \in Worker, UNCHANGED <<queue, held>>, exec[v].at # "idle",
             NEW at, NEW filler, NEW st, at # "idle", Proceed(v, at, filler, st)
      PROVE  UNCHANGED Process(w)!vars
  BY <1>6, StillInHand DEF Process!vars
<1>7. ASSUME NEW v \in Worker, Crash(v)
      PROVE  Process(w)!Crash \/ UNCHANGED Process(w)!vars
  BY <1>7, OutOfHand DEF Crash, TypeOK, Process!Crash, Process!vars
<1>8. ASSUME NEW v \in Worker, SelectPair(v)
      PROVE  Process(w)!Finish \/ UNCHANGED Process(w)!vars
  BY <1>5, <1>6, <1>8 DEF SelectPair
<1>9. ASSUME NEW v \in Worker, CreateBatch(v) \/ CreateBatchFails(v) \/ Update(v)
      PROVE  UNCHANGED Process(w)!vars
  BY <1>6, <1>9 DEF CreateBatch, CreateBatchFails, Update
<1>10. ASSUME NEW v \in Worker, Notify(v) \/ ExecuteFails(v)
       PROVE  Process(w)!Finish \/ UNCHANGED Process(w)!vars
  BY <1>5, <1>10 DEF Notify, ExecuteFails
<1> QED
  BY <1>1, <1>2, <1>3, <1>4, <1>7, <1>8, <1>9, <1>10
     DEF Next, vars, ClientNext, WorkerStep, Fault, PrepareFileForUpload, UpdateFileMetadata,
         UpsertChunk, MarkUploadComplete, EnqueueFails, workerVars, Process!Next

\* A worker process takes its messages from the list, one of several processes
\* that do, as WorkQueue says: oldest first, one at a time, and all it has are
\* gone when it dies.
THEOREM ProcessesTakeInOrder ==
  ASSUME NEW w \in Worker
  PROVE  Spec => Process(w)!Spec
<1>1. Init => Process(w)!Init
  BY DEF Init, Process!Init, InHand, Idle
<1>2. TypeOK /\ [Next]_vars => [Process(w)!Next]_(Process(w)!vars)
  BY ProcessStep
<1> QED
  BY <1>1, <1>2, TypeCorrect, PTL DEF Spec, Process!Spec
=============================================================================
