---------------------------- MODULE UploadsProofs ---------------------------
(***************************************************************************)
(* Proofs, for any number of versions, contents, users and workers, of the *)
(* safety properties of Uploads, and that Uploads implements Reconciler.   *)
(***************************************************************************)
EXTENDS Uploads, ReconcilerProofs

\* A request draws an id no row has, and what it read of the previous version
\* still holds when it inserts.
RequestsSound ==
  \A f \in File : request[f] # Nil =>
    /\ ~Exists(f)
    /\ request[f].prev # Nil => Exists(request[f].prev)

\* A row has a content, and the chunks CalculateChunks gives it.
RowsHaveContent ==
  \A f \in File : Exists(f) =>
    /\ file_hash[f] \in Content
    /\ n_chunks[f] = CalculateChunks(SizeOf[file_hash[f]])

\* Unless there was a race for a content, at most one request is about to insert
\* it as a new file, and none if there is such a file already.
OneRequest ==
  \A d \in Content \ raced : \A f \in Pending(d) :
    /\ \A g \in Pending(d) : g = f
    /\ \A g \in File : Exists(g) /\ prev_id[g] = Nil => file_hash[g] # d

ServerInv ==
  /\ IndInv
  /\ UploadsTypeOK
  /\ RequestsSound
  /\ RowsHaveContent
  /\ OneRequest
  /\ DuplicateOnlyByRace

-----------------------------------------------------------------------------
(* CalculateChunks.                                                        *)

\* CalculateChunks is the least number of chunks that hold the file.
LEMMA ChunksCeiling ==
  ASSUME NEW size \in Nat
  PROVE  /\ CalculateChunks(size) \in Nat
         /\ CalculateChunks(size) * ChunkSize >= size
         /\ (CalculateChunks(size) - 1) * ChunkSize < size
<1> DEFINE n == size \div ChunkSize
<1>1. ChunkSize \in Nat /\ ChunkSize > 0
  BY UploadsAssumption
<1>2. n \in Nat /\ n * ChunkSize <= size /\ size < (n + 1) * ChunkSize
  BY <1>1
<1>3. (n + 1) - 1 = n /\ (n - 1) * ChunkSize < n * ChunkSize
  BY <1>1, <1>2
<1> HIDE DEF n
<1>4. CASE n * ChunkSize < size
  <2>1. CalculateChunks(size) = n + 1
    BY <1>4 DEF CalculateChunks, n
  <2> QED
    BY <1>1, <1>2, <1>3, <1>4, <2>1
<1>5. CASE ~(n * ChunkSize < size)
  <2>1. CalculateChunks(size) = n
    BY <1>5 DEF CalculateChunks, n
  <2>2. n * ChunkSize = size
    BY <1>1, <1>2, <1>5
  <2> QED
    BY <1>1, <1>2, <1>3, <2>1, <2>2
<1> QED
  BY <1>4, <1>5

-----------------------------------------------------------------------------
(* Steps.                                                                  *)

RowsSame ==
  /\ prev_id' = prev_id
  /\ n_chunks' = n_chunks
  /\ \A f \in File : Exists(f)' <=> Exists(f)

\* No row is inserted, and no request starts.
Quiet ==
  /\ RowsSame
  /\ file_hash' = file_hash
  /\ raced' = raced
  /\ live' \subseteq live
  /\ \A f \in File : request'[f] \in {request[f], Nil}
  /\ request' \in [File -> Prepared \cup {Nil}]

\* An insert is a step of PrepareFileForUpload or UpdateFileMetadata.
LEMMA InsertStep ==
  ASSUME UploadsTypeOK, RequestsSound, NEW f \in File, Insert(f)
  PROVE  Next
<1> DEFINE q == request[f]
           n == CalculateChunks(SizeOf[q.content])
<1>1. q \in Prepared /\ q # Nil
  BY DEF Insert, UploadsTypeOK
<1>2. q.content \in Content /\ q.prev \in FileOrNil
  BY <1>1 DEF Prepared
<1>3. n \in ChunkCount
  BY <1>2, UploadsAssumption
<1>4. CASE q.prev = Nil
  <2>1. PrepareFileForUpload(f, n)
    BY <1>4 DEF Insert, PrepareFileForUpload
  <2> QED
    BY <1>3, <2>1 DEF Next, ClientNext
<1>5. CASE q.prev # Nil
  <2>1. q.prev \in File /\ Exists(q.prev)
    BY <1>1, <1>2, <1>5 DEF FileOrNil, RequestsSound
  <2>2. UpdateFileMetadata(q.prev, f, n)
    BY <2>1 DEF Insert, UpdateFileMetadata
  <2> QED
    BY <1>3, <2>1, <2>2 DEF Next, ClientNext
<1> QED
  BY <1>4, <1>5

\* Every step of the server, the clients and the workers is a step of Reconciler,
\* or changes nothing of what Reconciler is about.
LEMMA UploadsStep ==
  ASSUME UploadsTypeOK, RequestsSound, [UploadsNext]_uploadVars
  PROVE  [Next]_vars
<1>1. CASE UNCHANGED uploadVars
  BY <1>1 DEF uploadVars
<1>2. CASE CreateNext
  BY <1>2, InsertStep DEF CreateNext, PostFileMetadata, Prepare, InsertFails
<1>3. ASSUME NEW p \in File, NEW f \in File, NEW u \in User, NEW d \in Content,
             PatchFileMetadata(f, u, d, p)
      PROVE  UNCHANGED vars
  BY <1>3 DEF PatchFileMetadata, Prepare
<1>4. ASSUME NEW f \in File, NEW c \in ChunkId, AdmitChunk(f, c)
      PROVE  UNCHANGED vars
  BY <1>4 DEF AdmitChunk
<1>5. ASSUME NEW f \in File, Eof(f)
      PROVE  Next
  BY <1>5 DEF Eof, Next, ClientNext
<1>6. CASE ProcessNext
  BY <1>6 DEF ProcessNext, StreamTokenExpires, AccessTokensExpire, Restart, WriteChunk,
              Next, ClientNext
<1>7. CASE SystemNext \/ FaultNext
  BY <1>7 DEF SystemNext, FaultNext, Next, ClientNext
<1> QED
  BY <1>1, <1>2, <1>3, <1>4, <1>5, <1>6, <1>7 DEF UploadsNext

\* The workers insert and delete no row.
LEMMA UpdateRows ==
  ASSUME IndInv, NEW w \in Worker, Update(w)
  PROVE  RowsSame
<1>1. /\ exec[w].id \in File
      /\ Published(exec[w].id, exec[w].prev, exec[w].status)
  BY UpdatePublishes DEF IndInv
<1>2. Exists(exec[w].id) /\ (exec[w].prev \in File => Exists(exec[w].prev))
  BY <1>1, ConstantsAssumption DEF IndInv, ExecutionSound, PrevExists, Update
<1>3. n_chunks' = n_chunks
  BY DEF Update
<1> QED
  BY <1>1, <1>2, <1>3 DEF Published, RowsSame, Exists

\* Neither do the steps of the server that only change other tables.
LEMMA BackgroundRows ==
  ASSUME IndInv, SystemNext \/ FaultNext
  PROVE  RowsSame
<1>1. CASE \E w \in Worker : Update(w)
  BY <1>1, UpdateRows
<1>2. CASE UNCHANGED metadataVars
  BY <1>2 DEF metadataVars, RowsSame, Exists
<1>3. UNCHANGED metadataVars \/ \E w \in Worker : Update(w)
  BY DEF SystemNext, FaultNext, WorkerStep, Fault, EnqueueMsg, EnqueueFails, ReadMsg,
         Execute, SelectPair, CreateBatch, Notify, CreateBatchFails, ExecuteFails, Crash
<1> QED
  BY <1>1, <1>2, <1>3

\* A step starts a request, ends one with an insert, or is quiet.
LEMMA ServerSteps ==
  ASSUME IndInv, UploadsTypeOK, [UploadsNext]_uploadVars
  PROVE  \/ Quiet
         \/ \E f \in File, u \in User, d \in Content :
              PostFileMetadata(f, u, d) \/ \E p \in File : PatchFileMetadata(f, u, d, p)
         \/ \E f \in File : Insert(f)
<1> USE DEF Quiet, UploadsTypeOK
<1>1. ASSUME UNCHANGED metadataVars PROVE RowsSame
  BY <1>1 DEF metadataVars, RowsSame, Exists
<1>2. ASSUME UNCHANGED vars PROVE RowsSame
  BY <1>2 DEF vars, RowsSame, Exists
<1>3. CASE UNCHANGED uploadVars
  BY <1>2, <1>3 DEF uploadVars, serverVars
<1>4. ASSUME NEW f \in File, InsertFails(f) PROVE Quiet
  BY <1>2, <1>4 DEF InsertFails
<1>5. ASSUME NEW f \in File, NEW c \in ChunkId, AdmitChunk(f, c) PROVE Quiet
  BY <1>2, <1>5 DEF AdmitChunk
<1>6. ASSUME NEW f \in File, Eof(f) PROVE Quiet
  BY <1>1, <1>6 DEF Eof, MarkUploadComplete, serverVars
<1>7. ASSUME NEW f \in File, StreamTokenExpires(f) PROVE Quiet
  BY <1>2, <1>7 DEF StreamTokenExpires
<1>8. ASSUME AccessTokensExpire \/ Restart PROVE Quiet
  BY <1>2, <1>8 DEF AccessTokensExpire, Restart
<1>9. ASSUME NEW f \in File, NEW c \in ChunkId, NEW b \in FileOrNil, WriteChunk(f, c, b)
      PROVE  Quiet
  BY <1>1, <1>9 DEF WriteChunk, UpsertChunk
<1>10. CASE SystemNext \/ FaultNext
  BY <1>10, BackgroundRows DEF SystemNext, FaultNext, serverVars
<1> QED
  BY <1>3, <1>4, <1>5, <1>6, <1>7, <1>8, <1>9, <1>10
     DEF UploadsNext, CreateNext, ProcessNext

-----------------------------------------------------------------------------
(* The conjuncts of the invariant.                                         *)

\* What a started request leaves as it is.
LEMMA PrepareFields ==
  ASSUME UploadsTypeOK, NEW f \in File, NEW u \in User, NEW d \in Content,
         NEW p \in FileOrNil, Prepare(f, u, d, p)
  PROVE  /\ RowsSame /\ ~Exists(f)
         /\ file_hash' = file_hash /\ live' = live
         /\ request' \in [File -> Prepared \cup {Nil}]
         /\ request'[f].content = d /\ request'[f].prev = p
         /\ \A g \in File : g # f => request'[g] = request[g]
<1>1. [user |-> u, content |-> d, prev |-> p] \in Prepared
  BY DEF Prepared
<1>2. RowsSame
  BY DEF Prepare, RowsSame, vars, Exists
<1> QED
  BY <1>1, <1>2 DEF Prepare, UploadsTypeOK

\* What an insert does to the rows.
LEMMA InsertFields ==
  ASSUME ServerInv, NEW f \in File, Insert(f)
  PROVE  LET q == request[f] IN
         /\ q # Nil /\ q \in Prepared /\ q.content \in Content /\ q.prev \in FileOrNil
         /\ ~Exists(f) /\ Exists(f)'
         /\ prev_id'[f] = q.prev /\ file_hash'[f] = q.content
         /\ n_chunks'[f] = CalculateChunks(SizeOf[q.content])
         /\ \A g \in File : g # f => /\ Exists(g)' <=> Exists(g)
                                     /\ prev_id'[g] = prev_id[g]
                                     /\ n_chunks'[g] = n_chunks[g]
                                     /\ file_hash'[g] = file_hash[g]
                                     /\ request'[g] = request[g]
         /\ request'[f] = Nil
         /\ live' \subseteq live \cup {f}
         /\ raced' = raced
<1>1. /\ request[f] \in Prepared /\ request[f] # Nil
      /\ request[f].content \in Content /\ request[f].prev \in FileOrNil
  BY DEF Insert, ServerInv, UploadsTypeOK, Prepared
<1>2. /\ upload_status \in [File -> Status] /\ prev_id \in [File -> FileOrNil]
      /\ n_chunks \in [File -> ChunkCount \cup {0}]
      /\ file_hash \in [File -> Content \cup {Nil}]
      /\ request \in [File -> Prepared \cup {Nil}]
  BY DEF ServerInv, IndInv, TypeOK, UploadsTypeOK
<1> QED
  BY <1>1, <1>2 DEF Insert, CreateMetadataToken, Exists

\* The table of requests, the tokens and the chunk uploads keep their types.
LEMMA UploadsTypeStep ==
  ASSUME ServerInv, [UploadsNext]_uploadVars
  PROVE  UploadsTypeOK'
<1>1. access' \in BOOLEAN /\ writing' \subseteq File \X ChunkId
  <2> DEFINE Kept == access' = access /\ writing' = writing
  <2>1. access \in BOOLEAN /\ writing \subseteq File \X ChunkId
    BY DEF ServerInv, UploadsTypeOK
  <2>2. CASE CreateNext \/ \E p, f \in File, u \in User, d \in Content : PatchFileMetadata(f, u, d, p)
    <3>1. Kept
      BY <2>2 DEF CreateNext, PostFileMetadata, PatchFileMetadata, Prepare, Insert, InsertFails
    <3> QED
      BY <2>1, <3>1
  <2>3. CASE \E f \in File, c \in ChunkId : AdmitChunk(f, c)
    BY <2>1, <2>3 DEF AdmitChunk
  <2>4. CASE \E f \in File : Eof(f)
    BY <2>1, <2>4 DEF Eof, serverVars
  <2>5. CASE ProcessNext
    BY <2>1, <2>5 DEF ProcessNext, StreamTokenExpires, AccessTokensExpire, Restart, WriteChunk
  <2>6. CASE SystemNext \/ FaultNext \/ UNCHANGED uploadVars
    BY <2>1, <2>6 DEF SystemNext, FaultNext, uploadVars, serverVars
  <2> QED
    BY <2>2, <2>3, <2>4, <2>5, <2>6 DEF UploadsNext
<1> DEFINE Rest == /\ request \in [File -> Prepared \cup {Nil}]
                   /\ file_hash \in [File -> Content \cup {Nil}]
                   /\ live \subseteq {f \in File : Exists(f)}
                   /\ raced \subseteq Content
<1>2. Rest
  BY DEF ServerInv, UploadsTypeOK
<1>3. ASSUME Quiet PROVE Rest'
  BY <1>2, <1>3 DEF Quiet, RowsSame, Exists
<1>4. ASSUME NEW f \in File, NEW u \in User, NEW d \in Content, NEW p \in FileOrNil,
             Prepare(f, u, d, p), raced' \subseteq raced \cup {d}
      PROVE  Rest'
  <2>1. /\ RowsSame /\ file_hash' = file_hash /\ live' = live
        /\ request' \in [File -> Prepared \cup {Nil}]
    BY <1>4, PrepareFields DEF ServerInv
  <2> QED
    BY <1>2, <1>4, <2>1 DEF RowsSame
<1>5. ASSUME NEW f \in File, Insert(f)
      PROVE  Rest'
  <2>1. file_hash' \in [File -> Content \cup {Nil}] /\ request' \in [File -> Prepared \cup {Nil}]
    BY <1>2, <1>5, InsertFields DEF Insert
  <2> QED
    BY <1>2, <1>5, <2>1, InsertFields
<1>6. ASSUME NEW f \in File, NEW u \in User, NEW d \in Content,
             PostFileMetadata(f, u, d) \/ \E p \in File : PatchFileMetadata(f, u, d, p)
      PROVE  Rest'
  <2>1. \E p \in FileOrNil : Prepare(f, u, d, p)
    BY <1>6 DEF PostFileMetadata, PatchFileMetadata, FileOrNil
  <2>2. raced' \subseteq raced \cup {d}
    BY <1>6 DEF PostFileMetadata, PatchFileMetadata
  <2> QED
    BY <1>4, <2>1, <2>2
<1>7. Rest'
  BY <1>3, <1>5, <1>6, ServerSteps DEF ServerInv
<1> QED
  BY <1>1, <1>7 DEF UploadsTypeOK

\* Requests stay sound, and rows have their content: rows are never deleted.
LEMMA RequestsSoundStep ==
  ASSUME ServerInv, [UploadsNext]_uploadVars
  PROVE  RequestsSound' /\ RowsHaveContent'
<1> DEFINE Sounds == RequestsSound /\ RowsHaveContent
<1>1. Sounds /\ \A f \in File : request[f] = Nil \/ request[f].prev \in FileOrNil
  BY DEF ServerInv, UploadsTypeOK, Prepared
<1>2. CASE Quiet
  BY <1>1, <1>2 DEF Quiet, RowsSame, FileOrNil, RequestsSound, RowsHaveContent
<1>3. ASSUME NEW f \in File, NEW u \in User, NEW d \in Content, NEW p \in FileOrNil,
             Prepare(f, u, d, p), p # Nil => Exists(p)
      PROVE  Sounds'
  <2>0. UploadsTypeOK
    BY DEF ServerInv
  <2>1. /\ RowsSame /\ ~Exists(f) /\ file_hash' = file_hash
        /\ request'[f].prev = p
        /\ \A g \in File : g # f => request'[g] = request[g]
    BY <1>3, <2>0, PrepareFields
  <2>2. RowsHaveContent'
    BY <1>1, <2>1 DEF RowsSame, RowsHaveContent
  <2>3. RequestsSound'
    BY <1>1, <1>3, <2>1 DEF RowsSame, FileOrNil, RequestsSound
  <2> QED
    BY <2>2, <2>3
<1>4. ASSUME NEW f \in File, Insert(f)
      PROVE  Sounds'
  <2>1. RowsHaveContent'
    BY <1>1, <1>4, InsertFields DEF RowsHaveContent
  <2>2. /\ Exists(f)' /\ request'[f] = Nil
        /\ \A g \in File : g # f => (Exists(g)' <=> Exists(g)) /\ request'[g] = request[g]
    BY <1>4, InsertFields
  <2>3. ASSUME NEW g \in File, request'[g] # Nil
        PROVE  (~Exists(g) /\ (request[g].prev # Nil => Exists(request[g].prev)))'
    <3>1. g # f /\ request'[g] = request[g] /\ request[g].prev \in File \cup {Nil}
      BY <1>1, <2>2, <2>3 DEF FileOrNil
    <3>2. ~Exists(g) /\ (request[g].prev # Nil => Exists(request[g].prev))
      BY <1>1, <2>3, <3>1 DEF RequestsSound
    <3>3. ASSUME NEW q \in File, Exists(q)
          PROVE  Exists(q)'
      BY <2>2, <3>3
    <3>4. request'[g].prev # Nil => upload_status'[request'[g].prev] # "absent"
      BY <3>1, <3>2, <3>3 DEF Exists
    <3> QED
      BY <2>2, <3>1, <3>2, <3>4 DEF Exists
  <2>4. RequestsSound'
    BY <2>3 DEF RequestsSound
  <2> QED
    BY <2>1, <2>4
<1> QED
  BY <1>2, <1>3, <1>4, ServerSteps
     DEF ServerInv, PostFileMetadata, PatchFileMetadata, FileOrNil

\* Requests that go on, or end, leave OneRequest and DuplicateOnlyByRace alone.
LEMMA QuietRace ==
  ASSUME ServerInv, Quiet
  PROVE  OneRequest' /\ DuplicateOnlyByRace'
<1>1. \A d : Pending(d)' \subseteq Pending(d)
  BY DEF Quiet, Pending
<1>2. OneRequest'
  BY <1>1 DEF ServerInv, OneRequest, Quiet, RowsSame, Pending
<1>3. DuplicateOnlyByRace'
  BY DEF ServerInv, DuplicateOnlyByRace, Quiet, RowsSame
<1> QED
  BY <1>2, <1>3

\* A request for a new file passes FindByHash only if it is alone, or is seen as
\* a race.
LEMMA PostRace ==
  ASSUME ServerInv, NEW f \in File, NEW u \in User, NEW d \in Content,
         PostFileMetadata(f, u, d)
  PROVE  OneRequest' /\ DuplicateOnlyByRace'
<1>1. UploadsTypeOK /\ Prepare(f, u, d, Nil) /\ Nil \in FileOrNil
  BY DEF ServerInv, PostFileMetadata, FileOrNil
<1>2. /\ RowsSame /\ ~Exists(f) /\ file_hash' = file_hash
      /\ request'[f].content = d
      /\ \A g \in File : g # f => request'[g] = request[g]
  BY <1>1, PrepareFields
<1>3. raced \subseteq raced'
  BY DEF PostFileMetadata
<1>4. DuplicateOnlyByRace'
  BY <1>2, <1>3 DEF ServerInv, DuplicateOnlyByRace, RowsSame
<1>5. request[f] = Nil
  BY <1>1 DEF Prepare
<1>6. \A e : e # d => Pending(e)' = Pending(e)
  BY <1>2, <1>5 DEF Pending
<1>7. Pending(d)' \subseteq Pending(d) \cup {f}
  BY <1>2 DEF Pending
<1>8. ASSUME d \notin raced'
      PROVE  Pending(d) = {} /\ ~FindByHash(d)
  BY <1>8 DEF PostFileMetadata
<1> SUFFICES ASSUME NEW e \in Content \ raced', NEW h \in Pending(e)'
             PROVE  /\ \A g \in Pending(e)' : g = h
                    /\ \A g \in File : Exists(g)' /\ prev_id'[g] = Nil => file_hash'[g] # e
  BY <1>4 DEF OneRequest
<1>9. CASE e = d
  BY <1>2, <1>7, <1>8, <1>9 DEF FindByHash, RowsSame
<1>10. CASE e # d
  <2>1. e \in Content \ raced /\ h \in Pending(e) /\ Pending(e)' = Pending(e)
    BY <1>3, <1>6, <1>10
  <2>2. /\ \A g \in Pending(e) : g = h
        /\ \A g \in File : Exists(g) /\ prev_id[g] = Nil => file_hash[g] # e
    BY <2>1 DEF ServerInv, OneRequest
  <2> QED
    BY <1>2, <2>1, <2>2 DEF RowsSame
<1> QED
  BY <1>9, <1>10

\* A request for a new version of a file does not count.
LEMMA PatchRace ==
  ASSUME ServerInv, NEW f \in File, NEW u \in User, NEW d \in Content, NEW p \in File,
         PatchFileMetadata(f, u, d, p)
  PROVE  OneRequest' /\ DuplicateOnlyByRace'
<1>1. UploadsTypeOK /\ Prepare(f, u, d, p) /\ p \in FileOrNil /\ p # Nil
  BY ConstantsAssumption DEF ServerInv, PatchFileMetadata, FileOrNil
<1>2. /\ RowsSame /\ file_hash' = file_hash
      /\ request'[f].prev = p
      /\ \A g \in File : g # f => request'[g] = request[g]
  BY <1>1, PrepareFields
<1>3. raced' = raced
  BY DEF PatchFileMetadata
<1>4. \A e : Pending(e)' \subseteq Pending(e)
  BY <1>1, <1>2 DEF Pending
<1>5. OneRequest'
  <2> SUFFICES ASSUME NEW e \in Content \ raced', NEW h \in Pending(e)'
               PROVE  /\ \A g \in Pending(e)' : g = h
                      /\ \A g \in File : Exists(g)' /\ prev_id'[g] = Nil => file_hash'[g] # e
    BY DEF OneRequest
  <2>1. e \in Content \ raced /\ h \in Pending(e)
    BY <1>3, <1>4
  <2>2. /\ \A g \in Pending(e) : g = h
        /\ \A g \in File : Exists(g) /\ prev_id[g] = Nil => file_hash[g] # e
    BY <2>1 DEF ServerInv, OneRequest
  <2> QED
    BY <1>2, <1>4, <2>2 DEF RowsSame
<1>6. DuplicateOnlyByRace'
  BY <1>2, <1>3 DEF ServerInv, DuplicateOnlyByRace, RowsSame
<1> QED
  BY <1>5, <1>6

\* An insert adds the only file with its content, unless there was a race.
LEMMA InsertRace ==
  ASSUME ServerInv, NEW f \in File, Insert(f)
  PROVE  OneRequest' /\ DuplicateOnlyByRace'
<1> DEFINE q == request[f]
<1>1. /\ q # Nil /\ q.content \in Content /\ ~Exists(f)
      /\ prev_id'[f] = q.prev /\ file_hash'[f] = q.content
      /\ request'[f] = Nil /\ raced' = raced
  BY InsertFields
<1>2. \A g \in File : g # f => /\ Exists(g)' <=> Exists(g)
                               /\ prev_id'[g] = prev_id[g]
                               /\ file_hash'[g] = file_hash[g]
                               /\ request'[g] = request[g]
  BY InsertFields
<1>3. \A e : Pending(e)' \subseteq Pending(e) \ {f}
  BY <1>1, <1>2 DEF Pending
<1>4. q.prev = Nil => f \in Pending(q.content)
  BY <1>1 DEF Pending
<1> HIDE DEF q
<1>5. ASSUME NEW e \in Content \ raced, NEW h \in Pending(e)'
      PROVE  /\ \A g \in Pending(e)' : g = h
             /\ \A g \in File : Exists(g)' /\ prev_id'[g] = Nil => file_hash'[g] # e
  <2>1. h \in Pending(e) /\ h # f
    BY <1>3, <1>5
  <2>2. /\ \A g \in Pending(e) : g = h
        /\ \A g \in File : Exists(g) /\ prev_id[g] = Nil => file_hash[g] # e
    BY <2>1 DEF ServerInv, OneRequest
  <2>3. ~(q.prev = Nil /\ q.content = e)
    BY <1>4, <2>1, <2>2
  <2> QED
    BY <1>1, <1>2, <1>3, <2>2, <2>3
<1>6. OneRequest'
  BY <1>1, <1>5 DEF OneRequest
<1>7. ASSUME q.prev = Nil, q.content \notin raced, NEW g \in File, Exists(g), prev_id[g] = Nil
      PROVE  file_hash[g] # q.content
  BY <1>1, <1>4, <1>7 DEF ServerInv, OneRequest
<1>8. DuplicateOnlyByRace'
  <2> SUFFICES ASSUME NEW g \in File, NEW h \in File, g # h, Exists(g)', Exists(h)',
                      prev_id'[g] = Nil, prev_id'[h] = Nil, file_hash'[g] = file_hash'[h]
               PROVE  file_hash'[g] \in raced'
    BY DEF DuplicateOnlyByRace
  <2>1. CASE g = f
    BY <1>1, <1>2, <1>7, <2>1
  <2>2. CASE h = f
    BY <1>1, <1>2, <1>7, <2>2
  <2>3. CASE g # f /\ h # f
    BY <1>1, <1>2, <2>3 DEF ServerInv, DuplicateOnlyByRace
  <2> QED
    BY <2>1, <2>2, <2>3
<1> QED
  BY <1>6, <1>8

-----------------------------------------------------------------------------
(* Uploads that are cut off.                                               *)

\* The end of a version that nobody has a token for is not accepted.
LEMMA EofRefused ==
  ASSUME NEW f \in File, f \notin live, f \notin eof_calls, [UploadsNext]_uploadVars
  PROVE  f \notin eof_calls'
<1>1. CASE UNCHANGED uploadVars \/ CreateNext
  BY <1>1 DEF uploadVars, vars, CreateNext, PostFileMetadata, Prepare, Insert, InsertFails
<1>2. CASE \E p, g \in File, u \in User, d \in Content : PatchFileMetadata(g, u, d, p)
  BY <1>2 DEF PatchFileMetadata, Prepare, vars
<1>3. CASE \E g \in File, c \in ChunkId : AdmitChunk(g, c)
  BY <1>3 DEF AdmitChunk, vars
<1>4. CASE \E g \in File : Eof(g)
  BY <1>4 DEF Eof, ValidateStreamToken, MarkUploadComplete
<1>5. CASE ProcessNext
  BY <1>5 DEF ProcessNext, StreamTokenExpires, AccessTokensExpire, Restart, WriteChunk,
              UpsertChunk, vars
<1>6. CASE SystemNext \/ FaultNext
  BY <1>6 DEF SystemNext, FaultNext, WorkerStep, Fault, EnqueueMsg, EnqueueFails, ReadMsg,
              Execute, SelectPair, CreateBatch, Update, Notify, CreateBatchFails,
              ExecuteFails, Crash
<1> QED
  BY <1>1, <1>2, <1>3, <1>4, <1>5, <1>6 DEF UploadsNext

\* No message of a sequence is about version f.
Free(msgs, f) == \A i \in 1 .. Len(msgs) : msgs[i].id # f

\* RPUSH of a message about another version keeps a queue free of f.
LEMMA FreeAppend ==
  ASSUME NEW f, NEW msgs \in Seq(CacheMetadata), NEW msg \in CacheMetadata,
         Free(msgs, f), msg.id # f
  PROVE  Free(Append(msgs, msg), f)
BY DEF Free

\* BLPOP from a queue free of f returns a message about another version.
LEMMA FreeTail ==
  ASSUME NEW f, NEW msgs \in Seq(CacheMetadata), Free(msgs, f), msgs # <<>>
  PROVE  /\ Head(msgs) \in CacheMetadata /\ Head(msgs).id # f
         /\ Free(Tail(msgs), f)
BY DEF Free

\* Messages do not come from nowhere: without a new report, version f stays out
\* of the queue and the workers.
LEMMA StaysOut ==
  ASSUME TypeOK, NEW f \in File, ~InFlight(f), [Next]_vars, f \notin eof_calls'
  PROVE  ~InFlight(f)'
<1>1. /\ f \notin eof_calls
      /\ queue \in Seq(CacheMetadata) /\ Free(queue, f)
      /\ \A w \in Worker : /\ held[w] \in Seq(CacheMetadata) /\ Free(held[w], f)
                           /\ exec[w].id # f
      /\ held \in [Worker -> Seq(CacheMetadata)]
  BY DEF InFlight, Free, TypeOK
<1> DEFINE Out == /\ Free(queue', f)
                  /\ \A w \in Worker : Free(held'[w], f) /\ exec'[w].id # f
<1>2. ASSUME NEW w \in Worker, Abandon(w)
      PROVE  \A v \in Worker : exec'[v].id # f
  BY <1>1, <1>2, ConstantsAssumption DEF Abandon, Idle, TypeOK
<1>3. ASSUME NEW w \in Worker, NEW at, NEW filler, NEW st, Proceed(w, at, filler, st)
      PROVE  \A v \in Worker : exec'[v].id # f
  BY <1>1, <1>3, ProceedFields
<1>4. ASSUME UNCHANGED <<queue, held>>, \A w \in Worker : exec'[w].id # f
      PROVE  Out
  BY <1>1, <1>4
<1>5. ASSUME NEW g \in File, EnqueueMsg(g)
      PROVE  Out
  <2>1. [id |-> g, prev |-> prev_id[g]] \in CacheMetadata /\ g # f
    BY <1>1, <1>5 DEF EnqueueMsg, CacheMetadata, TypeOK
  <2>2. queue' = Append(queue, [id |-> g, prev |-> prev_id[g]]) /\ UNCHANGED <<held, exec>>
    BY <1>5 DEF EnqueueMsg, workerVars
  <2>3. Free(queue', f)
    BY <1>1, <2>1, <2>2, FreeAppend
  <2> QED
    BY <1>1, <2>2, <2>3
<1>6. ASSUME NEW w \in Worker, ReadMsg(w)
      PROVE  Out
  <2>1. queue # <<>> /\ queue' = Tail(queue) /\ exec' = exec
    BY <1>6 DEF ReadMsg
  <2>2. Head(queue) \in CacheMetadata /\ Head(queue).id # f /\ Free(queue', f)
    BY <1>1, <2>1, FreeTail
  <2>3. Free(Append(held[w], Head(queue)), f)
    BY <1>1, <2>2, FreeAppend
  <2>4. held' = [held EXCEPT ![w] = Append(held[w], Head(queue))]
    BY <1>6 DEF ReadMsg
  <2> QED
    BY <1>1, <2>1, <2>2, <2>3, <2>4
<1>7. ASSUME NEW w \in Worker, Execute(w)
      PROVE  Out
  <2>1. held[w] # <<>> /\ queue' = queue /\ held' = [held EXCEPT ![w] = Tail(held[w])]
    BY <1>7 DEF Execute
  <2>2. Head(held[w]).id # f /\ Free(Tail(held[w]), f)
    BY <1>1, <2>1, FreeTail
  <2>3. exec'[w].id = Head(held[w]).id /\ \A v \in Worker : v # w => exec'[v] = exec[v]
    BY <1>7, ExecuteFields
  <2> QED
    BY <1>1, <2>1, <2>2, <2>3
<1>8. ASSUME NEW w \in Worker,
             SelectPair(w) \/ CreateBatch(w) \/ Update(w) \/ Notify(w)
               \/ CreateBatchFails(w) \/ ExecuteFails(w)
      PROVE  Out
  <2>1. Abandon(w) \/ \E at, filler, st : Proceed(w, at, filler, st)
    BY <1>8 DEF SelectPair, CreateBatch, Update, Notify, CreateBatchFails, ExecuteFails
  <2>2. UNCHANGED <<queue, held>>
    BY <1>8 DEF SelectPair, CreateBatch, Update, Notify, CreateBatchFails, ExecuteFails
  <2> QED
    BY <1>2, <1>3, <1>4, <2>1, <2>2
<1>9. ASSUME NEW w \in Worker, Crash(w)
       PROVE  Out
  <2>1. queue' = queue /\ held' = [held EXCEPT ![w] = <<>>] /\ Abandon(w)
    BY <1>9 DEF Crash
  <2>2. Free(<<>>, f)
    BY DEF Free
  <2> QED
    BY <1>1, <1>2, <2>1, <2>2
<1>10. ASSUME ClientNext PROVE Out
  <2>1. UNCHANGED <<queue, held, exec>> \/ \E g \in File : EnqueueMsg(g)
    BY <1>10 DEF ClientNext, PrepareFileForUpload, UpdateFileMetadata, UpsertChunk,
                 MarkUploadComplete, workerVars
  <2> QED
    BY <1>1, <1>4, <1>5, <2>1
<1>11. ASSUME Fault PROVE Out
  <2>1. ASSUME NEW g \in File, EnqueueFails(g) PROVE Out
    BY <1>1, <1>4, <2>1 DEF EnqueueFails, workerVars
  <2> QED
    BY <1>8, <1>9, <1>11, <2>1 DEF Fault
<1>12. ASSUME UNCHANGED vars PROVE Out
  BY <1>1, <1>4, <1>12 DEF vars
<1>13. Out
  BY <1>6, <1>7, <1>8, <1>10, <1>11, <1>12 DEF Next, WorkerStep
<1> QED
  BY <1>13 DEF InFlight, Free

\* Only the ExecuteEach of a version puts it in the listing.
LEMMA ListedByExecute ==
  ASSUME IndInv, NEW f \in File, Exists(f), ~current_flag[f], ~InFlight(f), [Next]_vars
  PROVE  ~current_flag'[f]
<1>1. CASE UNCHANGED metadataVars
  BY <1>1 DEF metadataVars
<1>2. ASSUME NEW g \in File, NEW p, NEW n, CreateMetadataToken(g, p, n)
      PROVE  ~current_flag'[f]
  BY <1>2 DEF CreateMetadataToken
<1>3. ASSUME NEW w \in Worker, Update(w)
      PROVE  ~current_flag'[f]
  BY <1>3 DEF Update, NewRecord, InFlight
<1> QED
  BY <1>1, <1>2, <1>3, RowChanges

\* An upload that is cut off stays so.
LEMMA CutOffStep ==
  ASSUME ServerInv, [UploadsNext]_uploadVars, NEW f \in File, CutOff(f)
  PROVE  CutOff(f)'
<1>1. [Next]_vars
  BY UploadsStep DEF ServerInv
<1>2. Exists(f)'
  BY <1>1, RowsPersist DEF ServerInv, IndInv, CutOff
<1>3. ~current_flag'[f]
  BY <1>1, ListedByExecute DEF ServerInv, CutOff
<1>4. f \notin live'
  <2>1. CASE Quiet
    BY <2>1 DEF Quiet, CutOff
  <2>2. ASSUME NEW g \in File, NEW u \in User, NEW d \in Content,
               PostFileMetadata(g, u, d) \/ \E p \in File : PatchFileMetadata(g, u, d, p)
        PROVE  live' = live
    BY <2>2 DEF PostFileMetadata, PatchFileMetadata, Prepare
  <2>3. ASSUME NEW g \in File, Insert(g)
        PROVE  f \notin live'
    BY <2>3, InsertFields DEF CutOff
  <2> QED
    BY <2>1, <2>2, <2>3, ServerSteps DEF ServerInv, CutOff
<1>5. ~InFlight(f)'
  <2>1. f \notin eof_calls'
    BY EofRefused DEF CutOff, InFlight
  <2> QED
    BY <1>1, <2>1, StaysOut DEF ServerInv, IndInv, CutOff
<1> QED
  BY <1>2, <1>3, <1>4, <1>5 DEF CutOff

-----------------------------------------------------------------------------
(* The theorems.                                                           *)

\* The invariant holds before the first request.
LEMMA InitServerInv == UploadsInit => ServerInv
<1> SUFFICES ASSUME UploadsInit PROVE ServerInv
  OBVIOUS
<1>1. IndInv
  BY InitIndInv DEF UploadsInit
<1>2. UploadsTypeOK /\ RequestsSound
  BY DEF UploadsInit, UploadsTypeOK, RequestsSound
<1>3. RowsHaveContent /\ DuplicateOnlyByRace
  BY DEF UploadsInit, Init, Exists, RowsHaveContent, DuplicateOnlyByRace
<1>4. OneRequest
  BY DEF UploadsInit, OneRequest, Pending
<1> QED
  BY <1>1, <1>2, <1>3, <1>4 DEF ServerInv

\* Every step keeps it.
LEMMA StepServerInv == ServerInv /\ [UploadsNext]_uploadVars => ServerInv'
<1> SUFFICES ASSUME ServerInv, [UploadsNext]_uploadVars PROVE ServerInv'
  OBVIOUS
<1>1. IndInv'
  BY UploadsStep, StepIndInv DEF ServerInv
<1>2. UploadsTypeOK' /\ RequestsSound' /\ RowsHaveContent'
  BY UploadsTypeStep, RequestsSoundStep
<1>3. OneRequest' /\ DuplicateOnlyByRace'
  BY ServerSteps, QuietRace, PostRace, PatchRace, InsertRace DEF ServerInv
<1> QED
  BY <1>1, <1>2, <1>3 DEF ServerInv

\* The invariant of the server and the workers holds in every reachable state.
THEOREM ServerInvariance == UploadsSpec => []ServerInv
BY InitServerInv, StepServerInv, PTL DEF UploadsSpec

\* The tables, tokens and requests of the upload server keep their types.
THEOREM UploadsTypeCorrect == UploadsSpec => []UploadsTypeOK
<1>1. ServerInv => UploadsTypeOK
  BY DEF ServerInv
<1> QED
  BY <1>1, ServerInvariance, PTL

\* Requests that overlap, tokens that expire and restarts of the server take
\* nothing from what is proved of Reconciler: Uploads implements it.
THEOREM UploadsImplementReconciler == UploadsSpec => ReconcilerSpec
<1>1. UploadsInit => Init
  BY DEF UploadsInit
<1>2. ServerInv /\ [UploadsNext]_uploadVars => [Next]_vars
  BY UploadsStep DEF ServerInv
<1> QED
  BY <1>1, <1>2, ServerInvariance, PTL DEF UploadsSpec, Spec, ReconcilerSpec

\* FindByHash keeps out every duplicate but those of overlapping requests and
\* of queries that failed.
THEOREM NoOtherDuplicate == UploadsSpec => []DuplicateOnlyByRace
<1>1. ServerInv => DuplicateOnlyByRace
  BY DEF ServerInv
<1> QED
  BY <1>1, ServerInvariance, PTL

\* The number of chunks of every version is the ceiling of size by chunk size.
THEOREM ChunksAlwaysHold == UploadsSpec => []ChunksHoldFile
<1>1. ServerInv => ChunksHoldFile
  BY ChunksCeiling, UploadsAssumption DEF ServerInv, RowsHaveContent, ChunksHoldFile
<1> QED
  BY <1>1, ServerInvariance, PTL

\* No request, worker or restart revives an upload whose token is gone.
THEOREM NoRevival == UploadsSpec => CutOffForGood
<1> DEFINE Kept == \A f \in File : CutOff(f) => CutOff(f)'
<1>1. ServerInv /\ [UploadsNext]_uploadVars => Kept
  BY CutOffStep
<1>2. ServerInv /\ [UploadsNext]_uploadVars => [Kept]_uploadVars
  BY <1>1
<1> QED
  BY <1>2, ServerInvariance, PTL DEF UploadsSpec, CutOffForGood

\* What the reconciler alone promises of its rows, its notifications and its
\* blobs it promises with the handlers of the server beside it as well: a caller
\* that creates, extends, cuts off or completes an upload at any moment cannot
\* retire a version without a successor, hide a lineage, have a version announced
\* before its commit, or take a version off the listing
\* without putting its successor there.
THEOREM ServerKeepsVersions ==
  UploadsSpec =>
    /\ [](/\ RowsWellFormed /\ RetiredHasSuccessor /\ LineageVisible
          /\ NotifiedIsSettled /\ BlobWasUploaded)
    /\ AtomicHandover
BY UploadsImplementReconciler, RowsStayWellFormed, RetiredIsReplaced, NothingVanishes,
   NotifiedAfterCommit, BlobsWereUploaded, HandoverIsAtomic, PTL DEF ReconcilerSpec

=============================================================================
