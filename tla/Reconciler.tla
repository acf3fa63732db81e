----------------------------- MODULE Reconciler -----------------------------
(***************************************************************************)
(* Upload, versioning and reconciliation of files in arbokcore.            *)
(*                                                                         *)
(* The API server creates rows of file_metadatas (one per version of a     *)
(* file, linked by prev_id), inserts rows of user_files (one per chunk)    *)
(* and pushes an end-of-upload message on a Redis list.  Worker processes  *)
(* pop the messages and reconcile: they copy the chunk rows the client did *)
(* not upload from the previous version, make the new version current,     *)
(* retire the previous one, and push a notification.                       *)
(*                                                                         *)
(* Every database transaction, every Redis command is one step; what a     *)
(* request or a worker read before is kept in its local state and used     *)
(* later, so the steps of requests and workers interleave as they do in    *)
(* the running system.  A client may call any operation at any time.       *)
(***************************************************************************)
EXTENDS Integers, Sequences, FiniteSets

CONSTANTS
  File,        \* identifiers of versions (ULIDs), one per file_metadatas row
  ChunkCount,  \* values CalculateChunks can return for the sizes considered
  ChunkId,     \* chunk ids a client may upload
  Worker,      \* worker processes, each with a pool of one worker
  Nil,         \* NULL prev_id, and the empty blob url
  CopyFails,   \* whether copying chunk data to its blob may fail
  MaxQueue,    \* bound: messages on the Redis list
  MaxHeld      \* bound: messages a worker process has popped and not started

ASSUME ConstantsAssumption ==
  /\ Nil \notin File
  /\ ChunkCount \subseteq Nat
  /\ CopyFails \in BOOLEAN
  /\ MaxQueue \in Nat
  /\ MaxHeld \in Nat

VARIABLES
  \* file_metadatas, a function per column
  upload_status, prev_id, n_chunks, current_flag, end_date,
  user_files,   \* set of chunk rows
  blobs,        \* chunks some upload has written in full: <<version, chunk id>>
  eof_calls,    \* MarkUploadComplete calls past FindBy
  queue,        \* Redis list of CacheMetadata
  held,         \* per worker process: popped messages waiting in its channels
  exec,         \* per worker process: the running ExecuteEach
  notified      \* versions for which a notification was pushed

metadataVars == <<upload_status, prev_id, n_chunks, current_flag, end_date>>
workerVars == <<held, exec>>
vars == <<upload_status, prev_id, n_chunks, current_flag, end_date,
          user_files, blobs, eof_calls, queue, held, exec, notified>>

-----------------------------------------------------------------------------
(* Records.                                                                *)

Status == {"absent", "uploading", "failed", "completed"}

FileOrNil == File \cup {Nil}

\* A user_files row.  Its blob is the version whose directory holds the bytes
\* (the url is <dir>/<version>/<chunk id>), Nil when the url is empty.
UserFile == [file_id : File, chunk_id : ChunkId, blob : FileOrNil]

CacheMetadata == [id : File, prev : FileOrNil]

\* Where ExecuteEach is: which statement it performs next.
Step == {"idle", "select", "create", "update", "notify"}

Execution == [at : Step, id : FileOrNil, prev : FileOrNil,
              filler : SUBSET UserFile, status : Status]

Idle == [at |-> "idle", id |-> Nil, prev |-> Nil, filler |-> {},
         status |-> "absent"]

TypeOK ==
  /\ upload_status \in [File -> Status]
  /\ prev_id \in [File -> FileOrNil]
  /\ n_chunks \in [File -> ChunkCount \cup {0}]
  /\ current_flag \in [File -> BOOLEAN]
  /\ end_date \in [File -> BOOLEAN]
  /\ user_files \subseteq UserFile
  /\ blobs \subseteq File \X ChunkId
  /\ eof_calls \subseteq File
  /\ queue \in Seq(CacheMetadata)
  /\ held \in [Worker -> Seq(CacheMetadata)]
  /\ exec \in [Worker -> Execution]
  /\ notified \subseteq File

Init ==
  /\ upload_status = [f \in File |-> "absent"]
  /\ prev_id = [f \in File |-> Nil]
  /\ n_chunks = [f \in File |-> 0]
  /\ current_flag = [f \in File |-> FALSE]
  /\ end_date = [f \in File |-> FALSE]
  /\ user_files = {}
  /\ blobs = {}
  /\ eof_calls = {}
  /\ queue = <<>>
  /\ held = [w \in Worker |-> <<>>]
  /\ exec = [w \in Worker |-> Idle]
  /\ notified = {}

-----------------------------------------------------------------------------
(* The API server.                                                         *)

Exists(f) == upload_status[f] # "absent"

\* A version ExecuteEach has finished with: no longer uploading.
Settled(f) == upload_status[f] \in {"failed", "completed"}

\* CreateMetadataToken inserts the row and its stream token in one transaction.
\* The id is a fresh ULID.
CreateMetadataToken(f, p, n) ==
  /\ ~Exists(f)
  /\ upload_status' = [upload_status EXCEPT ![f] = "uploading"]
  /\ prev_id' = [prev_id EXCEPT ![f] = p]
  /\ n_chunks' = [n_chunks EXCEPT ![f] = n]
  /\ UNCHANGED <<current_flag, end_date>>

\* A new file.  The duplicate check comes before it, and never stops a client
\* that has new content (see Uploads).
PrepareFileForUpload(f, n) ==
  /\ CreateMetadataToken(f, Nil, n)
  /\ UNCHANGED <<user_files, blobs, eof_calls, queue, workerVars, notified>>

\* A new version of p.  What is read of the row of p never changes, so the read
\* and the insert are one step.  Neither the status nor current_flag of p is
\* looked at.
UpdateFileMetadata(p, f, n) ==
  /\ Exists(p)
  /\ CreateMetadataToken(f, p, n)
  /\ UNCHANGED <<user_files, blobs, eof_calls, queue, workerVars, notified>>

\* LocalFS.UpdateChunk returns the path of the blob it wrote.  When copying the
\* data fails it returns an empty path, and no error.
UpdateChunk(f, c, blob) ==
  /\ blob = f \/ (CopyFails /\ blob = Nil)
  /\ blobs' = IF blob = f THEN blobs \cup {<<f, c>>} ELSE blobs

\* FileChunkService.Create inserts a row whatever path it got.
CreateChunk(f, c, blob) ==
  /\ UpdateChunk(f, c, blob)
  /\ user_files' = user_files \cup
                     {[file_id |-> f, chunk_id |-> c, blob |-> blob]}

\* UpsertChunks does not look at the status of the version.
UpsertChunk(f, c, blob) ==
  /\ Exists(f)
  /\ CreateChunk(f, c, blob)
  /\ UNCHANGED <<metadataVars, eof_calls, queue, workerVars, notified>>

\* MarkUploadComplete up to FindBy.
MarkUploadComplete(f) ==
  /\ upload_status[f] = "uploading"
  /\ eof_calls' = eof_calls \cup {f}
  /\ UNCHANGED <<metadataVars, user_files, blobs, queue, workerVars, notified>>

\* Mutant of EnqueueMsg: the two ids are swapped.
EnqueueSwapped(f) ==
  /\ f \in eof_calls
  /\ Len(queue) < MaxQueue
  /\ eof_calls' = eof_calls \ {f}
  /\ queue' = Append(queue, [id |-> prev_id[f], prev |-> f])
  /\ UNCHANGED <<metadataVars, user_files, blobs, workerVars, notified>>

\* Mutant of EnqueueMsg: a push that was thought lost is done again.
EnqueueTwice(f) ==
  /\ f \in eof_calls
  /\ Len(queue) < MaxQueue
  /\ eof_calls' = eof_calls \ {f}
  /\ queue' = queue \o [i \in 1 .. 2 |-> [id |-> f, prev |-> prev_id[f]]]
  /\ UNCHANGED <<metadataVars, user_files, blobs, workerVars, notified>>

\* The rest of MarkUploadComplete: RPUSH.
EnqueueMsg(f) ==
  /\ f \in eof_calls
  /\ Len(queue) < MaxQueue
  /\ eof_calls' = eof_calls \ {f}
  /\ queue' = Append(queue, [id |-> f, prev |-> prev_id[f]])
  /\ UNCHANGED <<metadataVars, user_files, blobs, workerVars, notified>>

\* RPUSH fails: the client gets an error, nothing is queued.
EnqueueFails(f) ==
  /\ f \in eof_calls
  /\ eof_calls' = eof_calls \ {f}
  /\ UNCHANGED <<metadataVars, user_files, blobs, queue, workerVars, notified>>

-----------------------------------------------------------------------------
(* The worker process.                                                     *)

\* Rows of a version, as the join in SelectFiles returns them.
SelectFiles(f) == {r \in user_files : r.file_id = f}

ChunkIds(rows) == {r.chunk_id : r \in rows}

\* BuildFilesInfoResponse keeps one row for each chunk id, the last one it
\* meets; the query does not order the rows of a version.
BuildFilesInfoResponse(rows) ==
  {chunks \in SUBSET rows :
     /\ ChunkIds(chunks) = ChunkIds(rows)
     /\ \A r, s \in chunks : r.chunk_id = s.chunk_id => r = s}

\* Mutant of RestOfChunks: only the chunks behind the uploaded ones.
RestOfChunksAfter(this, prev) ==
  {r \in prev : \A c \in ChunkIds(this) : r.chunk_id > c}

\* The chunks of the previous version that this version does not have.
RestOfChunks(this, prev) ==
  {r \in prev : r.chunk_id \notin ChunkIds(this)}

\* BLPOP by the producer goroutine of a worker process.
ReadMsg(w) ==
  /\ queue # <<>>
  /\ Len(held[w]) < MaxHeld
  /\ queue' = Tail(queue)
  /\ held' = [held EXCEPT ![w] = Append(@, Head(queue))]
  /\ UNCHANGED <<metadataVars, user_files, blobs, eof_calls, exec, notified>>

\* The pool's worker takes the message: ExecuteEach up to its first query.
Execute(w) ==
  /\ exec[w].at = "idle"
  /\ held[w] # <<>>
  /\ LET msg == Head(held[w])
     IN  exec' = [exec EXCEPT ![w] =
                    [at     |-> IF msg.prev = Nil THEN "update" ELSE "select",
                     id     |-> msg.id,
                     prev   |-> msg.prev,
                     filler |-> {},
                     status |-> "completed"]]
  /\ held' = [held EXCEPT ![w] = Tail(@)]
  /\ UNCHANGED <<metadataVars, user_files, blobs, eof_calls, queue, notified>>

\* Execute returns an error: the message is gone, nobody is notified.
Abandon(w) == exec' = [exec EXCEPT ![w] = Idle]

\* ExecuteEach goes on with its next statement.
Proceed(w, at, filler, status) ==
  exec' = [exec EXCEPT ![w] = [at |-> at, id |-> exec[w].id, prev |-> exec[w].prev,
                               filler |-> filler, status |-> status]]

\* A chunk row of another version, copied to version f with its url.
CopyTo(f, r) == [file_id |-> f, chunk_id |-> r.chunk_id, blob |-> r.blob]

\* Mutant of FillerFor: the url is made up from the new version.
FillerRenamed(f, p, prevFile) ==
  IF n_chunks[f] = n_chunks[p]
  THEN {[CopyTo(f, r) EXCEPT !.blob = f] : r \in RestOfChunks(SelectFiles(f), prevFile)}
  ELSE {}

\* Mutant of FillerFor: the numbers of chunks are not compared.
FillerAnyCount(f, p, prevFile) ==
  {CopyTo(f, r) : r \in RestOfChunks(SelectFiles(f), prevFile)}

\* The filler rows for version f are those of its predecessor that it lacks,
\* and only when the two have the same number of chunks.
FillerFor(f, p, prevFile) ==
  IF n_chunks[f] = n_chunks[p]
  THEN {CopyTo(f, r) : r \in RestOfChunks(SelectFiles(f), prevFile)}
  ELSE {}

\* ExecuteEach reads this version and the previous one.  A version without
\* rows is not in the result of the join, and then the merge is given up.
SelectPair(w) ==
  LET f == exec[w].id
      p == exec[w].prev
  IN  /\ exec[w].at = "select"
      /\ \/ /\ SelectFiles(f) = {} \/ SelectFiles(p) = {}
            /\ Abandon(w)
         \/ /\ SelectFiles(f) # {} /\ SelectFiles(p) # {}
            /\ \E prevFile \in BuildFilesInfoResponse(SelectFiles(p)) :
                 LET filler == FillerFor(f, p, prevFile)
                 IN  Proceed(w, IF filler = {} THEN "update" ELSE "create",
                             filler, "completed")
      /\ UNCHANGED <<metadataVars, user_files, blobs, eof_calls, queue, held, notified>>

\* The transaction of UserFileRepository.CreateBatch.
CreateBatch(w) ==
  /\ exec[w].at = "create"
  /\ user_files' = user_files \cup exec[w].filler
  /\ Proceed(w, "update", {}, "completed")
  /\ UNCHANGED <<metadataVars, blobs, eof_calls, queue, held, notified>>

\* Mutant of CreateBatchFails: the status is not written.
CreateBatchFailsEarly(w) ==
  /\ exec[w].at = "create"
  /\ Proceed(w, "notify", {}, "failed")
  /\ UNCHANGED <<metadataVars, user_files, blobs, eof_calls, queue, held, notified>>

\* CreateBatch rolls back: the version will be marked failed.
CreateBatchFails(w) ==
  /\ exec[w].at = "create"
  /\ Proceed(w, "update", {}, "failed")
  /\ UNCHANGED <<metadataVars, user_files, blobs, eof_calls, queue, held, notified>>

\* Mutants of NewRecord and OldRecord: other conditions in the two UPDATEs.
NewRecordOfNone(w, g) == g = exec[w].id /\ prev_id[g] = Nil
OldRecordNever(w, g) == FALSE
OldRecordAndSiblings(w, g) ==
  exec[w].prev # Nil /\ (g = exec[w].prev \/ prev_id[g] = exec[w].prev)

\* The rows the two UPDATEs of MetadataRepository.Update match.
NewRecord(w, g) == g = exec[w].id /\ prev_id[g] = exec[w].prev
OldRecord(w, g) == g = exec[w].prev

\* Mutant of Update: the end date of the new row is not cleared.
UpdateKeepsEndDate(w) ==
  /\ exec[w].at = "update"
  /\ current_flag' = [g \in File |-> ~OldRecord(w, g) /\ (NewRecord(w, g) \/ current_flag[g])]
  /\ end_date' = [g \in File |-> OldRecord(w, g) \/ end_date[g]]
  /\ upload_status' = [g \in File |-> IF OldRecord(w, g) \/ NewRecord(w, g)
                                      THEN exec[w].status ELSE upload_status[g]]
  /\ Proceed(w, "notify", {}, exec[w].status)
  /\ UNCHANGED <<prev_id, n_chunks, user_files, blobs, eof_calls, queue, held, notified>>

\* MetadataRepository.Update: the new version becomes current, and the
\* previous one, if there is one, is retired, in one transaction.  Both get
\* the status.
Update(w) ==
  /\ exec[w].at = "update"
  /\ current_flag' = [g \in File |->
                        ~OldRecord(w, g) /\ (NewRecord(w, g) \/ current_flag[g])]
  /\ end_date' = [g \in File |->
                    OldRecord(w, g) \/ (~NewRecord(w, g) /\ end_date[g])]
  /\ upload_status' = [g \in File |-> IF OldRecord(w, g) \/ NewRecord(w, g)
                                      THEN exec[w].status ELSE upload_status[g]]
  /\ Proceed(w, "notify", {}, exec[w].status)
  /\ UNCHANGED <<prev_id, n_chunks, user_files, blobs, eof_calls, queue, held,
                 notified>>

\* Notify pushes the event on the queue of the user.
Notify(w) ==
  /\ exec[w].at = "notify"
  /\ notified' = notified \cup {exec[w].id}
  /\ Abandon(w)
  /\ UNCHANGED <<metadataVars, user_files, blobs, eof_calls, queue, held>>

\* A query of ExecuteEach, or the push of Notify, fails: Execute returns.
ExecuteFails(w) ==
  /\ exec[w].at \in {"select", "update", "notify"}
  /\ Abandon(w)
  /\ UNCHANGED <<metadataVars, user_files, blobs, eof_calls, queue, held, notified>>

\* The process dies and is started again: what it had popped is lost.
Crash(w) ==
  /\ exec[w] # Idle \/ held[w] # <<>>
  /\ Abandon(w)
  /\ held' = [held EXCEPT ![w] = <<>>]
  /\ UNCHANGED <<metadataVars, user_files, blobs, eof_calls, queue, notified>>

-----------------------------------------------------------------------------

ClientNext ==
  \/ \E f \in File, n \in ChunkCount : PrepareFileForUpload(f, n)
  \/ \E p, f \in File, n \in ChunkCount : UpdateFileMetadata(p, f, n)
  \/ \E f \in File, c \in ChunkId, b \in FileOrNil : UpsertChunk(f, c, b)
  \/ \E f \in File : MarkUploadComplete(f) \/ EnqueueMsg(f)

WorkerStep(w) ==
  \/ ReadMsg(w)
  \/ Execute(w)
  \/ SelectPair(w)
  \/ CreateBatch(w)
  \/ Update(w)
  \/ Notify(w)

Fault ==
  \/ \E f \in File : EnqueueFails(f)
  \/ \E w \in Worker : CreateBatchFails(w) \/ ExecuteFails(w) \/ Crash(w)

Next == ClientNext \/ (\E w \in Worker : WorkerStep(w)) \/ Fault

Spec == Init /\ [][Next]_vars

-----------------------------------------------------------------------------
(* Properties that hold for every client.                                  *)

\* The slowly changing dimension is well formed: a version that ExecuteEach
\* has settled is either current or has an end date, never both, and a version
\* still uploading is neither (Update writes current_flag, end_date and
\* upload_status of both rows together).
RowsWellFormed ==
  \A f \in File :
    /\ Settled(f) <=> (current_flag[f] \/ end_date[f])
    /\ ~(current_flag[f] /\ end_date[f])

\* A version is retired only in favour of a successor: whatever has an end date
\* has a settled version made from it (Update retires prev_id of the row it
\* makes current, for any order, repetition or loss of messages).
RetiredHasSuccessor ==
  \A f \in File : end_date[f] => \E g \in File : prev_id[g] = f /\ Settled(g)

\* No file vanishes from the listing, which selects current_flag = 1: a set of
\* settled versions that contains the settled successors of its members has a
\* current member.
LineageVisible ==
  \A S \in SUBSET File :
    ( /\ S # {}
      /\ \A f \in S : Settled(f)
      /\ \A g \in File : Settled(g) /\ prev_id[g] \in S => g \in S )
    => \E f \in S : current_flag[f]

\* Devices are told about a version only after the commit that settles it
\* (Execute calls Notify after ExecuteEach).
NotifiedIsSettled == \A f \in notified : Settled(f)

\* The url of a chunk row, copied along any number of versions, names a chunk
\* that an upload wrote, with the chunk id of the row (CreateBatch copies
\* ChunkBlobUrl of the previous version, which need not be the version that was
\* uploaded to).
BlobWasUploaded ==
  \A r \in user_files : r.blob # Nil => <<r.blob, r.chunk_id>> \in blobs

\* A version leaves the listing only in the step that puts a version made from
\* it there, with the same status (the two UPDATEs of Update are one
\* transaction).
AtomicHandover ==
  [][\A f \in File :
       current_flag[f] /\ ~current_flag'[f] =>
         \E g \in File : /\ prev_id[g] = f
                         /\ current_flag'[g]
                         /\ upload_status'[g] = upload_status'[f]]_vars

-----------------------------------------------------------------------------
(* What a comment of ExecuteEach says, and not every client can rely on.   *)

\* A current version has no settled successor, so that a file has one current
\* version: ExecuteEach is to "set the current_flag to 0 for PrevFileID" when it
\* makes a version current.
CurrentIsLatest ==
  \A f, g \in File : current_flag[f] /\ prev_id[g] = f => ~Settled(g)
=============================================================================
